------------------------------ MODULE Collections ----------------------------
(***************************************************************************)
(* Collections and learning packages, and what they announce:              *)
(* applets/collections/, create_, update_ and the deletion of learning     *)
(* packages in applets/publishing/, under src/src/openedx_content.         *)
(*                                                                         *)
(* A call reads rows, saves what it read and changed, and sends events:    *)
(* outside a transaction these are steps between which other calls and the *)
(* tasks take theirs.  Inside a caller's transaction events wait for the   *)
(* commit, and no other call moves.  `index` is a subscriber that follows  *)
(* the events: what it knows of packages and of the entities of each       *)
(* collection.  Changes of drafts reach it through a queue of tasks.       *)
(*                                                                         *)
(* Collections are known by their code.  The reads of a call are one step, *)
(* so are the events it sends one after the other.                         *)
(***************************************************************************)
EXTENDS Integers, FiniteSets, Sequences, SequencesExt

CONSTANTS
    Packages, Titles,
    Entities,
    Codes,            \* collection codes, those of all packages
    PackageOf,        \* the learning package of each entity and collection code
    Callers,          \* processes that call the api
    Workers,          \* processes that run the tasks
    Ordered,          \* is there one worker, which runs the tasks in order?
    MaxTasks,         \* bound: tasks in the queue
    MaxOutbox,        \* bound: events of one transaction
    None

ASSUME CollectionsAssumption ==
    /\ PackageOf \in [Entities \cup Codes -> Packages]
    /\ Packages \cap Codes = {} /\ Callers \cap Workers = {}
    /\ IsFiniteSet(Codes)
    /\ Ordered \in BOOLEAN
    /\ None \notin Titles /\ \A es \in SUBSET Entities : None # es
    /\ None \notin [enabled : BOOLEAN, entities : SUBSET Entities]

VARIABLES
    db,           \* packages, collections, and the entities that have a draft
    open,         \* the open transaction, or None
    calls,        \* the unfinished call of each process, or None
    index,        \* the subscriber
    tasks,        \* queued emit_collections_changed_for_entity_changes_task calls
    mixed         \* history: the objects that two calls worked on at a time

vars == <<db, open, calls, index, tasks, mixed>>

Collection == [enabled : BOOLEAN, entities : SUBSET Entities]
Objects == Packages \cup Codes

InTransaction == open # None
Exists(p) == db.packages[p] # None
Found(c) == db.collections[c] # None
Members(c) == db.collections[c].entities

\* Processes with an unfinished call, and the objects it reads or changes.
Busy == {s \in DOMAIN calls : calls[s] # None}
WorkedOn == UNION {calls[s].objects : s \in Busy}

TypeOK ==
    /\ db.packages \in [Packages -> Titles \cup {None}]
    /\ db.drafts \subseteq {e \in Entities : Exists(PackageOf[e])}
    /\ \A c \in Codes : Found(c) =>
          /\ Exists(PackageOf[c])
          /\ db.collections[c] \in Collection
          /\ \A e \in Members(c) : PackageOf[e] = PackageOf[c]
    /\ index.packages \in [Packages -> Titles \cup {None}]
    /\ index.collections \in [Codes -> (SUBSET Entities) \cup {None}]
    /\ mixed \subseteq Objects /\ WorkedOn \subseteq Objects

Init ==
    /\ db = [packages |-> [p \in Packages |-> None],
             collections |-> [c \in Codes |-> None], drafts |-> {}]
    /\ open = None
    /\ calls = [s \in Callers \cup Workers |-> None]
    /\ index = [packages |-> [p \in Packages |-> None],
                collections |-> [c \in Codes |-> None]]
    /\ tasks = << >>
    /\ mixed = {}

-----------------------------------------------------------------------------
(* Events                                                                  *)

\* CollectionChangeData
Change(c, created, deleted, added, removed) ==
    [collection |-> c, created |-> created, deleted |-> deleted,
     added |-> added, removed |-> removed]

PackageEvent(p, title) == [package |-> p, title |-> title]

\* A subscriber that keeps the entities of the collections it was told of.
HearsOfCollection(known, event) ==
    LET c == event.collection
        old == IF known.collections[c] = None THEN {} ELSE known.collections[c]
    IN  CASE event.deleted -> [known EXCEPT !.collections[c] = None]
          [] ~ event.deleted /\ (event.created \/ known.collections[c] # None) ->
                [known EXCEPT !.collections[c] = (old \cup event.added) \ event.removed]
          [] OTHER -> known

\* With a package go its collections.
HearsOfPackage(known, event) ==
    [packages |-> [known.packages EXCEPT ![event.package] = event.title],
     collections |-> [c \in Codes |->
        IF PackageOf[c] = event.package /\ event.title = None THEN None
        ELSE known.collections[c]]]

Hears(known, event) ==
    IF "package" \in DOMAIN event THEN HearsOfPackage(known, event)
                                  ELSE HearsOfCollection(known, event)

\* One event after the other.
HearsAll(known, new) ==
    LET heard[k \in 0..Len(new)] ==
            IF k = 0 THEN known ELSE Hears(heard[k - 1], new[k])
    IN  heard[Len(new)]

-----------------------------------------------------------------------------
(* Calls and transactions                                                  *)

\* Nobody moves while another process has a transaction open.
MayMove(s) == InTransaction => open.caller = s

\* A call reads its rows: those of the objects it works on and of their
\* packages.  It holds the ones that are there; `steps` are to follow.
Start(s, objects, steps, write, events) ==
    /\ calls[s] = None /\ MayMove(s)
    /\ InTransaction => Len(open.events) + Len(events) <= MaxOutbox
    /\ calls' = [calls EXCEPT ![s] =
           [objects |-> objects, steps |-> steps, write |-> write, events |-> events,
            held |-> {x \in objects \cup {PackageOf[c] : c \in objects \cap Codes} :
                          IF x \in Codes THEN Found(x) ELSE Exists(x)}]]
    /\ open' = IF InTransaction THEN [open EXCEPT !.objects = @ \cup objects] ELSE open
    /\ mixed' = mixed \cup (objects \cap WorkedOn)
    /\ UNCHANGED <<db, index, tasks>>

Takes(s, step) == s \in Busy /\ MayMove(s) /\ Head(calls[s].steps) = step

\* What a call has left to do after one of its steps; to send events it needs
\* nothing of what it read.
Sending(objects, events) ==
    [objects |-> objects, steps |-> <<"send">>, write |-> None, events |-> events,
     held |-> {}]

Advanced(call) ==
    CASE Len(call.steps) = 1 -> None
      [] Len(call.steps) = 2 /\ call.steps[2] = "send" -> Sending(call.objects, call.events)
      [] OTHER -> [call EXCEPT !.steps = Tail(@)]

\* The call of s saves; the rows of `gone` are deleted, and nobody holds them.
Save(s, newDb, gone) ==
    /\ db' = newDb
    /\ calls' = [o \in DOMAIN calls |->
           LET call == IF o = s THEN Advanced(calls[o]) ELSE calls[o]
           IN  IF call = None THEN None ELSE [call EXCEPT !.held = @ \ gone]]
    /\ UNCHANGED <<open, index, tasks, mixed>>

\* A save that violates a constraint ends the call.
Raise(s) ==
    /\ calls' = [calls EXCEPT ![s] = None]
    /\ UNCHANGED <<db, open, index, tasks, mixed>>

\* on_commit: at once, or when the open transaction commits.
SendEvents(s) ==
    /\ Takes(s, "send")
    /\ calls' = [calls EXCEPT ![s] = Advanced(@)]
    /\ IF InTransaction
       THEN open' = [open EXCEPT !.events = @ \o calls[s].events] /\ UNCHANGED index
       ELSE index' = HearsAll(index, calls[s].events) /\ UNCHANGED open
    /\ UNCHANGED <<db, tasks, mixed>>

\* A caller's transaction.atomic() around several calls.
Begin(s) ==
    /\ ~ InTransaction /\ calls[s] = None
    /\ open' = [caller |-> s, objects |-> {}, events |-> << >>,
                db |-> db, calls |-> calls]
    /\ UNCHANGED <<db, calls, index, tasks, mixed>>

Commit(s) ==
    /\ InTransaction /\ open.caller = s /\ calls[s] = None
    /\ open' = None
    /\ calls' = [calls EXCEPT ![s] =
           IF open.events = << >> THEN None
           ELSE Sending(open.objects, open.events)]
    /\ UNCHANGED <<db, index, tasks, mixed>>

\* Also in the middle of a call.
Abort(s) ==
    /\ InTransaction /\ open.caller = s
    /\ db' = open.db /\ calls' = open.calls
    /\ open' = None
    /\ UNCHANGED <<index, tasks, mixed>>

-----------------------------------------------------------------------------
(* Learning packages                                                       *)

CodesOf(p) == {c \in Codes : PackageOf[c] = p}

CreateLearningPackage(s, p, title) ==
    /\ ~ Exists(p)
    /\ Start(s, {p}, <<"package", "send">>, [package |-> p, title |-> title],
             <<PackageEvent(p, title)>>)

\* update_learning_package; without a title the others of its fields change.
UpdateLearningPackage(s, p, title) ==
    LET new == IF title = None THEN db.packages[p] ELSE title
    IN  /\ Exists(p)
        /\ Start(s, {p}, <<"package", "send">>, [package |-> p, title |-> new],
                 <<PackageEvent(p, new)>>)

\* Entities and collections go with their package; only the package is
\* announced (emit_learning_package_deleted).
DeleteLearningPackage(s, p) ==
    /\ Exists(p)
    /\ Start(s, {p} \cup CodesOf(p), <<"drop package", "send">>, [package |-> p],
             <<PackageEvent(p, None)>>)

\* package.save(): updates the row that was read, or inserts one.
SavePackage(s) ==
    LET call == calls[s]
        p == call.write.package
    IN  /\ Takes(s, "package")
        /\ IF p \in call.held \/ ~ Exists(p)
           THEN Save(s, [db EXCEPT !.packages[p] = call.write.title], {})
           ELSE Raise(s)

DropPackage(s) ==
    LET p == calls[s].write.package
    IN  /\ Takes(s, "drop package")
        /\ IF p \in calls[s].held
           THEN Save(s, [packages |-> [db.packages EXCEPT ![p] = None],
                         collections |-> [c \in Codes |->
                             IF PackageOf[c] = p THEN None ELSE db.collections[c]],
                         drafts |-> {e \in db.drafts : PackageOf[e] # p}],
                     {p} \cup CodesOf(p))
           ELSE Save(s, db, {})

-----------------------------------------------------------------------------
(* Collections                                                             *)

\* The row a call is to save, with the members it adds or removes.
Row(c, enabled, added, removed) ==
    [collection |-> c, enabled |-> enabled, added |-> added, removed |-> removed]

\* create_collection: a disabled collection is not announced.
CreateCollection(s, c, enabled) ==
    /\ Exists(PackageOf[c]) /\ ~ Found(c)
    /\ Start(s, {c}, IF enabled THEN <<"row", "send">> ELSE <<"row">>,
             Row(c, enabled, {}, {}),
             IF enabled THEN <<Change(c, TRUE, FALSE, {}, {})>> ELSE << >>)

\* update_collection changes title and description, which index ignores.
UpdateCollection(s, c) ==
    /\ Found(c)
    /\ Start(s, {c}, <<"row", "send">>, Row(c, db.collections[c].enabled, {}, {}),
             <<Change(c, FALSE, FALSE, {}, {})>>)

\* delete_collection: announced unless it was soft-deleted before, and
\* announced before it is deleted for good.
DeleteCollection(s, c, hard_delete) ==
    LET enabled == db.collections[c].enabled
    IN  /\ Found(c) /\ (enabled \/ hard_delete)
        /\ Start(s, {c},
                 IF ~ hard_delete THEN <<"row", "send">>
                 ELSE IF enabled THEN <<"send", "drop">> ELSE <<"drop">>,
                 Row(c, FALSE, {}, {}),
                 IF enabled THEN <<Change(c, FALSE, TRUE, {}, Members(c))>> ELSE << >>)

\* Mutant: a restored collection is announced without its entities.
RestoreCollectionEmpty(s, c) ==
    /\ Found(c)
    /\ Start(s, {c}, <<"row", "send">>, Row(c, TRUE, {}, {}),
             <<Change(c, TRUE, FALSE, {}, {})>>)

\* restore_collection
RestoreCollection(s, c) ==
    /\ Found(c)
    /\ Start(s, {c}, <<"row", "send">>, Row(c, TRUE, {}, {}),
             <<Change(c, TRUE, FALSE, Members(c), {})>>)

\* add_to_collection: an enabled collection is saved as enabled.
AddToCollection(s, c, es) ==
    /\ \A e \in es : PackageOf[e] = PackageOf[c]
    /\ Found(c) /\ db.collections[c].enabled
    /\ Start(s, {c}, <<"members", "row", "send">>, Row(c, TRUE, es, {}),
             <<Change(c, FALSE, FALSE, es \ Members(c), {})>>)

\* remove_from_collection, soft-deleted collections included
RemoveFromCollection(s, c, es) ==
    /\ Found(c)
    /\ Start(s, {c}, <<"members", "row", "send">>,
             Row(c, db.collections[c].enabled, {}, es),
             <<Change(c, FALSE, FALSE, {}, es \cap Members(c))>>)

\* collection.entities.add() and .remove()
SaveMembers(s) ==
    LET call == calls[s]
        row == call.write
        c == row.collection
    IN  /\ Takes(s, "members")
        /\ CASE c \in call.held ->
                    Save(s, [db EXCEPT !.collections[c].entities =
                                 (@ \cup row.added) \ row.removed], {})
             [] c \notin call.held /\ row.added = {} -> Save(s, db, {})
             [] OTHER -> Raise(s)

\* collection.save() writes every field it read.  It inserts a row that is not
\* there: a new one, or one deleted since it was read.
SaveRow(s) ==
    LET call == calls[s]
        c == call.write.collection
    IN  /\ Takes(s, "row")
        /\ CASE c \in call.held ->
                    Save(s, [db EXCEPT !.collections[c].enabled = call.write.enabled], {})
             [] c \notin call.held /\ ~ Found(c) /\ PackageOf[c] \in call.held ->
                    Save(s, [db EXCEPT !.collections[c] =
                                 [enabled |-> call.write.enabled, entities |-> {}]], {})
             [] OTHER -> Raise(s)

\* collection.delete()
DropRow(s) ==
    LET c == calls[s].write.collection
    IN  /\ Takes(s, "drop")
        /\ IF c \in calls[s].held
           THEN Save(s, [db EXCEPT !.collections[c] = None], {c})
           ELSE Save(s, db, {})

\* set_collections: the entity is to be in exactly these collections, enabled
\* or not.  One event for every collection that gains or loses it.
SetCollections(s, e, cs) ==
    LET current == {c \in Codes : Found(c) /\ e \in Members(c)}
        affected == (current \ cs) \cup (cs \ current)
        EventOf(c) == IF c \in current THEN Change(c, FALSE, FALSE, {}, {e})
                                       ELSE Change(c, FALSE, FALSE, {e}, {})
    IN  /\ Exists(PackageOf[e])
        /\ \A c \in cs : Found(c) /\ PackageOf[c] = PackageOf[e]
        /\ Start(s, CodesOf(PackageOf[e]), <<"set", "send">>,
                 [entity |-> e, collections |-> cs],
                 SetToSeq({EventOf(c) : c \in affected}))

\* entity.collections.set() in a transaction of its own, for the collections
\* that are still there; those are read again to announce them.
SaveSet(s) ==
    LET call == calls[s]
        e == call.write.entity
        p == PackageOf[e]
        announced == SelectSeq(call.events, LAMBDA ev : ev.collection \in call.held)
        rows == [c \in Codes |->
                    IF p \notin call.held \/ PackageOf[c] # p \/ ~ Found(c)
                    THEN db.collections[c]
                    ELSE [db.collections[c] EXCEPT !.entities =
                             IF c \in call.write.collections \cap call.held
                             THEN @ \cup {e} ELSE @ \ {e}]]
    IN  /\ Takes(s, "set")
        /\ db' = [db EXCEPT !.collections = rows]
        /\ calls' = [calls EXCEPT ![s] = Sending(call.objects, announced)]
        /\ UNCHANGED <<open, index, tasks, mixed>>

\* get_entity_collections
EntityCollections(e) ==
    {c \in Codes : Found(c) /\ db.collections[c].enabled /\ e \in Members(c)}

-----------------------------------------------------------------------------
(* Drafts                                                                  *)

\* Publishing deletes some drafts and creates or restores others, and the
\* subscriber of ENTITIES_DRAFT_CHANGED queues a task.
DraftsChange(removed, added) ==
    /\ ~ InTransaction
    /\ removed \subseteq db.drafts /\ added \cap db.drafts = {}
    /\ removed \cup added # {}
    /\ \A e \in added : Exists(PackageOf[e])
    /\ Len(tasks) < MaxTasks
    /\ db' = [db EXCEPT !.drafts = (@ \ removed) \cup added]
    /\ tasks' = Append(tasks, [removed |-> removed, added |-> added])
    /\ UNCHANGED <<open, calls, index, mixed>>

\* One event for every enabled collection that holds one of the entities.
ChangesFor(task) ==
    {Change(c, FALSE, FALSE, Members(c) \cap task.added, Members(c) \cap task.removed) :
        c \in {x \in Codes : /\ Found(x) /\ db.collections[x].enabled
                             /\ Members(x) \cap (task.added \cup task.removed) # {}}}

\* emit_collections_changed_for_entity_changes_task reads the memberships, and
\* sends its events later.
RunTask(s, n) ==
    LET changes == ChangesFor(tasks[n])
        objects == {change.collection : change \in changes}
    IN  /\ n \in DOMAIN tasks
        /\ Ordered => n = 1 /\ \A w \in Workers : calls[w] = None
        /\ ~ InTransaction /\ calls[s] = None
        /\ tasks' = RemoveAt(tasks, n)
        /\ calls' = [calls EXCEPT ![s] =
               IF changes = {} THEN None
               ELSE Sending(objects, SetToSeq(changes))]
        /\ mixed' = mixed \cup (objects \cap WorkedOn)
        /\ UNCHANGED <<db, open, index>>

-----------------------------------------------------------------------------
Next ==
    \/ \E s \in Callers :
          \/ Begin(s) \/ Commit(s) \/ Abort(s)
          \/ \E p \in Packages :
                \/ \E title \in Titles : CreateLearningPackage(s, p, title)
                \/ \E title \in Titles \cup {None} : UpdateLearningPackage(s, p, title)
                \/ DeleteLearningPackage(s, p)
          \/ \E c \in Codes :
                \/ \E flag \in BOOLEAN : CreateCollection(s, c, flag) \/ DeleteCollection(s, c, flag)
                \/ UpdateCollection(s, c)
                \/ RestoreCollection(s, c)
                \/ \E es \in SUBSET Entities :
                      AddToCollection(s, c, es) \/ RemoveFromCollection(s, c, es)
          \/ \E e \in Entities, cs \in SUBSET Codes : SetCollections(s, e, cs)
          \/ SavePackage(s) \/ DropPackage(s)
          \/ SaveMembers(s) \/ SaveRow(s) \/ DropRow(s) \/ SaveSet(s)
          \/ SendEvents(s)
    \/ \E removed, added \in SUBSET Entities : DraftsChange(removed, added)
    \/ \E w \in Workers :
          \/ \E n \in 1 .. MaxTasks : RunTask(w, n)
          \/ SendEvents(w)

Spec == Init /\ [][Next]_vars

-----------------------------------------------------------------------------
(* Properties                                                              *)

\* An object that no call is at work on, and no two ever were at a time.
Settled(x) == x \notin mixed \cup WorkedOn

\* Outside transactions, a subscriber that only heard events knows the settled
\* learning packages and their titles, and which settled collections are
\* enabled, whatever was rolled back, deleted with its package, restored or
\* created disabled.  It holds no entity that is not in the collection and, once
\* the tasks have run in order, every member with a draft (collections/api.py,
\* collections/tasks.py).  Calls that overlap on one collection can mislead it.
SubscribersFollow ==
    /\ TypeOK
    /\ ~ InTransaction =>
           /\ \A p \in Packages : Settled(p) => index.packages[p] = db.packages[p]
           /\ \A c \in Codes : Settled(c) =>
                /\ index.collections[c] # None <=> Found(c) /\ db.collections[c].enabled
                /\ index.collections[c] # None =>
                     /\ index.collections[c] \subseteq Members(c)
                     /\ Ordered /\ tasks = << >> => \A e \in db.drafts :
                           c \in EntityCollections(e) => e \in index.collections[c]
==============================================================================
