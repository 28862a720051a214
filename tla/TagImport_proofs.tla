-------------------------- MODULE TagImport_proofs ---------------------------
(***************************************************************************)
(* Theorems about imports of tags, for any values, files and workers, and  *)
(* however imports, edits and crashes overlap: no task is left open by a   *)
(* worker that goes on, what is exported can be imported, and a replacing  *)
(* import leaves what its file says.                                       *)
(***************************************************************************)
EXTENDS TagImport, TagTree_proofs

-----------------------------------------------------------------------------
(* Import tasks                                                            *)

\* What a worker holds is made of its six fields.
IsImport(x) ==
    x \in [phase : {x.phase}, task : {x.task}, file : {x.file}, replace : {x.replace},
           plan_only : {x.plan_only}, plan : {x.plan}]

\* A worker has a task from when it creates it.
HoldsTask(x, n) ==
    /\ IsImport(x) /\ x.task \in 0 .. n
    /\ x.phase \in {"none", "checked"} => x.task = 0
    /\ x.phase \in {"created", "parsed", "planned", "executed"} => x.task # 0

\* Some worker is at task n, or died at it.
Held(imports, n) == \E w \in Workers : imports[w].phase # "none" /\ imports[w].task = n

\* Every task without a final status, not only the last, is some worker's.
TaskInv ==
    /\ taskStatus \in Seq(TaskStatus)
    /\ import = [w \in Workers |-> import[w]]
    /\ \A w \in Workers : HoldsTask(import[w], Len(taskStatus))
    /\ \A n \in DOMAIN taskStatus : taskStatus[n] \notin FinalStatus => Held(import, n)

\* Worker w becomes x.
Becomes(w, x) == import' = [import EXCEPT ![w] = x]

\* A worker that goes on with the task it has.
LEMMA GoesOn ==
    ASSUME TaskInv, NEW w \in Workers, NEW x, Becomes(w, x),
           HoldsTask(x, Len(taskStatus)), x.task = import[w].task, x.phase # "none",
           taskStatus' \in Seq(TaskStatus), Len(taskStatus') = Len(taskStatus),
           \A n \in DOMAIN taskStatus : n # x.task => taskStatus'[n] = taskStatus[n]
    PROVE  TaskInv'
<1>1. /\ import' = [v \in Workers |-> import'[v]]
      /\ \A v \in Workers : import'[v] = IF v = w THEN x ELSE import[v]
  BY DEF TaskInv, Becomes
<1>2. \A v \in Workers : HoldsTask(import'[v], Len(taskStatus'))
  BY <1>1 DEF TaskInv
<1>3. DOMAIN taskStatus' = DOMAIN taskStatus
  BY LenProperties DEF TaskInv
<1>4. ASSUME NEW n \in DOMAIN taskStatus', taskStatus'[n] \notin FinalStatus
      PROVE  Held(import', n)
  <2>1. CASE n = x.task
    BY <1>1, <2>1 DEF Held
  <2>2. CASE n # x.task
    <3>1. Held(import, n)
      BY <1>3, <1>4, <2>2 DEF TaskInv
    <3> QED  BY <1>1, <2>2, <3>1 DEF Held
  <2> QED  BY <2>1, <2>2
<1> QED  BY <1>1, <1>2, <1>4 DEF TaskInv

\* SetStatus changes the task of the worker.
LEMMA StatusSet ==
    ASSUME TaskInv, NEW w \in Workers, import[w].task # 0,
           NEW status \in TaskStatus, SetStatus(w, status)
    PROVE  /\ taskStatus' \in Seq(TaskStatus) /\ Len(taskStatus') = Len(taskStatus)
           /\ \A n \in DOMAIN taskStatus :
                  taskStatus'[n] = IF n = import[w].task THEN status ELSE taskStatus[n]
<1> DEFINE k == import[w].task
<1>1. /\ taskStatus \in Seq(TaskStatus) /\ k \in 1 .. Len(taskStatus)
      /\ taskStatus' = [taskStatus EXCEPT ![k] = status]
      /\ DOMAIN taskStatus = 1 .. Len(taskStatus)
  BY LenProperties DEF TaskInv, HoldsTask, SetStatus
<1> HIDE DEF k
<1>2. taskStatus' \in Seq(TaskStatus) /\ Len(taskStatus') = Len(taskStatus)
  BY <1>1, ExceptSeq
<1>3. \A n \in 1 .. Len(taskStatus) :
          taskStatus'[n] = IF n = k THEN status ELSE taskStatus[n]
  BY <1>1, ExceptSeq
<1> QED  BY <1>1, <1>2, <1>3 DEF k

LEMMA Finishes ==
    ASSUME TaskInv, NEW w \in Workers, import[w].task # 0,
           NEW status \in FinalStatus, Finish(w, status)
    PROVE  TaskInv'
<1>1. /\ taskStatus' \in Seq(TaskStatus) /\ Len(taskStatus') = Len(taskStatus)
      /\ \A n \in DOMAIN taskStatus :
             taskStatus'[n] = IF n = import[w].task THEN status ELSE taskStatus[n]
  BY StatusSet DEF Finish, TaskStatus
<1>2. /\ import' = [v \in Workers |-> import'[v]]
      /\ \A v \in Workers : import'[v] = IF v = w THEN NoImport ELSE import[v]
  BY DEF TaskInv, Finish
<1>3. HoldsTask(NoImport, Len(taskStatus'))
  BY <1>1, LenProperties DEF HoldsTask, IsImport, NoImport
<1>4. \A v \in Workers : HoldsTask(import'[v], Len(taskStatus'))
  BY <1>1, <1>2, <1>3 DEF TaskInv
<1>5. ASSUME NEW n \in DOMAIN taskStatus', taskStatus'[n] \notin FinalStatus
      PROVE  Held(import', n)
  <2>1. n \in DOMAIN taskStatus
    BY <1>1, LenProperties DEF TaskInv
  <2>2. n # import[w].task /\ taskStatus'[n] = taskStatus[n]
    BY <1>1, <1>5, <2>1
  <2>3. Held(import, n)
    BY <1>5, <2>1, <2>2 DEF TaskInv
  <2> QED  BY <1>2, <2>2, <2>3 DEF Held
<1> QED  BY <1>1, <1>2, <1>4, <1>5 DEF TaskInv

\* A worker that takes up a task.
Holding(x, n) == [x EXCEPT !.phase = "created", !.task = n]

LEMMA TaskHeld ==
    ASSUME NEW x, IsImport(x), NEW n \in Nat
    PROVE  IsImport(Holding(x, n)) /\ Holding(x, n).phase = "created" /\ Holding(x, n).task = n
<1> DEFINE y == Holding(x, n)
<1>1. /\ y \in [phase : {"created"}, task : {n}, file : {x.file}, replace : {x.replace},
                plan_only : {x.plan_only}, plan : {x.plan}]
  BY DEF IsImport, Holding
<1> HIDE DEF y
<1>2. IsImport(y) /\ y.phase = "created" /\ y.task = n
  BY <1>1 DEF IsImport
<1> QED  BY <1>2 DEF y

LEMMA TaskCreated ==
    ASSUME TaskInv, NEW w \in Workers, CreateTask(w)
    PROVE  TaskInv'
<1> DEFINE n == Len(taskStatus)
           x == Holding(import[w], n + 1)
<1>1. /\ taskStatus' \in Seq(TaskStatus) /\ Len(taskStatus') = n + 1 /\ n \in Nat
      /\ DOMAIN taskStatus' = 1 .. (n + 1) /\ DOMAIN taskStatus = 1 .. n
      /\ \A k \in 1 .. n : taskStatus'[k] = taskStatus[k]
  BY AppendProperties, LenProperties DEF TaskInv, CreateTask, TaskStatus
<1>2. /\ import' = [v \in Workers |-> import'[v]]
      /\ \A v \in Workers : import'[v] = IF v = w THEN x ELSE import[v]
  BY DEF TaskInv, CreateTask, Holding
<1>3. IsImport(import[w]) /\ import[w].phase = "checked" /\ import[w].task = 0
  BY DEF TaskInv, HoldsTask, CreateTask
<1>4. IsImport(x) /\ x.phase = "created" /\ x.task = n + 1
  BY <1>1, <1>3, TaskHeld
<1> HIDE DEF x
<1>5. HoldsTask(x, n + 1)
  BY <1>1, <1>4 DEF HoldsTask
<1>6. \A v \in Workers : HoldsTask(import'[v], n + 1)
  BY <1>1, <1>2, <1>5 DEF TaskInv, HoldsTask
<1>7. ASSUME NEW k \in DOMAIN taskStatus', taskStatus'[k] \notin FinalStatus
      PROVE  Held(import', k)
  <2>1. CASE k = n + 1
    BY <1>2, <1>4, <2>1 DEF Held
  <2>2. CASE k # n + 1
    <3>1. k \in 1 .. n /\ k # 0
      BY <1>1, <2>2
    <3>2. Held(import, k)
      BY <1>1, <1>7, <3>1 DEF TaskInv
    <3> QED  BY <1>2, <1>3, <3>1, <3>2 DEF Held
  <2> QED  BY <2>1, <2>2
<1> QED  BY <1>1, <1>2, <1>6, <1>7 DEF TaskInv

\* What the steps of an import make of a worker that keeps its task.
Moved(x, phase) == [x EXCEPT !.phase = phase]
Parsed(x, file, replace, plan_only) ==
    [x EXCEPT !.phase = "parsed", !.file = file, !.replace = replace, !.plan_only = plan_only]
PlannedAs(x, plan) == [x EXCEPT !.phase = "planned", !.plan = plan]
OnlyTask(phase, task) == [NoImport EXCEPT !.phase = phase, !.task = task]

LEMMA TaskKept ==
    ASSUME NEW x, IsImport(x), NEW file, NEW replace, NEW plan_only, NEW plan,
           NEW phase, NEW task
    PROVE  /\ IsImport(Moved(x, phase)) /\ Moved(x, phase).phase = phase
           /\ Moved(x, phase).task = x.task
           /\ IsImport(Parsed(x, file, replace, plan_only))
           /\ Parsed(x, file, replace, plan_only).phase = "parsed"
           /\ Parsed(x, file, replace, plan_only).task = x.task
           /\ IsImport(PlannedAs(x, plan)) /\ PlannedAs(x, plan).phase = "planned"
           /\ PlannedAs(x, plan).task = x.task
           /\ IsImport(OnlyTask(phase, task)) /\ OnlyTask(phase, task).phase = phase
           /\ OnlyTask(phase, task).task = task
<1>1. ASSUME NEW y,
             y \in [phase : {y.phase}, task : {x.task}, file : {y.file},
                   replace : {y.replace}, plan_only : {y.plan_only}, plan : {y.plan}]
      PROVE  IsImport(y) /\ y.task = x.task
  BY <1>1 DEF IsImport
<1>2. IsImport(Moved(x, phase)) /\ Moved(x, phase).phase = phase /\ Moved(x, phase).task = x.task
  <2> DEFINE y == Moved(x, phase)
  <2>1. y \in [phase : {phase}, task : {x.task}, file : {x.file},
              replace : {x.replace}, plan_only : {x.plan_only}, plan : {x.plan}]
    BY DEF IsImport, Moved
  <2> HIDE DEF y
  <2>2. IsImport(y) /\ y.phase = phase /\ y.task = x.task
    BY <2>1 DEF IsImport
  <2> QED  BY <2>2 DEF y
<1>3. /\ IsImport(Parsed(x, file, replace, plan_only))
      /\ Parsed(x, file, replace, plan_only).phase = "parsed"
      /\ Parsed(x, file, replace, plan_only).task = x.task
  <2> DEFINE y == Parsed(x, file, replace, plan_only)
  <2>1. y \in [phase : {"parsed"}, task : {x.task}, file : {file},
              replace : {replace}, plan_only : {plan_only}, plan : {x.plan}]
    BY DEF IsImport, Parsed
  <2> HIDE DEF y
  <2>2. IsImport(y) /\ y.phase = "parsed" /\ y.task = x.task
    BY <2>1 DEF IsImport
  <2> QED  BY <2>2 DEF y
<1>4. /\ IsImport(PlannedAs(x, plan)) /\ PlannedAs(x, plan).phase = "planned"
      /\ PlannedAs(x, plan).task = x.task
  <2> DEFINE y == PlannedAs(x, plan)
  <2>1. y \in [phase : {"planned"}, task : {x.task}, file : {x.file},
              replace : {x.replace}, plan_only : {x.plan_only}, plan : {plan}]
    BY DEF IsImport, PlannedAs
  <2> HIDE DEF y
  <2>2. IsImport(y) /\ y.phase = "planned" /\ y.task = x.task
    BY <2>1 DEF IsImport
  <2> QED  BY <2>2 DEF y
<1>5. /\ IsImport(OnlyTask(phase, task)) /\ OnlyTask(phase, task).phase = phase
      /\ OnlyTask(phase, task).task = task
  BY DEF IsImport, OnlyTask, NoImport
<1> QED  BY <1>2, <1>3, <1>4, <1>5

LEMMA ImportStepsKeepTasks ==
    ASSUME TaskInv, [ImportNext]_allVars
    PROVE  TaskInv'
<1>1. ASSUME NEW w \in Workers, NEW x, Becomes(w, x), IsImport(x),
             x.task = import[w].task, UNCHANGED taskStatus,
             x.phase \notin {"none", "checked"} \/ x.task = 0, x.phase # "none",
             x.phase \in {"created", "parsed", "planned", "executed"} => x.task # 0
      PROVE  TaskInv'
  <2>1. HoldsTask(x, Len(taskStatus))
    BY <1>1 DEF TaskInv, HoldsTask
  <2> QED  BY <1>1, <2>1, GoesOn DEF TaskInv
<1>2. ASSUME NEW w \in Workers, NEW x, Becomes(w, x), IsImport(x),
             x.task = import[w].task, x.task # 0, x.phase \notin {"none", "checked"},
             NEW status \in TaskStatus, SetStatus(w, status)
      PROVE  TaskInv'
  <2>1. HoldsTask(x, Len(taskStatus))
    BY <1>2 DEF TaskInv, HoldsTask
  <2>2. /\ taskStatus' \in Seq(TaskStatus) /\ Len(taskStatus') = Len(taskStatus)
        /\ \A n \in DOMAIN taskStatus :
               taskStatus'[n] = IF n = import[w].task THEN status ELSE taskStatus[n]
    BY <1>2, StatusSet
  <2>3. \A n \in DOMAIN taskStatus : n # x.task => taskStatus'[n] = taskStatus[n]
    BY <1>2, <2>2
  <2> QED  BY <1>2, <2>1, <2>2, <2>3, GoesOn
<1>3. ASSUME NEW w \in Workers, StartImport(w) PROVE TaskInv'
  <2> DEFINE x == Moved(import[w], "checked")
  <2>1. Becomes(w, x)
    BY <1>3 DEF StartImport, GoOn, Becomes, Moved, TaskInv
  <2>2. IsImport(import[w]) /\ import[w].task = 0 /\ UNCHANGED taskStatus
    BY <1>3 DEF StartImport, TaskInv, HoldsTask
  <2>3. IsImport(x) /\ x.phase = "checked" /\ x.task = import[w].task
    BY <2>2, TaskKept
  <2> HIDE DEF x
  <2> QED  BY <1>1, <2>1, <2>2, <2>3
<1>4. ASSUME NEW w \in Workers, NEW file, NEW replace, NEW plan_only,
             ParseFile(w, file, replace, plan_only)
      PROVE  TaskInv'
  <2>1. IsImport(import[w]) /\ import[w].task # 0
    BY <1>4 DEF ParseFile, TaskInv, HoldsTask
  <2>2. CASE ParseErrors(file)
    BY <1>4, <2>1, <2>2, Finishes DEF ParseFile, FinalStatus
  <2>3. CASE ~ ParseErrors(file)
    <3> DEFINE x == Parsed(import[w], ParseTags(file), replace, plan_only)
    <3>1. Becomes(w, x) /\ SetStatus(w, "planning")
      BY <1>4, <2>3 DEF ParseFile, Becomes, Parsed, TaskInv
    <3>2. IsImport(x) /\ x.phase = "parsed" /\ x.task = import[w].task
      BY <2>1, TaskKept
    <3> HIDE DEF x
    <3>3. "planning" \in TaskStatus  BY DEF TaskStatus
    <3> QED  BY <1>2, <2>1, <3>1, <3>2, <3>3
  <2> QED  BY <2>2, <2>3
<1>5. ASSUME NEW w \in Workers, PlanActions(w) PROVE TaskInv'
  <2>1. IsImport(import[w]) /\ import[w].task # 0
    BY <1>5 DEF PlanActions, TaskInv, HoldsTask
  <2>2. PICK plan : \/ Finish(w, "error") \/ Finish(w, "success")
                    \/ /\ SetStatus(w, "executing")
                       /\ import' = [import EXCEPT ![w].phase = "planned", ![w].plan = plan]
    <3> HIDE DEF Finish, SetStatus, GenerateActions
    <3> QED  BY <1>5 DEF PlanActions
  <2>3. CASE Finish(w, "error") \/ Finish(w, "success")
    BY <2>1, <2>3, Finishes DEF FinalStatus
  <2>4. CASE /\ SetStatus(w, "executing")
             /\ import' = [import EXCEPT ![w].phase = "planned", ![w].plan = plan]
    <3> DEFINE x == PlannedAs(import[w], plan)
    <3>1. Becomes(w, x)
      BY <2>4 DEF Becomes, PlannedAs, TaskInv
    <3>2. IsImport(x) /\ x.phase = "planned" /\ x.task = import[w].task
      BY <2>1, TaskKept
    <3> HIDE DEF x
    <3>3. "executing" \in TaskStatus  BY DEF TaskStatus
    <3> QED  BY <1>2, <2>1, <2>4, <3>1, <3>2, <3>3
  <2> QED  BY <2>2, <2>3, <2>4
<1>6. ASSUME NEW w \in Workers, ExecutePlan(w) PROVE TaskInv'
  <2>1. IsImport(import[w]) /\ import[w].task # 0
    BY <1>6 DEF ExecutePlan, TaskInv, HoldsTask
  <2>2. CASE Finish(w, "error")
    BY <2>1, <2>2, Finishes DEF FinalStatus
  <2>3. CASE ~ Finish(w, "error")
    <3> DEFINE x == OnlyTask("executed", import[w].task)
    <3>1. Becomes(w, x) /\ UNCHANGED taskStatus
      BY <1>6, <2>3 DEF ExecutePlan, Becomes, OnlyTask
    <3>2. IsImport(x) /\ x.phase = "executed" /\ x.task = import[w].task
      BY <2>1, TaskKept
    <3> HIDE DEF x
    <3> QED  BY <1>1, <2>1, <3>1, <3>2
  <2> QED  BY <2>2, <2>3
<1>7. ASSUME NEW w \in Workers, EndImport(w) PROVE TaskInv'
  <2>1. import[w].task # 0 /\ Finish(w, "success")
    BY <1>7 DEF EndImport, TaskInv, HoldsTask
  <2> QED  BY <2>1, Finishes DEF FinalStatus
<1>8. ASSUME NEW w \in Workers, Crash(w) PROVE TaskInv'
  <2> DEFINE x == OnlyTask("crashed", import[w].task)
  <2>1. Becomes(w, x) /\ UNCHANGED taskStatus
    BY <1>8 DEF Crash, Becomes, OnlyTask
  <2>2. IsImport(x) /\ x.phase = "crashed" /\ x.task = import[w].task
    BY TaskKept DEF TaskInv, HoldsTask
  <2> HIDE DEF x
  <2> QED  BY <1>1, <2>1, <2>2
<1>9. CASE UNCHANGED importVars
  BY <1>9 DEF importVars, TaskInv, Held
<1> QED
  BY <1>3, <1>4, <1>5, <1>6, <1>7, <1>8, <1>9, TaskCreated
     DEF ImportNext, allVars, importVars

\* An import stops others only while a worker is at its task, or died there:
\* whatever fails, in whatever order and with whatever edits in between, the
\* task is given a final status (import_tags, import_export/api.py:57).
THEOREM NoAbandonedTask == ImportSpec => []BlockedOnlyWhileImporting
<1>1. ImportInit => TaskInv
  <2> SUFFICES ASSUME ImportInit PROVE TaskInv
    OBVIOUS
  <2>1. taskStatus = << >> /\ import = [w \in Workers |-> NoImport]
    BY DEF ImportInit
  <2>2. taskStatus \in Seq(TaskStatus) /\ Len(taskStatus) = 0 /\ DOMAIN taskStatus = {}
    BY <2>1
  <2>3. HoldsTask(NoImport, 0)
    BY DEF HoldsTask, IsImport, NoImport
  <2> QED  BY <2>1, <2>2, <2>3 DEF TaskInv
<1>2. TaskInv /\ [ImportNext]_allVars => TaskInv'
  BY ImportStepsKeepTasks
<1>3. TaskInv => BlockedOnlyWhileImporting
  <2>1. SUFFICES ASSUME TaskInv, ~ MayImport
                 PROVE  \E w \in Workers : import[w].phase # "none"
                                        /\ import[w].task = Len(taskStatus)
    BY DEF BlockedOnlyWhileImporting
  <2>2. /\ Len(taskStatus) \in DOMAIN taskStatus
        /\ taskStatus[Len(taskStatus)] \notin FinalStatus
    BY <2>1, EmptySeq, LenProperties DEF MayImport, TaskInv
  <2> QED  BY <2>1, <2>2 DEF TaskInv, Held
<1> QED  BY <1>1, <1>2, <1>3, PTL DEF ImportSpec


-----------------------------------------------------------------------------
(* Imports: the rows that requests and imports can leave                   *)

\* The rows that any sequence of requests and imports can leave: of their types,
\* below rows that are there, with values and external ids that no two have in common.
TagsTyped(rows, last) ==
    /\ rows \in [DOMAIN rows -> Tag]
    /\ last \in Nat
    /\ DOMAIN rows \subseteq 1 .. last
    /\ \A s, t \in DOMAIN rows :
          rows[s].value = rows[t].value \/ rows[s].external_id = rows[t].external_id => s = t
    /\ \A t \in DOMAIN rows : rows[t].parent \in DOMAIN rows \cup {NoTag}

\* A row that was below another one, below the new one.
LEMMA UpdatedTyped ==
    ASSUME NEW row \in Tag, NEW old \in Tag, NEW new \in Tag
    PROVE  /\ Updated(row, old, new) \in Tag
           /\ Updated(row, old, new).value = row.value
           /\ Updated(row, old, new).external_id = row.external_id
           /\ Updated(row, old, new).parent = row.parent
<1> DEFINE depth == row.depth + (new.depth - old.depth)
           rest == SubSeq(row.lineage, Len(old.lineage) + 1, Len(row.lineage))
           lineage == new.lineage \o rest
           x == Updated(row, old, new)
<1>1. /\ row = [value |-> row.value, external_id |-> row.external_id, parent |-> row.parent,
                depth |-> row.depth, lineage |-> row.lineage]
      /\ row.value \in Values /\ row.external_id \in ExternalIds /\ row.parent \in Nat
      /\ row.depth \in Int /\ new.depth \in Int /\ old.depth \in Int
      /\ row.lineage \in Seq(Values) /\ new.lineage \in Seq(Values)
      /\ old.lineage \in Seq(Values)
  BY DEF Tag
<1>2. depth \in Int  BY <1>1
<1>3. lineage \in Seq(Values)
  <2>1. rest \in Seq(Values)
    <3> DEFINE s == row.lineage
               m == Len(old.lineage) + 1
               n == Len(row.lineage)
    <3>1. s \in Seq(Values) /\ m \in Nat \ {0} /\ n \in Nat /\ n = Len(s)
      BY <1>1, LenProperties
    <3> HIDE DEF s, m, n
    <3>2. \A k \in m .. n : s[k] \in Values
      <4>1. \A k \in 1 .. n : s[k] \in Values  BY <3>1, ElementOfSeq
      <4>2. m .. n \subseteq 1 .. n  BY <3>1
      <4> QED  BY <4>1, <4>2
    <3>3. SubSeq(s, m, n) \in Seq(Values)  BY <3>1, <3>2, SubSeqProperties
    <3> QED  BY <3>3 DEF s, m, n
  <2> HIDE DEF rest
  <2> QED  BY <1>1, <2>1, ConcatProperties
<1>4. x = [row EXCEPT !.depth = depth, !.lineage = lineage]
  BY DEF Updated
<1> HIDE DEF depth, lineage
<1>5. x = [value |-> row.value, external_id |-> row.external_id, parent |-> row.parent,
           depth |-> depth, lineage |-> lineage]
  BY <1>1, <1>4
<1> HIDE DEF x
<1>6. /\ x \in Tag /\ x.value = row.value /\ x.external_id = row.external_id
      /\ x.parent = row.parent
  BY <1>1, <1>2, <1>3, <1>5 DEF Tag
<1> QED  BY <1>6 DEF x

\* The row a save writes, whatever else was written since it was loaded.
LEMMA SavedTagTyped ==
    ASSUME NEW rows, rows \in [DOMAIN rows -> Tag], IsFiniteSet(DOMAIN rows),
           NEW i \in Instances, CanSave(rows, i)
    PROVE  SavedTag(rows, i) \in Tag
<1> DEFINE above == ParentValues(rows, i)
<1>1. i.value \in Values /\ i.parent \in Nat
      /\ i.external_id \in ExternalIds \cup {NoExternalId}
      /\ i.cached \in {NotCached} \cup [depth : Int, lineage : Seq(Values)]
  BY DEF Instances
<1>2. above.depth \in Int /\ above.lineage \in Seq(Values)
  <2>1. CASE i.parent = NoTag
    <3>1. above = [depth |-> -1, lineage |-> << >>]  BY <2>1 DEF ParentValues
    <3>2. << >> \in Seq(Values) /\ -1 \in Int  OBVIOUS
    <3> QED  BY <3>1, <3>2
  <2>2. CASE i.parent # NoTag /\ i.cached # NotCached
    <3>1. above = i.cached  BY <2>2 DEF ParentValues
    <3> QED  BY <1>1, <2>2, <3>1
  <2>3. CASE i.parent # NoTag /\ i.cached = NotCached
    <3>1. above = CachedTag(rows, i.parent)  BY <2>3 DEF ParentValues
    <3>2. i.parent \in DOMAIN rows  BY <2>3 DEF CanSave
    <3>3. rows[i.parent].depth \in Int /\ rows[i.parent].lineage \in Seq(Values)
      BY <3>2 DEF Tag
    <3> QED  BY <2>3, <3>1, <3>3 DEF CachedTag
  <2> QED  BY <2>1, <2>2, <2>3
<1>3. ExternalId(rows, i) \in ExternalIds
  BY <1>1, CandidateFound DEF ExternalId
<1>4. Append(above.lineage, i.value) \in Seq(Values)
  BY <1>1, <1>2, AppendProperties
<1>5. above.depth + 1 \in Int  BY <1>2
<1>6. SavedTag(rows, i) = [value |-> i.value, external_id |-> ExternalId(rows, i),
                           parent |-> i.parent, depth |-> above.depth + 1,
                           lineage |-> Append(above.lineage, i.value)]
  BY DEF SavedTag
<1> HIDE DEF above
<1> QED  BY <1>1, <1>3, <1>4, <1>5, <1>6 DEF Tag

\* What a save leaves is typed: the ids and values are unique as it checks, and the
\* cascade writes none.
LEMMA SavedTyped ==
    ASSUME NEW rows, NEW last, TagsTyped(rows, last), NEW i \in Instances, CanSave(rows, i),
           i.pk \in 0 .. last
    PROVE  TagsTyped(Saved(rows, last, i), IF i.pk = NoTag THEN last + 1 ELSE last)
<1> DEFINE key == SavedKey(last, i)
           new == SavedTag(rows, i)
           with == Put(rows, key, new)
           after == Saved(rows, last, i)
           end == IF i.pk = NoTag THEN last + 1 ELSE last
<1>1. /\ last \in Nat /\ DOMAIN rows \subseteq 1 .. last /\ rows \in [DOMAIN rows -> Tag]
      /\ \A s, t \in DOMAIN rows :
            rows[s].value = rows[t].value \/ rows[s].external_id = rows[t].external_id => s = t
      /\ \A t \in DOMAIN rows : rows[t].parent \in DOMAIN rows \cup {NoTag}
  BY DEF TagsTyped
<1>2. IsFiniteSet(DOMAIN rows)  BY <1>1, FinitelyMany
<1>3. new \in Tag  BY <1>1, <1>2, SavedTagTyped
<1>4. key \in 1 .. end /\ end \in Nat /\ last <= end /\ (i.pk \in DOMAIN rows => key = i.pk)
      /\ (i.pk = NoTag => key \notin DOMAIN rows) /\ (i.pk # NoTag => key = i.pk)
  BY <1>1 DEF SavedKey, NoTag
<1>5. /\ new.value = i.value /\ new.external_id = ExternalId(rows, i)
      /\ new.parent \in DOMAIN rows \cup {NoTag}
      /\ \A t \in DOMAIN rows \ {i.pk} :
            rows[t].value # new.value /\ rows[t].external_id # new.external_id
  BY DEF CanSave, SavedTag
<1>6. after = IF key \in DOMAIN rows THEN Cascade(with, key, rows[key], new) ELSE with
  BY DEF Saved, Put
<1> HIDE DEF key, new, after, end
<1>7. /\ DOMAIN with = DOMAIN rows \cup {key} /\ with[key] = new
      /\ \A t \in DOMAIN rows \ {key} : with[t] = rows[t]
      /\ with = [t \in DOMAIN rows \cup {key} |-> with[t]]
  BY DEF Put
<1> HIDE DEF with
<1>8. \A t \in DOMAIN with : with[t] \in Tag
  BY <1>1, <1>3, <1>7
<1>9. \A t \in DOMAIN rows \ {key} :
          rows[t].value # new.value /\ rows[t].external_id # new.external_id
  BY <1>4, <1>5
<1>10. \A s, t \in DOMAIN with :
          with[s].value = with[t].value \/ with[s].external_id = with[t].external_id => s = t
  BY <1>1, <1>7, <1>9
<1>11. DOMAIN after = DOMAIN with /\ after = [t \in DOMAIN with |-> after[t]]
  BY <1>6, <1>7 DEF Cascade
<1>12. ASSUME NEW t \in DOMAIN with
       PROVE  /\ after[t] \in Tag /\ after[t].value = with[t].value
              /\ after[t].external_id = with[t].external_id
              /\ after[t].parent = with[t].parent
  <2>1. CASE key \in DOMAIN rows
    <3>1. after[t] = with[t] \/ after[t] = Updated(with[t], rows[key], new)
      BY <1>6, <2>1 DEF Cascade
    <3>2. rows[key] \in Tag  BY <1>1, <2>1
    <3> QED  BY <1>3, <1>8, <3>1, <3>2, UpdatedTyped
  <2>2. CASE key \notin DOMAIN rows
    BY <1>6, <1>8, <2>2
  <2> QED  BY <2>1, <2>2
<1>13. DOMAIN after \subseteq 1 .. end
  BY <1>1, <1>4, <1>7, <1>11
<1>14. \A s, t \in DOMAIN after :
          after[s].value = after[t].value \/ after[s].external_id = after[t].external_id => s = t
  BY <1>10, <1>11, <1>12
<1>15. after \in [DOMAIN after -> Tag]
  BY <1>11, <1>12
<1>16. \A t \in DOMAIN after : after[t].parent \in DOMAIN after \cup {NoTag}
  <2>1. \A t \in DOMAIN with : with[t].parent \in DOMAIN with \cup {NoTag}
    BY <1>1, <1>5, <1>7
  <2> QED  BY <1>11, <1>12, <2>1
<1>17. TagsTyped(after, end)
  BY <1>4, <1>13, <1>14, <1>15, <1>16 DEF TagsTyped
<1> QED  BY <1>17 DEF after, end

\* What a deletion takes it takes with its children.
LEMMA SubtagsClosed ==
    ASSUME NEW rows, NEW ts, NEW t \in DOMAIN rows, rows[t].parent \in WithSubtagsIn(rows, ts)
    PROVE  t \in WithSubtagsIn(rows, ts)
<1> DEFINE p == rows[t].parent
           AllBelow(S) == ts \subseteq S /\ \A u \in S : ChildrenIn(rows, u) \subseteq S
<1>1. \A S \in SUBSET DOMAIN rows : AllBelow(S) => p \in S
  BY DEF WithSubtagsIn
<1>2. t \in ChildrenIn(rows, p)  BY DEF ChildrenIn
<1>3. \A S \in SUBSET DOMAIN rows : AllBelow(S) => t \in S
  BY <1>1, <1>2
<1> QED  BY <1>3 DEF WithSubtagsIn

\* Rows that are left are typed.
LEMMA LeftTyped ==
    ASSUME NEW rows, NEW last, TagsTyped(rows, last), NEW ts
    PROVE  TagsTyped(Without(rows, ts), last)
<1> DEFINE gone == WithSubtagsIn(rows, ts)
           left == Without(rows, ts)
<1>1. /\ DOMAIN left = DOMAIN rows \ gone /\ left = [t \in DOMAIN rows \ gone |-> left[t]]
      /\ \A t \in DOMAIN left : left[t] = rows[t]
  BY DEF Without
<1>2. \A t \in DOMAIN left : rows[t].parent \in DOMAIN left \cup {NoTag}
  <2>1. \A t \in DOMAIN rows : rows[t].parent \in gone => t \in gone
    BY SubtagsClosed
  <2> QED  BY <1>1, <2>1 DEF TagsTyped
<1> HIDE DEF left, gone
<1>3. TagsTyped(left, last)  BY <1>1, <1>2 DEF TagsTyped
<1> QED  BY <1>3 DEF left


-----------------------------------------------------------------------------
(* The types that overlapping requests and imports keep                    *)

\* Requests hold objects of tags that exist or existed.
InstancesTyped ==
    /\ instance \in [Requests -> Instances \cup {NoInstance}]
    /\ \A r \in Requests : instance[r] # NoInstance => instance[r].pk \in 0 .. lastTag

\* The objects that requests and imports build in memory.
LEMMA BuiltTyped ==
    ASSUME NEW rows, NEW last, TagsTyped(rows, last), NEW v \in Values,
           NEW e \in ExternalIds \cup {NoExternalId}, NEW p \in DOMAIN rows \cup {NoTag}
    PROVE  /\ NewTag(rows, v, p, e) \in Instances /\ NewTag(rows, v, p, e).pk \in 0 .. last
           /\ \A t \in DOMAIN rows :
                 /\ RenamedTag(rows, t, v) \in Instances
                 /\ RenamedTag(rows, t, v).pk \in 0 .. last
                 /\ MovedTag(rows, t, p) \in Instances
                 /\ MovedTag(rows, t, p).pk \in 0 .. last
<1>1. /\ rows \in [DOMAIN rows -> Tag] /\ last \in Nat /\ DOMAIN rows \subseteq 1 .. last
      /\ p \in Nat /\ NoTag \in 0 .. last
  BY DEF TagsTyped, NoTag
<1>2. \A t \in DOMAIN rows : /\ rows[t].value \in Values /\ rows[t].external_id \in ExternalIds
                             /\ rows[t].parent \in Nat /\ t \in Nat /\ t \in 0 .. last
                             /\ rows[t].depth \in Int /\ rows[t].lineage \in Seq(Values)
  BY <1>1 DEF Tag
<1>3. CachedTag(rows, p) \in {NotCached} \cup [depth : Int, lineage : Seq(Values)]
  BY <1>2 DEF CachedTag
<1>4. NewTag(rows, v, p, e) \in Instances /\ NewTag(rows, v, p, e).pk \in 0 .. last
  BY <1>1, <1>3 DEF NewTag, Instances
<1>5. ASSUME NEW t \in DOMAIN rows
      PROVE  RenamedTag(rows, t, v) \in Instances /\ RenamedTag(rows, t, v).pk \in 0 .. last
  BY <1>2 DEF RenamedTag, Instances
<1>6. ASSUME NEW t \in DOMAIN rows
      PROVE  MovedTag(rows, t, p) \in Instances /\ MovedTag(rows, t, p).pk \in 0 .. last
  BY <1>1, <1>2, <1>3 DEF MovedTag, Instances
<1> QED  BY <1>4, <1>5, <1>6

\* What requests do keeps the types, even where they overlap.
LEMMA EditTyped ==
    ASSUME TagsTyped(tags, lastTag), InstancesTyped, Edit
    PROVE  TagsTyped(tags, lastTag)' /\ InstancesTyped'
<1>1. ASSUME NEW r \in Requests, NEW i \in Instances, i.pk \in 0 .. lastTag,
             instance' = [instance EXCEPT ![r] = i], UNCHANGED <<tags, lastTag>>
      PROVE  TagsTyped(tags, lastTag)' /\ InstancesTyped'
  BY <1>1 DEF TagsTyped, InstancesTyped
<1>2. ASSUME NEW r \in Requests, NEW v \in Values, NEW parent \in DOMAIN tags \cup {NoTag},
             NEW e \in GivenExternalIds, AddTag(r, v, parent, e)
      PROVE  TagsTyped(tags, lastTag)' /\ InstancesTyped'
  <2> DEFINE i == NewTag(tags, v, parent, e)
  <2>1. e \in ExternalIds \cup {NoExternalId}  BY TagTreeAssumption DEF ExternalIds
  <2>2. i \in Instances /\ i.pk \in 0 .. lastTag  BY <2>1, BuiltTyped
  <2>3. instance' = [instance EXCEPT ![r] = i] /\ UNCHANGED <<tags, lastTag>>
    BY <1>2 DEF AddTag
  <2> HIDE DEF i
  <2> QED  BY <1>1, <2>2, <2>3
<1>3. ASSUME NEW r \in Requests, NEW t \in DOMAIN tags, NEW v \in Values, UpdateTag(r, t, v)
      PROVE  TagsTyped(tags, lastTag)' /\ InstancesTyped'
  <2> DEFINE i == RenamedTag(tags, t, v)
  <2>1. NoExternalId \in ExternalIds \cup {NoExternalId} /\ NoTag \in DOMAIN tags \cup {NoTag}
    OBVIOUS
  <2>2. i \in Instances /\ i.pk \in 0 .. lastTag  BY <2>1, BuiltTyped
  <2>3. instance' = [instance EXCEPT ![r] = i] /\ UNCHANGED <<tags, lastTag>>
    BY <1>3 DEF UpdateTag
  <2> HIDE DEF i
  <2> QED  BY <1>1, <2>2, <2>3
<1>4. ASSUME NEW r \in Requests, Save(r)
      PROVE  TagsTyped(tags, lastTag)' /\ InstancesTyped'
  <2> DEFINE i == instance[r]
             end == IF i.pk = NoTag THEN lastTag + 1 ELSE lastTag
  <2>1. /\ i # NoInstance /\ i \in Instances /\ i.pk \in 0 .. lastTag
        /\ instance' = [instance EXCEPT ![r] = NoInstance]
    BY <1>4 DEF Save, InstancesTyped
  <2>2. CASE CanSave(tags, i)
    <3>1. TagsTyped(Saved(tags, lastTag, i), end)
      <4> HIDE DEF i
      <4> QED  BY <2>1, <2>2, SavedTyped
    <3>2. tags' = Saved(tags, lastTag, i) /\ lastTag' = end
      BY <1>4, <2>2 DEF Save
    <3>3. TagsTyped(tags', lastTag')  BY <3>1, <3>2
    <3>4. lastTag \in Nat /\ end \in Nat /\ lastTag <= end  BY DEF TagsTyped
    <3>5. \A q \in Requests : instance'[q] # NoInstance => instance'[q].pk \in 0 .. lastTag'
      BY <2>1, <3>2, <3>4 DEF InstancesTyped
    <3>6. instance' \in [Requests -> Instances \cup {NoInstance}]
      BY <2>1 DEF InstancesTyped
    <3> QED  BY <3>3, <3>5, <3>6 DEF InstancesTyped
  <2>3. CASE ~ CanSave(tags, i)
    <3>1. UNCHANGED <<tags, lastTag>>  BY <1>4, <2>3 DEF Save
    <3> QED  BY <2>1, <3>1 DEF TagsTyped, InstancesTyped
  <2> QED  BY <2>2, <2>3
<1>5. ASSUME NEW ts, NEW with_subtags, DeleteTags(ts, with_subtags)
      PROVE  TagsTyped(tags, lastTag)' /\ InstancesTyped'
  <2>1. tags' = Without(tags, ts) /\ UNCHANGED <<lastTag, instance>>
    BY <1>5 DEF DeleteTags
  <2>2. TagsTyped(tags', lastTag')
    BY <2>1, LeftTyped
  <2> QED  BY <2>1, <2>2 DEF InstancesTyped
<1> QED  BY <1>2, <1>3, <1>4, <1>5 DEF Edit

\* What the actions of an import work on; no key is given out twice.
ImportDbs(first) ==
    {db \in [rows : UNION {[S -> Tag] : S \in KeySets}, last : Nat, failed : BOOLEAN] :
        TagsTyped(db.rows, db.last) /\ first <= db.last}

LEMMA ImportDbType ==
    ASSUME NEW first \in Nat, NEW db
    PROVE  db \in ImportDbs(first)
             <=> /\ db = [rows |-> db.rows, last |-> db.last, failed |-> db.failed]
                 /\ TagsTyped(db.rows, db.last) /\ first <= db.last
                 /\ db.failed \in BOOLEAN
<1>1. ASSUME TagsTyped(db.rows, db.last)
      PROVE  db.rows \in UNION {[S -> Tag] : S \in KeySets} /\ db.last \in Nat
  <2> DEFINE S == DOMAIN db.rows
  <2>1. S \subseteq 1 .. db.last /\ db.last \in Nat /\ db.rows \in [S -> Tag]
    BY <1>1 DEF TagsTyped
  <2>2. S \in KeySets
    <3>1. S \subseteq Nat \ {0} /\ \A k \in S : k <= db.last  BY <2>1
    <3> QED  BY <2>1, <3>1 DEF KeySets, Bounded
  <2> HIDE DEF S
  <2> QED  BY <2>1, <2>2
<1> QED  BY <1>1 DEF ImportDbs

LEMMA SaveInTyped ==
    ASSUME NEW first \in Nat, NEW db \in ImportDbs(first), NEW i \in Instances,
           i.pk \in 0 .. db.last
    PROVE  SaveIn(db, i) \in ImportDbs(first)
<1> DEFINE end == IF i.pk = NoTag THEN db.last + 1 ELSE db.last
           after == Saved(db.rows, db.last, i)
<1>1. /\ db = [rows |-> db.rows, last |-> db.last, failed |-> db.failed]
      /\ TagsTyped(db.rows, db.last) /\ first <= db.last /\ db.failed \in BOOLEAN
      /\ db.last \in Nat
  BY ImportDbType DEF TagsTyped
<1>2. CASE CanSave(db.rows, i)
  <2>1. TagsTyped(after, end)  BY <1>1, <1>2, SavedTyped
  <2>2. SaveIn(db, i) = [rows |-> after, last |-> end, failed |-> db.failed]
    BY <1>1, <1>2 DEF SaveIn
  <2>3. first <= end  BY <1>1
  <2> HIDE DEF after, end
  <2> QED  BY <1>1, <2>1, <2>2, <2>3, ImportDbType
<1>3. CASE ~ CanSave(db.rows, i)
  <2>1. SaveIn(db, i) = [rows |-> db.rows, last |-> db.last, failed |-> TRUE]
    BY <1>1, <1>3 DEF SaveIn, Failed
  <2> QED  BY <1>1, <2>1, ImportDbType
<1> QED  BY <1>2, <1>3

ImportActions ==
    [name : {"update_parent", "rename", "create", "without_changes", "delete"},
     id : ExternalIds, value : Values, parent_id : ExternalIds \cup {NoParentId}]
ImportPlans == [actions : Seq(ImportActions), errors : BOOLEAN]

\* What execute() does for each kind of action.
ParentFound(rows, id) == id = NoParentId \/ Exists(rows, id)

LEMMA Performed ==
    ASSUME NEW db, NEW a, ~ db.failed
    PROVE  /\ a.name = "create" =>
                  Perform(db, a) =
                      IF ~ ParentFound(db.rows, a.parent_id) \/ Exists(db.rows, a.id)
                         \/ \E t \in DOMAIN db.rows : db.rows[t].value = a.value
                      THEN Failed(db)
                      ELSE SaveIn(db, NewTag(db.rows, a.value,
                                             ParentKey(db.rows, a.parent_id), a.id))
           /\ a.name = "update_parent" =>
                  Perform(db, a) =
                      IF ~ Exists(db.rows, a.id) \/ ~ ParentFound(db.rows, a.parent_id)
                      THEN Failed(db)
                      ELSE SaveIn(db, MovedTag(db.rows, KeyOf(db.rows, a.id),
                                               ParentKey(db.rows, a.parent_id)))
           /\ a.name = "rename" =>
                  Perform(db, a) =
                      IF ~ Exists(db.rows, a.id)
                      THEN Failed(db)
                      ELSE SaveIn(db, RenamedTag(db.rows, KeyOf(db.rows, a.id), a.value))
           /\ a.name = "delete" =>
                  Perform(db, a) =
                      IF Exists(db.rows, a.id)
                      THEN [db EXCEPT !.rows = Without(db.rows, {KeyOf(db.rows, a.id)})]
                      ELSE db
           /\ a.name = "without_changes" => Perform(db, a) = db
BY DEF Perform, ParentFound

LEMMA FailedTyped ==
    ASSUME NEW first \in Nat, NEW db \in ImportDbs(first)
    PROVE  Failed(db) \in ImportDbs(first)
<1>1. /\ db = [rows |-> db.rows, last |-> db.last, failed |-> db.failed]
      /\ TagsTyped(db.rows, db.last) /\ first <= db.last /\ db.failed \in BOOLEAN
  BY ImportDbType
<1>2. PICK x : x = Failed(db)  OBVIOUS
<1>3. x = [rows |-> db.rows, last |-> db.last, failed |-> TRUE]
  BY <1>1, <1>2 DEF Failed
<1> QED  BY <1>1, <1>2, <1>3, ImportDbType

\* Every action keeps the types, or fails.
LEMMA PerformTyped ==
    ASSUME NEW first \in Nat, NEW db \in ImportDbs(first), NEW a \in ImportActions
    PROVE  Perform(db, a) \in ImportDbs(first)
<1> DEFINE found == Exists(db.rows, a.id)
           key == KeyOf(db.rows, a.id)
           parentFound == ParentFound(db.rows, a.parent_id)
           parent == ParentKey(db.rows, a.parent_id)
           after == Perform(db, a)
           failed == Failed(db)
<1>1. /\ db = [rows |-> db.rows, last |-> db.last, failed |-> db.failed]
      /\ TagsTyped(db.rows, db.last) /\ first <= db.last /\ db.failed \in BOOLEAN
  BY ImportDbType
<1>2. a.id \in ExternalIds \cup {NoExternalId} /\ a.value \in Values
  BY DEF ImportActions
<1>3. found => key \in DOMAIN db.rows
  BY DEF Exists, KeyOf
<1>4. parentFound => parent \in DOMAIN db.rows \cup {NoTag}
  BY DEF Exists, KeyOf, ParentKey, ParentFound
<1>5. failed \in ImportDbs(first)
  BY FailedTyped
<1> HIDE DEF failed
<1>6. CASE db.failed
  BY <1>6 DEF Perform
<1>7. CASE ~ db.failed /\ a.name = "create"
  <2> DEFINE i == NewTag(db.rows, a.value, parent, a.id)
             clash == found \/ \E t \in DOMAIN db.rows : db.rows[t].value = a.value
  <2>1. after = IF ~ parentFound \/ clash THEN failed ELSE SaveIn(db, i)
    BY <1>7, Performed DEF failed
  <2> HIDE DEF clash, after
  <2>2. parentFound => i \in Instances /\ i.pk \in 0 .. db.last
    <3> HIDE DEF parent, parentFound
    <3> QED  BY <1>1, <1>2, <1>4, BuiltTyped
  <2> HIDE DEF i, parentFound
  <2>3. parentFound => SaveIn(db, i) \in ImportDbs(first)
    BY <2>2, SaveInTyped
  <2>4. after \in ImportDbs(first)
    BY <1>5, <2>1, <2>3
  <2> QED  BY <2>4 DEF after
<1>8. CASE ~ db.failed /\ a.name = "update_parent"
  <2> DEFINE i == MovedTag(db.rows, key, parent)
  <2>1. after = IF ~ found \/ ~ parentFound THEN failed ELSE SaveIn(db, i)
    BY <1>8, Performed DEF failed
  <2> HIDE DEF after
  <2>2. found /\ parentFound => i \in Instances /\ i.pk \in 0 .. db.last
    <3> HIDE DEF parent, parentFound, key, found
    <3> QED  BY <1>1, <1>2, <1>3, <1>4, BuiltTyped
  <2> HIDE DEF i, parentFound, found
  <2>3. found /\ parentFound => SaveIn(db, i) \in ImportDbs(first)
    BY <2>2, SaveInTyped
  <2>4. after \in ImportDbs(first)
    BY <1>5, <2>1, <2>3
  <2> QED  BY <2>4 DEF after
<1>9. CASE ~ db.failed /\ a.name = "rename"
  <2> DEFINE i == RenamedTag(db.rows, key, a.value)
  <2>1. after = IF ~ found THEN failed ELSE SaveIn(db, i)
    BY <1>9, Performed DEF failed
  <2> HIDE DEF after
  <2>2. found => i \in Instances /\ i.pk \in 0 .. db.last
    <3> HIDE DEF key, found
    <3>1. NoTag \in DOMAIN db.rows \cup {NoTag}  OBVIOUS
    <3> QED  BY <1>1, <1>2, <1>3, <3>1, BuiltTyped
  <2> HIDE DEF i, found
  <2>3. found => SaveIn(db, i) \in ImportDbs(first)
    BY <2>2, SaveInTyped
  <2>4. after \in ImportDbs(first)
    BY <1>5, <2>1, <2>3
  <2> QED  BY <2>4 DEF after
<1>10. CASE ~ db.failed /\ a.name = "delete"
  <2>1. CASE found
    <3>1. Perform(db, a) = [db EXCEPT !.rows = Without(db.rows, {key})]
      BY <1>10, <2>1, Performed
    <3>2. Perform(db, a) = [rows |-> Without(db.rows, {key}), last |-> db.last,
                            failed |-> db.failed]
      BY <1>1, <3>1
    <3>3. TagsTyped(Without(db.rows, {key}), db.last)
      BY <1>1, LeftTyped
    <3> DEFINE left == Without(db.rows, {key})
    <3> HIDE DEF left
    <3>4. Perform(db, a) = [rows |-> left, last |-> db.last, failed |-> db.failed]
          /\ TagsTyped(left, db.last)
      BY <3>2, <3>3 DEF left
    <3> QED  BY <1>1, <3>4, ImportDbType
  <2>2. CASE ~ found
    BY <1>10, <2>2, Performed
  <2> QED  BY <2>1, <2>2
<1>11. CASE ~ db.failed /\ a.name = "without_changes"
  <2>1. Perform(db, a) = db
    BY <1>11, Performed
  <2> QED  BY <2>1
<1> QED  BY <1>1, <1>6, <1>7, <1>8, <1>9, <1>10, <1>11 DEF ImportActions


-----------------------------------------------------------------------------
(* Planning the items of a file                                            *)

LEMMA ActionTyped ==
    ASSUME NEW item, item.id \in ExternalIds, item.value \in Values,
           item.parent_id \in ExternalIds \cup {NoParentId},
           NEW name \in {"update_parent", "rename", "create", "without_changes", "delete"}
    PROVE  Action(name, item) \in ImportActions
BY DEF Action, ImportActions

LEMMA BuiltAction ==
    ASSUME NEW rows, NEW plan \in ImportPlans, NEW a \in ImportActions
    PROVE  BuildAction(rows, plan, a) \in ImportPlans
<1> DEFINE actions == Append(plan.actions, a)
           errors == plan.errors \/ Invalid(rows, plan, a)
<1>1. actions \in Seq(ImportActions)
  <2>1. plan.actions \in Seq(ImportActions)  BY DEF ImportPlans
  <2> QED  BY <2>1, AppendProperties
<1>2. errors \in BOOLEAN
  OBVIOUS
<1>3. BuildAction(rows, plan, a) = [actions |-> actions, errors |-> errors]
  BY DEF BuildAction
<1> HIDE DEF actions, errors
<1> QED  BY <1>1, <1>2, <1>3 DEF ImportPlans

\* One round of the loop over the items.
LEMMA ItemBuilt ==
    ASSUME NEW rows, NEW plan \in ImportPlans, NEW item \in TagItem
    PROVE  BuildItem(rows, plan, item) \in ImportPlans
<1>1. \A name \in {"update_parent", "rename", "create", "without_changes", "delete"} :
          Action(name, item) \in ImportActions
  BY ActionTyped DEF TagItem
<1> DEFINE update == Action("update_parent", item)
           rename == Action("rename", item)
           create == Action("create", item)
           keep == Action("without_changes", item)
           moved == IF UpdateParentApplies(rows, item) THEN BuildAction(rows, plan, update)
                                                       ELSE plan
           renamed == IF RenameApplies(rows, item) THEN BuildAction(rows, moved, rename)
                                                   ELSE moved
<1>2. /\ update \in ImportActions /\ rename \in ImportActions /\ create \in ImportActions
      /\ keep \in ImportActions
  BY <1>1
<1>3. BuildItem(rows, plan, item)
        = IF CreateApplies(rows, item) THEN BuildAction(rows, plan, create)
          ELSE IF UpdateParentApplies(rows, item) \/ RenameApplies(rows, item) THEN renamed
          ELSE BuildAction(rows, plan, keep)
  BY DEF BuildItem
<1> HIDE DEF update, rename, create, keep
<1>4. moved \in ImportPlans  BY <1>2, BuiltAction
<1> HIDE DEF moved
<1>5. renamed \in ImportPlans  BY <1>2, <1>4, BuiltAction
<1> HIDE DEF renamed
<1>6. /\ BuildAction(rows, plan, create) \in ImportPlans
      /\ BuildAction(rows, plan, keep) \in ImportPlans
  BY <1>2, BuiltAction
<1> QED  BY <1>3, <1>5, <1>6


-----------------------------------------------------------------------------
(* The loops over the items and over the actions                           *)

\* A run whose rounds stay in a set stays in it.
LEMMA RoundsStay ==
    ASSUME NEW D, NEW n \in Nat, NEW after, after[0] \in D,
           \A k \in 1 .. n : after[k - 1] \in D => after[k] \in D
    PROVE  \A k \in 0 .. n : after[k] \in D
<1> DEFINE S == {k \in 0 .. n : after[k] \in D}
<1>1. 0 \in S  OBVIOUS
<1>2. ASSUME NEW k \in 1 .. n, k - 1 \in S PROVE k \in S
  BY <1>2
<1>3. 0 .. n \subseteq S
  <2> HIDE DEF S
  <2> QED  BY <1>1, <1>2, RoundByRound
<1> QED  BY <1>3

\* The loop over the items, round by round.
LEMMA ItemsRun ==
    ASSUME NEW rows, NEW start \in ImportPlans, NEW file \in Seq(TagItem)
    PROVE  \E g : /\ g \in [0 .. Len(file) -> ImportPlans] /\ g[0] = start
                  /\ \A k \in 1 .. Len(file) : g[k] = BuildItem(rows, g[k - 1], file[k])
                  /\ BuildItems(rows, start, file) = g[Len(file)]
<1> DEFINE keys == DOMAIN file
           n == Len(file)
           D == ImportPlans
           Do(x, k) == BuildItem(rows, x, file[k])
           F == [p \in D \X keys |-> Do(p[1], p[2])]
           IsRun(g) == g = [k \in 0 .. LastOf(keys) |-> IF k = 0 THEN start
                                ELSE IF k \in keys THEN Do(g[k - 1], k) ELSE g[k - 1]]
           after == CHOOSE g : IsRun(g)
<1>1. BuildItems(rows, start, file) = after[LastOf(keys)]
  BY DEF ForEach, BuildItems
<1>2. /\ n \in Nat /\ keys = 1 .. n /\ keys \in KeySets /\ LastOf(keys) = n
      /\ \A k \in keys : file[k] \in TagItem
  BY ListType, PositionsAreKeys, LastPosition
<1>3. ASSUME NEW x \in D, NEW k \in keys PROVE Do(x, k) \in D
  BY <1>2, ItemBuilt
<1> HIDE DEF keys, n, Do
<1>4. F \in [D \X keys -> D] /\ \A x \in D, k \in keys : F[<<x, k>>] = Do(x, k)
  <2> HIDE DEF D
  <2> QED  BY <1>3
<1>5. start \in D  OBVIOUS
<1> HIDE DEF D, F
<1>6. PICK g \in [0 .. n -> D] : \A k \in 0 .. n : g[k] = Round(keys, F, start, g, k)
  <2>1. HasRun(D, keys, F, start, n)  BY <1>2, <1>4, <1>5, LoopRuns
  <2> QED  BY <2>1 DEF HasRun
<1>7. ASSUME NEW k \in 0 .. n
      PROVE  g[k] = IF k = 0 THEN start
                    ELSE IF k \in keys THEN Do(g[k - 1], k) ELSE g[k - 1]
  <2>1. k # 0 => g[k - 1] \in D  BY <1>2, <1>6
  <2> QED  BY <1>4, <1>6, <2>1 DEF Round
<1>8. IsRun(g)  BY <1>2, <1>6, <1>7
<1>9. IsRun(after)
  <2> HIDE DEF IsRun
  <2> QED  BY <1>8
<1> HIDE DEF after
<1>10. /\ DOMAIN after = 0 .. n /\ after = [k \in 0 .. n |-> after[k]] /\ after[0] = start
       /\ \A k \in 1 .. n : after[k] = Do(after[k - 1], k)
  BY <1>2, <1>9
<1>11. \A k \in 0 .. n : after[k] \in D
  <2>1. after[0] \in D  BY <1>5, <1>10
  <2>2. ASSUME NEW k \in 1 .. n, after[k - 1] \in D PROVE after[k] \in D
    <3>1. k \in keys /\ after[k] = Do(after[k - 1], k)  BY <1>2, <1>10
    <3> QED  BY <1>3, <2>2, <3>1
  <2> HIDE DEF after
  <2> QED  BY <1>2, <2>1, <2>2, RoundsStay
<1>12. after \in [0 .. n -> D]  BY <1>10, <1>11
<1> QED  BY <1>1, <1>2, <1>10, <1>12 DEF D, n, Do

PerformAll(actions, start) ==
    ForEach(DOMAIN actions, LAMBDA d, m : Perform(d, actions[m]), start)

\* The actions of a plan, one after the other.
LEMMA ExecutionRuns ==
    ASSUME NEW first \in Nat, NEW start \in ImportDbs(first),
           NEW actions \in Seq(ImportActions)
    PROVE  \E g : /\ g \in [0 .. Len(actions) -> ImportDbs(first)] /\ g[0] = start
                  /\ \A k \in 1 .. Len(actions) : g[k] = Perform(g[k - 1], actions[k])
                  /\ PerformAll(actions, start) = g[Len(actions)]
<1> DEFINE keys == DOMAIN actions
           n == Len(actions)
           D == ImportDbs(first)
           Do(x, k) == Perform(x, actions[k])
           F == [p \in D \X keys |-> Do(p[1], p[2])]
           IsRun(g) == g = [k \in 0 .. LastOf(keys) |-> IF k = 0 THEN start
                                ELSE IF k \in keys THEN Do(g[k - 1], k) ELSE g[k - 1]]
           after == CHOOSE g : IsRun(g)
<1>1. PerformAll(actions, start) = after[LastOf(keys)]
  BY DEF ForEach, PerformAll
<1>2. /\ n \in Nat /\ keys = 1 .. n /\ keys \in KeySets /\ LastOf(keys) = n
      /\ \A k \in keys : actions[k] \in ImportActions
  BY ListType, PositionsAreKeys, LastPosition
<1>3. ASSUME NEW x \in D, NEW k \in keys PROVE Do(x, k) \in D
  BY <1>2, PerformTyped
<1> HIDE DEF keys, n, Do
<1>4. F \in [D \X keys -> D] /\ \A x \in D, k \in keys : F[<<x, k>>] = Do(x, k)
  <2> HIDE DEF D
  <2> QED  BY <1>3
<1>5. start \in D  OBVIOUS
<1> HIDE DEF D, F
<1>6. PICK g \in [0 .. n -> D] : \A k \in 0 .. n : g[k] = Round(keys, F, start, g, k)
  <2>1. HasRun(D, keys, F, start, n)  BY <1>2, <1>4, <1>5, LoopRuns
  <2> QED  BY <2>1 DEF HasRun
<1>7. ASSUME NEW k \in 0 .. n
      PROVE  g[k] = IF k = 0 THEN start
                    ELSE IF k \in keys THEN Do(g[k - 1], k) ELSE g[k - 1]
  <2>1. k # 0 => g[k - 1] \in D  BY <1>2, <1>6
  <2> QED  BY <1>4, <1>6, <2>1 DEF Round
<1>8. IsRun(g)  BY <1>2, <1>6, <1>7
<1>9. IsRun(after)
  <2> HIDE DEF IsRun
  <2> QED  BY <1>8
<1> HIDE DEF after
<1>10. /\ DOMAIN after = 0 .. n /\ after = [k \in 0 .. n |-> after[k]] /\ after[0] = start
       /\ \A k \in 1 .. n : after[k] = Do(after[k - 1], k)
  BY <1>2, <1>9
<1>11. \A k \in 0 .. n : after[k] \in D
  <2>1. after[0] \in D  BY <1>5, <1>10
  <2>2. ASSUME NEW k \in 1 .. n, after[k - 1] \in D PROVE after[k] \in D
    <3>1. k \in keys /\ after[k] = Do(after[k - 1], k)  BY <1>2, <1>10
    <3> QED  BY <1>3, <2>2, <3>1
  <2> HIDE DEF after
  <2> QED  BY <1>2, <2>1, <2>2, RoundsStay
<1>12. after \in [0 .. n -> D]  BY <1>10, <1>11
<1> QED  BY <1>1, <1>2, <1>10, <1>12 DEF D, n, Do


-----------------------------------------------------------------------------
(* Deletions, plans and executions                                         *)

\* What becomes of a plan when one of the children that stay is made a root.
Rooted(rows, plan, c) ==
    BuildAction(rows, plan, Action("update_parent",
        [id |-> rows[c].external_id, value |-> rows[c].value, parent_id |-> NoParentId]))

RootedAll(rows, plan, cs) == ForEach(cs, LAMBDA p, c : Rooted(rows, p, c), plan)

LEMMA RootedTyped ==
    ASSUME NEW rows, rows \in [DOMAIN rows -> Tag], NEW plan \in ImportPlans,
           NEW t \in DOMAIN rows
    PROVE  /\ Rooted(rows, plan, t) \in ImportPlans
           /\ BuildAction(rows, plan, Action("delete",
                  [id |-> rows[t].external_id, value |-> rows[t].value,
                   parent_id |-> NoParentId])) \in ImportPlans
<1> DEFINE item == [id |-> rows[t].external_id, value |-> rows[t].value,
                    parent_id |-> NoParentId]
           root == Action("update_parent", item)
           delete == Action("delete", item)
<1>1. item.id \in ExternalIds /\ item.value \in Values
      /\ item.parent_id \in ExternalIds \cup {NoParentId}
  BY DEF Tag
<1> HIDE DEF item
<1>2. root \in ImportActions /\ delete \in ImportActions
  BY <1>1, ActionTyped
<1> HIDE DEF root, delete
<1>3. /\ BuildAction(rows, plan, root) \in ImportPlans
      /\ BuildAction(rows, plan, delete) \in ImportPlans
  BY <1>2, BuiltAction
<1> QED  BY <1>3 DEF Rooted, root, delete, item

\* The loop over the children that stay.
LEMMA RootedRuns ==
    ASSUME NEW rows, rows \in [DOMAIN rows -> Tag], NEW start \in ImportPlans,
           NEW keys \in KeySets, keys \subseteq DOMAIN rows
    PROVE  \E g : /\ g \in [0 .. LastOf(keys) -> ImportPlans] /\ g[0] = start
                  /\ \A k \in 1 .. LastOf(keys) :
                        g[k] = IF k \in keys THEN Rooted(rows, g[k - 1], k) ELSE g[k - 1]
                  /\ RootedAll(rows, start, keys) = g[LastOf(keys)]
<1> DEFINE n == LastOf(keys)
           D == ImportPlans
           Do(x, k) == Rooted(rows, x, k)
           F == [p \in D \X keys |-> Do(p[1], p[2])]
           IsRun(g) == g = [k \in 0 .. n |-> IF k = 0 THEN start
                                ELSE IF k \in keys THEN Do(g[k - 1], k) ELSE g[k - 1]]
           after == CHOOSE g : IsRun(g)
<1>1. RootedAll(rows, start, keys) = after[n]
  BY DEF ForEach, RootedAll
<1>2. n \in Nat  BY LastKey
<1>3. ASSUME NEW x \in D, NEW k \in keys PROVE Do(x, k) \in D
  BY RootedTyped
<1> HIDE DEF n, Do
<1>4. F \in [D \X keys -> D] /\ \A x \in D, k \in keys : F[<<x, k>>] = Do(x, k)
  <2> HIDE DEF D
  <2> QED  BY <1>3
<1>5. start \in D  OBVIOUS
<1> HIDE DEF D, F
<1>6. PICK g \in [0 .. n -> D] : \A k \in 0 .. n : g[k] = Round(keys, F, start, g, k)
  <2>1. HasRun(D, keys, F, start, n)  BY <1>2, <1>4, <1>5, LoopRuns
  <2> QED  BY <2>1 DEF HasRun
<1>7. ASSUME NEW k \in 0 .. n
      PROVE  g[k] = IF k = 0 THEN start
                    ELSE IF k \in keys THEN Do(g[k - 1], k) ELSE g[k - 1]
  <2>1. k # 0 => g[k - 1] \in D  BY <1>2, <1>6
  <2> QED  BY <1>4, <1>6, <2>1 DEF Round
<1>8. IsRun(g)  BY <1>2, <1>6, <1>7
<1>9. IsRun(after)
  <2> HIDE DEF IsRun
  <2> QED  BY <1>8
<1> HIDE DEF after
<1>10. /\ DOMAIN after = 0 .. n /\ after = [k \in 0 .. n |-> after[k]] /\ after[0] = start
       /\ \A k \in 1 .. n : after[k] = IF k \in keys THEN Do(after[k - 1], k) ELSE after[k - 1]
  BY <1>2, <1>9
<1>11. \A k \in 1 .. n : after[k - 1] \in D => after[k] \in D
  BY <1>3, <1>10
<1>12. \A k \in 0 .. n : after[k] \in D
  BY <1>2, <1>5, <1>10, <1>11, RoundsStay
<1>13. after \in [0 .. n -> D]  BY <1>10, <1>12
<1> QED  BY <1>1, <1>10, <1>13 DEF D, n, Do

\* One round of the loop over the tags to delete.
LEMMA DeleteBuilt ==
    ASSUME NEW rows, NEW last, TagsTyped(rows, last), NEW doomed, NEW plan \in ImportPlans,
           NEW t \in DOMAIN rows
    PROVE  BuildDelete(rows, doomed, plan, t) \in ImportPlans
<1> DEFINE moved(c) == \E a \in Planned(plan, "update_parent") :
                          a.id = rows[c].external_id /\ a.parent_id # rows[t].external_id
           orphans == {c \in ChildrenIn(rows, t) : c \notin doomed /\ ~ moved(c)}
           rooted == RootedAll(rows, plan, orphans)
<1>1. rows \in [DOMAIN rows -> Tag] /\ last \in Nat /\ DOMAIN rows \subseteq 1 .. last
  BY DEF TagsTyped
<1>2. orphans \subseteq DOMAIN rows
  BY DEF ChildrenIn
<1>3. BuildDelete(rows, doomed, plan, t)
        = BuildAction(rows, rooted, Action("delete",
              [id |-> rows[t].external_id, value |-> rows[t].value, parent_id |-> NoParentId]))
  BY DEF BuildDelete, Rooted, RootedAll
<1> HIDE DEF orphans
<1>4. orphans \in KeySets
  <2>1. orphans \subseteq Nat \ {0} /\ \A k \in orphans : k <= last  BY <1>1, <1>2
  <2> QED  BY <1>1, <2>1 DEF KeySets, Bounded
<1>5. rooted \in ImportPlans
  <2>1. PICK g : /\ g \in [0 .. LastOf(orphans) -> ImportPlans] /\ g[0] = plan
                 /\ \A k \in 1 .. LastOf(orphans) :
                       g[k] = IF k \in orphans THEN Rooted(rows, g[k - 1], k) ELSE g[k - 1]
                 /\ RootedAll(rows, plan, orphans) = g[LastOf(orphans)]
    BY <1>1, <1>2, <1>4, RootedRuns
  <2>2. LastOf(orphans) \in 0 .. LastOf(orphans)  BY <1>4, LastKey
  <2> QED  BY <2>1, <2>2
<1> HIDE DEF rooted
<1> QED  BY <1>1, <1>3, <1>5, RootedTyped

\* The loop over the tags to delete, round by round.
LEMMA DeletesRun ==
    ASSUME NEW rows, NEW last, TagsTyped(rows, last), NEW doomed \in SUBSET DOMAIN rows,
           NEW start \in ImportPlans, NEW order \in Seq(DOMAIN rows)
    PROVE  \E g : /\ g \in [0 .. Len(order) -> ImportPlans] /\ g[0] = start
                  /\ \A k \in 1 .. Len(order) : g[k] = BuildDelete(rows, doomed, g[k - 1], order[k])
                  /\ BuildDeletes(rows, doomed, start, order) = g[Len(order)]
<1> DEFINE keys == DOMAIN order
           n == Len(order)
           D == ImportPlans
           Do(x, k) == BuildDelete(rows, doomed, x, order[k])
           F == [p \in D \X keys |-> Do(p[1], p[2])]
           IsRun(g) == g = [k \in 0 .. LastOf(keys) |-> IF k = 0 THEN start
                                ELSE IF k \in keys THEN Do(g[k - 1], k) ELSE g[k - 1]]
           after == CHOOSE g : IsRun(g)
<1>1. BuildDeletes(rows, doomed, start, order) = after[LastOf(keys)]
  BY DEF ForEach, BuildDeletes
<1>2. /\ n \in Nat /\ keys = 1 .. n /\ keys \in KeySets /\ LastOf(keys) = n
      /\ \A k \in keys : order[k] \in DOMAIN rows
  BY ListType, PositionsAreKeys, LastPosition
<1>3. ASSUME NEW x \in D, NEW k \in keys PROVE Do(x, k) \in D
  BY <1>2, DeleteBuilt
<1> HIDE DEF keys, n, Do
<1>4. F \in [D \X keys -> D] /\ \A x \in D, k \in keys : F[<<x, k>>] = Do(x, k)
  <2> HIDE DEF D
  <2> QED  BY <1>3
<1>5. start \in D  OBVIOUS
<1> HIDE DEF D, F
<1>6. PICK g \in [0 .. n -> D] : \A k \in 0 .. n : g[k] = Round(keys, F, start, g, k)
  <2>1. HasRun(D, keys, F, start, n)  BY <1>2, <1>4, <1>5, LoopRuns
  <2> QED  BY <2>1 DEF HasRun
<1>7. ASSUME NEW k \in 0 .. n
      PROVE  g[k] = IF k = 0 THEN start
                    ELSE IF k \in keys THEN Do(g[k - 1], k) ELSE g[k - 1]
  <2>1. k # 0 => g[k - 1] \in D  BY <1>2, <1>6
  <2> QED  BY <1>4, <1>6, <2>1 DEF Round
<1>8. IsRun(g)  BY <1>2, <1>6, <1>7
<1>9. IsRun(after)
  <2> HIDE DEF IsRun
  <2> QED  BY <1>8
<1> HIDE DEF after
<1>10. /\ DOMAIN after = 0 .. n /\ after = [k \in 0 .. n |-> after[k]] /\ after[0] = start
       /\ \A k \in 1 .. n : after[k] = Do(after[k - 1], k)
  BY <1>2, <1>9
<1>11. \A k \in 0 .. n : after[k] \in D
  <2>1. after[0] \in D  BY <1>5, <1>10
  <2>2. ASSUME NEW k \in 1 .. n, after[k - 1] \in D PROVE after[k] \in D
    <3>1. k \in keys /\ after[k] = Do(after[k - 1], k)  BY <1>2, <1>10
    <3> QED  BY <1>3, <2>2, <3>1
  <2> HIDE DEF after
  <2> QED  BY <1>2, <2>1, <2>2, RoundsStay
<1>12. after \in [0 .. n -> D]  BY <1>10, <1>11
<1> QED  BY <1>1, <1>2, <1>10, <1>12 DEF D, n, Do

\* A plan for any rows and any file is typed.
LEMMA PlanTyped ==
    ASSUME NEW rows, NEW last, TagsTyped(rows, last), NEW file \in Seq(TagItem),
           NEW replace, NEW order \in Seq(DOMAIN rows)
    PROVE  GenerateActions(rows, file, replace, order) \in ImportPlans
<1> DEFINE doomed == Doomed(rows, file)
           deletes == IF replace THEN BuildDeletes(rows, doomed, NoPlan, order) ELSE NoPlan
           start == NoPlan
<1>1. start \in ImportPlans
  <2>1. << >> \in Seq(ImportActions) /\ FALSE \in BOOLEAN  OBVIOUS
  <2> QED  BY <2>1 DEF NoPlan, ImportPlans
<1>2. GenerateActions(rows, file, replace, order) = BuildItems(rows, deletes, file)
  BY DEF GenerateActions
<1>3. doomed \in SUBSET DOMAIN rows  BY DEF Doomed
<1> HIDE DEF doomed
<1>4. BuildDeletes(rows, doomed, start, order) \in ImportPlans
  <2> HIDE DEF start
  <2>1. PICK g : /\ g \in [0 .. Len(order) -> ImportPlans] /\ g[0] = start
                 /\ \A k \in 1 .. Len(order) :
                       g[k] = BuildDelete(rows, doomed, g[k - 1], order[k])
                 /\ BuildDeletes(rows, doomed, start, order) = g[Len(order)]
    BY <1>1, <1>3, DeletesRun
  <2>2. Len(order) \in 0 .. Len(order)  BY ListType
  <2> QED  BY <2>1, <2>2
<1>5. deletes \in ImportPlans  BY <1>1, <1>4
<1> HIDE DEF deletes
<1>6. PICK g : /\ g \in [0 .. Len(file) -> ImportPlans] /\ g[0] = deletes
               /\ \A k \in 1 .. Len(file) : g[k] = BuildItem(rows, g[k - 1], file[k])
               /\ BuildItems(rows, deletes, file) = g[Len(file)]
  BY <1>5, ItemsRun
<1>7. Len(file) \in 0 .. Len(file)  BY ListType
<1> QED  BY <1>2, <1>6, <1>7

\* What the actions of any plan leave is typed.
LEMMA ExecutionTyped ==
    ASSUME NEW rows, NEW last, TagsTyped(rows, last), NEW plan \in ImportPlans
    PROVE  Execution(rows, last, plan) \in ImportDbs(last)
<1> DEFINE start == [rows |-> rows, last |-> last, failed |-> FALSE]
           actions == plan.actions
<1>1. last \in Nat /\ last <= last  BY DEF TagsTyped
<1>2. start \in ImportDbs(last)
  <2>1. start.rows = rows /\ start.last = last /\ start.failed \in BOOLEAN
        /\ start = [rows |-> start.rows, last |-> start.last, failed |-> start.failed]
    OBVIOUS
  <2> HIDE DEF start
  <2> QED  BY <1>1, <2>1, ImportDbType
<1>3. Execution(rows, last, plan) = PerformAll(actions, start)
  BY DEF Execution, PerformAll
<1>4. actions \in Seq(ImportActions)  BY DEF ImportPlans
<1> HIDE DEF start, actions
<1>5. PICK g : /\ g \in [0 .. Len(actions) -> ImportDbs(last)] /\ g[0] = start
               /\ \A k \in 1 .. Len(actions) : g[k] = Perform(g[k - 1], actions[k])
               /\ PerformAll(actions, start) = g[Len(actions)]
  BY <1>1, <1>2, <1>4, ExecutionRuns
<1>6. Len(actions) \in 0 .. Len(actions)  BY <1>4, ListType
<1> QED  BY <1>3, <1>5, <1>6


-----------------------------------------------------------------------------
(* The inductive invariant of imports                                      *)

\* What a worker has read and planned; it keeps no plan with errors.
WorkerOK(x) == x.file \in Seq(TagItem) /\ x.plan \in ImportPlans /\ ~ x.plan.errors

\* The inductive invariant of imports, whatever requests overlap.
ImportInv ==
    /\ TagsTyped(tags, lastTag)
    /\ InstancesTyped
    /\ TaskInv
    /\ \A w \in Workers : WorkerOK(import[w])

LEMMA NoPlanTyped ==
    NoPlan \in ImportPlans /\ ~ NoPlan.errors /\ << >> \in Seq(TagItem)
<1>1. << >> \in Seq(ImportActions) /\ FALSE \in BOOLEAN /\ << >> \in Seq(TagItem)  OBVIOUS
<1> QED  BY <1>1 DEF NoPlan, ImportPlans

LEMMA WorkerKept ==
    ASSUME NEW x, IsImport(x), WorkerOK(x), NEW file \in Seq(TagItem), NEW replace,
           NEW plan_only, NEW plan \in ImportPlans, ~ plan.errors, NEW phase, NEW task
    PROVE  /\ WorkerOK(Moved(x, phase)) /\ WorkerOK(Holding(x, task))
           /\ WorkerOK(Parsed(x, file, replace, plan_only))
           /\ WorkerOK(PlannedAs(x, plan)) /\ WorkerOK(OnlyTask(phase, task))
           /\ WorkerOK(NoImport)
<1>1. /\ "file" \in DOMAIN x /\ "plan" \in DOMAIN x
  BY DEF IsImport
<1>2. Moved(x, phase).file = x.file /\ Moved(x, phase).plan = x.plan
  BY <1>1 DEF Moved
<1>3. Holding(x, task).file = x.file /\ Holding(x, task).plan = x.plan
  BY <1>1 DEF Holding
<1>4. /\ Parsed(x, file, replace, plan_only).file = file
      /\ Parsed(x, file, replace, plan_only).plan = x.plan
  BY <1>1 DEF Parsed
<1>5. PlannedAs(x, plan).file = x.file /\ PlannedAs(x, plan).plan = plan
  BY <1>1 DEF PlannedAs
<1>6. OnlyTask(phase, task).file = << >> /\ OnlyTask(phase, task).plan = NoPlan
  BY DEF OnlyTask, NoImport
<1>7. NoImport.file = << >> /\ NoImport.plan = NoPlan
  BY DEF NoImport
<1> QED  BY <1>2, <1>3, <1>4, <1>5, <1>6, <1>7, NoPlanTyped DEF WorkerOK

\* What the parser makes of a file without errors.
LEMMA ParsedTyped ==
    ASSUME NEW file \in Files, ~ ParseErrors(file)
    PROVE  ParseTags(file) \in Seq(TagItem)
<1>1. file \in Seq(FileRow)  BY TagImportAssumption
<1>2. /\ Len(file) \in Nat /\ DOMAIN file = 1 .. Len(file)
      /\ \A k \in 1 .. Len(file) : file[k] \in FileRow
  BY <1>1, ListType
<1>3. ASSUME NEW k \in 1 .. Len(file) PROVE ParseTags(file)[k] \in TagItem
  <2> DEFINE row == file[k]
             parent == IF row.parent_id = Absent THEN NoParentId ELSE row.parent_id
  <2>1. /\ row \in [id : ExternalIds \cup NotText, value : Values \cup NotText,
                    parent_id : ExternalIds \cup NotText]
        /\ row.id \notin NotText /\ row.value \notin NotText /\ row.parent_id # Malformed
    BY <1>2 DEF FileRow, ParseErrors, RowHasErrors
  <2>2. ParseTags(file)[k] = [row EXCEPT !.parent_id = parent]
    BY <1>2 DEF ParseTags
  <2>3. parent \in ExternalIds \cup {NoParentId}
    BY <2>1 DEF NotText
  <2> HIDE DEF row, parent
  <2>4. ParseTags(file)[k] = [id |-> row.id, value |-> row.value, parent_id |-> parent]
    BY <2>1, <2>2
  <2>5. row.id \in ExternalIds /\ row.value \in Values  BY <2>1
  <2> QED  BY <2>3, <2>4, <2>5 DEF TagItem
<1>4. ParseTags(file) = [k \in 1 .. Len(file) |-> ParseTags(file)[k]]
  BY <1>2 DEF ParseTags
<1> QED  BY <1>2, <1>3, <1>4

\* An order of the tags to delete.
LEMMA OrderTyped ==
    ASSUME NEW rows, NEW last, TagsTyped(rows, last), NEW S \in SUBSET DOMAIN rows,
           NEW order \in Orders(S)
    PROVE  order \in Seq(DOMAIN rows)
<1>1. IsFiniteSet(DOMAIN rows)  BY FinitelyMany DEF TagsTyped
<1>2. IsFiniteSet(S)  BY <1>1, FS_Subset
<1>3. Cardinality(S) \in Nat  BY <1>2, FS_CardinalityType
<1>4. order \in [1 .. Cardinality(S) -> S]  BY DEF Orders
<1> QED  BY <1>3, <1>4

LEMMA ImportsStart ==
    ASSUME ImportInit
    PROVE  ImportInv
<1>1. TaskInv
  <2>1. taskStatus = << >> /\ import = [w \in Workers |-> NoImport]
    BY DEF ImportInit
  <2>2. taskStatus \in Seq(TaskStatus) /\ Len(taskStatus) = 0 /\ DOMAIN taskStatus = {}
    BY <2>1
  <2>3. HoldsTask(NoImport, 0)
    BY DEF HoldsTask, IsImport, NoImport
  <2> QED  BY <2>1, <2>2, <2>3 DEF TaskInv
<1>2. TagsTyped(tags, lastTag)
  <2>1. /\ tags \in Seq(Tag) /\ lastTag = Len(tags)
        /\ \A s, t \in DOMAIN tags :
              tags[s].value = tags[t].value \/ tags[s].external_id = tags[t].external_id => s = t
        /\ \A t \in DOMAIN tags : tags[t].parent \in DOMAIN tags \cup {NoTag}
    BY TagImportAssumption DEF ImportInit
  <2>2. lastTag \in Nat /\ DOMAIN tags = 1 .. lastTag /\ tags \in [1 .. lastTag -> Tag]
    BY <2>1
  <2> QED  BY <2>1, <2>2 DEF TagsTyped
<1>3. InstancesTyped
  BY DEF ImportInit, InstancesTyped
<1>4. \A w \in Workers : WorkerOK(import[w])
  BY NoPlanTyped DEF ImportInit, WorkerOK, NoImport
<1> QED  BY <1>1, <1>2, <1>3, <1>4 DEF ImportInv

LEMMA ImportsStep ==
    ASSUME ImportInv, [ImportNext]_allVars
    PROVE  ImportInv'
<1>1. TaskInv'  BY ImportStepsKeepTasks DEF ImportInv
<1>2. import = [w \in Workers |-> import[w]] /\ \A w \in Workers : IsImport(import[w])
  BY DEF ImportInv, TaskInv, HoldsTask
<1>3. ASSUME NEW w \in Workers, NEW x, WorkerOK(x), Becomes(w, x)
      PROVE  \A v \in Workers : WorkerOK(import'[v])
  <2>1. \A v \in Workers : import'[v] = IF v = w THEN x ELSE import[v]
    BY <1>2, <1>3 DEF Becomes
  <2> QED  BY <1>3, <2>1 DEF ImportInv
<1>4. ASSUME NEW w \in Workers, NEW x, WorkerOK(x), Becomes(w, x), UNCHANGED treeVars
      PROVE  ImportInv'
  <2>1. \A v \in Workers : WorkerOK(import'[v])  BY <1>3, <1>4
  <2>2. TagsTyped(tags, lastTag)' /\ InstancesTyped'
    BY <1>4 DEF ImportInv, treeVars, TagsTyped, InstancesTyped
  <2>3. (\A v \in Workers : WorkerOK(import[v]))'  BY <2>1
  <2> QED  BY <1>1, <2>2, <2>3 DEF ImportInv
<1>5. \A w \in Workers : \A status : Finish(w, status) => Becomes(w, NoImport)
  BY DEF Finish, Becomes
<1>6. WorkerOK(NoImport)
  BY NoPlanTyped DEF WorkerOK, NoImport
<1>7. ASSUME NEW w \in Workers, StartImport(w) PROVE ImportInv'
  <2> DEFINE x == Moved(import[w], "checked")
  <2>1. Becomes(w, x) /\ UNCHANGED treeVars
    BY <1>2, <1>7 DEF StartImport, GoOn, Becomes, Moved, treeVars
  <2>2. WorkerOK(x)
    BY <1>2, WorkerKept, NoPlanTyped DEF ImportInv
  <2> HIDE DEF x
  <2> QED  BY <1>4, <2>1, <2>2
<1>8. ASSUME NEW w \in Workers, CreateTask(w) PROVE ImportInv'
  <2> DEFINE x == Holding(import[w], Len(taskStatus) + 1)
  <2>1. Becomes(w, x) /\ UNCHANGED treeVars
    BY <1>2, <1>8 DEF CreateTask, Becomes, Holding
  <2>2. WorkerOK(x)
    BY <1>2, WorkerKept, NoPlanTyped DEF ImportInv
  <2> HIDE DEF x
  <2> QED  BY <1>4, <2>1, <2>2
<1>9. ASSUME NEW w \in Workers, NEW file \in Files, NEW replace, NEW plan_only,
             ParseFile(w, file, replace, plan_only)
      PROVE  ImportInv'
  <2>1. UNCHANGED treeVars  BY <1>9 DEF ParseFile
  <2>2. CASE ParseErrors(file)
    <3>1. Becomes(w, NoImport)  BY <1>5, <1>9, <2>2 DEF ParseFile
    <3> QED  BY <1>4, <1>6, <2>1, <3>1
  <2>3. CASE ~ ParseErrors(file)
    <3> DEFINE items == ParseTags(file)
               x == Parsed(import[w], items, replace, plan_only)
    <3>1. Becomes(w, x)
      BY <1>2, <1>9, <2>3 DEF ParseFile, Becomes, Parsed
    <3>2. items \in Seq(TagItem)  BY <2>3, ParsedTyped
    <3> HIDE DEF items
    <3>3. WorkerOK(x)
      BY <1>2, <3>2, WorkerKept, NoPlanTyped DEF ImportInv
    <3> HIDE DEF x
    <3> QED  BY <1>4, <2>1, <3>1, <3>3
  <2> QED  BY <2>2, <2>3
<1>10. ASSUME NEW w \in Workers, PlanActions(w) PROVE ImportInv'
  <2> DEFINE file == import[w].file
             doomed == Doomed(tags, file)
             replace == import[w].replace
             Made(order) == GenerateActions(tags, file, replace, order)
  <2>1. UNCHANGED treeVars  BY <1>10 DEF PlanActions
  <2>2. PICK order \in Orders(doomed) :
          \/ Finish(w, "error") \/ Finish(w, "success")
          \/ /\ ~ Made(order).errors
             /\ import' = [import EXCEPT ![w].phase = "planned", ![w].plan = Made(order)]
    <3> HIDE DEF Finish, SetStatus, GenerateActions
    <3> QED  BY <1>10 DEF PlanActions
  <2>3. CASE Finish(w, "error") \/ Finish(w, "success")
    <3>1. Becomes(w, NoImport)  BY <1>5, <2>3
    <3> QED  BY <1>4, <1>6, <2>1, <3>1
  <2>4. CASE /\ ~ Made(order).errors
             /\ import' = [import EXCEPT ![w].phase = "planned", ![w].plan = Made(order)]
    <3>1. Made(order) \in ImportPlans
      <4>1. doomed \in SUBSET DOMAIN tags  BY DEF Doomed
      <4>2. TagsTyped(tags, lastTag) /\ file \in Seq(TagItem)  BY DEF ImportInv, WorkerOK
      <4> HIDE DEF doomed, file, replace
      <4>3. order \in Seq(DOMAIN tags)  BY <4>1, <4>2, OrderTyped
      <4> QED  BY <4>2, <4>3, PlanTyped
    <3> DEFINE plan == Made(order)
               x == PlannedAs(import[w], plan)
    <3>2. Becomes(w, x)
      BY <1>2, <2>4 DEF Becomes, PlannedAs
    <3>3. plan \in ImportPlans /\ ~ plan.errors  BY <2>4, <3>1
    <3> HIDE DEF plan
    <3>4. WorkerOK(x)
      BY <1>2, <3>3, WorkerKept, NoPlanTyped DEF ImportInv
    <3> HIDE DEF x
    <3> QED  BY <1>4, <2>1, <3>2, <3>4
  <2> QED  BY <2>2, <2>3, <2>4
<1>11. ASSUME NEW w \in Workers, ExecutePlan(w) PROVE ImportInv'
  <2> DEFINE plan == import[w].plan
             db == Execution(tags, lastTag, plan)
  <2>1. UNCHANGED instance  BY <1>11 DEF ExecutePlan
  <2>2. CASE db.failed
    <3>1. Finish(w, "error") /\ UNCHANGED treeVars
      BY <1>11, <2>1, <2>2 DEF ExecutePlan, treeVars
    <3>2. Becomes(w, NoImport)  BY <1>5, <3>1
    <3> QED  BY <1>4, <1>6, <3>1, <3>2
  <2>3. CASE ~ db.failed
    <3> DEFINE x == OnlyTask("executed", import[w].task)
    <3>1. tags' = db.rows /\ lastTag' = db.last /\ Becomes(w, x)
      BY <1>11, <2>3 DEF ExecutePlan, Becomes, OnlyTask
    <3>2. WorkerOK(x)
      BY <1>2, WorkerKept, NoPlanTyped DEF ImportInv
    <3> HIDE DEF x
    <3>3. db \in ImportDbs(lastTag)
      <4>1. TagsTyped(tags, lastTag) /\ plan \in ImportPlans  BY DEF ImportInv, WorkerOK
      <4> HIDE DEF plan
      <4> QED  BY <4>1, ExecutionTyped
    <3> HIDE DEF db
    <3>4. TagsTyped(db.rows, db.last) /\ lastTag <= db.last /\ lastTag \in Nat /\ db.last \in Nat
      BY <3>3, ImportDbType DEF ImportInv, TagsTyped
    <3>5. TagsTyped(tags, lastTag)'  BY <3>1, <3>4
    <3>6. InstancesTyped'
      BY <2>1, <3>1, <3>4 DEF ImportInv, InstancesTyped
    <3>7. \A v \in Workers : WorkerOK(import'[v])  BY <1>3, <3>1, <3>2
    <3>8. (\A v \in Workers : WorkerOK(import[v]))'  BY <3>7
    <3> QED  BY <1>1, <3>5, <3>6, <3>8 DEF ImportInv
  <2> QED  BY <2>2, <2>3
<1>12. ASSUME NEW w \in Workers, EndImport(w) PROVE ImportInv'
  <2>1. Becomes(w, NoImport) /\ UNCHANGED treeVars  BY <1>5, <1>12 DEF EndImport
  <2> QED  BY <1>4, <1>6, <2>1
<1>13. ASSUME NEW w \in Workers, Crash(w) PROVE ImportInv'
  <2> DEFINE x == OnlyTask("crashed", import[w].task)
  <2>1. Becomes(w, x) /\ UNCHANGED treeVars
    BY <1>13 DEF Crash, Becomes, OnlyTask, treeVars
  <2>2. WorkerOK(x)
    BY <1>2, WorkerKept, NoPlanTyped DEF ImportInv
  <2> HIDE DEF x
  <2> QED  BY <1>4, <2>1, <2>2
<1>14. CASE Edit /\ UNCHANGED importVars
  <2>1. TagsTyped(tags, lastTag)' /\ InstancesTyped'
    BY <1>14, EditTyped DEF ImportInv
  <2>2. (\A v \in Workers : WorkerOK(import[v]))'
    BY <1>14 DEF ImportInv, importVars, WorkerOK
  <2> QED  BY <1>1, <2>1, <2>2 DEF ImportInv
<1>15. CASE UNCHANGED allVars
  <2>1. TagsTyped(tags, lastTag)' /\ InstancesTyped'
    BY <1>15 DEF ImportInv, allVars, TagsTyped, InstancesTyped
  <2>2. (\A v \in Workers : WorkerOK(import[v]))'
    BY <1>15 DEF ImportInv, allVars, WorkerOK
  <2> QED  BY <1>1, <2>1, <2>2 DEF ImportInv
<1> QED
  BY <1>7, <1>8, <1>9, <1>10, <1>11, <1>12, <1>13, <1>14, <1>15 DEF ImportNext

LEMMA ImportsInvariance == ImportSpec => []ImportInv
BY ImportsStart, ImportsStep, PTL DEF ImportSpec

LEMMA ImportTypes ==
    ASSUME ImportInv
    PROVE  ImportTypeOK
<1>1. TypeOK
  BY DEF ImportInv, TagsTyped, InstancesTyped, TypeOK
<1>2. taskStatus \in Seq(TaskStatus)
      /\ \A w \in Workers : import[w].task \in 0 .. Len(taskStatus)
  BY DEF ImportInv, TaskInv, HoldsTask
<1>3. \A w \in Workers : import[w].file \in Seq(TagItem) /\ import[w].plan.errors = FALSE
  BY DEF ImportInv, WorkerOK, ImportPlans
<1> QED  BY <1>1, <1>2, <1>3 DEF ImportTypeOK


-----------------------------------------------------------------------------
(* Orders by lineage list parents first                                    *)

\* The order of lineages that an order of the values makes.
ValueAt(rank, v) == CHOOSE n \in DOMAIN rank : rank[n] = v

ComesBefore(rank, a, b) ==
    \/ IsStrictPrefix(a, b)
    \/ \E n \in DOMAIN a \cap DOMAIN b :
         /\ SubSeq(a, 1, n - 1) = SubSeq(b, 1, n - 1)
         /\ ValueAt(rank, a[n]) < ValueAt(rank, b[n])

\* No lineage comes before itself, nor before one that it continues.
LEMMA NotBefore ==
    ASSUME NEW rank \in Orders(Values), NEW a \in Seq(Values), NEW v \in Values
    PROVE  ~ ComesBefore(rank, a, a) /\ ~ ComesBefore(rank, Append(a, v), a)
<1>1. \A x \in Values : ValueAt(rank, x) \in Nat
  <2> DEFINE n == Cardinality(Values)
  <2>1. n \in Nat  BY TagImportAssumption, FS_CardinalityType
  <2>2. rank \in [1 .. n -> Values] /\ \A x \in Values : \E k \in DOMAIN rank : rank[k] = x
    BY DEF Orders
  <2> HIDE DEF n
  <2>3. \A x \in Values : ValueAt(rank, x) \in DOMAIN rank
    BY <2>2 DEF ValueAt
  <2> QED  BY <2>1, <2>2, <2>3
<1> DEFINE b == Append(a, v)
<1>2. /\ Len(a) \in Nat /\ DOMAIN a = 1 .. Len(a) /\ \A k \in 1 .. Len(a) : a[k] \in Values
  BY ListType
<1>3. /\ Len(b) = Len(a) + 1 /\ \A k \in 1 .. Len(a) : b[k] = a[k]
  BY <1>2, AppendProperties
<1> HIDE DEF b
<1>4. ~ IsStrictPrefix(a, a)
  BY DEF IsStrictPrefix
<1>5. ~ IsStrictPrefix(b, a)
  BY <1>2, <1>3 DEF IsStrictPrefix, IsPrefix
<1>6. ASSUME NEW n \in DOMAIN a PROVE ~ (ValueAt(rank, a[n]) < ValueAt(rank, a[n]))
  <2>1. ValueAt(rank, a[n]) \in Nat  BY <1>1, <1>2
  <2> QED  BY <2>1
<1>7. ~ ComesBefore(rank, a, a)
  BY <1>4, <1>6 DEF ComesBefore
<1>8. ~ ComesBefore(rank, b, a)
  BY <1>2, <1>3, <1>5, <1>6 DEF ComesBefore
<1> QED  BY <1>7, <1>8 DEF b

\* An order by lineage lists every tag once, parents before their children.
Listed(order, n) ==
    /\ n \in Nat /\ order \in [1 .. n -> DOMAIN tags]
    /\ \A t \in DOMAIN tags : \E k \in 1 .. n : order[k] = t
    /\ \A j, k \in 1 .. n : order[j] = order[k] => j = k
    /\ \A j, k \in 1 .. n : tags[order[k]].parent = order[j] => j < k

LEMMA ParentsFirst ==
    ASSUME TagsTyped(tags, lastTag), LineageFollowsParent, NEW order \in LineageOrders(tags)
    PROVE  \E n : Listed(order, n)
<1> DEFINE n == Cardinality(DOMAIN tags)
<1>1. n \in Nat
  BY FinitelyMany, FS_CardinalityType DEF TagsTyped
<1>2. /\ order \in [1 .. n -> DOMAIN tags]
      /\ \A t \in DOMAIN tags : \E k \in 1 .. n : order[k] = t
  BY DEF LineageOrders, Orders
<1>3. PICK rank \in Orders(Values) :
          \A j, k \in DOMAIN order :
              j < k => ComesBefore(rank, tags[order[j]].lineage, tags[order[k]].lineage)
  BY DEF LineageOrders, ComesBefore, ValueAt
<1> HIDE DEF n
<1>4. \A t \in DOMAIN tags : tags[t].value \in Values /\ tags[t].lineage \in Seq(Values)
  BY DEF TagsTyped, Tag
<1>5. \A j, k \in 1 .. n :
          j < k => ComesBefore(rank, tags[order[j]].lineage, tags[order[k]].lineage)
  BY <1>2, <1>3
<1>6. ASSUME NEW j \in 1 .. n, NEW k \in 1 .. n, order[j] = order[k] PROVE j = k
  <2>1. tags[order[k]].lineage \in Seq(Values)  BY <1>2, <1>4
  <2>2. tags[order[k]].value \in Values  BY <1>2, <1>4
  <2>3. ~ ComesBefore(rank, tags[order[k]].lineage, tags[order[k]].lineage)
    BY <2>1, <2>2, NotBefore
  <2>4. ~ (j < k) /\ ~ (k < j)  BY <1>5, <1>6, <2>3
  <2> QED  BY <1>1, <2>4
<1>7. ASSUME NEW j \in 1 .. n, NEW k \in 1 .. n, tags[order[k]].parent = order[j]
      PROVE  j < k
  <2> DEFINE t == order[k]
             p == order[j]
  <2>1. t \in DOMAIN tags /\ p \in DOMAIN tags /\ p # NoTag
    BY <1>2 DEF TagsTyped, NoTag
  <2>2. tags[t].parent # NoTag  BY <1>7, <2>1
  <2>3. /\ tags[t].lineage = Append(tags[p].lineage, tags[t].value)
        /\ tags[t].depth = tags[p].depth + 1
    BY <1>7, <2>1, <2>2 DEF LineageFollowsParent
  <2>4. tags[p].lineage \in Seq(Values) /\ tags[t].value \in Values  BY <1>4, <2>1
  <2>5. ~ ComesBefore(rank, tags[t].lineage, tags[p].lineage)
    BY <2>3, <2>4, NotBefore
  <2>6. ~ (k < j)  BY <1>5, <2>5
  <2>7. j # k
    <3>1. tags[p].depth \in Int  BY <2>1 DEF TagsTyped, Tag
    <3> QED  BY <2>3, <3>1
  <2> QED  BY <1>1, <2>6, <2>7
<1> QED  BY <1>1, <1>2, <1>6, <1>7 DEF Listed


-----------------------------------------------------------------------------
(* An export changes nothing in its own taxonomy                           *)

\* What a tag says of its parent in a file.
ParentId(t) == IF tags[t].parent = NoTag THEN NoParentId ELSE tags[tags[t].parent].external_id

LEMMA Exported ==
    ASSUME TagsTyped(tags, lastTag), LineageFollowsParent, NEW order, NEW n, Listed(order, n)
    PROVE  /\ Export(tags, order) \in Seq(TagItem) /\ Len(Export(tags, order)) = n
           /\ \A k \in 1 .. n :
                 /\ Export(tags, order)[k] \in TagItem
                 /\ Export(tags, order)[k].id = tags[order[k]].external_id
                 /\ Export(tags, order)[k].value = tags[order[k]].value
                 /\ Export(tags, order)[k].parent_id = ParentId(order[k])
<1> DEFINE file == Export(tags, order)
<1>1. n \in Nat /\ order \in [1 .. n -> DOMAIN tags]  BY DEF Listed
<1>2. ASSUME NEW k \in 1 .. n
      PROVE  /\ file[k] \in TagItem /\ file[k].id = tags[order[k]].external_id
             /\ file[k].value = tags[order[k]].value /\ file[k].parent_id = ParentId(order[k])
  <2> DEFINE t == order[k]
             parent == ParentId(t)
  <2>1. t \in DOMAIN tags  BY <1>1
  <2>2. file[k] = [id |-> tags[t].external_id, value |-> tags[t].value, parent_id |-> parent]
    BY <1>1 DEF Export, ParentId
  <2>3. tags[t].external_id \in ExternalIds /\ tags[t].value \in Values
    BY <2>1 DEF TagsTyped, Tag
  <2>4. parent \in ExternalIds \cup {NoParentId}
    <3>1. tags[t].parent # NoTag => tags[t].parent \in DOMAIN tags
      BY <2>1 DEF LineageFollowsParent
    <3>2. tags[t].parent # NoTag => tags[tags[t].parent].external_id \in ExternalIds
      BY <3>1 DEF TagsTyped, Tag
    <3> QED  BY <3>2 DEF ParentId
  <2> HIDE DEF t, parent
  <2>5. file[k] \in TagItem  BY <2>2, <2>3, <2>4 DEF TagItem
  <2> QED  BY <2>2, <2>5 DEF t, parent
<1>3. file = [k \in 1 .. n |-> file[k]]  BY <1>1 DEF Export
<1> HIDE DEF file
<1>4. file \in Seq(TagItem) /\ Len(file) = n
  <2>1. \A k \in 1 .. n : file[k] \in TagItem  BY <1>2
  <2>2. file \in [1 .. n -> TagItem]  BY <1>3, <2>1
  <2> QED  BY <1>1, <2>2
<1> QED  BY <1>2, <1>4 DEF file

\* A plan without errors that changes nothing.
Idles(plan) ==
    ~ plan.errors /\ \A k \in DOMAIN plan.actions : plan.actions[k].name = "without_changes"

\* An item that says what the tag is already asks for nothing.
LEMMA ItemUnchanged ==
    ASSUME NEW last, NEW rows, TagsTyped(rows, last), NEW item \in TagItem, NEW t \in DOMAIN rows,
           item.id = rows[t].external_id, item.value = rows[t].value,
           rows[t].parent = NoTag => item.parent_id = NoParentId,
           rows[t].parent # NoTag => item.parent_id = rows[rows[t].parent].external_id,
           NEW plan \in ImportPlans, Idles(plan)
    PROVE  BuildItem(rows, plan, item) \in ImportPlans /\ Idles(BuildItem(rows, plan, item))
<1> DEFINE a == Action("without_changes", item)
           after == BuildItem(rows, plan, item)
<1>1. Exists(rows, item.id) /\ KeyOf(rows, item.id) = t
  BY DEF Exists, KeyOf, TagsTyped
<1>2. ~ UpdateParentApplies(rows, item)
  BY <1>1 DEF UpdateParentApplies
<1>3. ~ RenameApplies(rows, item) /\ ~ CreateApplies(rows, item)
  BY <1>1 DEF RenameApplies, CreateApplies
<1>4. after = BuildAction(rows, plan, a)
  BY <1>2, <1>3 DEF BuildItem
<1>5. a.name = "without_changes"  BY DEF Action
<1>6. ~ Invalid(rows, plan, a)
  BY <1>5 DEF Invalid
<1>7. a \in ImportActions  BY ActionTyped DEF TagItem
<1> HIDE DEF a
<1>8. after \in ImportPlans  BY <1>4, <1>7, BuiltAction
<1> DEFINE s == plan.actions
           u == Append(s, a)
<1>9. s \in Seq(ImportActions) /\ DOMAIN s = 1 .. Len(s) /\ Len(s) \in Nat
  BY ListType DEF ImportPlans
<1>10. /\ after.actions = u /\ DOMAIN u = 1 .. Len(s) + 1
       /\ u[Len(s) + 1] = a /\ \A k \in 1 .. Len(s) : u[k] = s[k]
  BY <1>4, <1>7, <1>9, AppendProperties DEF BuildAction
<1>11. ~ after.errors
  <2> DEFINE errors == plan.errors \/ Invalid(rows, plan, a)
  <2>1. after.errors = errors  BY <1>4 DEF BuildAction
  <2>2. ~ errors  BY <1>6 DEF Idles
  <2> HIDE DEF errors, after
  <2> QED  BY <2>1, <2>2
<1> HIDE DEF after, u
<1>12. ASSUME NEW k \in DOMAIN after.actions PROVE after.actions[k].name = "without_changes"
  <2>1. CASE k = Len(s) + 1  BY <1>5, <1>10, <2>1
  <2>2. CASE k # Len(s) + 1
    <3>1. k \in 1 .. Len(s)  BY <1>9, <1>10, <2>2
    <3> QED  BY <1>9, <1>10, <3>1 DEF Idles
  <2> QED  BY <2>1, <2>2
<1>13. Idles(after)  BY <1>11, <1>12 DEF Idles
<1> QED  BY <1>8, <1>13 DEF after

\* An export of a taxonomy changes nothing in it, even where it replaces.
LEMMA OwnExportIdles ==
    ASSUME TagsTyped(tags, lastTag), LineageFollowsParent, NEW order, NEW n, Listed(order, n)
    PROVE  Idles(GenerateActions(tags, Export(tags, order), TRUE, << >>))
<1> DEFINE file == Export(tags, order)
           none == << >>
           doomed == Doomed(tags, file)
           start == NoPlan
           plan == GenerateActions(tags, file, TRUE, none)
<1>1. /\ file \in Seq(TagItem) /\ Len(file) = n
      /\ \A k \in 1 .. n : /\ file[k] \in TagItem /\ file[k].id = tags[order[k]].external_id
                           /\ file[k].value = tags[order[k]].value
                           /\ file[k].parent_id = ParentId(order[k])
  BY Exported
<1>2. plan = BuildItems(tags, BuildDeletes(tags, doomed, start, none), file)
  BY DEF GenerateActions
<1>3. none \in Seq(DOMAIN tags) /\ Len(none) = 0  OBVIOUS
<1>4. start \in ImportPlans /\ Idles(start)
  BY NoPlanTyped DEF NoPlan, Idles
<1> HIDE DEF file, none, doomed, start
<1>5. PICK h : /\ h \in [0 .. Len(none) -> ImportPlans] /\ h[0] = start
               /\ \A k \in 1 .. Len(none) :
                     h[k] = BuildDelete(tags, doomed, h[k - 1], none[k])
               /\ BuildDeletes(tags, doomed, start, none) = h[Len(none)]
  <2>1. none \in Seq(DOMAIN tags) /\ start \in ImportPlans /\ doomed \in SUBSET DOMAIN tags
    BY <1>3, <1>4 DEF doomed, Doomed
  <2> QED  BY <2>1, DeletesRun
<1>6. plan = BuildItems(tags, start, file)  BY <1>2, <1>3, <1>5
<1> HIDE DEF plan
<1>7. PICK g : /\ g \in [0 .. Len(file) -> ImportPlans] /\ g[0] = start
               /\ \A k \in 1 .. Len(file) : g[k] = BuildItem(tags, g[k - 1], file[k])
               /\ BuildItems(tags, start, file) = g[Len(file)]
  <2>1. file \in Seq(TagItem) /\ start \in ImportPlans  BY <1>1, <1>4
  <2> QED  BY <2>1, ItemsRun
<1>8. n \in Nat /\ order \in [1 .. n -> DOMAIN tags]  BY DEF Listed
<1> DEFINE S == {k \in 0 .. n : Idles(g[k])}
<1>9. 0 \in S  BY <1>4, <1>7, <1>8
<1>10. ASSUME NEW k \in 1 .. n, k - 1 \in S PROVE k \in S
  <2> DEFINE item == file[k]
             before == g[k - 1]
             t == order[k]
  <2>1. before \in ImportPlans /\ Idles(before) /\ g[k] = BuildItem(tags, before, item)
    BY <1>1, <1>7, <1>8, <1>10
  <2>2. /\ item \in TagItem /\ t \in DOMAIN tags /\ item.id = tags[t].external_id
        /\ item.value = tags[t].value /\ item.parent_id = ParentId(t)
    BY <1>1, <1>8
  <2> HIDE DEF item, before, t
  <2>3. /\ tags[t].parent = NoTag => item.parent_id = NoParentId
        /\ tags[t].parent # NoTag => item.parent_id = tags[tags[t].parent].external_id
    BY <2>2 DEF ParentId
  <2>4. Idles(g[k])  BY <2>1, <2>2, <2>3, ItemUnchanged
  <2> QED  BY <1>8, <2>4
<1>11. n \in S
  <2> HIDE DEF S
  <2>1. 0 .. n \subseteq S  BY <1>8, <1>9, <1>10, RoundByRound
  <2> QED  BY <1>8, <2>1
<1>12. Idles(plan)  BY <1>1, <1>6, <1>7, <1>11
<1> QED  BY <1>12 DEF plan, file, none


-----------------------------------------------------------------------------
(* An export creates every tag in an empty taxonomy                        *)

\* A file that names every tag once, and parents before their children.
Importable(file) ==
    /\ \A j, k \in 1 .. Len(file) :
          file[j].id = file[k].id \/ file[j].value = file[k].value => j = k
    /\ \A k \in 1 .. Len(file) :
          file[k].parent_id # NoParentId =>
              \E j \in 1 .. Len(file) : j < k /\ file[j].id = file[k].parent_id

LEMMA ExportIsImportable ==
    ASSUME TagsTyped(tags, lastTag), LineageFollowsParent, NEW order, NEW n, Listed(order, n)
    PROVE  Importable(Export(tags, order))
<1> DEFINE file == Export(tags, order)
<1>1. /\ Len(file) = n
      /\ \A k \in 1 .. n : /\ file[k].id = tags[order[k]].external_id
                           /\ file[k].value = tags[order[k]].value
                           /\ file[k].parent_id = ParentId(order[k])
  BY Exported
<1> HIDE DEF file
<1>2. n \in Nat /\ order \in [1 .. n -> DOMAIN tags]  BY DEF Listed
<1>3. ASSUME NEW j \in 1 .. n, NEW k \in 1 .. n,
             file[j].id = file[k].id \/ file[j].value = file[k].value
      PROVE  j = k
  <2>1. order[j] \in DOMAIN tags /\ order[k] \in DOMAIN tags  BY <1>2
  <2>2. order[j] = order[k]  BY <1>1, <1>3, <2>1 DEF TagsTyped
  <2> QED  BY <2>2 DEF Listed
<1>4. ASSUME NEW k \in 1 .. n, file[k].parent_id # NoParentId
      PROVE  \E j \in 1 .. n : j < k /\ file[j].id = file[k].parent_id
  <2> DEFINE t == order[k]
             p == tags[t].parent
  <2>1. t \in DOMAIN tags  BY <1>2
  <2>2. p # NoTag /\ file[k].parent_id = tags[p].external_id
    BY <1>1, <1>4 DEF ParentId
  <2>3. p \in DOMAIN tags  BY <2>1, <2>2 DEF LineageFollowsParent
  <2>4. PICK j \in 1 .. n : order[j] = p  BY <2>3 DEF Listed
  <2>5. j < k  BY <2>4 DEF Listed
  <2>6. file[j].id = tags[p].external_id  BY <1>1, <2>4
  <2> QED  BY <2>2, <2>5, <2>6
<1>5. Importable(file)  BY <1>1, <1>3, <1>4 DEF Importable
<1> QED  BY <1>5 DEF file

\* A plan to create the tags of the first k items.
Creates(plan, file, k) ==
    /\ plan \in ImportPlans /\ ~ plan.errors /\ Len(plan.actions) = k
    /\ \A i \in 1 .. k : plan.actions[i] = Action("create", file[i])

LEMMA ItemCreated ==
    ASSUME NEW rows, DOMAIN rows = {}, NEW file \in Seq(TagItem), Importable(file),
           NEW k \in 1 .. Len(file), NEW plan, Creates(plan, file, k - 1)
    PROVE  Creates(BuildItem(rows, plan, file[k]), file, k)
<1> DEFINE item == file[k]
           a == Action("create", item)
           s == plan.actions
           u == Append(s, a)
           after == BuildItem(rows, plan, item)
<1>1. /\ item \in TagItem /\ Len(file) \in Nat /\ k \in Nat
      /\ \A i \in 1 .. Len(file) : file[i] \in TagItem
  BY ListType
<1>2. /\ s \in Seq(ImportActions) /\ Len(s) = k - 1 /\ DOMAIN s = 1 .. k - 1
      /\ \A i \in 1 .. k - 1 : s[i] = Action("create", file[i])
  <2>1. s \in Seq(ImportActions) /\ Len(s) = k - 1
        /\ \A i \in 1 .. k - 1 : s[i] = Action("create", file[i])
    BY DEF Creates, ImportPlans
  <2> QED  BY <2>1, ListType
<1>3. after = BuildAction(rows, plan, a)
  <2>1. CreateApplies(rows, item)  BY DEF CreateApplies, Exists
  <2> QED  BY <2>1 DEF BuildItem
<1>4. \A name : Planned(plan, name) \subseteq {s[i] : i \in 1 .. k - 1}
  BY <1>2 DEF Planned
<1>5. ASSUME NEW i \in 1 .. k - 1
      PROVE  s[i].name = "create" /\ s[i].id = file[i].id /\ s[i].value = file[i].value
  <2>1. s[i] = [name |-> "create", id |-> file[i].id, value |-> file[i].value,
                parent_id |-> file[i].parent_id]
    BY <1>2 DEF Action
  <2> HIDE DEF s
  <2> QED  BY <2>1
<1>6. a.name = "create" /\ a.id = item.id /\ a.value = item.value /\ a.parent_id = item.parent_id
  BY DEF Action
<1>7. a \in ImportActions  BY <1>1, ActionTyped DEF TagItem
<1> HIDE DEF a, s
<1>8. \A i \in 1 .. k - 1 : file[i].id # item.id /\ file[i].value # item.value
  BY <1>1 DEF Importable
<1>9. ~ UnknownParent(rows, plan, a)
  <2> SUFFICES ASSUME a.parent_id # NoParentId
               PROVE  \E c \in Planned(plan, "create") : c.id = a.parent_id
    BY DEF UnknownParent
  <2>1. PICK j \in 1 .. Len(file) : j < k /\ file[j].id = item.parent_id
    BY <1>6 DEF Importable
  <2>2. j \in 1 .. k - 1  BY <1>1, <2>1
  <2>3. s[j] \in Planned(plan, "create")
    BY <1>2, <1>5, <2>2 DEF Planned, s
  <2> QED  BY <1>5, <1>6, <2>1, <2>2, <2>3
<1>10. ~ DuplicateValue(rows, plan, a)
  BY <1>4, <1>5, <1>6, <1>8 DEF DuplicateValue
<1>11. ~ DuplicateId(plan, a)
  BY <1>4, <1>5, <1>6, <1>8 DEF DuplicateId
<1>12. ~ Invalid(rows, plan, a)
  BY <1>6, <1>9, <1>10, <1>11 DEF Invalid
<1>13. after \in ImportPlans  BY <1>3, <1>7, BuiltAction DEF Creates
<1>14. ~ after.errors
  <2> DEFINE errors == plan.errors \/ Invalid(rows, plan, a)
  <2>1. after.errors = errors  BY <1>3 DEF BuildAction
  <2>2. ~ errors  BY <1>12 DEF Creates
  <2> HIDE DEF errors, after
  <2> QED  BY <2>1, <2>2
<1>15. /\ after.actions = u /\ Len(u) = k /\ u[k] = a
       /\ \A i \in 1 .. k - 1 : u[i] = s[i]
  BY <1>1, <1>2, <1>3, <1>7, AppendProperties DEF BuildAction, s
<1> HIDE DEF after, u, item
<1>16. ASSUME NEW i \in 1 .. k PROVE after.actions[i] = Action("create", file[i])
  <2>1. CASE i = k  BY <1>15, <2>1 DEF a, item
  <2>2. CASE i # k
    <3>1. i \in 1 .. k - 1  BY <1>1, <2>2
    <3> QED  BY <1>2, <1>15, <3>1
  <2> QED  BY <2>1, <2>2
<1>17. Creates(after, file, k)  BY <1>13, <1>14, <1>15, <1>16 DEF Creates
<1> QED  BY <1>17 DEF after, item

\* Into an empty taxonomy an import creates every tag of the file, in its order.
LEMMA CreatedAnew ==
    ASSUME NEW rows, DOMAIN rows = {}, NEW file \in Seq(TagItem), Importable(file), NEW deletes
    PROVE  Creates(GenerateActions(rows, file, FALSE, deletes), file, Len(file))
<1> DEFINE start == NoPlan
           n == Len(file)
<1>1. GenerateActions(rows, file, FALSE, deletes) = BuildItems(rows, start, file)
  BY DEF GenerateActions
<1>2. start \in ImportPlans  BY NoPlanTyped
<1>3. Creates(start, file, 0)
  <2>1. start.actions = << >> /\ ~ start.errors  BY DEF NoPlan
  <2> HIDE DEF start
  <2>2. Len(start.actions) = 0  BY <2>1
  <2> QED  BY <1>2, <2>1, <2>2 DEF Creates
<1> HIDE DEF start
<1>4. PICK plan : plan = BuildItems(rows, start, file)
  OBVIOUS
<1>5. PICK g : /\ g \in [0 .. Len(file) -> ImportPlans] /\ g[0] = start
                /\ \A k \in 1 .. Len(file) : g[k] = BuildItem(rows, g[k - 1], file[k])
                /\ plan = g[Len(file)]
  <2>1. file \in Seq(TagItem) /\ start \in ImportPlans  BY <1>2
  <2> QED  BY <1>4, <2>1, ItemsRun
<1>6. n \in Nat  BY ListType
<1> DEFINE S == {k \in 0 .. n : Creates(g[k], file, k)}
<1>7. 0 \in S  BY <1>3, <1>6, <1>5
<1>8. ASSUME NEW k \in 1 .. n, k - 1 \in S PROVE k \in S
  <2>1. Creates(g[k - 1], file, k - 1)  BY <1>8
  <2>2. Creates(BuildItem(rows, g[k - 1], file[k]), file, k)  BY <2>1, ItemCreated
  <2> QED  BY <1>6, <1>5, <2>2
<1>9. n \in S
  <2> HIDE DEF S
  <2>1. 0 .. n \subseteq S  BY <1>6, <1>7, <1>8, RoundByRound
  <2> QED  BY <1>6, <2>1
<1>10. Creates(plan, file, n)
  <2>1. Creates(g[n], file, n)  BY <1>9
  <2>2. plan = g[n]  BY <1>5
  <2> QED  BY <2>1, <2>2
<1> QED  BY <1>1, <1>4, <1>10


-----------------------------------------------------------------------------
(* The next tag to create can be saved                                     *)

\* Rows 1 to k are copies of the tags listed first, below the copies of their parents.
Remade(db, order, k) ==
    /\ db.failed = FALSE /\ db.last = k /\ DOMAIN db.rows = 1 .. k
    /\ \A i \in 1 .. k :
          /\ db.rows[i].value = tags[order[i]].value
          /\ db.rows[i].external_id = tags[order[i]].external_id
          /\ db.rows[i].depth = tags[order[i]].depth
          /\ tags[order[i]].parent = NoTag => db.rows[i].parent = NoTag
          /\ tags[order[i]].parent # NoTag =>
                db.rows[i].parent \in 1 .. k /\ order[db.rows[i].parent] = tags[order[i]].parent

\* The object that creates the tag listed k-th can be saved, at the right place.
LEMMA NextCanBeSaved ==
    ASSUME TagsTyped(tags, lastTag), LineageFollowsParent, NEW order, NEW n, Listed(order, n),
           \A t \in DOMAIN tags : tags[t].depth <= TAXONOMY_MAX_DEPTH,
           NEW k \in 1 .. n, NEW db \in ImportDbs(0), Remade(db, order, k - 1),
           NEW a \in ImportActions, a.id = tags[order[k]].external_id,
           a.value = tags[order[k]].value, a.parent_id = ParentId(order[k])
    PROVE  LET parent == ParentKey(db.rows, a.parent_id)
               i == NewTag(db.rows, a.value, parent, a.id)
           IN  /\ ParentFound(db.rows, a.parent_id) /\ ~ Exists(db.rows, a.id)
               /\ \A t \in DOMAIN db.rows : db.rows[t].value # a.value
               /\ CanSave(db.rows, i) /\ ExternalId(db.rows, i) = a.id
               /\ ParentValues(db.rows, i).depth + 1 = tags[order[k]].depth
               /\ tags[order[k]].parent = NoTag => parent = NoTag
               /\ tags[order[k]].parent # NoTag =>
                      parent \in 1 .. k - 1 /\ order[parent] = tags[order[k]].parent
<1> DEFINE rows == db.rows
           t == order[k]
           p == tags[t].parent
           parent == ParentKey(rows, a.parent_id)
           i == NewTag(rows, a.value, parent, a.id)
<1>1. /\ n \in Nat /\ k \in Nat /\ t \in DOMAIN tags
      /\ \A j \in 1 .. n : order[j] \in DOMAIN tags
      /\ \A j \in 1 .. k - 1 : j \in 1 .. n /\ j # k
  BY DEF Listed
<1>2. /\ DOMAIN rows = 1 .. k - 1
      /\ \A j \in 1 .. k - 1 : /\ rows[j].value = tags[order[j]].value
                               /\ rows[j].external_id = tags[order[j]].external_id
                               /\ rows[j].depth = tags[order[j]].depth
  BY DEF Remade
<1>3. \A j, m \in DOMAIN rows : rows[j].external_id = rows[m].external_id => j = m
  BY DEF ImportDbs, TagsTyped
<1>4. /\ tags[t].depth \in Int /\ tags[t].depth <= TAXONOMY_MAX_DEPTH
      /\ \A u \in DOMAIN tags : tags[u].external_id \in ExternalIds
  BY <1>1 DEF TagsTyped, Tag
<1> HIDE DEF rows
<1>5. ASSUME NEW j \in 1 .. k - 1
      PROVE  rows[j].value # a.value /\ rows[j].external_id # a.id
  <2>1. order[j] # t  BY <1>1 DEF Listed
  <2>2. order[j] \in DOMAIN tags  BY <1>1
  <2>3. /\ tags[order[j]].value # tags[t].value
        /\ tags[order[j]].external_id # tags[t].external_id
    BY <1>1, <2>1, <2>2 DEF TagsTyped
  <2> QED  BY <1>2, <2>3
<1>6. ~ Exists(rows, a.id) /\ \A u \in DOMAIN rows : rows[u].value # a.value
  BY <1>2, <1>5 DEF Exists
<1>7. p = NoTag => parent = NoTag /\ ParentFound(rows, a.parent_id)
  BY DEF ParentId, ParentKey, ParentFound
<1>8. ASSUME p # NoTag
      PROVE  /\ p \in DOMAIN tags /\ parent \in 1 .. k - 1 /\ order[parent] = p
             /\ ParentFound(rows, a.parent_id)
  <2>1. p \in DOMAIN tags /\ a.parent_id = tags[p].external_id
    BY <1>1, <1>8 DEF LineageFollowsParent, ParentId
  <2>2. PICK j \in 1 .. n : order[j] = p  BY <2>1 DEF Listed
  <2>3. j < k  BY <2>2 DEF Listed
  <2>4. j \in 1 .. k - 1  BY <1>1, <2>3
  <2>5. rows[j].external_id = a.parent_id  BY <1>2, <2>1, <2>2, <2>4
  <2>6. Exists(rows, a.parent_id)  BY <1>2, <2>4, <2>5 DEF Exists
  <2>7. KeyOf(rows, a.parent_id) = j  BY <1>2, <1>3, <2>4, <2>5 DEF KeyOf
  <2>8. a.parent_id # NoParentId
    BY <1>4, <2>1, TagImportAssumption
  <2>9. parent = j  BY <2>7, <2>8 DEF ParentKey
  <2> QED  BY <2>1, <2>2, <2>4, <2>6, <2>9 DEF ParentFound
<1> HIDE DEF parent
<1>9. parent \in DOMAIN rows \cup {NoTag}  BY <1>2, <1>7, <1>8
<1>10. /\ i.pk = NoTag /\ i.value = a.value /\ i.external_id = a.id /\ i.parent = parent
       /\ i.cached = CachedTag(rows, parent)
  BY DEF NewTag
<1> HIDE DEF i
<1>11. DepthAt(rows, parent) + 1 = tags[t].depth
  <2>1. CASE p = NoTag
    <3>1. tags[t].depth = 0  BY <1>1, <2>1 DEF LineageFollowsParent
    <3> QED  BY <1>7, <2>1, <3>1 DEF DepthAt
  <2>2. CASE p # NoTag
    <3>1. tags[t].depth = tags[p].depth + 1  BY <1>1, <2>2 DEF LineageFollowsParent
    <3>2. parent # NoTag /\ parent \in 1 .. k - 1  BY <1>8, <2>2 DEF NoTag
    <3>3. rows[parent].depth = tags[p].depth  BY <1>2, <1>8, <2>2
    <3> QED  BY <3>1, <3>2, <3>3 DEF DepthAt
  <2> QED  BY <2>1, <2>2
<1>12. ParentValues(rows, i).depth = DepthAt(rows, parent)
  BY <1>10, CachedParent
<1>13. ExternalId(rows, i) = a.id
  <2>1. a.id # NoExternalId  BY <1>1, <1>4, TagTreeAssumption DEF ExternalIds
  <2> QED  BY <1>10, <2>1 DEF ExternalId
<1>14. CanSave(rows, i)
  <2>1. ParentValues(rows, i).depth + 1 <= TAXONOMY_MAX_DEPTH
    BY <1>4, <1>11, <1>12
  <2>2. \A u \in DOMAIN rows \ {i.pk} :
            rows[u].value # i.value /\ rows[u].external_id # ExternalId(rows, i)
    BY <1>2, <1>5, <1>10, <1>13
  <2> QED  BY <1>9, <1>10, <2>1, <2>2 DEF CanSave
<1>15. ParentValues(rows, i).depth + 1 = tags[t].depth
  BY <1>11, <1>12
<1> QED  BY <1>6, <1>7, <1>8, <1>13, <1>14, <1>15 DEF rows, parent, i


-----------------------------------------------------------------------------
(* Executing the plan of an export                                         *)

\* What creating that tag leaves.
LEMMA NextIsMade ==
    ASSUME TagsTyped(tags, lastTag), LineageFollowsParent, NEW order, NEW n, Listed(order, n),
           \A t \in DOMAIN tags : tags[t].depth <= TAXONOMY_MAX_DEPTH,
           NEW k \in 1 .. n, NEW db \in ImportDbs(0), Remade(db, order, k - 1),
           NEW a \in ImportActions, a.name = "create", a.id = tags[order[k]].external_id,
           a.value = tags[order[k]].value, a.parent_id = ParentId(order[k])
    PROVE  Remade(Perform(db, a), order, k)
<1> DEFINE rows == db.rows
           t == order[k]
           parent == ParentKey(rows, a.parent_id)
           i == NewTag(rows, a.value, parent, a.id)
           new == SavedTag(rows, i)
           made == Saved(rows, db.last, i)
           after == Perform(db, a)
<1>1. /\ ParentFound(rows, a.parent_id) /\ ~ Exists(rows, a.id)
      /\ \A u \in DOMAIN rows : rows[u].value # a.value
      /\ CanSave(rows, i) /\ ExternalId(rows, i) = a.id
      /\ ParentValues(rows, i).depth + 1 = tags[t].depth
      /\ tags[t].parent = NoTag => parent = NoTag
      /\ tags[t].parent # NoTag =>
             parent \in 1 .. k - 1 /\ order[parent] = tags[t].parent
  BY NextCanBeSaved
<1>2. /\ db = [rows |-> rows, last |-> db.last, failed |-> db.failed]
      /\ ~ db.failed /\ db.last = k - 1 /\ DOMAIN rows = 1 .. k - 1 /\ k \in Nat
  BY ImportDbType DEF Remade, Listed
<1>3. i.pk = NoTag /\ i.value = a.value /\ i.parent = parent
  BY DEF NewTag
<1> HIDE DEF rows, parent
<1>4. after = SaveIn(db, i)
  <2> DEFINE clash == \/ ~ ParentFound(rows, a.parent_id) \/ Exists(rows, a.id)
                      \/ \E u \in DOMAIN rows : rows[u].value = a.value
  <2>1. after = IF clash THEN Failed(db) ELSE SaveIn(db, i)
    BY <1>2, Performed DEF rows, parent
  <2>2. ~ clash  BY <1>1
  <2> HIDE DEF clash, after, i
  <2> QED  BY <2>1, <2>2
<1>5. new.value = a.value /\ new.external_id = a.id /\ new.parent = parent
      /\ new.depth = tags[t].depth
  BY <1>1, <1>3 DEF SavedTag
<1> HIDE DEF i, new
<1>6. made = Put(rows, k, new)
  <2>1. SavedKey(db.last, i) = k /\ k \notin DOMAIN rows
    BY <1>2, <1>3 DEF SavedKey
  <2> QED  BY <2>1 DEF Saved, Put, new
<1> HIDE DEF made, after
<1>7. after = [rows |-> made, last |-> k, failed |-> db.failed]
  <2>1. SaveIn(db, i) = [db EXCEPT !.rows = made, !.last = db.last + 1]
    BY <1>1, <1>3 DEF SaveIn, made, rows
  <2>2. db.last + 1 = k  BY <1>2
  <2> QED  BY <1>2, <1>4, <2>1, <2>2
<1>8. /\ DOMAIN made = 1 .. k /\ made[k] = new
      /\ \A j \in 1 .. k - 1 : made[j] = rows[j]
  BY <1>2, <1>6 DEF Put
<1>9. ASSUME NEW j \in 1 .. k
      PROVE  /\ made[j].value = tags[order[j]].value
             /\ made[j].external_id = tags[order[j]].external_id
             /\ made[j].depth = tags[order[j]].depth
             /\ tags[order[j]].parent = NoTag => made[j].parent = NoTag
             /\ tags[order[j]].parent # NoTag =>
                   made[j].parent \in 1 .. k /\ order[made[j].parent] = tags[order[j]].parent
  <2>1. CASE j = k
    <3>1. 1 .. k - 1 \subseteq 1 .. k  BY <1>2
    <3> QED  BY <1>1, <1>5, <1>8, <2>1, <3>1
  <2>2. CASE j # k
    <3>1. j \in 1 .. k - 1 /\ 1 .. k - 1 \subseteq 1 .. k  BY <1>2, <2>2
    <3>2. made[j] = rows[j]  BY <1>8, <3>1
    <3> QED  BY <3>1, <3>2 DEF Remade, rows
  <2> QED  BY <2>1, <2>2
<1>10. after.failed = FALSE
  <2>1. db.failed = FALSE  BY DEF Remade
  <2> QED  BY <1>7, <2>1
<1>11. after.last = k /\ after.rows = made  BY <1>7
<1>12. Remade(after, order, k)
  BY <1>8, <1>9, <1>10, <1>11 DEF Remade
<1> QED  BY <1>12 DEF after

\* The plan made of an export makes every tag again.
LEMMA ExportIsRemade ==
    ASSUME TagsTyped(tags, lastTag), LineageFollowsParent, NEW order, NEW n, Listed(order, n),
           \A t \in DOMAIN tags : tags[t].depth <= TAXONOMY_MAX_DEPTH,
           NEW plan, Creates(plan, Export(tags, order), n)
    PROVE  Remade(Execution(<< >>, 0, plan), order, n)
<1> DEFINE file == Export(tags, order)
           s == plan.actions
           start == [rows |-> << >>, last |-> 0, failed |-> FALSE]
           first == 0
           made == Execution(<< >>, 0, plan)
<1>1. made = PerformAll(s, start)
  BY DEF Execution, PerformAll
<1>2. start \in ImportDbs(first) /\ first \in Nat
  <2> DEFINE rows == << >>
  <2>1. TagsTyped(rows, 0)
    <3>1. DOMAIN rows = {}  OBVIOUS
    <3>2. rows \in [DOMAIN rows -> Tag]  OBVIOUS
    <3> HIDE DEF rows
    <3> QED  BY <3>1, <3>2 DEF TagsTyped
  <2>2. start = [rows |-> start.rows, last |-> start.last, failed |-> start.failed]
        /\ start.rows = rows /\ start.last = 0 /\ start.failed \in BOOLEAN
    OBVIOUS
  <2> HIDE DEF start, rows
  <2>3. TagsTyped(start.rows, start.last) /\ first <= start.last
    BY <2>1, <2>2
  <2> QED  BY <2>2, <2>3, ImportDbType
<1>3. Remade(start, order, 0)
  <2>1. DOMAIN start.rows = {} /\ start.last = 0 /\ start.failed = FALSE  OBVIOUS
  <2> HIDE DEF start
  <2> QED  BY <2>1 DEF Remade
<1>4. /\ s \in Seq(ImportActions) /\ Len(s) = n /\ n \in Nat
      /\ \A k \in 1 .. n : s[k] = Action("create", file[k])
  BY DEF Creates, ImportPlans, Listed
<1>5. \A k \in 1 .. n : /\ file[k].id = tags[order[k]].external_id
                        /\ file[k].value = tags[order[k]].value
                        /\ file[k].parent_id = ParentId(order[k])
  BY Exported
<1> HIDE DEF file, s, start, first, made
<1>6. PICK g : /\ g \in [0 .. Len(s) -> ImportDbs(first)] /\ g[0] = start
               /\ \A k \in 1 .. Len(s) : g[k] = Perform(g[k - 1], s[k])
               /\ PerformAll(s, start) = g[Len(s)]
  BY <1>2, <1>4, ExecutionRuns
<1> DEFINE S == {k \in 0 .. n : Remade(g[k], order, k)}
<1>7. 0 \in S  BY <1>3, <1>4, <1>6
<1>8. ASSUME NEW k \in 1 .. n, k - 1 \in S PROVE k \in S
  <2> DEFINE db == g[k - 1]
             a == s[k]
  <2>1. Remade(db, order, k - 1) /\ g[k] = Perform(db, a)  BY <1>4, <1>6, <1>8
  <2>2. db \in ImportDbs(0)  BY <1>4, <1>6 DEF first
  <2>3. a \in ImportActions  BY <1>4, ListType
  <2>4. a = [name |-> "create", id |-> file[k].id, value |-> file[k].value,
             parent_id |-> file[k].parent_id]
    BY <1>4 DEF Action
  <2> HIDE DEF db, a
  <2>5. /\ a.name = "create" /\ a.id = tags[order[k]].external_id
        /\ a.value = tags[order[k]].value /\ a.parent_id = ParentId(order[k])
    BY <1>5, <2>4
  <2>6. Remade(g[k], order, k)  BY <2>1, <2>2, <2>3, <2>5, NextIsMade
  <2> QED  BY <1>4, <2>6
<1>9. n \in S
  <2> HIDE DEF S
  <2>1. 0 .. n \subseteq S  BY <1>4, <1>7, <1>8, RoundByRound
  <2> QED  BY <1>4, <2>1
<1>10. Remade(made, order, n)  BY <1>1, <1>4, <1>6, <1>9
<1> QED  BY <1>10 DEF made


-----------------------------------------------------------------------------
(* Exports can be imported                                                 *)

ShapeOf(rows, t) ==
    [id |-> rows[t].external_id, value |-> rows[t].value,
     parent |-> IF rows[t].parent = NoTag THEN NoParentId
                ELSE rows[rows[t].parent].external_id]

\* What is made again has the shape of what was exported.
LEMMA ShapeRemade ==
    ASSUME TagsTyped(tags, lastTag), NEW order, NEW n, Listed(order, n),
           NEW db, Remade(db, order, n)
    PROVE  Shape(db.rows) = Shape(tags)
<1> DEFINE rows == db.rows
<1>1. /\ Shape(rows) = {ShapeOf(rows, k) : k \in 1 .. n}
      /\ Shape(tags) = {ShapeOf(tags, t) : t \in DOMAIN tags}
  BY DEF Shape, ShapeOf, Remade
<1>2. ASSUME NEW k \in 1 .. n PROVE ShapeOf(rows, k) = ShapeOf(tags, order[k])
  <2> DEFINE t == order[k]
             p == tags[t].parent
  <2>1. /\ rows[k].value = tags[t].value /\ rows[k].external_id = tags[t].external_id
        /\ p = NoTag => rows[k].parent = NoTag
        /\ p # NoTag => rows[k].parent \in 1 .. n /\ order[rows[k].parent] = p
    BY DEF Remade
  <2>2. CASE p = NoTag
    BY <2>1, <2>2 DEF ShapeOf
  <2>3. CASE p # NoTag
    <3>1. rows[rows[k].parent].external_id = tags[p].external_id
      BY <2>1, <2>3 DEF Remade
    <3>2. rows[k].parent # NoTag  BY <2>1, <2>3 DEF NoTag, Listed
    <3> QED  BY <2>1, <2>3, <3>1, <3>2 DEF ShapeOf
  <2> QED  BY <2>2, <2>3
<1>3. /\ \A k \in 1 .. n : order[k] \in DOMAIN tags
      /\ \A t \in DOMAIN tags : \E k \in 1 .. n : order[k] = t
  BY DEF Listed
<1> HIDE DEF rows
<1>4. {ShapeOf(rows, k) : k \in 1 .. n} = {ShapeOf(tags, t) : t \in DOMAIN tags}
  BY <1>2, <1>3
<1>5. Shape(rows) = Shape(tags)  BY <1>1, <1>4
<1> QED  BY <1>5 DEF rows

\* What the lineages are for in a file: parents come first in it, so that it can
\* be imported.
LEMMA ExportImports ==
    ASSUME ImportInv
    PROVE  ExportCanBeImported
<1>1. TagsTyped(tags, lastTag) /\ ImportTypeOK
  BY ImportTypes DEF ImportInv
<1>2. ASSUME LineageFollowsParent, NEW order \in LineageOrders(tags)
      PROVE  LET file == Export(tags, order)
                 anew == GenerateActions(<< >>, file, FALSE, << >>)
                 again == GenerateActions(tags, file, TRUE, << >>)
                 made == Execution(<< >>, 0, anew)
             IN  /\ ~ again.errors
                 /\ \A k \in DOMAIN again.actions : again.actions[k].name = "without_changes"
                 /\ ~ anew.errors
                 /\ (\A t \in DOMAIN tags : tags[t].depth <= TAXONOMY_MAX_DEPTH) =>
                        ~ made.failed /\ Shape(made.rows) = Shape(tags)
  <2> DEFINE file == Export(tags, order)
             anew == GenerateActions(<< >>, file, FALSE, << >>)
             again == GenerateActions(tags, file, TRUE, << >>)
             made == Execution(<< >>, 0, anew)
  <2>1. PICK n : Listed(order, n)
    BY <1>1, <1>2, ParentsFirst
  <2>2. Idles(again)
    BY <1>1, <1>2, <2>1, OwnExportIdles
  <2>3. file \in Seq(TagItem) /\ Len(file) = n /\ Importable(file)
    BY <1>1, <1>2, <2>1, Exported, ExportIsImportable
  <2>4. Creates(anew, file, n)
    <3> DEFINE rows == << >>
    <3>1. DOMAIN rows = {}  OBVIOUS
    <3> HIDE DEF file, rows
    <3>2. Creates(GenerateActions(rows, file, FALSE, rows), file, Len(file))
      BY <2>3, <3>1, CreatedAnew
    <3> QED  BY <2>3, <3>2 DEF rows
  <2> HIDE DEF anew, again
  <2>5. ASSUME \A t \in DOMAIN tags : tags[t].depth <= TAXONOMY_MAX_DEPTH
        PROVE  ~ made.failed /\ Shape(made.rows) = Shape(tags)
    <3>1. Remade(made, order, n)
      BY <1>1, <1>2, <2>1, <2>4, <2>5, ExportIsRemade
    <3> HIDE DEF made
    <3>2. Shape(made.rows) = Shape(tags)
      BY <1>1, <2>1, <3>1, ShapeRemade
    <3> QED  BY <3>1, <3>2 DEF Remade
  <2> HIDE DEF made
  <2>6. /\ ~ again.errors
        /\ \A k \in DOMAIN again.actions : again.actions[k].name = "without_changes"
    BY <2>2 DEF Idles
  <2>7. ~ anew.errors
    BY <2>4 DEF Creates
  <2> QED  BY <2>5, <2>6, <2>7 DEF made, anew, again, file
<1> QED  BY <1>1, <1>2 DEF ExportCanBeImported

\* Whatever requests and imports do, and in whatever order they overlap, a taxonomy
\* whose lineages are right can be exported and imported: into itself that changes
\* nothing, and into an empty taxonomy it makes the same tree, unless a tag is deeper
\* than a save allows (parsers.py:207, generate_actions and execute in import_plan.py).
THEOREM ExportsCanBeImported == ImportSpec => []ExportCanBeImported
<1>1. ImportInv => ExportCanBeImported  BY ExportImports
<1> QED  BY <1>1, ImportsInvariance, PTL


-----------------------------------------------------------------------------
(* Replacing imports: what a save and a creation leave                     *)

\* Rows that agree in what a file says of a tag.
Alike(row, other) ==
    row.value = other.value /\ row.external_id = other.external_id /\ row.parent = other.parent

\* What a save that does not fail leaves: the row it wrote, and the others as they were
\* but for their copies.
LEMMA SaveInWrites ==
    ASSUME NEW first \in Nat, NEW db \in ImportDbs(first), ~ db.failed, NEW i \in Instances,
           i.pk \in 0 .. db.last, ~ SaveIn(db, i).failed
    PROVE  LET after == SaveIn(db, i)
               key == SavedKey(db.last, i)
           IN  /\ DOMAIN after.rows = DOMAIN db.rows \cup {key}
               /\ after.rows[key].value = i.value
               /\ after.rows[key].external_id = ExternalId(db.rows, i)
               /\ after.rows[key].parent = i.parent
               /\ \A t \in DOMAIN db.rows \ {key} : Alike(after.rows[t], db.rows[t])
<1> DEFINE rows == db.rows
           after == SaveIn(db, i)
           key == SavedKey(db.last, i)
           new == SavedTag(rows, i)
           with == Put(rows, key, new)
           made == Saved(rows, db.last, i)
<1>1. /\ db = [rows |-> db.rows, last |-> db.last, failed |-> db.failed]
      /\ TagsTyped(rows, db.last)
  BY ImportDbType
<1>2. rows \in [DOMAIN rows -> Tag] /\ IsFiniteSet(DOMAIN rows)
  BY <1>1, FinitelyMany DEF TagsTyped
<1>3. CanSave(rows, i)
  <2> SUFFICES ASSUME ~ CanSave(rows, i) PROVE after.failed
    OBVIOUS
  <2>1. after = [rows |-> db.rows, last |-> db.last, failed |-> TRUE]
    BY <1>1 DEF SaveIn, Failed
  <2> HIDE DEF after
  <2> QED  BY <2>1
<1>4. after.rows = made
  <2>1. after = [db EXCEPT !.rows = made, !.last = IF i.pk = NoTag THEN db.last + 1 ELSE db.last]
    BY <1>3 DEF SaveIn
  <2> HIDE DEF made, after
  <2> QED  BY <1>1, <2>1
<1>5. new \in Tag  BY <1>2, <1>3, SavedTagTyped
<1>6. /\ new.value = i.value /\ new.external_id = ExternalId(rows, i) /\ new.parent = i.parent
  BY DEF SavedTag
<1>7. made = IF key \in DOMAIN rows THEN Cascade(with, key, rows[key], new) ELSE with
  BY DEF Saved, Put
<1> HIDE DEF after, key, new, made
<1>8. /\ DOMAIN with = DOMAIN rows \cup {key} /\ with[key] = new
      /\ \A t \in DOMAIN rows \ {key} : with[t] = rows[t]
  BY DEF Put
<1> HIDE DEF with
<1>9. CASE key \in DOMAIN rows
  <2>1. /\ DOMAIN made = DOMAIN with /\ made[key] = new
        /\ \A t \in DOMAIN rows \ {key} :
              made[t] = rows[t] \/ made[t] = Updated(rows[t], rows[key], new)
    BY <1>7, <1>8, <1>9 DEF Cascade
  <2>2. ASSUME NEW t \in DOMAIN rows \ {key} PROVE Alike(made[t], rows[t])
    <3>1. rows[t] \in Tag /\ rows[key] \in Tag  BY <1>2, <1>9
    <3> QED  BY <1>5, <2>1, <3>1, UpdatedTyped DEF Alike
  <2> QED  BY <1>4, <1>6, <1>8, <2>1, <2>2 DEF key, after
<1>10. CASE key \notin DOMAIN rows
  <2>1. \A t \in DOMAIN rows \ {key} : Alike(with[t], rows[t])  BY <1>8 DEF Alike
  <2> QED  BY <1>4, <1>6, <1>7, <1>8, <1>10, <2>1 DEF key, after
<1> QED  BY <1>9, <1>10

\* The parent that an id of a file names.
ParentIs(rows, parent, id) ==
    /\ id = NoParentId => parent = NoTag
    /\ id # NoParentId => parent \in DOMAIN rows /\ rows[parent].external_id = id

LEMMA ParentKeyIs ==
    ASSUME NEW rows, NEW id, ParentFound(rows, id)
    PROVE  /\ ParentIs(rows, ParentKey(rows, id), id)
           /\ ParentKey(rows, id) \in DOMAIN rows \cup {NoTag}
BY DEF ParentIs, ParentKey, ParentFound, Exists, KeyOf

\* One row is written over, and the keys stay.
RowRewritten(rows, after, t) ==
    /\ DOMAIN after = DOMAIN rows
    /\ after[t].external_id = rows[t].external_id
    /\ \A u \in DOMAIN rows \ {t} : Alike(after[u], rows[u])

\* What the actions do that do not fail.
LEMMA CreateDoes ==
    ASSUME NEW first \in Nat, NEW db \in ImportDbs(first), ~ db.failed,
           NEW a \in ImportActions, a.name = "create", ~ Perform(db, a).failed
    PROVE  LET after == Perform(db, a)
               key == db.last + 1
           IN  /\ ~ Exists(db.rows, a.id) /\ key \notin DOMAIN db.rows
               /\ DOMAIN after.rows = DOMAIN db.rows \cup {key}
               /\ after.rows[key].value = a.value /\ after.rows[key].external_id = a.id
               /\ ParentIs(db.rows, after.rows[key].parent, a.parent_id)
               /\ \A t \in DOMAIN db.rows : Alike(after.rows[t], db.rows[t])
<1> DEFINE rows == db.rows
           parent == ParentKey(rows, a.parent_id)
           i == NewTag(rows, a.value, parent, a.id)
           clash == Exists(rows, a.id) \/ \E t \in DOMAIN rows : rows[t].value = a.value
           after == Perform(db, a)
           key == db.last + 1
<1>1. TagsTyped(rows, db.last)  BY ImportDbType
<1>2. key \notin DOMAIN rows /\ NoTag \in 0 .. db.last /\ db.last \in Nat
  BY <1>1 DEF TagsTyped, NoTag
<1>3. after = IF ~ ParentFound(rows, a.parent_id) \/ clash THEN Failed(db) ELSE SaveIn(db, i)
  BY Performed
<1>4. Failed(db).failed = TRUE
  <2>1. db = [rows |-> db.rows, last |-> db.last, failed |-> db.failed]  BY ImportDbType
  <2> QED  BY <2>1 DEF Failed
<1>5. ParentFound(rows, a.parent_id) /\ ~ clash /\ after = SaveIn(db, i)
  <2> HIDE DEF clash, i
  <2> QED  BY <1>3, <1>4
<1>6. ParentIs(rows, parent, a.parent_id) /\ parent \in DOMAIN rows \cup {NoTag}
  BY <1>5, ParentKeyIs
<1>7. a.id \in ExternalIds \cup {NoExternalId} /\ a.value \in Values /\ a.id # NoExternalId
  BY TagTreeAssumption DEF ImportActions, ExternalIds
<1> HIDE DEF parent
<1>8. i \in Instances  BY <1>1, <1>6, <1>7, BuiltTyped
<1>9. i.pk = NoTag /\ i.value = a.value /\ i.external_id = a.id /\ i.parent = parent
  BY DEF NewTag
<1> HIDE DEF i, after
<1>10. SavedKey(db.last, i) = key /\ ExternalId(rows, i) = a.id
  BY <1>7, <1>9 DEF SavedKey, ExternalId
<1>11. /\ DOMAIN after.rows = DOMAIN rows \cup {key}
       /\ after.rows[key].value = i.value /\ after.rows[key].external_id = a.id
       /\ after.rows[key].parent = i.parent
       /\ \A t \in DOMAIN rows \ {key} : Alike(after.rows[t], rows[t])
  <2>1. ~ SaveIn(db, i).failed  BY <1>5 DEF after
  <2>2. i.pk \in 0 .. db.last  BY <1>2, <1>9
  <2> QED  BY <1>5, <1>8, <1>10, <2>1, <2>2, SaveInWrites
<1> QED  BY <1>2, <1>5, <1>6, <1>9, <1>11 DEF after


-----------------------------------------------------------------------------
(* What moves, renames and deletions leave                                 *)

LEMMA FailedIsSo ==
    ASSUME NEW first \in Nat, NEW db \in ImportDbs(first)
    PROVE  Failed(db).failed = TRUE
<1>1. db = [rows |-> db.rows, last |-> db.last, failed |-> db.failed]  BY ImportDbType
<1> QED  BY <1>1 DEF Failed

\* Saving an object of a tag that is there, with its external id.
LEMMA SaveRewrites ==
    ASSUME NEW first \in Nat, NEW db \in ImportDbs(first), ~ db.failed, NEW i \in Instances,
           i.pk \in DOMAIN db.rows, i.external_id = db.rows[i.pk].external_id,
           ~ SaveIn(db, i).failed
    PROVE  /\ RowRewritten(db.rows, SaveIn(db, i).rows, i.pk)
           /\ SaveIn(db, i).rows[i.pk].value = i.value
           /\ SaveIn(db, i).rows[i.pk].parent = i.parent
<1> DEFINE rows == db.rows
           t == i.pk
           after == SaveIn(db, i)
<1>1. TagsTyped(rows, db.last)  BY ImportDbType
<1>2. t \in 1 .. db.last /\ rows[t] \in Tag /\ db.last \in Nat
  BY <1>1 DEF TagsTyped
<1>3. t \in 0 .. db.last /\ SavedKey(db.last, i) = t
  BY <1>2 DEF SavedKey, NoTag
<1>4. ExternalId(rows, i) = rows[t].external_id
  <2>1. rows[t].external_id # NoExternalId
    BY <1>2, TagTreeAssumption DEF Tag, ExternalIds
  <2> QED  BY <2>1 DEF ExternalId
<1> HIDE DEF t
<1>5. /\ DOMAIN after.rows = DOMAIN rows \cup {t}
      /\ after.rows[t].value = i.value /\ after.rows[t].external_id = rows[t].external_id
      /\ after.rows[t].parent = i.parent
      /\ \A u \in DOMAIN rows \ {t} : Alike(after.rows[u], rows[u])
  <2>1. i.pk \in 0 .. db.last  BY <1>3 DEF t
  <2> QED  BY <1>3, <1>4, <2>1, SaveInWrites
<1>6. DOMAIN after.rows = DOMAIN rows  BY <1>5 DEF t
<1> QED  BY <1>5, <1>6 DEF RowRewritten, t

LEMMA UpdateParentDoes ==
    ASSUME NEW first \in Nat, NEW db \in ImportDbs(first), ~ db.failed,
           NEW a \in ImportActions, a.name = "update_parent", ~ Perform(db, a).failed
    PROVE  LET after == Perform(db, a)
               t == KeyOf(db.rows, a.id)
           IN  /\ t \in DOMAIN db.rows /\ db.rows[t].external_id = a.id
               /\ RowRewritten(db.rows, after.rows, t)
               /\ after.rows[t].value = db.rows[t].value
               /\ ParentIs(db.rows, after.rows[t].parent, a.parent_id)
<1> DEFINE rows == db.rows
           parent == ParentKey(rows, a.parent_id)
           t == KeyOf(rows, a.id)
           i == MovedTag(rows, t, parent)
           found == Exists(rows, a.id) /\ ParentFound(rows, a.parent_id)
           after == Perform(db, a)
<1>1. TagsTyped(rows, db.last)  BY ImportDbType
<1>2. after = IF ~ found THEN Failed(db) ELSE SaveIn(db, i)
  BY Performed
<1>3. found /\ after = SaveIn(db, i)
  <2> HIDE DEF found, i
  <2> QED  BY <1>2, FailedIsSo
<1>4. t \in DOMAIN rows /\ rows[t].external_id = a.id
  BY <1>3 DEF Exists, KeyOf
<1>5. ParentIs(rows, parent, a.parent_id) /\ parent \in DOMAIN rows \cup {NoTag}
  BY <1>3, ParentKeyIs
<1>6. rows[t].external_id \in ExternalIds \cup {NoExternalId} /\ rows[t].value \in Values
  BY <1>1, <1>4 DEF TagsTyped, Tag
<1> HIDE DEF parent, t
<1>7. i \in Instances  BY <1>1, <1>4, <1>5, <1>6, BuiltTyped
<1>8. /\ i.pk = t /\ i.value = rows[t].value /\ i.external_id = rows[t].external_id
      /\ i.parent = parent
  BY DEF MovedTag
<1> HIDE DEF i, after, rows
<1>9. /\ RowRewritten(rows, after.rows, t) /\ after.rows[t].value = i.value
      /\ after.rows[t].parent = i.parent
  <2>1. i.pk \in DOMAIN db.rows /\ i.external_id = db.rows[i.pk].external_id
    BY <1>4, <1>8 DEF rows
  <2>2. ~ SaveIn(db, i).failed  BY <1>3 DEF after
  <2>3. /\ RowRewritten(db.rows, SaveIn(db, i).rows, i.pk)
        /\ SaveIn(db, i).rows[i.pk].value = i.value
        /\ SaveIn(db, i).rows[i.pk].parent = i.parent
    BY <1>7, <2>1, <2>2, SaveRewrites
  <2> QED  BY <1>3, <1>8, <2>3 DEF rows
<1> QED  BY <1>4, <1>5, <1>8, <1>9 DEF after, t, rows

LEMMA RenameDoes ==
    ASSUME NEW first \in Nat, NEW db \in ImportDbs(first), ~ db.failed,
           NEW a \in ImportActions, a.name = "rename", ~ Perform(db, a).failed
    PROVE  LET after == Perform(db, a)
               t == KeyOf(db.rows, a.id)
           IN  /\ t \in DOMAIN db.rows /\ db.rows[t].external_id = a.id
               /\ RowRewritten(db.rows, after.rows, t)
               /\ after.rows[t].value = a.value
               /\ after.rows[t].parent = db.rows[t].parent
<1> DEFINE rows == db.rows
           t == KeyOf(rows, a.id)
           i == RenamedTag(rows, t, a.value)
           found == Exists(rows, a.id)
           after == Perform(db, a)
<1>1. TagsTyped(rows, db.last)  BY ImportDbType
<1>2. after = IF ~ found THEN Failed(db) ELSE SaveIn(db, i)
  BY Performed
<1>3. found /\ after = SaveIn(db, i)
  <2> HIDE DEF found, i
  <2> QED  BY <1>2, FailedIsSo
<1>4. t \in DOMAIN rows /\ rows[t].external_id = a.id
  BY <1>3 DEF Exists, KeyOf
<1>5. rows[t].external_id \in ExternalIds \cup {NoExternalId} /\ a.value \in Values
      /\ NoTag \in DOMAIN rows \cup {NoTag}
  BY <1>1, <1>4 DEF TagsTyped, Tag, ImportActions
<1> HIDE DEF t
<1>6. i \in Instances  BY <1>1, <1>4, <1>5, BuiltTyped
<1>7. /\ i.pk = t /\ i.value = a.value /\ i.external_id = rows[t].external_id
      /\ i.parent = rows[t].parent
  BY DEF RenamedTag
<1> HIDE DEF i, after, rows
<1>8. /\ RowRewritten(rows, after.rows, t) /\ after.rows[t].value = i.value
      /\ after.rows[t].parent = i.parent
  <2>1. i.pk \in DOMAIN db.rows /\ i.external_id = db.rows[i.pk].external_id
    BY <1>4, <1>7 DEF rows
  <2>2. ~ SaveIn(db, i).failed  BY <1>3 DEF after
  <2>3. /\ RowRewritten(db.rows, SaveIn(db, i).rows, i.pk)
        /\ SaveIn(db, i).rows[i.pk].value = i.value
        /\ SaveIn(db, i).rows[i.pk].parent = i.parent
    BY <1>6, <2>1, <2>2, SaveRewrites
  <2> QED  BY <1>3, <1>7, <2>3 DEF rows
<1> QED  BY <1>4, <1>7, <1>8 DEF after, t, rows

LEMMA DeleteDoes ==
    ASSUME NEW first \in Nat, NEW db \in ImportDbs(first), ~ db.failed,
           NEW a \in ImportActions, a.name = "delete"
    PROVE  Perform(db, a).rows = IF Exists(db.rows, a.id)
                                 THEN Without(db.rows, {KeyOf(db.rows, a.id)}) ELSE db.rows
<1>1. db = [rows |-> db.rows, last |-> db.last, failed |-> db.failed]  BY ImportDbType
<1>2. CASE Exists(db.rows, a.id)
  <2> DEFINE left == Without(db.rows, {KeyOf(db.rows, a.id)})
  <2>1. Perform(db, a) = [db EXCEPT !.rows = left]  BY <1>2, Performed
  <2> HIDE DEF left
  <2>2. Perform(db, a).rows = left  BY <1>1, <2>1
  <2> QED  BY <1>2, <2>2 DEF left
<1>3. CASE ~ Exists(db.rows, a.id)
  BY <1>3, Performed
<1> QED  BY <1>2, <1>3

\* A plan that has failed does nothing more.
LEMMA FailedForGood ==
    ASSUME NEW n \in Nat, NEW g, NEW s, \A k \in 1 .. n : g[k] = Perform(g[k - 1], s[k]),
           ~ g[n].failed
    PROVE  \A k \in 0 .. n : ~ g[k].failed
<1> SUFFICES ASSUME NEW j \in 0 .. n, g[j].failed PROVE FALSE
  OBVIOUS
<1> DEFINE S == {k \in 0 .. n : k >= j => g[k] = g[j]}
<1>1. 0 \in S  OBVIOUS
<1>2. ASSUME NEW k \in 1 .. n, k - 1 \in S PROVE k \in S
  <2>1. CASE k = j  BY <2>1
  <2>2. CASE k > j
    <3>1. g[k - 1] = g[j]  BY <1>2, <2>2
    <3>2. Perform(g[j], s[k]) = g[j]  BY DEF Perform
    <3> QED  BY <3>1, <3>2
  <2> QED  BY <2>1, <2>2
<1>3. n \in S
  <2> HIDE DEF S
  <2>1. 0 .. n \subseteq S  BY <1>1, <1>2, RoundByRound
  <2> QED  BY <2>1
<1> QED  BY <1>3


-----------------------------------------------------------------------------
(* Planning to make roots of the children that stay                        *)

\* The plan has one action more.
LEMMA ActionAdded ==
    ASSUME NEW rows, NEW plan \in ImportPlans, NEW a \in ImportActions
    PROVE  LET after == BuildAction(rows, plan, a)
               n == Len(plan.actions)
           IN  /\ after \in ImportPlans /\ n \in Nat /\ Len(after.actions) = n + 1
               /\ after.actions[n + 1] = a
               /\ \A k \in 1 .. n : after.actions[k] = plan.actions[k]
<1> DEFINE s == plan.actions
           u == Append(s, a)
           after == BuildAction(rows, plan, a)
<1>1. s \in Seq(ImportActions)  BY DEF ImportPlans
<1>2. Len(s) \in Nat  BY <1>1
<1>3. /\ Len(u) = Len(s) + 1 /\ u[Len(s) + 1] = a
      /\ \A k \in 1 .. Len(s) : u[k] = s[k]
  BY <1>1, <1>2, AppendProperties
<1>4. after.actions = u  BY DEF BuildAction
<1>5. after \in ImportPlans  BY BuiltAction
<1> HIDE DEF after, u, s
<1> QED  BY <1>2, <1>3, <1>4, <1>5 DEF after, s

Does(plan, name, id) ==
    \E k \in 1 .. Len(plan.actions) : plan.actions[k].name = name /\ plan.actions[k].id = id

\* The children of tags to delete that stay themselves.
Orphans(doomed, ts) == {c \in DOMAIN tags \ doomed : tags[c].parent \in ts}

\* Actions that take tags away, or make roots of their children that stay.
TakesAway(a, doomed) ==
    \/ a.name = "delete" /\ \E t \in doomed : a.id = tags[t].external_id
    \/ /\ a.name = "update_parent" /\ a.parent_id = NoParentId
       /\ \E c \in Orphans(doomed, doomed) : a.id = tags[c].external_id

\* A plan of such actions, with those for the tags in gone and in rooted.
ClearsAway(plan, doomed, gone, rooted) ==
    /\ plan \in ImportPlans
    /\ \A k \in 1 .. Len(plan.actions) : TakesAway(plan.actions[k], doomed)
    /\ \A t \in gone : Does(plan, "delete", tags[t].external_id)
    /\ \A c \in rooted : Does(plan, "update_parent", tags[c].external_id)

LEMMA ClearsMore ==
    ASSUME NEW doomed, NEW gone, NEW rooted, NEW plan, ClearsAway(plan, doomed, gone, rooted),
           NEW a \in ImportActions, TakesAway(a, doomed)
    PROVE  /\ ClearsAway(BuildAction(tags, plan, a), doomed, gone, rooted)
           /\ Does(BuildAction(tags, plan, a), a.name, a.id)
<1> DEFINE after == BuildAction(tags, plan, a)
           n == Len(plan.actions)
<1>1. /\ after \in ImportPlans /\ n \in Nat /\ Len(after.actions) = n + 1
      /\ after.actions[n + 1] = a
      /\ \A k \in 1 .. n : after.actions[k] = plan.actions[k]
  BY ActionAdded DEF ClearsAway
<1> HIDE DEF after
<1>2. ASSUME NEW k \in 1 .. n + 1 PROVE TakesAway(after.actions[k], doomed)
  <2>1. CASE k = n + 1  BY <1>1, <2>1
  <2>2. CASE k # n + 1
    <3>1. k \in 1 .. n  BY <1>1, <2>2
    <3> QED  BY <1>1, <3>1 DEF ClearsAway
  <2> QED  BY <2>1, <2>2
<1>3. Does(after, a.name, a.id)
  <2>1. n + 1 \in 1 .. Len(after.actions)  BY <1>1
  <2> QED  BY <1>1, <2>1 DEF Does
<1>4. \A name, id : Does(plan, name, id) => Does(after, name, id)
  <2>1. \A k \in 1 .. n : k \in 1 .. Len(after.actions)  BY <1>1
  <2> QED  BY <1>1, <2>1 DEF Does
<1>5. ClearsAway(after, doomed, gone, rooted)
  BY <1>1, <1>2, <1>4 DEF ClearsAway
<1> QED  BY <1>3, <1>5 DEF after

\* The loop over the children of a tag that stay.
LEMMA OrphansRooted ==
    ASSUME TagsTyped(tags, lastTag), NEW doomed, NEW gone, NEW rooted, NEW plan,
           ClearsAway(plan, doomed, gone, rooted),
           NEW keys \in KeySets, keys \subseteq Orphans(doomed, doomed)
    PROVE  ClearsAway(RootedAll(tags, plan, keys), doomed, gone, rooted \cup keys)
<1> DEFINE n == LastOf(keys)
           made == RootedAll(tags, plan, keys)
<1>1. PICK g : /\ g \in [0 .. LastOf(keys) -> ImportPlans] /\ g[0] = plan
               /\ \A k \in 1 .. LastOf(keys) :
                     g[k] = IF k \in keys THEN Rooted(tags, g[k - 1], k) ELSE g[k - 1]
               /\ RootedAll(tags, plan, keys) = g[LastOf(keys)]
  <2>1. tags \in [DOMAIN tags -> Tag] /\ plan \in ImportPlans /\ keys \subseteq DOMAIN tags
    BY DEF TagsTyped, ClearsAway, Orphans
  <2> QED  BY <2>1, RootedRuns
<1>2. n \in Nat /\ \A k \in keys : k \in 1 .. n  BY LastKey
<1> HIDE DEF n
<1> DEFINE done(k) == {c \in keys : c <= k}
           S == {k \in 0 .. n : ClearsAway(g[k], doomed, gone, rooted \cup done(k))}
<1>3. 0 \in S
  <2>1. done(0) = {}  BY <1>2
  <2>2. ClearsAway(g[0], doomed, gone, rooted)  BY <1>1
  <2>3. rooted \cup done(0) = rooted  BY <2>1
  <2> QED  BY <1>2, <2>2, <2>3
<1>4. ASSUME NEW k \in 1 .. n, k - 1 \in S PROVE k \in S
  <2> DEFINE before == g[k - 1]
             D == rooted \cup done(k - 1)
             E == rooted \cup done(k)
  <2>1. ClearsAway(before, doomed, gone, D)  BY <1>4
  <2>2. CASE k \in keys
    <3> DEFINE item == [id |-> tags[k].external_id, value |-> tags[k].value,
                        parent_id |-> NoParentId]
               a == Action("update_parent", item)
    <3>1. g[k] = BuildAction(tags, before, a)  BY <1>1, <1>2, <2>2 DEF Rooted, n
    <3>2. k \in Orphans(doomed, doomed) /\ tags[k] \in Tag  BY <2>2 DEF TagsTyped, Orphans
    <3>3. a \in ImportActions
      <4>1. item.id \in ExternalIds /\ item.value \in Values
            /\ item.parent_id \in ExternalIds \cup {NoParentId}
        BY <3>2 DEF Tag
      <4> HIDE DEF item
      <4> QED  BY <4>1, ActionTyped
    <3>4. a.name = "update_parent" /\ a.parent_id = NoParentId /\ a.id = tags[k].external_id
      BY DEF Action
    <3> HIDE DEF a
    <3>5. TakesAway(a, doomed)  BY <3>2, <3>4 DEF TakesAway
    <3> HIDE DEF before, D
    <3>6. /\ ClearsAway(g[k], doomed, gone, D)
          /\ Does(g[k], "update_parent", tags[k].external_id)
      BY <2>1, <3>1, <3>3, <3>4, <3>5, ClearsMore
    <3>7. \A c \in E : c \in D \/ c = k
      BY <1>2 DEF D
    <3> HIDE DEF E
    <3>8. ClearsAway(g[k], doomed, gone, E)  BY <3>6, <3>7 DEF ClearsAway
    <3> QED  BY <1>2, <3>8 DEF E
  <2>3. CASE k \notin keys
    <3>1. E = D  BY <1>2, <2>3
    <3>2. g[k] = before  BY <1>1, <1>2, <2>3 DEF n
    <3>3. ClearsAway(g[k], doomed, gone, E)  BY <2>1, <3>1, <3>2
    <3> QED  BY <1>2, <3>3
  <2> QED  BY <2>2, <2>3
<1>5. n \in S
  <2> HIDE DEF S
  <2>1. 0 .. n \subseteq S  BY <1>2, <1>3, <1>4, RoundByRound
  <2> QED  BY <1>2, <2>1
<1>6. rooted \cup done(n) = rooted \cup keys  BY <1>2
<1>7. ClearsAway(g[n], doomed, gone, rooted \cup keys)  BY <1>5, <1>6
<1> QED  BY <1>1, <1>7 DEF n


-----------------------------------------------------------------------------
(* Planning the deletions                                                  *)

\* One round of the loop over the tags to delete.
LEMMA DeletePlanned ==
    ASSUME TagsTyped(tags, lastTag), NEW doomed, NEW gone, NEW plan,
           ClearsAway(plan, doomed, gone, Orphans(doomed, gone)), NEW t \in DOMAIN tags,
           t \in doomed
    PROVE  ClearsAway(BuildDelete(tags, doomed, plan, t), doomed, gone \cup {t},
                      Orphans(doomed, gone \cup {t}))
<1> DEFINE moved(c) == \E a \in Planned(plan, "update_parent") :
                          a.id = tags[c].external_id /\ a.parent_id # tags[t].external_id
           orphans == {c \in ChildrenIn(tags, t) : c \notin doomed /\ ~ moved(c)}
           rooted == RootedAll(tags, plan, orphans)
           item == [id |-> tags[t].external_id, value |-> tags[t].value,
                    parent_id |-> NoParentId]
           a == Action("delete", item)
           after == BuildDelete(tags, doomed, plan, t)
           old == Orphans(doomed, gone)
           new == Orphans(doomed, gone \cup {t})
<1>1. tags \in [DOMAIN tags -> Tag] /\ lastTag \in Nat /\ DOMAIN tags \subseteq 1 .. lastTag
  BY DEF TagsTyped
<1>2. orphans \subseteq DOMAIN tags /\ orphans \subseteq Orphans(doomed, doomed)
  BY DEF ChildrenIn, Orphans
<1>3. after = BuildAction(tags, rooted, a)
  BY DEF BuildDelete, Rooted, RootedAll
<1>4. \A c \in new : c \in old \/ c \in orphans \/ moved(c)
  BY DEF Orphans, ChildrenIn
<1>5. \A c : moved(c) => Does(plan, "update_parent", tags[c].external_id)
  <2>1. plan.actions \in Seq(ImportActions)  BY DEF ClearsAway, ImportPlans
  <2>2. DOMAIN plan.actions = 1 .. Len(plan.actions)  BY <2>1
  <2>3. \A b \in Planned(plan, "update_parent") : Does(plan, "update_parent", b.id)
    BY <2>2 DEF Planned, Does
  <2> QED  BY <2>3
<1> HIDE DEF orphans, moved
<1>6. orphans \in KeySets
  <2>1. orphans \subseteq Nat \ {0} /\ \A k \in orphans : k <= lastTag  BY <1>1, <1>2
  <2> QED  BY <1>1, <2>1 DEF KeySets, Bounded
<1> DEFINE more == {c \in new : moved(c)}
<1>7. ClearsAway(plan, doomed, gone, old \cup more)
  BY <1>5 DEF ClearsAway
<1> HIDE DEF old, more, new
<1>8. ClearsAway(rooted, doomed, gone, (old \cup more) \cup orphans)
  BY <1>2, <1>6, <1>7, OrphansRooted
<1>9. new \subseteq (old \cup more) \cup orphans
  BY <1>4 DEF more
<1>10. a \in ImportActions
  <2>1. item.id \in ExternalIds /\ item.value \in Values
        /\ item.parent_id \in ExternalIds \cup {NoParentId}
    BY <1>1 DEF Tag
  <2> HIDE DEF item
  <2> QED  BY <2>1, ActionTyped
<1>11. a.name = "delete" /\ a.id = tags[t].external_id
  BY DEF Action
<1> HIDE DEF a, rooted, after
<1>12. TakesAway(a, doomed)  BY <1>11 DEF TakesAway
<1>13. /\ ClearsAway(after, doomed, gone, (old \cup more) \cup orphans)
       /\ Does(after, "delete", tags[t].external_id)
  BY <1>3, <1>8, <1>10, <1>11, <1>12, ClearsMore
<1>14. ClearsAway(after, doomed, gone \cup {t}, new)
  BY <1>9, <1>13 DEF ClearsAway
<1> QED  BY <1>14 DEF after, new

\* The deletions of a replacing import: every tag that is not in the file goes, and its
\* children that are become roots.
LEMMA DeletesPlanned ==
    ASSUME TagsTyped(tags, lastTag), NEW doomed \in SUBSET DOMAIN tags,
           NEW order \in Orders(doomed)
    PROVE  ClearsAway(BuildDeletes(tags, doomed, NoPlan, order), doomed, doomed,
                      Orphans(doomed, doomed))
<1> DEFINE start == NoPlan
           n == Len(order)
           made == BuildDeletes(tags, doomed, NoPlan, order)
<1>1. start \in ImportPlans  BY NoPlanTyped
<1>2. ClearsAway(start, doomed, {}, {})
  <2>1. start.actions = << >>  BY DEF NoPlan
  <2> HIDE DEF start
  <2>2. Len(start.actions) = 0  BY <2>1
  <2> QED  BY <1>1, <2>2 DEF ClearsAway
<1>3. order \in Seq(DOMAIN tags) /\ n \in Nat /\ (\A k \in 1 .. n : order[k] \in doomed)
      /\ \A t \in doomed : \E k \in 1 .. n : order[k] = t
  <2>1. Cardinality(doomed) \in Nat
    <3>1. IsFiniteSet(doomed)  BY FinitelyMany DEF TagsTyped
    <3> QED  BY <3>1, FS_CardinalityType
  <2>2. order \in [1 .. Cardinality(doomed) -> doomed]
        /\ \A t \in doomed : \E k \in DOMAIN order : order[k] = t
    BY DEF Orders
  <2> DEFINE m == Cardinality(doomed)
  <2> HIDE DEF m
  <2>3. order \in [1 .. m -> doomed] /\ m \in Nat  BY <2>1, <2>2 DEF m
  <2>4. order \in Seq(DOMAIN tags) /\ Len(order) = m  BY <2>3
  <2> QED  BY <2>2, <2>3, <2>4
<1> HIDE DEF start
<1>4. PICK g : /\ g \in [0 .. Len(order) -> ImportPlans] /\ g[0] = start
               /\ \A k \in 1 .. Len(order) :
                     g[k] = BuildDelete(tags, doomed, g[k - 1], order[k])
               /\ BuildDeletes(tags, doomed, start, order) = g[Len(order)]
  <2> DEFINE Runs(p) == \E g : /\ g \in [0 .. Len(order) -> ImportPlans] /\ g[0] = p
                               /\ \A k \in 1 .. Len(order) :
                                     g[k] = BuildDelete(tags, doomed, g[k - 1], order[k])
                               /\ BuildDeletes(tags, doomed, p, order) = g[Len(order)]
  <2>1. ASSUME NEW p \in ImportPlans PROVE Runs(p)
    <3>1. order \in Seq(DOMAIN tags)  BY <1>3
    <3> QED  BY <3>1, DeletesRun
  <2> HIDE DEF Runs
  <2>2. Runs(start)  BY <1>1, <2>1
  <2> QED  BY <2>2 DEF Runs
<1> DEFINE gone(k) == {order[j] : j \in 1 .. k}
           S == {k \in 0 .. n : ClearsAway(g[k], doomed, gone(k), Orphans(doomed, gone(k)))}
<1>5. 0 \in S
  <2>1. gone(0) = {}  OBVIOUS
  <2>2. Orphans(doomed, {}) = {}  BY DEF Orphans
  <2>3. ClearsAway(g[0], doomed, gone(0), Orphans(doomed, gone(0)))
    BY <1>2, <1>4, <2>1, <2>2
  <2> QED  BY <1>3, <2>3
<1>6. ASSUME NEW k \in 1 .. n, k - 1 \in S PROVE k \in S
  <2> DEFINE before == g[k - 1]
             past == gone(k - 1)
             t == order[k]
  <2>1. ClearsAway(before, doomed, past, Orphans(doomed, past))  BY <1>6
  <2>2. t \in doomed /\ t \in DOMAIN tags  BY <1>3
  <2>3. gone(k) = past \cup {t}
    <3>1. 1 .. k = (1 .. k - 1) \cup {k}  BY <1>3
    <3> QED  BY <3>1
  <2>4. g[k] = BuildDelete(tags, doomed, before, t)  BY <1>4
  <2> HIDE DEF before, past, t
  <2>5. ClearsAway(g[k], doomed, past \cup {t}, Orphans(doomed, past \cup {t}))
    BY <2>1, <2>2, <2>4, DeletePlanned
  <2>6. ClearsAway(g[k], doomed, gone(k), Orphans(doomed, gone(k)))  BY <2>3, <2>5
  <2> QED  BY <1>3, <2>6
<1>7. n \in S
  <2> HIDE DEF S
  <2>1. 0 .. n \subseteq S  BY <1>3, <1>5, <1>6, RoundByRound
  <2> QED  BY <1>3, <2>1
<1>8. gone(n) = doomed  BY <1>3
<1>9. ClearsAway(g[n], doomed, doomed, Orphans(doomed, doomed))  BY <1>7, <1>8
<1> QED  BY <1>4, <1>9 DEF start


-----------------------------------------------------------------------------
(* The items planned and performed                                         *)

\* The plan begins with another one.
Continues(after, plan) ==
    /\ Len(plan.actions) <= Len(after.actions)
    /\ \A k \in 1 .. Len(plan.actions) : after.actions[k] = plan.actions[k]

LEMMA ActionContinues ==
    ASSUME NEW rows, NEW plan \in ImportPlans, NEW a \in ImportActions, NEW first,
           Continues(plan, first), Len(first.actions) \in Nat
    PROVE  /\ BuildAction(rows, plan, a) \in ImportPlans
           /\ Continues(BuildAction(rows, plan, a), first)
<1> DEFINE after == BuildAction(rows, plan, a)
           n == Len(plan.actions)
<1>1. /\ after \in ImportPlans /\ n \in Nat /\ Len(after.actions) = n + 1
      /\ \A k \in 1 .. n : after.actions[k] = plan.actions[k]
  BY ActionAdded
<1> HIDE DEF after
<1>2. Continues(after, first)
  <2>1. \A k \in 1 .. Len(first.actions) : k \in 1 .. n  BY <1>1 DEF Continues
  <2> QED  BY <1>1, <2>1 DEF Continues
<1> QED  BY <1>1, <1>2 DEF after

\* The plan of an item only adds actions.
LEMMA ItemContinues ==
    ASSUME NEW plan \in ImportPlans, NEW item \in TagItem
    PROVE  Continues(BuildItem(tags, plan, item), plan) /\ Len(plan.actions) \in Nat
<1> DEFINE update == Action("update_parent", item)
           rename == Action("rename", item)
           create == Action("create", item)
           keep == Action("without_changes", item)
           updated == BuildAction(tags, plan, update)
           after == BuildItem(tags, plan, item)
<1>1. /\ update \in ImportActions /\ rename \in ImportActions /\ create \in ImportActions
      /\ keep \in ImportActions
  BY ActionTyped DEF TagItem
<1>2. \/ after = BuildAction(tags, plan, create) \/ after = BuildAction(tags, plan, keep)
      \/ after = updated \/ after = BuildAction(tags, plan, rename)
      \/ after = BuildAction(tags, updated, rename)
  BY DEF BuildItem
<1> HIDE DEF update, rename, create, keep, after
<1>3. Len(plan.actions) \in Nat /\ Continues(plan, plan)
  <2>1. plan.actions \in Seq(ImportActions)  BY DEF ImportPlans
  <2> QED  BY <2>1 DEF Continues
<1>4. /\ Continues(BuildAction(tags, plan, create), plan)
      /\ Continues(BuildAction(tags, plan, keep), plan)
      /\ Continues(BuildAction(tags, plan, rename), plan)
      /\ updated \in ImportPlans /\ Continues(updated, plan)
  BY <1>1, <1>3, ActionContinues
<1> HIDE DEF updated
<1>5. Continues(BuildAction(tags, updated, rename), plan)
  BY <1>1, <1>3, <1>4, ActionContinues
<1> QED  BY <1>2, <1>3, <1>4, <1>5 DEF after

\* What the actions planned for an item do, one after the other.
ItemDone(db, item) ==
    LET moved == IF UpdateParentApplies(tags, item)
                 THEN Perform(db, Action("update_parent", item)) ELSE db
        renamed == IF RenameApplies(tags, item)
                   THEN Perform(moved, Action("rename", item)) ELSE moved
    IN  IF CreateApplies(tags, item) THEN Perform(db, Action("create", item))
        ELSE IF UpdateParentApplies(tags, item) \/ RenameApplies(tags, item) THEN renamed
        ELSE Perform(db, Action("without_changes", item))

\* One round of planning, as it is performed later.
LEMMA ItemPlanned ==
    ASSUME NEW plan \in ImportPlans, NEW item \in TagItem, NEW g,
           \A k \in 1 .. Len(BuildItem(tags, plan, item).actions) :
               g[k] = Perform(g[k - 1], BuildItem(tags, plan, item).actions[k])
    PROVE  g[Len(BuildItem(tags, plan, item).actions)] = ItemDone(g[Len(plan.actions)], item)
<1> DEFINE update == Action("update_parent", item)
           rename == Action("rename", item)
           create == Action("create", item)
           keep == Action("without_changes", item)
           updated == BuildAction(tags, plan, update)
           after == BuildItem(tags, plan, item)
           n == Len(plan.actions)
           U == UpdateParentApplies(tags, item)
           R == RenameApplies(tags, item)
           C == CreateApplies(tags, item)
<1>1. /\ update \in ImportActions /\ rename \in ImportActions /\ create \in ImportActions
      /\ keep \in ImportActions
  BY ActionTyped DEF TagItem
<1>2. /\ C => after = BuildAction(tags, plan, create)
      /\ ~ C /\ ~ U /\ ~ R => after = BuildAction(tags, plan, keep)
      /\ ~ C /\ U /\ ~ R => after = updated
      /\ ~ C /\ ~ U /\ R => after = BuildAction(tags, plan, rename)
      /\ ~ C /\ U /\ R => after = BuildAction(tags, updated, rename)
  BY DEF BuildItem
<1>3. LET db == g[n]
      IN  /\ C => ItemDone(db, item) = Perform(db, create)
          /\ ~ C /\ ~ U /\ ~ R => ItemDone(db, item) = Perform(db, keep)
          /\ ~ C /\ U /\ ~ R => ItemDone(db, item) = Perform(db, update)
          /\ ~ C /\ ~ U /\ R => ItemDone(db, item) = Perform(db, rename)
          /\ ~ C /\ U /\ R => ItemDone(db, item) = Perform(Perform(db, update), rename)
  BY DEF ItemDone
<1>4. \A k \in 1 .. Len(after.actions) : g[k] = Perform(g[k - 1], after.actions[k])
  OBVIOUS
<1> HIDE DEF update, rename, create, keep, after, U, R, C, n
<1>5. ASSUME NEW a \in ImportActions, after = BuildAction(tags, plan, a)
      PROVE  g[Len(after.actions)] = Perform(g[n], a)
  <2>1. /\ after \in ImportPlans /\ n \in Nat /\ Len(after.actions) = n + 1
        /\ after.actions[n + 1] = a
        /\ \A k \in 1 .. n : after.actions[k] = plan.actions[k]
    BY <1>5, ActionAdded DEF n
  <2>2. n + 1 \in 1 .. Len(after.actions)  BY <2>1
  <2>3. g[n + 1] = Perform(g[(n + 1) - 1], a)  BY <1>4, <2>1, <2>2
  <2>4. (n + 1) - 1 = n  BY <2>1
  <2> QED  BY <2>1, <2>3, <2>4
<1>6. ASSUME after = BuildAction(tags, updated, rename)
      PROVE  g[Len(after.actions)] = Perform(Perform(g[n], update), rename)
  <2>1. /\ updated \in ImportPlans /\ n \in Nat /\ Len(updated.actions) = n + 1
        /\ updated.actions[n + 1] = update
        /\ \A k \in 1 .. n : updated.actions[k] = plan.actions[k]
    BY <1>1, ActionAdded DEF n
  <2> HIDE DEF updated
  <2>2. /\ after \in ImportPlans /\ Len(after.actions) = n + 2 /\ after.actions[n + 2] = rename
        /\ \A k \in 1 .. n + 1 : after.actions[k] = updated.actions[k]
    <3>1. /\ after \in ImportPlans /\ Len(after.actions) = Len(updated.actions) + 1
          /\ after.actions[Len(updated.actions) + 1] = rename
          /\ \A k \in 1 .. Len(updated.actions) : after.actions[k] = updated.actions[k]
      BY <1>1, <1>6, <2>1, ActionAdded
    <3>2. Len(updated.actions) + 1 = n + 2  BY <2>1
    <3> QED  BY <2>1, <3>1, <3>2
  <2>3. n + 1 \in 1 .. n + 1 /\ n + 1 \in 1 .. n + 2 /\ n + 2 \in 1 .. n + 2
    BY <2>1
  <2>4. g[n + 1] = Perform(g[(n + 1) - 1], update)
    BY <1>4, <2>1, <2>2, <2>3
  <2>5. g[n + 2] = Perform(g[(n + 2) - 1], rename)
    BY <1>4, <2>2, <2>3
  <2>6. (n + 1) - 1 = n /\ (n + 2) - 1 = n + 1  BY <2>1
  <2>7. g[n + 2] = Perform(Perform(g[n], update), rename)  BY <2>4, <2>5, <2>6
  <2> QED  BY <2>2, <2>7
<1>7. CASE C
  BY <1>1, <1>2, <1>3, <1>5, <1>7 DEF n, after
<1>8. CASE ~ C /\ ~ U /\ ~ R
  BY <1>1, <1>2, <1>3, <1>5, <1>8 DEF n, after
<1>9. CASE ~ C /\ U /\ ~ R
  <2>1. after = BuildAction(tags, plan, update)  BY <1>2, <1>9
  <2> QED  BY <1>1, <1>3, <1>5, <1>9, <2>1 DEF n, after
<1>10. CASE ~ C /\ ~ U /\ R
  BY <1>1, <1>2, <1>3, <1>5, <1>10 DEF n, after
<1>11. CASE ~ C /\ U /\ R
  BY <1>2, <1>3, <1>6, <1>11 DEF n, after
<1> QED  BY <1>7, <1>8, <1>9, <1>10, <1>11

\* The plans of the first items begin the plan of all.
LEMMA ItemsPrefixes ==
    ASSUME NEW file \in Seq(TagItem), NEW h \in [0 .. Len(file) -> ImportPlans],
           \A k \in 1 .. Len(file) : h[k] = BuildItem(tags, h[k - 1], file[k]),
           NEW c \in 0 .. Len(file)
    PROVE  /\ Len(h[c].actions) \in 0 .. Len(h[Len(file)].actions)
           /\ \A j \in 1 .. Len(h[c].actions) : h[Len(file)].actions[j] = h[c].actions[j]
<1> DEFINE n == Len(file)
           s == h[n].actions
<1>1. n \in Nat /\ \A k \in 1 .. n : file[k] \in TagItem  BY ListType
<1> HIDE DEF n
<1>2. \A k \in 0 .. n : h[k] \in ImportPlans  BY DEF n
<1>3. \A k \in 0 .. n : Len(h[k].actions) \in Nat
  <2>1. \A k \in 0 .. n : h[k].actions \in Seq(ImportActions)  BY <1>2 DEF ImportPlans
  <2> QED  BY <2>1, ListType
<1>4. Continues(h[n], h[c])
  <2> DEFINE S == {m \in 0 .. n : m >= c => Continues(h[m], h[c])}
  <2>1. Continues(h[c], h[c])
    <3>1. c \in 0 .. n  BY DEF n
    <3> QED  BY <1>3, <3>1 DEF Continues
  <2>2. 0 \in S  BY <1>1, <2>1
  <2>3. ASSUME NEW m \in 1 .. n, m - 1 \in S PROVE m \in S
    <3>1. CASE m = c  BY <1>1, <2>1, <3>1
    <3>2. CASE m < c  BY <1>1, <3>2
    <3>3. CASE m > c
      <4> DEFINE before == h[m - 1]
                 after == h[m]
      <4>1. Continues(before, h[c])  BY <1>1, <2>3, <3>3
      <4>2. before \in ImportPlans /\ file[m] \in TagItem
            /\ after = BuildItem(tags, before, file[m])
        BY <1>1, <1>2 DEF n
      <4>3. Continues(after, before) /\ Len(before.actions) \in Nat
        BY <4>2, ItemContinues
      <4>4. Len(h[c].actions) \in Nat /\ Len(after.actions) \in Nat
        <5>1. c \in 0 .. n /\ m \in 0 .. n  BY <1>1 DEF n
        <5> QED  BY <1>3, <5>1
      <4> HIDE DEF before, after
      <4>5. \A j \in 1 .. Len(h[c].actions) : j \in 1 .. Len(before.actions)
        BY <4>1, <4>3, <4>4 DEF Continues
      <4>6. Continues(after, h[c])
        BY <4>1, <4>3, <4>4, <4>5 DEF Continues
      <4> QED  BY <1>1, <4>6 DEF after
    <3> QED  BY <1>1, <3>1, <3>2, <3>3
  <2>4. n \in S
    <3> HIDE DEF S
    <3>1. 0 .. n \subseteq S  BY <1>1, <2>2, <2>3, RoundByRound
    <3> QED  BY <1>1, <3>1
  <2> QED  BY <1>1, <2>4 DEF n
<1>5. /\ Len(h[c].actions) \in 0 .. Len(s)
      /\ \A j \in 1 .. Len(h[c].actions) : s[j] = h[c].actions[j]
  <2>1. c \in 0 .. n /\ n \in 0 .. n  BY <1>1 DEF n
  <2>2. Continues(h[n], h[c]) /\ Len(h[c].actions) \in Nat /\ Len(s) \in Nat
    BY <1>3, <1>4, <2>1
  <2>3. /\ Len(h[c].actions) <= Len(s)
        /\ \A j \in 1 .. Len(h[c].actions) : s[j] = h[c].actions[j]
    BY <2>1, <2>2 DEF Continues
  <2> QED  BY <2>2, <2>3
<1> QED  BY <1>5 DEF n

\* The items of a file performed, one after the other.
LEMMA ItemsPerformed ==
    ASSUME NEW file \in Seq(TagItem), NEW h \in [0 .. Len(file) -> ImportPlans],
           \A k \in 1 .. Len(file) : h[k] = BuildItem(tags, h[k - 1], file[k]),
           NEW g, \A k \in 1 .. Len(h[Len(file)].actions) :
                      g[k] = Perform(g[k - 1], h[Len(file)].actions[k]),
           NEW c \in 1 .. Len(file)
    PROVE  g[Len(h[c].actions)] = ItemDone(g[Len(h[c - 1].actions)], file[c])
<1> DEFINE n == Len(file)
           s == h[n].actions
<1>1. n \in Nat /\ \A k \in 1 .. n : file[k] \in TagItem  BY ListType
<1> HIDE DEF n
<1>2. \A k \in 0 .. n : h[k] \in ImportPlans  BY DEF n
<1>3. \A k \in 0 .. n : Len(h[k].actions) \in Nat
  <2>1. \A k \in 0 .. n : h[k].actions \in Seq(ImportActions)  BY <1>2 DEF ImportPlans
  <2> QED  BY <2>1, ListType
<1>6. g[Len(h[c].actions)] = ItemDone(g[Len(h[c - 1].actions)], file[c])
  <2> DEFINE plan == h[c - 1]
             after == h[c]
             item == file[c]
  <2>1. /\ plan \in ImportPlans /\ item \in TagItem /\ after = BuildItem(tags, plan, item)
    BY <1>1, <1>2 DEF n
  <2>2. \A j \in 1 .. Len(after.actions) : g[j] = Perform(g[j - 1], after.actions[j])
    <3>1. c \in 0 .. Len(file)  BY <1>1 DEF n
    <3>2. Len(after.actions) \in 0 .. Len(s)
          /\ \A j \in 1 .. Len(after.actions) : s[j] = after.actions[j]
      BY <3>1, ItemsPrefixes DEF n
    <3>3. \A j \in 1 .. Len(after.actions) : j \in 1 .. Len(s)
      <4>1. n \in 0 .. n /\ Len(s) \in Nat  BY <1>1, <1>3 DEF n
      <4> QED  BY <3>2, <4>1
    <3>4. \A j \in 1 .. Len(s) : g[j] = Perform(g[j - 1], s[j])  BY DEF n
    <3> QED  BY <3>2, <3>3, <3>4
  <2> HIDE DEF plan, after, item
  <2>3. \A j \in 1 .. Len(BuildItem(tags, plan, item).actions) :
            g[j] = Perform(g[j - 1], BuildItem(tags, plan, item).actions[j])
    BY <2>1, <2>2
  <2>4. g[Len(BuildItem(tags, plan, item).actions)] = ItemDone(g[Len(plan.actions)], item)
    BY <2>1, <2>3, ItemPlanned
  <2>5. g[Len(after.actions)] = ItemDone(g[Len(plan.actions)], item)  BY <2>1, <2>4
  <2> QED  BY <2>5 DEF plan, after, item
<1> QED  BY <1>6


-----------------------------------------------------------------------------
(* What the deletions leave                                                *)

\* The parent that the deletions leave a tag.
KeptParent(doomed, t) == IF tags[t].parent \in doomed THEN NoTag ELSE tags[t].parent

\* The rows after m actions of the deletions.  If a tag that stays is gone, the action that
\* was to make a root of it, or of a tag above it, is yet to come, and will fail.
Clearing(rows, plan, doomed, m) ==
    /\ DOMAIN rows \subseteq DOMAIN tags
    /\ \A t \in DOMAIN rows :
          /\ rows[t].value = tags[t].value /\ rows[t].external_id = tags[t].external_id
          /\ rows[t].parent \in {tags[t].parent, KeptParent(doomed, t)}
    /\ \A j \in 1 .. m : plan.actions[j].name = "update_parent" =>
          \A t \in DOMAIN rows :
              rows[t].external_id = plan.actions[j].id => rows[t].parent = NoTag
    /\ \A j \in 1 .. m : plan.actions[j].name = "delete" => ~ Exists(rows, plan.actions[j].id)
    /\ (\E t \in DOMAIN tags \ doomed : t \notin DOMAIN rows) =>
          \E j \in m + 1 .. Len(plan.actions) :
              plan.actions[j].name = "update_parent" /\ ~ Exists(rows, plan.actions[j].id)

\* A tag to delete goes, and with it a tag that stays only with a child of one to delete.
LEMMA TakenWith ==
    ASSUME NEW rows, NEW doomed, NEW key \in DOMAIN rows, key \in doomed,
           NEW t \in WithSubtagsIn(rows, {key}), t \notin doomed
    PROVE  \E c \in DOMAIN rows : /\ c \notin doomed /\ rows[c].parent \in doomed
                                  /\ c \in WithSubtagsIn(rows, {key})
<1> SUFFICES ASSUME \A c \in WithSubtagsIn(rows, {key}) :
                        rows[c].parent \in doomed => c \in doomed
             PROVE  FALSE
  BY DEF WithSubtagsIn
<1> DEFINE W == WithSubtagsIn(rows, {key})
           S == W \cap doomed
<1>1. W \subseteq DOMAIN rows  BY DEF WithSubtagsIn
<1>2. key \in W  BY DEF WithSubtagsIn
<1>3. \A u \in S : ChildrenIn(rows, u) \subseteq S
  <2> SUFFICES ASSUME NEW u \in S, NEW c \in ChildrenIn(rows, u) PROVE c \in S
    OBVIOUS
  <2>1. c \in DOMAIN rows /\ rows[c].parent = u  BY DEF ChildrenIn
  <2>2. c \in W  BY <2>1, SubtagsClosed
  <2> QED  BY <2>1, <2>2
<1>4. S \in SUBSET DOMAIN rows /\ {key} \subseteq S  BY <1>1, <1>2
<1> HIDE DEF S
<1>5. t \in S  BY <1>3, <1>4 DEF WithSubtagsIn
<1> QED  BY <1>5 DEF S

\* A child of a tag to delete becomes a root.
LEMMA RootingClears ==
    ASSUME TagsTyped(tags, lastTag), NEW doomed \in SUBSET DOMAIN tags, NEW plan,
           ClearsAway(plan, doomed, doomed, Orphans(doomed, doomed)),
           NEW m \in Nat, m + 1 \in 1 .. Len(plan.actions),
           NEW db \in ImportDbs(lastTag), ~ db.failed,
           NEW a \in ImportActions, a = plan.actions[m + 1], a.name = "update_parent",
           ~ Perform(db, a).failed, Clearing(db.rows, plan, doomed, m)
    PROVE  Clearing(Perform(db, a).rows, plan, doomed, m + 1)
<1> DEFINE rows == db.rows
           after == Perform(db, a).rows
           t == KeyOf(rows, a.id)
<1>1. lastTag \in Nat  BY DEF TagsTyped
<1>2. /\ t \in DOMAIN rows /\ rows[t].external_id = a.id
      /\ RowRewritten(rows, after, t) /\ after[t].value = rows[t].value
      /\ ParentIs(rows, after[t].parent, a.parent_id)
  BY <1>1, UpdateParentDoes
<1> HIDE DEF t, after, rows
<1>3. TakesAway(a, doomed)  BY DEF ClearsAway
<1>4. PICK c \in Orphans(doomed, doomed) : a.parent_id = NoParentId /\ a.id = tags[c].external_id
  BY <1>3 DEF TakesAway
<1>5. after[t].parent = NoTag  BY <1>2, <1>4 DEF ParentIs
<1>6. t \in DOMAIN tags /\ rows[t].external_id = tags[t].external_id
  BY <1>2 DEF Clearing, rows
<1>7. t = c
  BY <1>2, <1>4, <1>6 DEF Orphans, TagsTyped
<1>8. tags[t].parent \in doomed  BY <1>7 DEF Orphans
<1>9. /\ DOMAIN after = DOMAIN rows
      /\ \A u \in DOMAIN rows : /\ after[u].external_id = rows[u].external_id
                                /\ after[u].value = rows[u].value
                                /\ u # t => after[u].parent = rows[u].parent
  BY <1>2 DEF RowRewritten, Alike
<1>10. Clearing(rows, plan, doomed, m)  BY DEF rows
<1>11. DOMAIN after \subseteq DOMAIN tags  BY <1>9, <1>10 DEF Clearing
<1>12. ASSUME NEW u \in DOMAIN after
       PROVE  /\ after[u].value = tags[u].value /\ after[u].external_id = tags[u].external_id
              /\ after[u].parent \in {tags[u].parent, KeptParent(doomed, u)}
  <2>1. /\ rows[u].value = tags[u].value /\ rows[u].external_id = tags[u].external_id
        /\ rows[u].parent \in {tags[u].parent, KeptParent(doomed, u)}
    BY <1>9, <1>10 DEF Clearing
  <2>2. u = t => after[u].parent = KeptParent(doomed, u)
    BY <1>5, <1>8 DEF KeptParent
  <2> QED  BY <1>9, <2>1, <2>2
<1>13. \A id : Exists(after, id) <=> Exists(rows, id)
  BY <1>9 DEF Exists
<1>14. ASSUME NEW j \in 1 .. m + 1, plan.actions[j].name = "update_parent",
              NEW u \in DOMAIN after, after[u].external_id = plan.actions[j].id
       PROVE  after[u].parent = NoTag
  <2>1. CASE j = m + 1
    <3>1. rows[u].external_id = rows[t].external_id  BY <1>2, <1>9, <1>14, <2>1
    <3>2. TagsTyped(rows, db.last)  BY <1>1, ImportDbType DEF rows
    <3>3. u = t  BY <1>2, <1>9, <3>1, <3>2 DEF TagsTyped
    <3> QED  BY <1>5, <3>3
  <2>2. CASE j # m + 1
    <3>1. j \in 1 .. m  BY <2>2
    <3>2. rows[u].parent = NoTag  BY <1>9, <1>10, <1>14, <3>1 DEF Clearing
    <3> QED  BY <1>5, <1>9, <1>14, <3>2
  <2> QED  BY <2>1, <2>2
<1>15. ASSUME NEW j \in 1 .. m + 1, plan.actions[j].name = "delete"
       PROVE  ~ Exists(after, plan.actions[j].id)
  <2>1. j \in 1 .. m  BY <1>15
  <2> QED  BY <1>10, <1>13, <1>15, <2>1 DEF Clearing
<1>16. ASSUME NEW u \in DOMAIN tags \ doomed, u \notin DOMAIN after
       PROVE  \E j \in (m + 1) + 1 .. Len(plan.actions) :
                  plan.actions[j].name = "update_parent" /\ ~ Exists(after, plan.actions[j].id)
  <2>1. PICK j \in m + 1 .. Len(plan.actions) :
            plan.actions[j].name = "update_parent" /\ ~ Exists(rows, plan.actions[j].id)
    BY <1>9, <1>10, <1>16 DEF Clearing
  <2>2. Exists(rows, a.id)  BY <1>2 DEF Exists
  <2>3. j # m + 1  BY <2>1, <2>2
  <2>4. j \in (m + 1) + 1 .. Len(plan.actions)  BY <2>3
  <2> QED  BY <1>13, <2>1, <2>4
<1>17. Clearing(after, plan, doomed, m + 1)
  BY <1>11, <1>12, <1>14, <1>15, <1>16 DEF Clearing
<1> QED  BY <1>17 DEF after

\* A tag to delete goes with all below it.
LEMMA DeletingClears ==
    ASSUME TagsTyped(tags, lastTag), NEW doomed \in SUBSET DOMAIN tags, NEW plan,
           ClearsAway(plan, doomed, doomed, Orphans(doomed, doomed)),
           NEW m \in Nat, m + 1 \in 1 .. Len(plan.actions),
           NEW db \in ImportDbs(lastTag), ~ db.failed,
           NEW a \in ImportActions, a = plan.actions[m + 1], a.name = "delete",
           Clearing(db.rows, plan, doomed, m)
    PROVE  Clearing(Perform(db, a).rows, plan, doomed, m + 1)
<1> DEFINE rows == db.rows
           after == Perform(db, a).rows
           key == KeyOf(rows, a.id)
           W == WithSubtagsIn(rows, {key})
<1>1. lastTag \in Nat /\ NoTag \notin DOMAIN tags  BY DEF TagsTyped, NoTag
<1>2. TagsTyped(rows, db.last)  BY <1>1, ImportDbType
<1>3. after = IF Exists(rows, a.id) THEN Without(rows, {key}) ELSE rows
  BY <1>1, DeleteDoes
<1>4. Exists(rows, a.id) => key \in DOMAIN rows /\ rows[key].external_id = a.id
  BY DEF Exists, KeyOf
<1> HIDE DEF after, rows, key
<1>5. Clearing(rows, plan, doomed, m)  BY DEF rows
<1>6. key \in DOMAIN rows => key \in W  BY DEF WithSubtagsIn
<1>7. /\ DOMAIN after \subseteq DOMAIN rows
      /\ \A u \in DOMAIN after : after[u] = rows[u]
      /\ Exists(rows, a.id) => DOMAIN after = DOMAIN rows \ W
      /\ ~ Exists(rows, a.id) => DOMAIN after = DOMAIN rows
  BY <1>3 DEF Without
<1> HIDE DEF W
<1>8. ~ Exists(after, a.id)
  <2> SUFFICES ASSUME NEW u \in DOMAIN after, after[u].external_id = a.id PROVE FALSE
    BY DEF Exists
  <2>1. u \in DOMAIN rows /\ rows[u].external_id = a.id  BY <1>7
  <2>2. Exists(rows, a.id)  BY <2>1 DEF Exists
  <2>3. u = key  BY <1>2, <1>4, <2>1, <2>2 DEF TagsTyped
  <2> QED  BY <1>4, <1>6, <1>7, <2>2, <2>3
<1>9. \A id : Exists(after, id) => Exists(rows, id)
  BY <1>7 DEF Exists
<1>10. DOMAIN after \subseteq DOMAIN tags  BY <1>5, <1>7 DEF Clearing
<1>11. \A u \in DOMAIN after :
          /\ after[u].value = tags[u].value /\ after[u].external_id = tags[u].external_id
          /\ after[u].parent \in {tags[u].parent, KeptParent(doomed, u)}
  BY <1>5, <1>7 DEF Clearing
<1>12. ASSUME NEW j \in 1 .. m + 1, plan.actions[j].name = "update_parent",
              NEW u \in DOMAIN after, after[u].external_id = plan.actions[j].id
       PROVE  after[u].parent = NoTag
  <2>1. j \in 1 .. m  BY <1>12
  <2> QED  BY <1>5, <1>7, <1>12, <2>1 DEF Clearing
<1>13. ASSUME NEW j \in 1 .. m + 1, plan.actions[j].name = "delete"
       PROVE  ~ Exists(after, plan.actions[j].id)
  <2>1. j # m + 1 => j \in 1 .. m  OBVIOUS
  <2> QED  BY <1>5, <1>8, <1>9, <1>13, <2>1 DEF Clearing
<1>14. ASSUME NEW u \in DOMAIN tags \ doomed, u \notin DOMAIN after
       PROVE  \E j \in (m + 1) + 1 .. Len(plan.actions) :
                  plan.actions[j].name = "update_parent" /\ ~ Exists(after, plan.actions[j].id)
  <2>1. CASE \E v \in DOMAIN tags \ doomed : v \notin DOMAIN rows
    <3>1. PICK j \in m + 1 .. Len(plan.actions) :
              plan.actions[j].name = "update_parent" /\ ~ Exists(rows, plan.actions[j].id)
      BY <1>5, <2>1 DEF Clearing
    <3>2. j # m + 1  BY <3>1
    <3>3. j \in (m + 1) + 1 .. Len(plan.actions)  BY <3>2
    <3> QED  BY <1>9, <3>1, <3>3
  <2>2. CASE \A v \in DOMAIN tags \ doomed : v \in DOMAIN rows
    <3>1. Exists(rows, a.id) /\ u \in W  BY <1>7, <1>14, <2>2
    <3>2. key \in doomed
      <4>1. TakesAway(a, doomed)  BY DEF ClearsAway
      <4>2. PICK t \in doomed : a.id = tags[t].external_id  BY <4>1 DEF TakesAway
      <4>3. key \in DOMAIN tags /\ rows[key].external_id = tags[key].external_id
        BY <1>4, <1>5, <3>1 DEF Clearing
      <4>4. key = t  BY <1>4, <3>1, <4>2, <4>3 DEF TagsTyped
      <4> QED  BY <4>4
    <3>3. PICK c \in DOMAIN rows : c \notin doomed /\ rows[c].parent \in doomed /\ c \in W
      <4>1. key \in DOMAIN rows /\ u \in WithSubtagsIn(rows, {key}) /\ u \notin doomed
        BY <1>4, <1>14, <3>1 DEF W
      <4>2. \E c \in DOMAIN rows : /\ c \notin doomed /\ rows[c].parent \in doomed
                                   /\ c \in WithSubtagsIn(rows, {key})
        BY <3>2, <4>1, TakenWith
      <4> QED  BY <4>2 DEF W
    <3>4. /\ c \in DOMAIN tags /\ rows[c].external_id = tags[c].external_id
          /\ rows[c].parent \in {tags[c].parent, KeptParent(doomed, c)}
      BY <1>5 DEF Clearing
    <3>5. rows[c].parent # NoTag  BY <1>1, <3>3
    <3>6. tags[c].parent \in doomed
      BY <3>3, <3>4, <3>5 DEF KeptParent
    <3>7. c \in Orphans(doomed, doomed)  BY <3>3, <3>4, <3>6 DEF Orphans
    <3>8. PICK j \in 1 .. Len(plan.actions) :
              plan.actions[j].name = "update_parent" /\ plan.actions[j].id = tags[c].external_id
      BY <3>7 DEF ClearsAway, Does
    <3>9. j \notin 1 .. m
      BY <1>5, <3>4, <3>5, <3>8 DEF Clearing
    <3>10. j # m + 1  BY <3>8
    <3>11. j \in (m + 1) + 1 .. Len(plan.actions)  BY <3>9, <3>10
    <3>12. ~ Exists(after, plan.actions[j].id)
      <4> SUFFICES ASSUME NEW v \in DOMAIN after, after[v].external_id = tags[c].external_id
                   PROVE  FALSE
        BY <3>8 DEF Exists
      <4>1. v \in DOMAIN tags /\ tags[v].external_id = tags[c].external_id
        BY <1>10, <1>11
      <4>2. v = c  BY <3>4, <4>1 DEF TagsTyped
      <4> QED  BY <1>7, <3>1, <3>3, <4>2
    <3> QED  BY <3>8, <3>11, <3>12
  <2> QED  BY <2>1, <2>2
<1>15. Clearing(after, plan, doomed, m + 1)
  BY <1>10, <1>11, <1>12, <1>13, <1>14 DEF Clearing
<1> QED  BY <1>15 DEF after

\* The rows after the deletions.
Cleared(rows, doomed) ==
    /\ DOMAIN rows = DOMAIN tags \ doomed
    /\ \A t \in DOMAIN rows :
          /\ rows[t].value = tags[t].value /\ rows[t].external_id = tags[t].external_id
          /\ rows[t].parent = KeptParent(doomed, t)

LEMMA DeletionsClear ==
    ASSUME TagsTyped(tags, lastTag), NEW doomed \in SUBSET DOMAIN tags, NEW plan,
           ClearsAway(plan, doomed, doomed, Orphans(doomed, doomed)),
           NEW g, g[0].rows = tags, \A m \in 0 .. Len(plan.actions) : g[m] \in ImportDbs(lastTag),
           \A m \in 1 .. Len(plan.actions) : g[m] = Perform(g[m - 1], plan.actions[m]),
           ~ g[Len(plan.actions)].failed
    PROVE  Cleared(g[Len(plan.actions)].rows, doomed)
<1> DEFINE n == Len(plan.actions)
           s == plan.actions
<1>1. /\ n \in Nat /\ \A m \in 1 .. n : s[m] \in ImportActions
  <2>1. s \in Seq(ImportActions)  BY DEF ClearsAway, ImportPlans
  <2> HIDE DEF s
  <2>2. Len(s) \in Nat /\ \A m \in 1 .. Len(s) : s[m] \in ImportActions  BY <2>1, ListType
  <2> QED  BY <2>2 DEF s
<1>2. \A m \in 0 .. n : ~ g[m].failed
  <2>1. \A k \in 1 .. n : g[k] = Perform(g[k - 1], s[k])  OBVIOUS
  <2>2. ~ g[n].failed  OBVIOUS
  <2> HIDE DEF n, s
  <2> QED  BY <1>1, <2>1, <2>2, FailedForGood
<1> DEFINE S == {m \in 0 .. n : Clearing(g[m].rows, plan, doomed, m)}
<1>3. 0 \in S
  <2>1. Clearing(tags, plan, doomed, 0)  BY DEF Clearing
  <2>2. Clearing(g[0].rows, plan, doomed, 0)  BY <2>1
  <2> QED  BY <1>1, <2>2
<1>4. ASSUME NEW k \in 1 .. n, k - 1 \in S PROVE k \in S
  <2> DEFINE m == k - 1
             db == g[m]
             a == s[k]
  <2>1. m \in Nat /\ m + 1 = k /\ k - 1 \in 0 .. n /\ k \in 0 .. n  BY <1>1
  <2>2. db \in ImportDbs(lastTag) /\ ~ db.failed /\ ~ g[k].failed
    BY <1>2, <2>1
  <2>3. a \in ImportActions /\ g[k] = Perform(db, a) /\ TakesAway(a, doomed)
    BY <1>1 DEF ClearsAway
  <2>4. a.name = "update_parent" \/ a.name = "delete"
    BY <2>3 DEF TakesAway
  <2>5. Clearing(db.rows, plan, doomed, m)  BY <1>4
  <2>6. m + 1 \in 1 .. Len(plan.actions) /\ a = plan.actions[m + 1]  BY <2>1
  <2> HIDE DEF m, db, a
  <2>7. Clearing(g[k].rows, plan, doomed, m + 1)
    <3>1. CASE a.name = "update_parent"
      BY <2>1, <2>2, <2>3, <2>5, <2>6, <3>1, RootingClears
    <3>2. CASE a.name = "delete"
      BY <2>1, <2>2, <2>3, <2>5, <2>6, <3>2, DeletingClears
    <3> QED  BY <2>4, <3>1, <3>2
  <2> QED  BY <2>1, <2>7
<1>5. n \in S
  <2> HIDE DEF S
  <2>1. 0 .. n \subseteq S  BY <1>1, <1>3, <1>4, RoundByRound
  <2> QED  BY <1>1, <2>1
<1> DEFINE rows == g[n].rows
<1>6. Clearing(rows, plan, doomed, n)  BY <1>5
<1>7. n + 1 .. n = {}  BY <1>1
<1> HIDE DEF rows
<1>8. DOMAIN tags \ doomed \subseteq DOMAIN rows
  BY <1>6, <1>7 DEF Clearing
<1>9. ASSUME NEW t \in DOMAIN rows
      PROVE  /\ t \in DOMAIN tags \ doomed
             /\ rows[t].value = tags[t].value /\ rows[t].external_id = tags[t].external_id
             /\ rows[t].parent = KeptParent(doomed, t)
  <2>1. /\ t \in DOMAIN tags
        /\ rows[t].value = tags[t].value /\ rows[t].external_id = tags[t].external_id
        /\ rows[t].parent \in {tags[t].parent, KeptParent(doomed, t)}
    BY <1>6 DEF Clearing
  <2>2. t \notin doomed
    <3> SUFFICES ASSUME t \in doomed PROVE FALSE
      OBVIOUS
    <3>1. PICK j \in 1 .. n : s[j].name = "delete" /\ s[j].id = tags[t].external_id
      BY DEF ClearsAway, Does
    <3>2. ~ Exists(rows, s[j].id)  BY <1>6, <3>1 DEF Clearing
    <3> QED  BY <2>1, <3>1, <3>2 DEF Exists
  <2>3. tags[t].parent \in doomed => rows[t].parent = NoTag
    <3> SUFFICES ASSUME tags[t].parent \in doomed PROVE rows[t].parent = NoTag
      OBVIOUS
    <3>1. t \in Orphans(doomed, doomed)  BY <2>1, <2>2 DEF Orphans
    <3>2. PICK j \in 1 .. n : s[j].name = "update_parent" /\ s[j].id = tags[t].external_id
      BY <3>1 DEF ClearsAway, Does
    <3> QED  BY <1>6, <2>1, <3>2 DEF Clearing
  <2> QED  BY <2>1, <2>2, <2>3 DEF KeptParent
<1>10. Cleared(rows, doomed)
  BY <1>8, <1>9 DEF Cleared
<1> QED  BY <1>10 DEF rows


-----------------------------------------------------------------------------
(* What the items done so far leave                                        *)

\* The parent that a file gives a tag: none for an id that it does not list.
PlacedIn(file, rows, parent, id) ==
    IF id \in IdsOf(file) THEN parent \in DOMAIN rows /\ rows[parent].external_id = id
                          ELSE parent = NoTag

NamesNoneTwice(file) ==
    \A j, k \in 1 .. Len(file) : file[j].id = file[k].id => j = k

\* The rows after the deletions and k items of the file.
InStep(rows, file, doomed, k) ==
    /\ \A t \in DOMAIN tags \ doomed :
          t \in DOMAIN rows /\ rows[t].external_id = tags[t].external_id
    /\ \A t \in doomed : t \notin DOMAIN rows
    /\ \A t \in DOMAIN rows \ DOMAIN tags : \E j \in 1 .. k : rows[t].external_id = file[j].id
    /\ \A j \in 1 .. k : \E t \in DOMAIN rows :
          /\ rows[t].external_id = file[j].id /\ rows[t].value = file[j].value
          /\ PlacedIn(file, rows, rows[t].parent, file[j].parent_id)
    /\ \A t \in DOMAIN tags \ doomed :
          (\A j \in 1 .. k : file[j].id # tags[t].external_id) =>
              rows[t].value = tags[t].value /\ rows[t].parent = KeptParent(doomed, t)

\* Every tag is then one of the file.
LEMMA AllListed ==
    ASSUME NEW file \in Seq(TagItem), NEW rows, NEW k \in 0 .. Len(file),
           InStep(rows, file, Doomed(tags, file), k)
    PROVE  /\ \A t \in DOMAIN rows : rows[t].external_id \in IdsOf(file)
           /\ NoParentId \notin IdsOf(file)
           /\ \A t \in DOMAIN tags :
                 t \in Doomed(tags, file) <=> tags[t].external_id \notin IdsOf(file)
<1> DEFINE doomed == Doomed(tags, file)
           n == Len(file)
<1>1. /\ n \in Nat /\ DOMAIN file = 1 .. n /\ \A j \in 1 .. n : file[j] \in TagItem
  BY ListType
<1>2. \A t \in DOMAIN tags : t \in doomed <=> tags[t].external_id \notin IdsOf(file)
  BY DEF Doomed, IdsOf
<1>3. NoParentId \notin IdsOf(file)
  BY <1>1, TagImportAssumption DEF IdsOf, TagItem
<1> HIDE DEF doomed, n
<1>4. \A j \in 1 .. k : file[j].id \in IdsOf(file)
  <2>1. \A j \in 1 .. k : j \in DOMAIN file  BY <1>1 DEF n
  <2> QED  BY <2>1 DEF IdsOf
<1>5. ASSUME NEW t \in DOMAIN rows PROVE rows[t].external_id \in IdsOf(file)
  <2>1. InStep(rows, file, doomed, k)  BY DEF doomed
  <2>2. CASE t \in DOMAIN tags
    <3>1. t \notin doomed /\ rows[t].external_id = tags[t].external_id
      BY <2>1, <2>2 DEF InStep
    <3> QED  BY <1>2, <2>2, <3>1
  <2>3. CASE t \notin DOMAIN tags
    <3>1. \E j \in 1 .. k : rows[t].external_id = file[j].id  BY <2>1, <2>3 DEF InStep
    <3> QED  BY <1>4, <3>1
  <2> QED  BY <2>2, <2>3
<1> QED  BY <1>2, <1>3, <1>5 DEF doomed

LEMMA NamedIsPlaced ==
    ASSUME NEW file, NEW rows, NEW parent, NEW id, ParentIs(rows, parent, id),
           \A t \in DOMAIN rows : rows[t].external_id \in IdsOf(file), NoParentId \notin IdsOf(file)
    PROVE  PlacedIn(file, rows, parent, id)
BY DEF ParentIs, PlacedIn

\* One tag is written as an item says: a new one, or the one with its id.
LEMMA StepTaken ==
    ASSUME NEW file \in Seq(TagItem), NamesNoneTwice(file), NEW doomed, NEW rows, NEW after,
           NEW k \in 1 .. Len(file), InStep(rows, file, doomed, k - 1), NEW t,
           DOMAIN after = DOMAIN rows \cup {t},
           \A u \in DOMAIN rows \ {t} : Alike(after[u], rows[u]),
           t \in DOMAIN rows => rows[t].external_id = file[k].id,
           t \notin DOMAIN rows => t \notin DOMAIN tags /\ t \notin doomed,
           after[t].external_id = file[k].id, after[t].value = file[k].value,
           PlacedIn(file, rows, after[t].parent, file[k].parent_id)
    PROVE  InStep(after, file, doomed, k)
<1>1. Len(file) \in Nat  BY ListType
<1>2. \A u \in DOMAIN rows : u \in DOMAIN after /\ after[u].external_id = rows[u].external_id
  BY DEF Alike
<1>3. \A parent, id : PlacedIn(file, rows, parent, id) => PlacedIn(file, after, parent, id)
  BY <1>2 DEF PlacedIn
<1>4. \A u \in DOMAIN tags \ doomed :
          u \in DOMAIN after /\ after[u].external_id = tags[u].external_id
  BY <1>2 DEF InStep
<1>5. \A u \in doomed : u \notin DOMAIN after
  BY DEF InStep
<1>6. ASSUME NEW u \in DOMAIN after \ DOMAIN tags
      PROVE  \E j \in 1 .. k : after[u].external_id = file[j].id
  <2>1. CASE u = t  BY <1>1, <2>1
  <2>2. CASE u # t
    <3>1. u \in DOMAIN rows \ DOMAIN tags  BY <2>2
    <3>2. PICK j \in 1 .. k - 1 : rows[u].external_id = file[j].id  BY <3>1 DEF InStep
    <3>3. j \in 1 .. k  BY <1>1, <3>2
    <3> QED  BY <1>2, <3>1, <3>2, <3>3
  <2> QED  BY <2>1, <2>2
<1>7. ASSUME NEW j \in 1 .. k
      PROVE  \E u \in DOMAIN after :
                /\ after[u].external_id = file[j].id /\ after[u].value = file[j].value
                /\ PlacedIn(file, after, after[u].parent, file[j].parent_id)
  <2>1. CASE j = k  BY <1>3, <2>1
  <2>2. CASE j # k
    <3>1. j \in 1 .. k - 1 /\ j \in 1 .. Len(file)  BY <1>1, <2>2
    <3>2. PICK u \in DOMAIN rows :
              /\ rows[u].external_id = file[j].id /\ rows[u].value = file[j].value
              /\ PlacedIn(file, rows, rows[u].parent, file[j].parent_id)
      BY <3>1 DEF InStep
    <3>3. u # t  BY <2>2, <3>1, <3>2 DEF NamesNoneTwice
    <3>4. Alike(after[u], rows[u]) /\ u \in DOMAIN after  BY <3>2, <3>3
    <3> QED  BY <1>3, <3>2, <3>4 DEF Alike
  <2> QED  BY <2>1, <2>2
<1>8. ASSUME NEW u \in DOMAIN tags \ doomed, \A j \in 1 .. k : file[j].id # tags[u].external_id
      PROVE  after[u].value = tags[u].value /\ after[u].parent = KeptParent(doomed, u)
  <2>1. \A j \in 1 .. k - 1 : file[j].id # tags[u].external_id  BY <1>1, <1>8
  <2>2. /\ u \in DOMAIN rows /\ rows[u].external_id = tags[u].external_id
        /\ rows[u].value = tags[u].value /\ rows[u].parent = KeptParent(doomed, u)
    BY <2>1 DEF InStep
  <2>3. k \in 1 .. k  BY <1>1
  <2>4. u # t  BY <1>8, <2>2, <2>3
  <2>5. Alike(after[u], rows[u])  BY <2>2, <2>4
  <2> QED  BY <2>2, <2>5 DEF Alike
<1> QED  BY <1>4, <1>5, <1>6, <1>7, <1>8 DEF InStep


-----------------------------------------------------------------------------
(* An item creates a tag, or finds it as it was                            *)

\* An item that no tag has the id of is created.
LEMMA ItemCreates ==
    ASSUME TagsTyped(tags, lastTag), NEW file \in Seq(TagItem), NamesNoneTwice(file),
           NEW db \in ImportDbs(lastTag), ~ db.failed, NEW k \in 1 .. Len(file),
           InStep(db.rows, file, Doomed(tags, file), k - 1),
           CreateApplies(tags, file[k]), ~ ItemDone(db, file[k]).failed
    PROVE  InStep(ItemDone(db, file[k]).rows, file, Doomed(tags, file), k)
<1> DEFINE item == file[k]
           a == Action("create", item)
           rows == db.rows
           after == Perform(db, a)
           t == db.last + 1
           doomed == Doomed(tags, file)
<1>1. item \in TagItem /\ Len(file) \in Nat  BY ListType
<1>2. a \in ImportActions  BY <1>1, ActionTyped DEF TagItem
<1>3. /\ a.name = "create" /\ a.id = item.id /\ a.value = item.value
      /\ a.parent_id = item.parent_id
  BY DEF Action
<1>4. ItemDone(db, item) = after  BY DEF ItemDone
<1>5. lastTag \in Nat /\ DOMAIN tags \subseteq 1 .. lastTag  BY DEF TagsTyped
<1>6. lastTag <= db.last /\ db.last \in Nat  BY <1>5, ImportDbType DEF TagsTyped
<1> HIDE DEF a, after, item
<1>7. /\ t \notin DOMAIN rows
      /\ DOMAIN after.rows = DOMAIN rows \cup {t}
      /\ after.rows[t].value = a.value /\ after.rows[t].external_id = a.id
      /\ ParentIs(rows, after.rows[t].parent, a.parent_id)
      /\ \A u \in DOMAIN rows : Alike(after.rows[u], rows[u])
  <2>1. ~ Perform(db, a).failed  BY <1>4 DEF after, item
  <2> QED  BY <1>2, <1>3, <1>5, <2>1, CreateDoes DEF after
<1>8. t \notin DOMAIN tags  BY <1>5, <1>6
<1> HIDE DEF t, rows
<1>9. doomed \subseteq DOMAIN tags  BY DEF Doomed
<1> HIDE DEF doomed
<1>10. InStep(rows, file, doomed, k - 1)  BY DEF doomed, rows
<1>11. PlacedIn(file, rows, after.rows[t].parent, item.parent_id)
  <2>1. k - 1 \in 0 .. Len(file)  BY <1>1
  <2>2. /\ \A u \in DOMAIN rows : rows[u].external_id \in IdsOf(file)
        /\ NoParentId \notin IdsOf(file)
    BY <1>10, <2>1, AllListed DEF doomed
  <2>3. ParentIs(rows, after.rows[t].parent, item.parent_id)  BY <1>3, <1>7
  <2> QED  BY <2>2, <2>3, NamedIsPlaced
<1> DEFINE made == after.rows
<1>12. /\ t \notin DOMAIN rows /\ t \notin DOMAIN tags /\ t \notin doomed
       /\ DOMAIN made = DOMAIN rows \cup {t}
       /\ \A u \in DOMAIN rows \ {t} : Alike(made[u], rows[u])
       /\ made[t].external_id = file[k].id /\ made[t].value = file[k].value
       /\ PlacedIn(file, rows, made[t].parent, file[k].parent_id)
  BY <1>3, <1>7, <1>8, <1>9, <1>11 DEF item
<1> HIDE DEF made
<1>13. InStep(made, file, doomed, k)
  BY <1>10, <1>12, StepTaken
<1> QED  BY <1>4, <1>13 DEF made, doomed, item

\* What is there of an item's tag before the item's turn.
LEMMA ItemTagKept ==
    ASSUME TagsTyped(tags, lastTag), NEW file \in Seq(TagItem), NamesNoneTwice(file),
           NEW db \in ImportDbs(lastTag), NEW k \in 1 .. Len(file),
           InStep(db.rows, file, Doomed(tags, file), k - 1),
           Exists(tags, file[k].id)
    PROVE  LET t == KeyOf(tags, file[k].id)
           IN  /\ t \in DOMAIN tags \ Doomed(tags, file) /\ tags[t].external_id = file[k].id
               /\ t \in DOMAIN db.rows /\ db.rows[t].external_id = file[k].id
               /\ db.rows[t].value = tags[t].value
               /\ db.rows[t].parent = KeptParent(Doomed(tags, file), t)
<1> DEFINE t == KeyOf(tags, file[k].id)
           doomed == Doomed(tags, file)
<1>1. t \in DOMAIN tags /\ tags[t].external_id = file[k].id  BY DEF Exists, KeyOf
<1> HIDE DEF t
<1>2. k \in DOMAIN file /\ Len(file) \in Nat  BY ListType
<1>3. t \notin doomed  BY <1>1, <1>2 DEF Doomed
<1> HIDE DEF doomed
<1>4. \A j \in 1 .. k - 1 : file[j].id # tags[t].external_id
  <2>1. \A j \in 1 .. k - 1 : j # k /\ j \in 1 .. Len(file)  BY <1>2
  <2> QED  BY <1>1, <2>1 DEF NamesNoneTwice
<1>5. InStep(db.rows, file, doomed, k - 1)  BY DEF doomed
<1>6. /\ t \in DOMAIN db.rows /\ db.rows[t].external_id = tags[t].external_id
      /\ db.rows[t].value = tags[t].value /\ db.rows[t].parent = KeptParent(doomed, t)
  BY <1>1, <1>3, <1>4, <1>5 DEF InStep
<1> QED  BY <1>1, <1>3, <1>6 DEF t, doomed

\* A parent that needs no change is the one of the file.
LEMMA KeptIsPlaced ==
    ASSUME TagsTyped(tags, lastTag), NEW file \in Seq(TagItem), NEW rows, NEW k \in 1 .. Len(file),
           InStep(rows, file, Doomed(tags, file), k - 1),
           Exists(tags, file[k].id), ~ UpdateParentApplies(tags, file[k])
    PROVE  PlacedIn(file, rows, KeptParent(Doomed(tags, file), KeyOf(tags, file[k].id)),
                    file[k].parent_id)
<1> DEFINE t == KeyOf(tags, file[k].id)
           doomed == Doomed(tags, file)
           p == tags[t].parent
           id == file[k].parent_id
<1>1. t \in DOMAIN tags  BY DEF Exists, KeyOf
<1>2. IF p = NoTag THEN id = NoParentId ELSE tags[p].external_id = id
  BY DEF UpdateParentApplies
<1>3. p \in DOMAIN tags \cup {NoTag} /\ NoTag \notin DOMAIN tags  BY <1>1 DEF TagsTyped, NoTag
<1>4. doomed \subseteq DOMAIN tags  BY DEF Doomed
<1>5. KeptParent(doomed, t) = IF p \in doomed THEN NoTag ELSE p  BY DEF KeptParent
<1> HIDE DEF t, p, id
<1>6. InStep(rows, file, doomed, k - 1)  OBVIOUS
<1>7. /\ NoParentId \notin IdsOf(file)
      /\ \A u \in DOMAIN tags : u \in doomed <=> tags[u].external_id \notin IdsOf(file)
  <2>1. k - 1 \in 0 .. Len(file)  BY ListType
  <2> QED  BY <1>6, <2>1, AllListed
<1> HIDE DEF doomed
<1>8. PlacedIn(file, rows, KeptParent(doomed, t), id)
  <2>1. CASE p = NoTag
    BY <1>2, <1>3, <1>4, <1>5, <1>7, <2>1 DEF PlacedIn
  <2>2. CASE p # NoTag /\ p \in doomed
    BY <1>2, <1>3, <1>5, <1>7, <2>2 DEF PlacedIn
  <2>3. CASE p # NoTag /\ p \notin doomed
    <3>1. p \in DOMAIN rows /\ rows[p].external_id = id
      BY <1>2, <1>3, <1>6, <2>3 DEF InStep
    <3> QED  BY <1>2, <1>3, <1>5, <1>7, <2>3, <3>1 DEF PlacedIn
  <2> QED  BY <2>1, <2>2, <2>3
<1> QED  BY <1>8 DEF t, doomed, id


-----------------------------------------------------------------------------
(* An item moves and renames its tag                                       *)

\* An item whose tag is there moves it below the parent it names, unless it is there.
LEMMA ItemMoves ==
    ASSUME TagsTyped(tags, lastTag), NEW file \in Seq(TagItem), NamesNoneTwice(file),
           NEW db \in ImportDbs(lastTag), ~ db.failed, NEW k \in 1 .. Len(file),
           InStep(db.rows, file, Doomed(tags, file), k - 1),
           Exists(tags, file[k].id), NEW moved, ~ moved.failed,
           moved = IF UpdateParentApplies(tags, file[k])
                   THEN Perform(db, Action("update_parent", file[k])) ELSE db
    PROVE  LET t == KeyOf(tags, file[k].id)
           IN  /\ moved \in ImportDbs(lastTag)
               /\ RowRewritten(db.rows, moved.rows, t)
               /\ moved.rows[t].value = tags[t].value
               /\ PlacedIn(file, db.rows, moved.rows[t].parent, file[k].parent_id)
<1> DEFINE item == file[k]
           a == Action("update_parent", item)
           rows == db.rows
           t == KeyOf(tags, item.id)
           doomed == Doomed(tags, file)
<1>1. /\ item \in TagItem /\ Len(file) \in Nat /\ lastTag \in Nat
      /\ k - 1 \in 0 .. Len(file)
  BY ListType DEF TagsTyped
<1>2. /\ t \in DOMAIN rows /\ rows[t].external_id = item.id
      /\ rows[t].value = tags[t].value
      /\ rows[t].parent = KeptParent(doomed, t)
  BY ItemTagKept
<1>3. a \in ImportActions  BY <1>1, ActionTyped DEF TagItem
<1>4. a.name = "update_parent" /\ a.id = item.id /\ a.parent_id = item.parent_id
  BY DEF Action
<1>5. TagsTyped(rows, db.last)  BY <1>1, ImportDbType
<1>6. CASE ~ UpdateParentApplies(tags, item)
  <2>1. moved = db  BY <1>6
  <2>2. RowRewritten(rows, rows, t)  BY DEF RowRewritten, Alike
  <2>3. PlacedIn(file, rows, KeptParent(doomed, t), item.parent_id)
    BY <1>6, KeptIsPlaced
  <2> QED  BY <1>2, <2>1, <2>2, <2>3
<1>7. CASE UpdateParentApplies(tags, item)
  <2>1. moved = Perform(db, a)  BY <1>7
  <2> HIDE DEF a, item, doomed
  <2>2. moved \in ImportDbs(lastTag)  BY <1>1, <1>3, <2>1, PerformTyped
  <2> DEFINE u == KeyOf(rows, a.id)
  <2>3. /\ u \in DOMAIN rows /\ rows[u].external_id = a.id
        /\ RowRewritten(rows, moved.rows, u)
        /\ moved.rows[u].value = rows[u].value
        /\ ParentIs(rows, moved.rows[u].parent, a.parent_id)
    BY <1>1, <1>3, <1>4, <2>1, UpdateParentDoes
  <2> HIDE DEF u, t, rows
  <2>4. u = t  BY <1>2, <1>4, <1>5, <2>3 DEF TagsTyped
  <2>5. PlacedIn(file, rows, moved.rows[t].parent, item.parent_id)
    <3>1. /\ \A v \in DOMAIN rows : rows[v].external_id \in IdsOf(file)
          /\ NoParentId \notin IdsOf(file)
      BY <1>1, AllListed DEF rows
    <3>2. ParentIs(rows, moved.rows[t].parent, item.parent_id)  BY <1>4, <2>3, <2>4
    <3> QED  BY <3>1, <3>2, NamedIsPlaced
  <2> QED  BY <1>2, <2>2, <2>3, <2>4, <2>5 DEF t, rows, item
<1> QED  BY <1>6, <1>7

\* Then it gives it the value, unless it has it.
LEMMA ItemRenames ==
    ASSUME TagsTyped(tags, lastTag), NEW file \in Seq(TagItem), NEW k \in 1 .. Len(file),
           NEW moved \in ImportDbs(lastTag), ~ moved.failed, Exists(tags, file[k].id),
           NEW t, t = KeyOf(tags, file[k].id), t \in DOMAIN moved.rows,
           moved.rows[t].external_id = file[k].id, moved.rows[t].value = tags[t].value,
           NEW renamed, ~ renamed.failed,
           renamed = IF RenameApplies(tags, file[k])
                     THEN Perform(moved, Action("rename", file[k])) ELSE moved
    PROVE  /\ RowRewritten(moved.rows, renamed.rows, t)
           /\ renamed.rows[t].value = file[k].value
           /\ renamed.rows[t].parent = moved.rows[t].parent
<1> DEFINE item == file[k]
           a == Action("rename", item)
           rows == moved.rows
<1>1. item \in TagItem /\ lastTag \in Nat  BY ListType DEF TagsTyped
<1>2. a \in ImportActions  BY <1>1, ActionTyped DEF TagItem
<1>3. a.name = "rename" /\ a.id = item.id /\ a.value = item.value
  BY DEF Action
<1>4. TagsTyped(rows, moved.last)  BY <1>1, ImportDbType
<1>5. CASE ~ RenameApplies(tags, item)
  <2>1. renamed = moved  BY <1>5
  <2>2. RowRewritten(rows, rows, t)  BY DEF RowRewritten, Alike
  <2>3. tags[t].value = item.value  BY <1>5 DEF RenameApplies
  <2> QED  BY <2>1, <2>2, <2>3
<1>6. CASE RenameApplies(tags, item)
  <2>1. renamed = Perform(moved, a)  BY <1>6
  <2> HIDE DEF a
  <2> DEFINE u == KeyOf(rows, a.id)
  <2>2. /\ u \in DOMAIN rows /\ rows[u].external_id = a.id
        /\ RowRewritten(rows, renamed.rows, u)
        /\ renamed.rows[u].value = a.value
        /\ renamed.rows[u].parent = rows[u].parent
    BY <1>1, <1>2, <1>3, <2>1, RenameDoes
  <2> HIDE DEF u, rows
  <2>3. t \in DOMAIN rows /\ rows[t].external_id = a.id  BY <1>3 DEF rows
  <2>4. u = t  BY <1>4, <2>2, <2>3 DEF TagsTyped
  <2> QED  BY <1>3, <2>2, <2>4 DEF rows
<1> QED  BY <1>5, <1>6

\* What is planned for an item does what the item says, or fails.
LEMMA ItemSteps ==
    ASSUME TagsTyped(tags, lastTag), NEW file \in Seq(TagItem), NamesNoneTwice(file),
           NEW db \in ImportDbs(lastTag), ~ db.failed, NEW k \in 1 .. Len(file),
           InStep(db.rows, file, Doomed(tags, file), k - 1), ~ ItemDone(db, file[k]).failed
    PROVE  InStep(ItemDone(db, file[k]).rows, file, Doomed(tags, file), k)
<1> DEFINE item == file[k]
           doomed == Doomed(tags, file)
<1>1. CASE CreateApplies(tags, item)
  BY <1>1, ItemCreates
<1>2. CASE ~ CreateApplies(tags, item)
  <2> DEFINE U == UpdateParentApplies(tags, item)
             R == RenameApplies(tags, item)
             moved == IF U THEN Perform(db, Action("update_parent", item)) ELSE db
             renamed == IF R THEN Perform(moved, Action("rename", item)) ELSE moved
             t == KeyOf(tags, item.id)
  <2>1. Exists(tags, item.id)  BY <1>2 DEF CreateApplies
  <2>2. ItemDone(db, item) = renamed
    <3> DEFINE keep == Action("without_changes", item)
    <3>1. ItemDone(db, item) = IF U \/ R THEN renamed ELSE Perform(db, keep)
      BY <1>2 DEF ItemDone
    <3>2. keep.name = "without_changes"  BY DEF Action
    <3> HIDE DEF keep
    <3>3. Perform(db, keep) = db  BY <3>2, Performed
    <3>4. ~ U /\ ~ R => renamed = db  OBVIOUS
    <3> HIDE DEF U, R, renamed
    <3> QED  BY <3>1, <3>3, <3>4
  <2>3. ~ renamed.failed  BY <2>2
  <2>4. ~ moved.failed
    <3> HIDE DEF moved
    <3> SUFFICES ASSUME moved.failed PROVE FALSE
      OBVIOUS
    <3>1. Perform(moved, Action("rename", item)) = moved  BY DEF Perform
    <3>2. renamed = moved  BY <3>1
    <3> QED  BY <2>3, <3>2
  <2>5. /\ t \in DOMAIN tags \ doomed /\ t \in DOMAIN db.rows
        /\ db.rows[t].external_id = item.id
    BY <2>1, ItemTagKept
  <2>6. /\ moved \in ImportDbs(lastTag)
        /\ RowRewritten(db.rows, moved.rows, t)
        /\ moved.rows[t].value = tags[t].value
        /\ PlacedIn(file, db.rows, moved.rows[t].parent, item.parent_id)
    <3>1. PICK x : x = moved  OBVIOUS
    <3>2. ~ x.failed /\ x = IF UpdateParentApplies(tags, file[k])
                            THEN Perform(db, Action("update_parent", file[k])) ELSE db
      BY <2>4, <3>1
    <3> HIDE DEF moved
    <3>3. /\ x \in ImportDbs(lastTag)
          /\ RowRewritten(db.rows, x.rows, t)
          /\ x.rows[t].value = tags[t].value
          /\ PlacedIn(file, db.rows, x.rows[t].parent, item.parent_id)
      BY <2>1, <3>2, ItemMoves
    <3> QED  BY <3>1, <3>3
  <2>7. /\ t \in DOMAIN moved.rows /\ moved.rows[t].external_id = item.id
        /\ \A u \in DOMAIN db.rows \ {t} : Alike(moved.rows[u], db.rows[u])
        /\ DOMAIN moved.rows = DOMAIN db.rows
    <3> HIDE DEF moved
    <3> QED  BY <2>5, <2>6 DEF RowRewritten
  <2>8. /\ RowRewritten(moved.rows, renamed.rows, t)
        /\ renamed.rows[t].value = item.value
        /\ renamed.rows[t].parent = moved.rows[t].parent
    <3>1. PICK x, y : x = moved /\ y = renamed  OBVIOUS
    <3>2. y = IF RenameApplies(tags, file[k])
              THEN Perform(x, Action("rename", file[k])) ELSE x
      <4> HIDE DEF moved
      <4> QED  BY <3>1
    <3>3. ~ x.failed /\ ~ y.failed  BY <2>3, <2>4, <3>1
    <3>4. PICK v : v = t  OBVIOUS
    <3>5. /\ x \in ImportDbs(lastTag) /\ v = KeyOf(tags, file[k].id) /\ v \in DOMAIN x.rows
          /\ x.rows[v].external_id = file[k].id /\ x.rows[v].value = tags[v].value
      <4> HIDE DEF moved
      <4> QED  BY <2>6, <2>7, <3>1, <3>4
    <3> HIDE DEF moved, renamed
    <3>6. /\ RowRewritten(x.rows, y.rows, v)
          /\ y.rows[v].value = item.value
          /\ y.rows[v].parent = x.rows[v].parent
      BY <2>1, <3>2, <3>3, <3>5, ItemRenames
    <3> QED  BY <3>1, <3>4, <3>6
  <2> DEFINE after == renamed.rows
             rows == db.rows
  <2> HIDE DEF moved, renamed, t
  <2>9. /\ DOMAIN after = DOMAIN rows
        /\ \A u \in DOMAIN rows \ {t} : Alike(after[u], rows[u])
        /\ after[t].external_id = item.id /\ after[t].value = item.value
        /\ PlacedIn(file, rows, after[t].parent, item.parent_id)
    BY <2>5, <2>6, <2>7, <2>8 DEF RowRewritten, Alike
  <2>10. InStep(rows, file, doomed, k - 1)  OBVIOUS
  <2> HIDE DEF after, rows
  <2>11. DOMAIN after = DOMAIN rows \cup {t} /\ t \in DOMAIN rows /\ rows[t].external_id = item.id
    BY <2>5, <2>9 DEF rows
  <2> HIDE DEF doomed
  <2>12. InStep(after, file, doomed, k)
    BY <2>9, <2>10, <2>11, StepTaken
  <2> QED  BY <2>2, <2>12 DEF after, doomed
<1> QED  BY <1>1, <1>2


-----------------------------------------------------------------------------
(* What a fresh plan leaves                                                *)

\* A file with as many ids as rows names no tag twice.
LEMMA CountedOnce ==
    ASSUME NEW file \in Seq(TagItem), Cardinality(IdsOf(file)) = Len(file)
    PROVE  NamesNoneTwice(file)
<1> DEFINE n == Len(file)
           S == 1 .. n
           T == IdsOf(file)
           f == [k \in S |-> file[k].id]
<1>1. n \in Nat /\ DOMAIN file = S  BY ListType
<1>2. IsFiniteSet(S) /\ Cardinality(S) = n
  <2>1. 1 \in Int /\ n \in Int  BY <1>1
  <2> HIDE DEF n
  <2> QED  BY <1>1, <2>1, FS_Interval
<1>3. f \in Surjection(S, T)
  <2>1. T = {file[k].id : k \in S}  BY <1>1 DEF IdsOf
  <2> HIDE DEF S, T
  <2> QED  BY <2>1 DEF Surjection
<1> HIDE DEF f, S, T
<1>4. f \in Injection(S, T)
  <2>1. Cardinality(T) = Cardinality(S)  BY <1>2 DEF T
  <2> QED  BY <1>2, <1>3, <2>1, FS_Surjection
<1>5. \A j, k \in S : f[j] = f[k] => j = k
  BY <1>4 DEF Injection, IsInjective
<1>6. \A j, k \in S : file[j].id = file[k].id => j = k
  BY <1>5 DEF f
<1> QED  BY <1>6 DEF NamesNoneTwice, S

\* After the deletions no item has been done.
LEMMA ClearedInStep ==
    ASSUME TagsTyped(tags, lastTag), NEW rows, NEW file, NEW doomed \in SUBSET DOMAIN tags,
           Cleared(rows, doomed)
    PROVE  InStep(rows, file, doomed, 0)
BY DEF Cleared, InStep

\* A fresh plan of a replacing import leaves what the file says, or fails.
LEMMA FileYielded ==
    ASSUME TagsTyped(tags, lastTag), NEW file, file \in Seq(TagItem), NamesNoneTwice(file),
           NEW D, ClearsAway(D, Doomed(tags, file), Doomed(tags, file),
                             Orphans(Doomed(tags, file), Doomed(tags, file))),
           NEW plan, plan = BuildItems(tags, D, file),
           NEW db, db = Execution(tags, lastTag, plan), ~ db.failed
    PROVE  InStep(db.rows, file, Doomed(tags, file), Len(file))
<1> DEFINE doomed == Doomed(tags, file)
           start == [rows |-> tags, last |-> lastTag, failed |-> FALSE]
           s == plan.actions
           n == Len(file)
<1>1. lastTag \in Nat /\ n \in Nat /\ \A k \in 1 .. n : file[k] \in TagItem
  BY ListType DEF TagsTyped
<1>2. doomed \in SUBSET DOMAIN tags  BY DEF Doomed
<1>3. plan = BuildItems(tags, D, file)  OBVIOUS
<1>4. db = PerformAll(s, start)  BY DEF Execution, PerformAll
<1>5. start \in ImportDbs(lastTag) /\ start.rows = tags
  <2>1. start.rows = tags /\ start.last = lastTag /\ start.failed \in BOOLEAN
        /\ start = [rows |-> start.rows, last |-> start.last, failed |-> start.failed]
    OBVIOUS
  <2> HIDE DEF start
  <2>2. lastTag <= lastTag  BY <1>1
  <2> QED  BY <1>1, <2>1, <2>2, ImportDbType
<1> HIDE DEF doomed, start
<1>6. ClearsAway(D, doomed, doomed, Orphans(doomed, doomed))
  BY DEF doomed
<1>7. D \in ImportPlans  BY <1>6 DEF ClearsAway
<1>8. PICK h : /\ h \in [0 .. Len(file) -> ImportPlans] /\ h[0] = D
               /\ \A k \in 1 .. Len(file) : h[k] = BuildItem(tags, h[k - 1], file[k])
               /\ BuildItems(tags, D, file) = h[Len(file)]
  <2>1. file \in Seq(TagItem) /\ D \in ImportPlans  BY <1>7
  <2> QED  BY <2>1, ItemsRun
<1>9. plan \in ImportPlans /\ s = h[n].actions
  <2>1. n \in 0 .. n  BY <1>1
  <2> QED  BY <1>3, <1>8, <2>1 DEF n
<1>10. s \in Seq(ImportActions)  BY <1>9 DEF ImportPlans
<1> HIDE DEF s
<1>11. Len(s) \in Nat  BY <1>10, ListType
<1>12. PICK g : /\ g \in [0 .. Len(s) -> ImportDbs(lastTag)] /\ g[0] = start
                /\ \A k \in 1 .. Len(s) : g[k] = Perform(g[k - 1], s[k])
                /\ PerformAll(s, start) = g[Len(s)]
  <2>1. lastTag \in Nat /\ start \in ImportDbs(lastTag)  BY <1>1, <1>5
  <2> QED  BY <1>10, <2>1, ExecutionRuns
<1>13. /\ \A k \in 0 .. n : /\ Len(h[k].actions) \in 0 .. Len(s)
                            /\ \A j \in 1 .. Len(h[k].actions) : s[j] = h[k].actions[j]
       /\ \A k \in 1 .. n :
             g[Len(h[k].actions)] = ItemDone(g[Len(h[k - 1].actions)], file[k])
  <2>1. h \in [0 .. Len(file) -> ImportPlans] /\ s = h[Len(file)].actions
    BY <1>8, <1>9 DEF n
  <2>2. \A k \in 1 .. Len(file) : h[k] = BuildItem(tags, h[k - 1], file[k])  BY <1>8
  <2>3. \A k \in 1 .. Len(h[Len(file)].actions) :
            g[k] = Perform(g[k - 1], h[Len(file)].actions[k])
    BY <1>12, <2>1
  <2>4. ASSUME NEW k \in 0 .. Len(file)
        PROVE  /\ Len(h[k].actions) \in 0 .. Len(h[Len(file)].actions)
               /\ \A j \in 1 .. Len(h[k].actions) : h[Len(file)].actions[j] = h[k].actions[j]
    BY <2>1, <2>2, ItemsPrefixes
  <2>5. ASSUME NEW k \in 1 .. Len(file)
        PROVE  g[Len(h[k].actions)] = ItemDone(g[Len(h[k - 1].actions)], file[k])
    BY <2>1, <2>2, <2>3, ItemsPerformed
  <2> QED  BY <2>1, <2>4, <2>5 DEF n
<1>14. ~ g[Len(s)].failed  BY <1>4, <1>12
<1>15. \A k \in 0 .. Len(s) : ~ g[k].failed
  BY <1>11, <1>12, <1>14, FailedForGood
<1> DEFINE d == Len(D.actions)
<1>16. d \in 0 .. Len(s) /\ \A j \in 1 .. d : s[j] = D.actions[j]
  <2>1. 0 \in 0 .. n  BY <1>1
  <2> QED  BY <1>8, <1>13, <2>1
<1>17. Cleared(g[d].rows, doomed)
  <2>1. g[0].rows = tags  BY <1>5, <1>12
  <2>2. \A m \in 0 .. d : g[m] \in ImportDbs(lastTag)  BY <1>11, <1>12, <1>16
  <2>3. \A m \in 1 .. d : g[m] = Perform(g[m - 1], D.actions[m])
    BY <1>11, <1>12, <1>16
  <2>4. ~ g[d].failed  BY <1>15, <1>16
  <2> QED  BY <1>2, <1>6, <2>1, <2>2, <2>3, <2>4, DeletionsClear
<1> DEFINE at(k) == g[Len(h[k].actions)]
           S == {k \in 0 .. n : InStep(at(k).rows, file, doomed, k)}
<1>18. 0 \in S
  <2>1. at(0) = g[d]  BY <1>8
  <2>2. InStep(g[d].rows, file, doomed, 0)  BY <1>2, <1>17, ClearedInStep
  <2> HIDE DEF at
  <2> QED  BY <1>1, <2>1, <2>2
<1>19. ASSUME NEW k \in 1 .. n, k - 1 \in S PROVE k \in S
  <2>1. k - 1 \in 0 .. n /\ k \in 0 .. n  BY <1>1
  <2>2. at(k - 1) \in ImportDbs(lastTag) /\ ~ at(k - 1).failed
    BY <1>12, <1>13, <1>15, <2>1
  <2>3. ~ at(k).failed  BY <1>13, <1>15, <2>1
  <2>4. at(k) = ItemDone(at(k - 1), file[k])  BY <1>13
  <2>5. InStep(at(k - 1).rows, file, doomed, k - 1)  BY <1>19
  <2> DEFINE before == at(k - 1)
  <2>6. /\ before \in ImportDbs(lastTag) /\ ~ before.failed
        /\ InStep(before.rows, file, Doomed(tags, file), k - 1)
        /\ at(k) = ItemDone(before, file[k])
    BY <2>2, <2>4, <2>5 DEF doomed
  <2> HIDE DEF at, before
  <2>7. ~ ItemDone(before, file[k]).failed  BY <2>3, <2>6
  <2>8. InStep(ItemDone(before, file[k]).rows, file, Doomed(tags, file), k)
    BY <2>6, <2>7, ItemSteps
  <2>9. InStep(at(k).rows, file, doomed, k)  BY <2>6, <2>8 DEF doomed
  <2> QED  BY <2>1, <2>9
<1>20. n \in S
  <2> HIDE DEF S
  <2>1. 0 .. n \subseteq S  BY <1>1, <1>18, <1>19, RoundByRound
  <2> QED  BY <1>1, <2>1
<1>21. at(n) = g[Len(s)]  BY <1>9
<1>22. InStep(db.rows, file, doomed, n)  BY <1>4, <1>12, <1>20, <1>21
<1> QED  BY <1>22 DEF doomed


-----------------------------------------------------------------------------
(* Replacing imports yield their files                                     *)

\* Rows that are exactly the tags of a file, where the tags that were there kept their keys.
Yields(rows, file) ==
    /\ {rows[t].external_id : t \in DOMAIN rows} = IdsOf(file)
    /\ \A k \in DOMAIN file :
         LET t == KeyOf(rows, file[k].id)
         IN  /\ rows[t].value = file[k].value
             /\ IF file[k].parent_id \in IdsOf(file)
                THEN rows[t].parent = KeyOf(rows, file[k].parent_id)
                ELSE rows[t].parent = NoTag
             /\ Exists(tags, file[k].id) => t = KeyOf(tags, file[k].id)

LEMMA AllInStep ==
    ASSUME TagsTyped(tags, lastTag), NEW file \in Seq(TagItem), NEW rows, NEW last,
           TagsTyped(rows, last), InStep(rows, file, Doomed(tags, file), Len(file))
    PROVE  Yields(rows, file)
<1> DEFINE n == Len(file)
           doomed == Doomed(tags, file)
<1>1. n \in Nat /\ DOMAIN file = 1 .. n  BY ListType
<1>2. /\ \A t \in DOMAIN rows : rows[t].external_id \in IdsOf(file)
      /\ \A t \in DOMAIN tags : t \in doomed <=> tags[t].external_id \notin IdsOf(file)
  <2>1. n \in 0 .. n  BY <1>1
  <2> QED  BY <2>1, AllListed
<1>3. \A s, t \in DOMAIN rows : rows[s].external_id = rows[t].external_id => s = t
  BY DEF TagsTyped
<1>4. InStep(rows, file, doomed, n)  OBVIOUS
<1>5. \A t \in DOMAIN rows : KeyOf(rows, rows[t].external_id) = t
  BY <1>3 DEF KeyOf
<1> HIDE DEF doomed
<1>6. ASSUME NEW k \in DOMAIN file
      PROVE  LET t == KeyOf(rows, file[k].id)
             IN  /\ t \in DOMAIN rows /\ rows[t].external_id = file[k].id
                 /\ rows[t].value = file[k].value
                 /\ PlacedIn(file, rows, rows[t].parent, file[k].parent_id)
  <2>1. PICK t \in DOMAIN rows :
            /\ rows[t].external_id = file[k].id /\ rows[t].value = file[k].value
            /\ PlacedIn(file, rows, rows[t].parent, file[k].parent_id)
    <3>1. k \in 1 .. n  BY <1>1
    <3> QED  BY <1>4, <3>1 DEF InStep
  <2>2. KeyOf(rows, file[k].id) = t  BY <1>5, <2>1
  <2> QED  BY <2>1, <2>2
<1>7. {rows[t].external_id : t \in DOMAIN rows} = IdsOf(file)
  <2>1. \A k \in DOMAIN file : \E t \in DOMAIN rows : rows[t].external_id = file[k].id
    BY <1>6
  <2> QED  BY <1>2, <2>1 DEF IdsOf
<1>8. ASSUME NEW k \in DOMAIN file
      PROVE  LET t == KeyOf(rows, file[k].id)
             IN  /\ rows[t].value = file[k].value
                 /\ IF file[k].parent_id \in IdsOf(file)
                    THEN rows[t].parent = KeyOf(rows, file[k].parent_id)
                    ELSE rows[t].parent = NoTag
                 /\ Exists(tags, file[k].id) => t = KeyOf(tags, file[k].id)
  <2> DEFINE t == KeyOf(rows, file[k].id)
             u == KeyOf(tags, file[k].id)
  <2>1. /\ t \in DOMAIN rows /\ rows[t].external_id = file[k].id
        /\ rows[t].value = file[k].value
        /\ PlacedIn(file, rows, rows[t].parent, file[k].parent_id)
    BY <1>6
  <2>2. Exists(tags, file[k].id) => t = u
    <3> SUFFICES ASSUME Exists(tags, file[k].id) PROVE t = u
      OBVIOUS
    <3>1. u \in DOMAIN tags /\ tags[u].external_id = file[k].id  BY DEF Exists, KeyOf
    <3> HIDE DEF t, u
    <3>2. u \notin doomed  BY <1>2, <3>1 DEF IdsOf
    <3>3. u \in DOMAIN rows /\ rows[u].external_id = tags[u].external_id
      BY <1>4, <3>1, <3>2 DEF InStep
    <3> QED  BY <1>3, <2>1, <3>1, <3>3
  <2> HIDE DEF t, u
  <2>3. IF file[k].parent_id \in IdsOf(file)
        THEN rows[t].parent = KeyOf(rows, file[k].parent_id)
        ELSE rows[t].parent = NoTag
    BY <1>5, <2>1 DEF PlacedIn
  <2> QED  BY <2>1, <2>2, <2>3 DEF t, u
<1> QED  BY <1>7, <1>8 DEF Yields

\* Only the execution of its plan takes a worker from a plan to its end.
LEMMA ExecutedByPlan ==
    ASSUME ImportInv, [ImportNext]_allVars, NEW w \in Workers,
           import[w].phase = "planned", import'[w].phase = "executed"
    PROVE  LET db == Execution(tags, lastTag, import[w].plan)
           IN  ~ db.failed /\ tags' = db.rows
<1>1. import = [v \in Workers |-> import[v]]
  BY DEF ImportInv, TaskInv
<1>2. import'[w] # import[w]
  OBVIOUS
<1>3. \A v \in Workers : \A x : import' = [import EXCEPT ![v] = x] => v = w /\ import'[w] = x
  BY <1>1, <1>2
<1>4. \A v \in Workers : \A status : ~ Finish(v, status)
  BY <1>3 DEF Finish, NoImport
<1>5. PICK v \in Workers :
          \/ StartImport(v) \/ CreateTask(v) \/ PlanActions(v) \/ ExecutePlan(v)
          \/ EndImport(v) \/ Crash(v)
          \/ \E file \in Files, replace, plan_only \in BOOLEAN :
                ParseFile(v, file, replace, plan_only)
  BY <1>2 DEF ImportNext, importVars, allVars
<1>6. ASSUME NEW u \in Workers, StartImport(u) PROVE FALSE
  <2>1. import[u].phase = "none" /\ import' = [import EXCEPT ![u].phase = "checked"]
    BY <1>6 DEF StartImport, GoOn
  <2> QED  BY <1>1, <2>1
<1>7. ASSUME NEW u \in Workers, CreateTask(u) PROVE FALSE
  <2>1. /\ import[u].phase = "checked"
        /\ import' = [import EXCEPT ![u].phase = "created", ![u].task = Len(taskStatus) + 1]
    BY <1>7 DEF CreateTask
  <2>2. u # w  BY <2>1
  <2>3. import'[w] = import[w]  BY <1>1, <2>1, <2>2
  <2> QED  BY <1>2, <2>3
<1>8. ASSUME NEW u \in Workers, NEW file, NEW replace, NEW plan_only,
             ParseFile(u, file, replace, plan_only)
      PROVE  FALSE
  <2>1. /\ import[u].phase = "created"
        /\ import' = [import EXCEPT ![u].phase = "parsed", ![u].file = ParseTags(file),
                                    ![u].replace = replace, ![u].plan_only = plan_only]
    BY <1>4, <1>8 DEF ParseFile
  <2>2. u # w  BY <2>1
  <2>3. import'[w] = import[w]  BY <1>1, <2>1, <2>2
  <2> QED  BY <1>2, <2>3
<1>9. ASSUME NEW u \in Workers, PlanActions(u) PROVE FALSE
  <2>1. import[u].phase = "parsed"  BY <1>9 DEF PlanActions
  <2>2. PICK plan : import' = [import EXCEPT ![u].phase = "planned", ![u].plan = plan]
    <3> HIDE DEF Finish, SetStatus, GenerateActions
    <3> QED  BY <1>4, <1>9 DEF PlanActions
  <2>3. u # w  BY <2>1
  <2>4. import'[w] = import[w]  BY <1>1, <2>2, <2>3
  <2> QED  BY <1>2, <2>4
<1>10. ASSUME NEW u \in Workers, EndImport(u) PROVE FALSE
  BY <1>4, <1>10 DEF EndImport
<1>11. ASSUME NEW u \in Workers, Crash(u) PROVE FALSE
  <2> DEFINE x == OnlyTask("crashed", import[u].task)
  <2>1. import' = [import EXCEPT ![u] = x]
    BY <1>11 DEF Crash, OnlyTask
  <2>2. x.phase = "crashed"  BY TaskKept DEF OnlyTask, NoImport
  <2> HIDE DEF x
  <2>3. import'[w] = x  BY <1>3, <2>1
  <2> QED  BY <2>2, <2>3
<1>12. ExecutePlan(v)
  BY <1>5, <1>6, <1>7, <1>8, <1>9, <1>10, <1>11
<1> DEFINE db == Execution(tags, lastTag, import[v].plan)
<1>13. ~ db.failed
  BY <1>4, <1>12 DEF ExecutePlan
<1>14. tags' = db.rows
  BY <1>12, <1>13 DEF ExecutePlan
<1>15. v = w
  <2> DEFINE x == OnlyTask("executed", import[v].task)
  <2>1. import' = [import EXCEPT ![v] = x]
    BY <1>12, <1>13 DEF ExecutePlan, OnlyTask
  <2> HIDE DEF x
  <2> QED  BY <1>3, <2>1
<1> QED  BY <1>13, <1>14, <1>15

\* A step that executes a fresh plan.
LEMMA ExecutionYields ==
    ASSUME ImportInv, [ImportNext]_allVars, NEW w \in Workers,
           import[w].phase = "planned", import'[w].phase = "executed",
           import[w].replace, PlanIsFresh(w),
           Cardinality(IdsOf(import[w].file)) = Len(import[w].file)
    PROVE  Yields(tags', import[w].file)
<1> DEFINE file == import[w].file
           plan == import[w].plan
           doomed == Doomed(tags, file)
           db == Execution(tags, lastTag, plan)
<1>1. TagsTyped(tags, lastTag) /\ file \in Seq(TagItem) /\ plan \in ImportPlans
  BY DEF ImportInv, WorkerOK
<1>2. ~ db.failed /\ tags' = db.rows
  BY ExecutedByPlan DEF ImportInv
<1>3. NamesNoneTwice(file)  BY <1>1, CountedOnce
<1>4. PICK order \in Orders(doomed) :
          plan = BuildItems(tags, BuildDeletes(tags, doomed, NoPlan, order), file)
  BY DEF PlanIsFresh, GenerateActions
<1>5. doomed \in SUBSET DOMAIN tags  BY DEF Doomed
<1> DEFINE D == BuildDeletes(tags, doomed, NoPlan, order)
<1>6. PICK x : x = D  OBVIOUS
<1> HIDE DEF file, plan
<1>7. ClearsAway(x, doomed, doomed, Orphans(doomed, doomed))
  <2>1. ClearsAway(D, doomed, doomed, Orphans(doomed, doomed))
    <3> HIDE DEF doomed
    <3> QED  BY <1>1, <1>5, DeletesPlanned
  <2> HIDE DEF D
  <2> QED  BY <1>6, <2>1
<1>8. plan = BuildItems(tags, x, file)
  <2> HIDE DEF doomed
  <2> QED  BY <1>4, <1>6
<1> HIDE DEF D, db
<1>9. db = Execution(tags, lastTag, plan)  BY DEF db
<1>10. InStep(db.rows, file, doomed, Len(file))
  BY <1>1, <1>2, <1>3, <1>7, <1>8, <1>9, FileYielded
<1>11. TagsTyped(db.rows, db.last)
  <2>1. lastTag \in Nat  BY <1>1 DEF TagsTyped
  <2>2. db \in ImportDbs(lastTag)  BY <1>1, <1>9, ExecutionTyped
  <2> QED  BY <2>1, <2>2, ImportDbType
<1>12. Yields(db.rows, file)
  BY <1>1, <1>10, <1>11, AllInStep
<1> QED  BY <1>2, <1>12 DEF file

\* A replacing import of a file that names no tag twice, whose plan is fresh, leaves exactly
\* the tags of the file, below the parents it names, whatever the order of the deletions
\* (generate_actions and execute, import_plan.py:129, 194).
THEOREM ReplacesAreExact == ImportSpec => ReplaceYieldsTheFile
<1>1. ASSUME ImportInv, [ImportNext]_allVars
      PROVE  \A w \in Workers :
                (/\ import[w].phase = "planned" /\ import'[w].phase = "executed"
                 /\ import[w].replace /\ PlanIsFresh(w)
                 /\ Cardinality(IdsOf(import[w].file)) = Len(import[w].file)) =>
                LET file == import[w].file
                IN  /\ {tags'[t].external_id : t \in DOMAIN tags'} = IdsOf(file)
                    /\ \A k \in DOMAIN file :
                         LET t == KeyOf(tags', file[k].id)
                         IN  /\ tags'[t].value = file[k].value
                             /\ IF file[k].parent_id \in IdsOf(file)
                                THEN tags'[t].parent = KeyOf(tags', file[k].parent_id)
                                ELSE tags'[t].parent = NoTag
                             /\ Exists(tags, file[k].id) => t = KeyOf(tags, file[k].id)
  BY <1>1, ExecutionYields DEF Yields
<1> QED  BY <1>1, ImportsInvariance, PTL DEF ImportSpec, ReplaceYieldsTheFile

==============================================================================
