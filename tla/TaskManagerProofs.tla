------------------------- MODULE TaskManagerProofs -------------------------
(***************************************************************************)
(* What holds of TaskManager for every table size, number of pids, idle    *)
(* period and set of priorities, whatever system calls programs issue.     *)
(***************************************************************************)
EXTENDS TaskManager, TLAPS

\* The inductive invariant.  The order of the table and its freedom from duplicates
\* support each other through the swap loops; both need the cursor to be on a task,
\* and the cursor needs the idle task's frame never to be mistaken for a task's.
IInv == TypeOK /\ TableSorted /\ TableDistinct /\ IdleDiscipline /\ CursorOnTask

-----------------------------------------------------------------------------
(* The table operators.                                                    *)

SlotArray == [Slots -> Pids \cup {NoTask}]
Sorted(a, n, pr) == \A i, j \in 0 .. n - 1 : i < j => pr[a[i]] <= pr[a[j]]
Distinct(a, n) == \A i, j \in 0 .. n - 1 : a[i] = a[j] => i = j

\* The remainder that the idle counter and the cursor take.
LEMMA Remainder ==
  ASSUME NEW n \in Nat \ {0}, NEW x \in Nat
  PROVE  /\ x % n \in 0 .. n - 1
         /\ x < n => x % n = x
         /\ n % n = 0
  <1>1. x % n \in 0 .. n - 1
    BY SMT
  <1>2. x < n => x % n = x
    BY SMT
  <1>3. n % n = 0
    BY SMT
  <1> QED BY <1>1, <1>2, <1>3

\* The swap loop towards the front: what was under the moved task is shifted by one,
\* and a table sorted but for that task becomes sorted.
LEMMA MoveLeft ==
  ASSUME NEW a \in SlotArray, NEW n \in 0 .. MaxTasks, NEW i \in 0 .. n - 1,
         NEW pr, \A k \in 0 .. n - 1 : a[k] \in Pids /\ pr[a[k]] \in Int,
         \A j, k \in 0 .. n - 1 : j < k /\ j # i /\ k # i => pr[a[j]] <= pr[a[k]],
         \A k \in i + 1 .. n - 1 : pr[a[i]] <= pr[a[k]],
         NEW stop, StopsLeft(a, pr, i, stop)
  PROVE  Sorted(Moved(a, i, stop), n, pr)
  <1>1. /\ stop \in 0 .. i /\ MaxTasks \in Nat
        /\ stop > 0 => pr[a[stop - 1]] <= pr[a[i]]
        /\ \A k \in stop .. i - 1 : pr[a[i]] <= pr[a[k]]
    BY ConstantsAssumption DEF StopsLeft
  <1>2. \A k \in 0 .. n - 1 : Moved(a, i, stop)[k] =
          IF k = stop THEN a[i] ELSE IF stop < k /\ k <= i THEN a[k - 1] ELSE a[k]
    BY <1>1 DEF Moved, Slots
  <1>3. \A k \in 0 .. stop - 1 : pr[a[k]] <= pr[a[i]]
    BY <1>1
  <1> SUFFICES ASSUME NEW j \in 0 .. n - 1, NEW k \in 0 .. n - 1, j < k
               PROVE  pr[Moved(a, i, stop)[j]] <= pr[Moved(a, i, stop)[k]]
    BY DEF Sorted
  <1>4. CASE j = stop
    BY <1>1, <1>2, <1>4
  <1>5. CASE k = stop
    BY <1>1, <1>2, <1>3, <1>5
  <1>6. CASE j # stop /\ k # stop
    BY <1>1, <1>2, <1>6
  <1> QED BY <1>4, <1>5, <1>6

\* The swap loop towards the back, likewise.
LEMMA MoveRight ==
  ASSUME NEW a \in SlotArray, NEW n \in 0 .. MaxTasks, NEW i \in 0 .. n - 1,
         NEW pr, \A k \in 0 .. n - 1 : a[k] \in Pids /\ pr[a[k]] \in Int,
         \A j, k \in 0 .. n - 1 : j < k /\ j # i /\ k # i => pr[a[j]] <= pr[a[k]],
         \A k \in 0 .. i - 1 : pr[a[k]] <= pr[a[i]],
         NEW stop, StopsRight(a, pr, i, n, stop)
  PROVE  Sorted(Moved(a, i, stop), n, pr)
  <1>1. /\ stop \in i .. n - 1 /\ MaxTasks \in Nat
        /\ stop < n - 1 => pr[a[i]] <= pr[a[stop + 1]]
        /\ \A k \in i + 1 .. stop : pr[a[k]] <= pr[a[i]]
    BY ConstantsAssumption DEF StopsRight
  <1>2. \A k \in 0 .. n - 1 : Moved(a, i, stop)[k] =
          IF k = stop THEN a[i] ELSE IF i <= k /\ k < stop THEN a[k + 1] ELSE a[k]
    BY <1>1 DEF Moved, Slots
  <1>3. \A k \in stop + 1 .. n - 1 : pr[a[i]] <= pr[a[k]]
    BY <1>1
  <1> SUFFICES ASSUME NEW j \in 0 .. n - 1, NEW k \in 0 .. n - 1, j < k
               PROVE  pr[Moved(a, i, stop)[j]] <= pr[Moved(a, i, stop)[k]]
    BY DEF Sorted
  <1>4. CASE j = stop
    BY <1>1, <1>2, <1>3, <1>4
  <1>5. CASE k = stop
    BY <1>1, <1>2, <1>5
  <1>6. CASE j # stop /\ k # stop
    BY <1>1, <1>2, <1>6
  <1> QED BY <1>4, <1>5, <1>6

\* Moving a task permutes the table: slots stay filled, and no task is lost or doubled.
LEMMA MovePermutes ==
  ASSUME NEW a \in SlotArray, NEW n \in 0 .. MaxTasks,
         NEW i \in 0 .. n - 1, NEW stop \in 0 .. n - 1,
         Distinct(a, n)
  PROVE  /\ Moved(a, i, stop) \in SlotArray
         /\ Distinct(Moved(a, i, stop), n)
         /\ \A k \in Slots : k >= n => Moved(a, i, stop)[k] = a[k]
         /\ \A k \in 0 .. n - 1 : \E m \in 0 .. n - 1 : Moved(a, i, stop)[k] = a[m]
         /\ \A k \in 0 .. n - 1 : \E m \in 0 .. n - 1 : Moved(a, i, stop)[m] = a[k]
  <1> DEFINE from(k) == IF k = stop THEN i
                        ELSE IF stop < k /\ k <= i THEN k - 1
                        ELSE IF i <= k /\ k < stop THEN k + 1 ELSE k
             to(k) == IF k = i THEN stop
                      ELSE IF stop <= k /\ k < i THEN k + 1
                      ELSE IF i < k /\ k <= stop THEN k - 1 ELSE k
  <1>0. MaxTasks \in Nat
    BY ConstantsAssumption
  <1>1. \A k \in Slots : from(k) \in Slots /\ Moved(a, i, stop)[k] = a[from(k)]
    BY <1>0 DEF Moved, Slots
  <1>2. \A k \in 0 .. n - 1 : from(k) \in 0 .. n - 1 /\ to(k) \in 0 .. n - 1 /\ from(to(k)) = k
    BY <1>0
  <1>3. \A k, m \in 0 .. n - 1 : from(k) = from(m) => k = m
    BY <1>0
  <1>4. \A k \in Slots : k >= n => from(k) = k
    BY <1>0 DEF Slots
  <1>5. DOMAIN Moved(a, i, stop) = Slots /\ Moved(a, i, stop) = [k \in Slots |-> Moved(a, i, stop)[k]]
    BY DEF Moved
  <1>6. 0 .. n - 1 \subseteq Slots
    BY <1>0 DEF Slots
  <1> HIDE DEF from, to
  <1>7. Moved(a, i, stop) \in SlotArray
    BY <1>1, <1>5 DEF SlotArray
  <1>8. Distinct(Moved(a, i, stop), n)
    BY <1>1, <1>2, <1>3, <1>6 DEF Distinct
  <1> QED BY <1>1, <1>2, <1>4, <1>6, <1>7, <1>8

-----------------------------------------------------------------------------
(* The handlers' common parts.                                             *)

\* What an action may do to the slots of the table: they stay typed and filled.
SlotsKept ==
  /\ tasks' \in SlotArray
  /\ numTasks' \in 0 .. MaxTasks
  /\ \A k \in Slots : tasks[k] \in Pids => tasks'[k] \in Pids

TableOK == TableSorted /\ TableDistinct

LEMMA RemoveKeeps ==
  ASSUME TypeOK, TableOK, NEW i \in Index, RemoveAt(i), UNCHANGED <<priority, pidCounter>>
  PROVE  /\ SlotsKept
         /\ TableOK'
         /\ numTasks' = numTasks - 1
         /\ \A p \in Listed : p \in Listed' \/ p = tasks[i]
  <1>0. /\ MaxTasks \in Nat /\ MaxPid \in Nat /\ numTasks \in 1 .. MaxTasks /\ i \in 0 .. numTasks - 1
        /\ tasks \in SlotArray /\ numTasks' = numTasks - 1 /\ Index = 0 .. numTasks - 1
    BY ConstantsAssumption DEF TypeOK, Index, RemoveAt, SlotArray
  <1>1. \A k \in Slots : tasks'[k] = IF i <= k /\ k < numTasks - 1 THEN tasks[k + 1] ELSE tasks[k]
    BY DEF RemoveAt
  <1>2. \A k \in Slots : k < numTasks => tasks[k] \in Pids
    BY <1>0 DEF TypeOK, TableOK, TableDistinct, Slots, Index, Pids
  <1>3. SlotsKept
    <2>1. tasks' \in SlotArray
      BY <1>0, <1>2 DEF RemoveAt, SlotArray, Slots
    <2>2. \A k \in Slots : tasks[k] \in Pids => tasks'[k] \in Pids
      BY <1>0, <1>1, <1>2 DEF Slots
    <2> QED BY <1>0, <2>1, <2>2 DEF SlotsKept
  <1>4. TableSorted'
    BY <1>0, <1>1 DEF TableOK, TableSorted, Index, Slots
  <1>5. TableDistinct'
    BY <1>0, <1>1 DEF TableOK, TableDistinct, Index, Slots
  <1>6. ASSUME NEW p \in Listed, p # tasks[i] PROVE p \in Listed'
    <2>1. PICK k \in Index : p = tasks[k]
      BY DEF Listed
    <2>2. CASE k < i
      BY <1>0, <1>1, <2>1, <2>2 DEF Listed, Index, Slots
    <2>3. CASE k > i
      BY <1>0, <1>1, <2>1, <2>3 DEF Listed, Index, Slots
    <2> QED BY <1>0, <1>6, <2>1, <2>2, <2>3
  <1> QED BY <1>0, <1>3, <1>4, <1>5, <1>6 DEF TableOK

\* Schedule up to its search loop, entered from a handler that has fixed the table and
\* the task states st: everything Schedule writes stays well-formed.
LEMMA EnterScheduleKeeps ==
  ASSUME TypeOK, IdleDiscipline, CursorOnTask, SlotsKept, pc = "user",
         NEW st \in [Objects -> TaskStates], st[IdleTask] = taskState[IdleTask],
         EnterSchedule(st)
  PROVE  /\ taskState' \in [Objects -> TaskStates]
         /\ currentTask' \in -1 .. MaxTasks - 1
         /\ prioritiesUpdated' \in BOOLEAN
         /\ cpustate' \in [Objects -> Contexts]
         /\ idleTime' \in 0 .. IDLE - 1
         /\ ticks' \in 1 .. QUANTUM
         /\ startedWith' \in Slots
         /\ startedWithPid' \in Pids \cup {0}
         /\ tamTurAtildi' \in BOOLEAN
         /\ pc' \in {"user", "advance", "dispatch"}
         /\ cpu' \in Contexts
         /\ IdleDiscipline'
         /\ CursorOnTask'
  <1>0. /\ MaxTasks \in Nat \ {0} /\ MaxPid \in Nat \ {0} /\ IDLE \in Nat \ {0, 1}
        /\ currentTask \in -1 .. MaxTasks - 1 /\ idleTime \in 0 .. IDLE - 1
        /\ IdleTask \in Objects /\ IdleTask \notin Pids /\ IdleTask # NoTask
        /\ cpustate \in [Objects -> Contexts] /\ cpu \in Contexts
        /\ IdleTask \in Contexts
    BY ConstantsAssumption DEF TypeOK, Objects, Pids, IdleTask, NoTask, Contexts
  <1>1. /\ \A k \in 0 .. currentTask : tasks'[k] \in Pids
        /\ currentTask >= 0 => tasks'[currentTask] \in Pids
    BY <1>0 DEF CursorOnTask, SlotsKept, Slots
  <1>2. CASE numTasks' = 0 /\ taskState' = st
             /\ UNCHANGED <<currentTask, prioritiesUpdated, cpustate, idleTime, ticks, locals, pc, cpu>>
    BY <1>0, <1>1, <1>2 DEF TypeOK, IdleDiscipline, CursorOnTask, locals
  <1> DEFINE saved == Saved(st)
  <1>3. saved \in [Objects -> Contexts] /\ saved[IdleTask] = IdleTask
    BY <1>0, <1>1 DEF IdleDiscipline, Saved
  <1>4. st[IdleTask] = "RUNNING" => cpu = IdleTask
    BY DEF IdleDiscipline
  <1> HIDE DEF saved
  <1>5. CASE StayIdle(st, saved)
    <2>1. idleTime' \in 1 .. IDLE - 1
      BY <1>0, <1>5, Remainder DEF StayIdle
    <2>2. taskState' \in [Objects -> TaskStates] /\ taskState'[IdleTask] = "RUNNING"
      BY <1>0, <1>5 DEF StayIdle, TaskStates
    <2>3. cpustate' = saved /\ cpu' = IdleTask /\ pc' = "user"
          /\ UNCHANGED <<currentTask, prioritiesUpdated, ticks, locals>>
      BY <1>3, <1>5 DEF StayIdle
    <2> QED BY <1>0, <1>1, <1>3, <2>1, <2>2, <2>3 DEF TypeOK, IdleDiscipline, CursorOnTask, locals
  <1>6. CASE idleTime' = 0 /\ RestartSearch(st, saved)
    <2>1. taskState' \in [Objects -> TaskStates] /\ taskState'[IdleTask] = "READY"
      BY <1>0, <1>1, <1>6 DEF RestartSearch, AfterTurn, TaskStates
    <2>2. /\ cpustate' = saved /\ pc' = "advance" /\ currentTask' = -1 /\ ticks' = QUANTUM
          /\ prioritiesUpdated' = FALSE /\ startedWith' = 0 /\ startedWithPid' = 0
          /\ tamTurAtildi' = FALSE /\ cpu' = cpu
      BY <1>6 DEF RestartSearch
    <2>3. IdleDiscipline'
      BY <1>3, <1>6, <2>1, <2>2 DEF IdleDiscipline
    <2>4. CursorOnTask'
      BY <2>2 DEF CursorOnTask
    <2>5. currentTask' \in -1 .. MaxTasks - 1 /\ ticks' \in 1 .. QUANTUM /\ idleTime' \in 0 .. IDLE - 1
      BY <1>0, <1>6, <2>2 DEF QUANTUM
    <2>6. startedWith' \in Slots /\ startedWithPid' \in Pids \cup {0}
      BY <1>0, <2>2 DEF Slots
    <2> QED BY <1>0, <1>3, <2>1, <2>2, <2>3, <2>4, <2>5, <2>6
  <1>7. CASE idleTime' = 0 /\ ReturnToInterrupted(st, saved)
    <2>1. taskState' \in [Objects -> TaskStates] /\ taskState'[IdleTask] = "READY"
      BY <1>0, <1>7 DEF ReturnToInterrupted, TaskStates
    <2>2. ticks' \in 1 .. QUANTUM
      BY <1>0, <1>1, <1>7 DEF ReturnToInterrupted, QuantumLeft, TypeOK, QUANTUM, Priority,
         HIGHEST, HIGHER, HIGH, MEDIUM, LOW, LOWER, LOWEST
    <2> QED BY <1>0, <1>1, <1>3, <1>7, <2>1, <2>2
            DEF ReturnToInterrupted, TypeOK, IdleDiscipline, CursorOnTask, locals
  <1>8. CASE idleTime' = 0 /\ StartSearch(st, saved)
    <2>1. taskState' \in [Objects -> TaskStates] /\ taskState'[IdleTask] = "READY"
      BY <1>0, <1>8 DEF StartSearch, TaskStates
    <2>2. startedWith' \in Slots /\ startedWithPid' \in Pids \cup {0}
      BY <1>0, <1>1, <1>8 DEF StartSearch, Slots
    <2>3. pc' \in {"advance", "dispatch"} /\ (pc' = "dispatch" => currentTask >= 0)
      BY <1>0, <1>8 DEF StartSearch, LoopHead
    <2>4. /\ cpustate' = saved /\ ticks' = QUANTUM /\ tamTurAtildi' = FALSE
          /\ UNCHANGED <<currentTask, prioritiesUpdated, cpu>>
      BY <1>8 DEF StartSearch
    <2>5. IdleDiscipline'
      BY <1>3, <1>8, <2>1, <2>4 DEF IdleDiscipline
    <2>6. CursorOnTask'
      BY <1>1, <2>3, <2>4 DEF CursorOnTask
    <2>7. ticks' \in 1 .. QUANTUM /\ idleTime' \in 0 .. IDLE - 1
      BY <1>0, <1>8, <2>4 DEF QUANTUM
    <2>8. prioritiesUpdated' \in BOOLEAN
      BY <2>4 DEF TypeOK
    <2> QED BY <1>0, <1>3, <2>1, <2>2, <2>3, <2>4, <2>5, <2>6, <2>7, <2>8
  <1> QED BY <1>2, <1>5, <1>6, <1>7, <1>8 DEF EnterSchedule, saved

-----------------------------------------------------------------------------
(* One lemma per action.                                                   *)

LEMMA TableFilled ==
  ASSUME TypeOK, TableDistinct
  PROVE  \A k \in Index : k \in Slots /\ tasks[k] \in Pids
  <1>1. /\ MaxTasks \in Nat /\ MaxPid \in Nat
        /\ numTasks \in 0 .. MaxTasks /\ pidCounter \in 2 .. MaxPid + 1
    BY ConstantsAssumption DEF TypeOK
  <1>2. 1 .. pidCounter - 1 \subseteq Pids
    BY <1>1 DEF Pids
  <1> QED BY <1>1, <1>2 DEF TableDistinct, Slots, Index

LEMMA TableUntouched ==
  ASSUME TypeOK, TableOK, UNCHANGED <<tasks, numTasks, priority, pidCounter>>
  PROVE  SlotsKept /\ TableOK'
  BY DEF TypeOK, SlotsKept, SlotArray, TableOK, TableSorted, TableDistinct, Index

\* A system call comes from a task, and the kernel then has a current task.
LEMMA CallerIsThere ==
  ASSUME IInv, InTask
  PROVE  /\ currentTask \in Slots /\ Current \in Pids /\ pc = "user"
         /\ Current # IdleTask /\ Current \in Objects
         /\ taskState[IdleTask] # "RUNNING"
  <1>1. cpu # Boot /\ cpu # IdleTask
    BY ConstantsAssumption DEF InTask, Pids, Boot, IdleTask
  <1>2. currentTask >= 0 /\ pc = "user"
    BY <1>1, ConstantsAssumption DEF IInv, TypeOK, CursorOnTask, InTask
  <1> QED BY <1>1, <1>2, ConstantsAssumption
          DEF IInv, TypeOK, CursorOnTask, IdleDiscipline, Current, Slots, Pids, IdleTask, Objects

LEMMA TickKeeps == IInv /\ Tick => IInv'
  <1> SUFFICES ASSUME IInv, Tick PROVE IInv'
    OBVIOUS
  <1>1. SlotsKept /\ TableOK'
    BY TableUntouched DEF IInv, Tick, TableOK
  <1>2. taskState \in [Objects -> TaskStates] /\ pc = "user" /\ EnterSchedule(taskState)
    BY DEF IInv, TypeOK, Tick
  <1>3. UNCHANGED <<pidCounter, priority, passedQuantums, ppid, waitingPid, waitedByPid>>
    BY DEF Tick, waits
  <1>4. IdleDiscipline' /\ CursorOnTask'
    BY <1>1, <1>2, EnterScheduleKeeps DEF IInv
  <1>5. TypeOK'
    BY <1>1, <1>2, <1>3, EnterScheduleKeeps DEF IInv, TypeOK, SlotsKept, SlotArray
  <1> QED BY <1>1, <1>4, <1>5 DEF IInv, TableOK

LEMMA AdvanceKeeps == IInv /\ Advance => IInv'
  <1> SUFFICES ASSUME IInv, Advance PROVE IInv'
    OBVIOUS
  <1>0. /\ UNCHANGED <<tasks, numTasks, pidCounter, prioritiesUpdated, taskState, priority,
                       passedQuantums, ppid, waitingPid, waitedByPid, cpustate, idleTime,
                       ticks, startedWith, startedWithPid, cpu>>
        /\ pc = "advance" /\ pc' \in {"skip", "fault"} /\ tamTurAtildi' \in BOOLEAN
        /\ MaxTasks \in Nat \ {0} /\ numTasks \in 0 .. MaxTasks /\ currentTask \in -1 .. MaxTasks - 1
    BY ConstantsAssumption DEF IInv, TypeOK, Advance, waits
  <1>1. SlotsKept /\ TableOK'
    BY <1>0, TableUntouched DEF IInv, TableOK
  <1>2. currentTask' \in Index \/ (pc' = "fault" /\ currentTask' = currentTask)
    BY <1>0, Remainder DEF Advance, Index
  <1>3. \A k \in Index : tasks[k] \in Pids
    BY TableFilled DEF IInv
  <1>4. CursorOnTask'
    BY <1>0, <1>2, <1>3 DEF IInv, CursorOnTask, Index
  <1>5. IdleDiscipline'
    BY <1>0 DEF IInv, IdleDiscipline
  <1>6. TypeOK'
    BY <1>0, <1>2 DEF IInv, TypeOK, Index
  <1> QED BY <1>1, <1>4, <1>5, <1>6 DEF IInv, TableOK

LEMMA SkipKeeps == IInv /\ Skip => IInv'
  <1> SUFFICES ASSUME IInv, Skip PROVE IInv'
    OBVIOUS
  <1>0. /\ UNCHANGED <<tasks, numTasks, pidCounter, prioritiesUpdated, taskState, priority, ppid,
                       waitingPid, waitedByPid, cpustate, idleTime, ticks, startedWith,
                       startedWithPid, tamTurAtildi, pc, cpu>>
        /\ pc = "skip" /\ currentTask \in Index
        /\ MaxTasks \in Nat \ {0} /\ numTasks \in 0 .. MaxTasks
    BY ConstantsAssumption DEF IInv, TypeOK, CursorOnTask, Skip, waits, locals
  <1>1. SlotsKept /\ TableOK'
    BY <1>0, TableUntouched DEF IInv, TableOK
  <1>2. currentTask' \in Index
    BY <1>0, Remainder DEF Skip, Index
  <1>3. \A k \in Index : tasks[k] \in Pids
    BY TableFilled DEF IInv
  <1>4. CursorOnTask'
    BY <1>0, <1>2, <1>3 DEF CursorOnTask, Index
  <1>5. IdleDiscipline'
    BY <1>0 DEF IInv, IdleDiscipline
  <1>6. passedQuantums' \in [Pids -> Quantums]
    <2>1. Current \in Pids /\ passedQuantums \in [Pids -> Quantums] /\ priority \in [Pids -> Priority]
      BY <1>0, <1>3 DEF IInv, TypeOK, Current
    <2>2. passedQuantums[Current] + 1 \in Quantums
      BY <2>1 DEF Skip, PassedOver, Quantums, Priority, QUANTUM,
         HIGHEST, HIGHER, HIGH, MEDIUM, LOW, LOWER, LOWEST
    <2> QED BY <2>1, <2>2 DEF Skip
  <1>7. TypeOK'
    BY <1>0, <1>2, <1>6 DEF IInv, TypeOK, Index
  <1> QED BY <1>1, <1>4, <1>5, <1>7 DEF IInv, TableOK

LEMMA ExamineKeeps == IInv /\ Examine => IInv'
  <1> SUFFICES ASSUME IInv, Examine PROVE IInv'
    OBVIOUS
  <1>0. /\ UNCHANGED <<pidCounter, prioritiesUpdated, priority, ppid, waitedByPid, cpustate,
                       idleTime, ticks, startedWith, startedWithPid, tamTurAtildi, cpu>>
        /\ pc = "skip" /\ currentTask \in Index
        /\ MaxTasks \in Nat \ {0} /\ numTasks \in 0 .. MaxTasks
    BY ConstantsAssumption DEF IInv, TypeOK, CursorOnTask, Examine, locals
  <1>1. \A k \in Index : tasks[k] \in Pids
    BY TableFilled DEF IInv
  <1>2. /\ Listed \subseteq Pids /\ Current \in Pids /\ IdleTask \notin Pids
        /\ taskState[IdleTask] # "RUNNING"
    BY <1>0, <1>1 DEF Listed, Current, Pids, IdleTask, IInv, IdleDiscipline
  <1>3. /\ SlotsKept /\ TableOK'
        /\ currentTask' = currentTask \/ currentTask' = currentTask - 1
        /\ currentTask' = currentTask => UNCHANGED <<tasks, numTasks>>
    <2>1. CASE Reapable(Current)
      BY <1>0, <2>1, RemoveKeeps DEF IInv, TableOK, Examine, Index
    <2>2. CASE ~Reapable(Current)
      BY <1>0, <2>2, TableUntouched DEF IInv, TableOK, Examine
    <2> QED BY <2>1, <2>2
  <1>4. /\ taskState' \in [Objects -> TaskStates] /\ taskState'[IdleTask] = taskState[IdleTask]
        /\ waitingPid' \in [Pids -> Pids \cup {0}]
    BY <1>2 DEF Examine, Reapable, IInv, TypeOK, TaskStates, Objects
  <1>5. /\ pc' \in {"advance", "dispatch", "deadlock", "fault"}
        /\ pc' = "dispatch" => currentTask' # -1
    BY DEF Examine, EndOfTurn, LoopHead
  <1>6. CursorOnTask'
    <2>1. currentTask' \in -1 .. numTasks - 1
      BY <1>0, <1>3 DEF Index
    <2>2. \A k \in 0 .. currentTask' : tasks'[k] \in Pids
      BY <1>0, <1>1, <1>3, <2>1 DEF SlotsKept, Index, Slots
    <2> QED BY <1>0, <1>5, <2>1, <2>2 DEF CursorOnTask
  <1>7. IdleDiscipline'
    BY <1>0, <1>2, <1>4 DEF IInv, IdleDiscipline
  <1>8. passedQuantums' \in [Pids -> Quantums]
    BY <1>2 DEF Examine, IInv, TypeOK, Quantums
  <1>9. TypeOK'
    <2>1. currentTask' \in -1 .. MaxTasks - 1
      BY <1>0, <1>3 DEF Index
    <2> QED BY <1>0, <1>3, <1>4, <1>5, <1>8, <2>1 DEF IInv, TypeOK, SlotsKept, SlotArray
  <1> QED BY <1>3, <1>6, <1>7, <1>9 DEF IInv, TableOK

LEMMA DispatchKeeps == IInv /\ Dispatch => IInv'
  <1> SUFFICES ASSUME IInv, Dispatch PROVE IInv'
    OBVIOUS
  <1>0. /\ UNCHANGED <<tasks, numTasks, currentTask, pidCounter, prioritiesUpdated, priority,
                       passedQuantums, ppid, waitingPid, waitedByPid, cpustate, idleTime, ticks>>
        /\ startedWith' = 0 /\ startedWithPid' = 0 /\ tamTurAtildi' = FALSE
        /\ pc = "dispatch" /\ pc' \in {"user", "fault"} /\ cpu' = cpustate[Current]
        /\ currentTask \in Nat /\ Current \in Pids /\ Current \in Objects
        /\ IdleTask \notin Pids /\ taskState[IdleTask] # "RUNNING"
    BY DEF IInv, TypeOK, CursorOnTask, IdleDiscipline, Dispatch, manager, waits, LocalsUnused,
       Current, Objects, Pids, IdleTask
  <1>1. SlotsKept /\ TableOK'
    BY <1>0, TableUntouched DEF IInv, TableOK
  <1>2. taskState' \in [Objects -> TaskStates] /\ taskState'[IdleTask] # "RUNNING"
    BY <1>0 DEF Dispatch, AfterTurn, IInv, TypeOK, TaskStates, Objects
  <1>3. CursorOnTask'
    BY <1>0 DEF IInv, CursorOnTask
  <1>4. IdleDiscipline'
    BY <1>0, <1>2 DEF IInv, IdleDiscipline
  <1>5. cpu' \in Contexts /\ startedWith' \in Slots
    BY <1>0, ConstantsAssumption DEF IInv, TypeOK, Slots
  <1>6. TypeOK'
    BY <1>0, <1>2, <1>5 DEF IInv, TypeOK
  <1> QED BY <1>1, <1>3, <1>4, <1>6 DEF IInv, TableOK

LEMMA ExitKeeps == IInv /\ Exit => IInv'
  <1> SUFFICES ASSUME IInv, Exit PROVE IInv'
    OBVIOUS
  <1> DEFINE st == [taskState EXCEPT ![Current] = "TERMINATED"]
  <1>1. InTask /\ UNCHANGED <<tasks, numTasks, pidCounter, priority, passedQuantums, waits>>
        /\ EnterSchedule(st)
    BY DEF Exit
  <1>2. SlotsKept /\ TableOK'
    BY <1>1, TableUntouched DEF IInv, TableOK
  <1>3. st \in [Objects -> TaskStates] /\ st[IdleTask] = taskState[IdleTask] /\ pc = "user"
    BY <1>1, CallerIsThere DEF IInv, TypeOK, TaskStates, Objects
  <1> HIDE DEF st
  <1>4. IdleDiscipline' /\ CursorOnTask'
    BY <1>1, <1>2, <1>3, EnterScheduleKeeps DEF IInv
  <1>5. TypeOK'
    BY <1>1, <1>2, <1>3, EnterScheduleKeeps DEF IInv, TypeOK, SlotsKept, SlotArray, waits
  <1> QED BY <1>2, <1>4, <1>5 DEF IInv, TableOK

\* The child has its parent's priority, so AddTask appends it, the swap loop stops behind
\* the tasks of that priority, and the cursor stays on the parent's slot.
LEMMA ForkKeeps == IInv /\ Fork => IInv'
  <1> SUFFICES ASSUME IInv, Fork PROVE IInv'
    OBVIOUS
  <1> DEFINE child == pidCounter
             appended == [tasks EXCEPT ![numTasks] = child]
  <1>1. /\ InTask /\ numTasks < MaxTasks /\ child \in Pids
        /\ priority' = [priority EXCEPT ![child] = priority[Current]]
        /\ \E garbage \in UninitQuantums : passedQuantums' = [passedQuantums EXCEPT ![child] = garbage]
        /\ AddTask(child)
        /\ ppid' = [ppid EXCEPT ![child] = tasks'[currentTask']]
        /\ \E f \in {child, Garbage} : cpustate' = [cpustate EXCEPT ![child] = f]
        /\ UNCHANGED <<waitingPid, waitedByPid, idleTime, ticks, startedWith, startedWithPid,
                       tamTurAtildi, pc, cpu>>
    BY DEF Fork, locals
  <1>2. /\ MaxTasks \in Nat \ {0} /\ MaxPid \in Nat \ {0} /\ UninitQuantums \subseteq Quantums
        /\ numTasks \in 0 .. MaxTasks - 1 /\ child \in 2 .. MaxPid
        /\ tasks \in SlotArray /\ priority \in [Pids -> Priority] /\ Priority \subseteq Int
        /\ child # IdleTask /\ child \in Objects /\ child \in Contexts /\ Garbage \in Contexts
    BY <1>1, ConstantsAssumption DEF IInv, TypeOK, Pids, SlotArray, IdleTask, Objects, Contexts,
       Priority, HIGHEST, HIGHER, HIGH, MEDIUM, LOW, LOWER, LOWEST
  <1>3. /\ currentTask \in Slots /\ Current \in Pids /\ pc = "user"
        /\ taskState[IdleTask] # "RUNNING"
    BY <1>1, CallerIsThere
  <1>4. \A k \in Index : k \in Slots /\ tasks[k] \in Pids /\ tasks[k] \in 1 .. child - 1
    BY TableFilled DEF IInv, TableDistinct
  <1>5. priority' \in [Pids -> Priority] /\ priority'[child] = priority[Current]
        /\ \A q \in Pids : q # child => priority'[q] = priority[q]
    BY <1>1, <1>2, <1>3
  <1>6. /\ appended \in SlotArray /\ appended[numTasks] = child
        /\ \A k \in Slots : k # numTasks => appended[k] = tasks[k]
    BY <1>1, <1>2 DEF SlotArray, Slots
  <1>7. currentTask' = currentTask
    <2>1. priority'[appended[currentTask]] = priority[Current]
      BY <1>2, <1>3, <1>5, <1>6 DEF Current
    <2> QED BY <1>1, <1>2, <1>3, <1>5, <2>1 DEF AddTask, Priority
  <1> HIDE DEF appended
  <1>8. PICK stop \in Slots :
          /\ StopsLeft(appended, priority', numTasks, stop)
          /\ tasks' = Moved(appended, numTasks, stop)
          /\ prioritiesUpdated' = (prioritiesUpdated \/ stop < numTasks)
    BY <1>1 DEF AddTask, appended
  <1>9. /\ numTasks' = numTasks + 1 /\ pidCounter' = child + 1
        /\ taskState' = [taskState EXCEPT ![child] = "READY"]
    BY <1>1 DEF AddTask
  <1>10. stop \in 0 .. numTasks
    BY <1>8 DEF StopsLeft
  <1>11. \A k \in 0 .. numTasks : appended[k] \in Pids /\ appended[k] \in 1 .. child
    BY <1>1, <1>2, <1>4, <1>6 DEF Index, Slots
  <1>12. Distinct(appended, numTasks + 1)
    BY <1>2, <1>4, <1>6 DEF Distinct, IInv, TableDistinct, Index, Slots
  <1>13. Sorted(tasks', numTasks + 1, priority')
    <2>1. \A j, k \in 0 .. numTasks : j < k /\ j # numTasks /\ k # numTasks =>
            priority'[appended[j]] <= priority'[appended[k]]
      <3> SUFFICES ASSUME NEW j \in 0 .. numTasks, NEW k \in 0 .. numTasks,
                          j < k, j # numTasks, k # numTasks
                   PROVE  priority'[appended[j]] <= priority'[appended[k]]
        OBVIOUS
      <3>1. j \in Index /\ k \in Index
        BY <1>2 DEF Index
      <3>2. tasks[j] # child /\ tasks[k] # child
        BY <1>2, <1>4, <3>1
      <3> QED BY <1>2, <1>4, <1>5, <1>6, <3>1, <3>2 DEF IInv, TableSorted, Index
    <2>2. \A k \in 0 .. numTasks : priority'[appended[k]] \in Int
      BY <1>2, <1>5, <1>11
    <2> QED BY <1>2, <1>6, <1>8, <1>11, <2>1, <2>2, MoveLeft
  <1>14. /\ tasks' \in SlotArray /\ Distinct(tasks', numTasks + 1)
         /\ \A k \in Slots : k >= numTasks + 1 => tasks'[k] = appended[k]
         /\ \A k \in 0 .. numTasks : \E m \in 0 .. numTasks : tasks'[k] = appended[m]
    <2>1. /\ 0 .. (numTasks + 1) - 1 = 0 .. numTasks
          /\ numTasks + 1 \in 0 .. MaxTasks
          /\ numTasks \in 0 .. (numTasks + 1) - 1 /\ stop \in 0 .. (numTasks + 1) - 1
      BY <1>2, <1>10
    <2>2. /\ tasks' \in SlotArray /\ Distinct(tasks', numTasks + 1)
          /\ \A k \in Slots : k >= numTasks + 1 => tasks'[k] = appended[k]
          /\ \A k \in 0 .. (numTasks + 1) - 1 :
               \E m \in 0 .. (numTasks + 1) - 1 : tasks'[k] = appended[m]
      <3> DEFINE n == numTasks + 1
      <3>1. n \in 0 .. MaxTasks /\ numTasks \in 0 .. n - 1 /\ stop \in 0 .. n - 1
        BY <2>1
      <3> HIDE DEF n
      <3>2. Distinct(appended, n) => 
              /\ Moved(appended, numTasks, stop) \in SlotArray
              /\ Distinct(Moved(appended, numTasks, stop), n)
              /\ \A k \in Slots : k >= n => Moved(appended, numTasks, stop)[k] = appended[k]
              /\ \A k \in 0 .. n - 1 : \E m \in 0 .. n - 1 :
                   Moved(appended, numTasks, stop)[k] = appended[m]
        BY <1>6, <3>1, MovePermutes
      <3> QED BY <1>8, <1>12, <3>2 DEF n
    <2> QED BY <2>1, <2>2
  <1>15. \A k \in 0 .. numTasks : tasks'[k] \in Pids /\ tasks'[k] \in 1 .. child
    BY <1>11, <1>14
  <1>16. TableSorted' /\ TableDistinct'
    <2>1. Index' = 0 .. numTasks
      BY <1>2, <1>9 DEF Index
    <2>2. 0 .. (numTasks + 1) - 1 = 0 .. numTasks /\ 1 .. pidCounter' - 1 = 1 .. child
      BY <1>2, <1>9
    <2>3. TableSorted'
      BY <1>13, <2>1, <2>2 DEF TableSorted, Sorted
    <2>4. TableDistinct'
      BY <1>14, <1>15, <2>1, <2>2 DEF TableDistinct, Distinct
    <2> QED BY <2>3, <2>4
  <1>17. /\ \A k \in 0 .. currentTask' : tasks'[k] \in Pids
         /\ tasks'[currentTask'] \in Pids
    <2>1. currentTask \in 0 .. MaxTasks - 1 /\ \A k \in 0 .. currentTask : k \in Slots /\ tasks[k] \in Pids
      BY <1>2, <1>3 DEF Slots, IInv, CursorOnTask
    <2>2. ASSUME NEW k \in 0 .. currentTask PROVE tasks'[k] \in Pids
      <3>1. CASE k <= numTasks
        BY <1>2, <1>15, <2>1, <3>1
      <3>2. CASE k > numTasks
        BY <1>2, <1>6, <1>14, <2>1, <3>2
      <3> QED BY <1>2, <2>1, <3>1, <3>2
    <2> QED BY <1>7, <2>1, <2>2
  <1>18. CursorOnTask'
    BY <1>1, <1>3, <1>7, <1>17 DEF CursorOnTask, Slots
  <1>19. IdleDiscipline'
    BY <1>1, <1>2, <1>3, <1>9 DEF IInv, TypeOK, IdleDiscipline
  <1>20. taskState' \in [Objects -> TaskStates] /\ passedQuantums' \in [Pids -> Quantums]
         /\ ppid' \in [Pids -> Pids \cup {0}] /\ cpustate' \in [Objects -> Contexts]
         /\ prioritiesUpdated' \in BOOLEAN
    BY <1>1, <1>2, <1>8, <1>9, <1>17 DEF IInv, TypeOK, TaskStates
  <1>21. numTasks' \in 0 .. MaxTasks /\ pidCounter' \in 2 .. MaxPid + 1
    BY <1>2, <1>9
  <1>22. TypeOK'
    BY <1>1, <1>5, <1>7, <1>14, <1>20, <1>21 DEF IInv, TypeOK, SlotArray
  <1> QED BY <1>16, <1>18, <1>19, <1>22 DEF IInv

\* The end of every waitpid: Schedule, or back to the caller with the task states st.
LEMMA ScheduleIfWaitingKeeps ==
  ASSUME IInv, InTask, SlotsKept, TableOK',
         UNCHANGED <<pidCounter, priority, passedQuantums, ppid>>,
         waitingPid' \in [Pids -> Pids \cup {0}], waitedByPid' \in [Pids -> Pids \cup {0}],
         NEW st \in [Objects -> TaskStates], st[IdleTask] = taskState[IdleTask],
         ScheduleIfWaiting(st)
  PROVE  IInv'
  <1>1. currentTask \in Slots /\ currentTask >= 0 /\ pc = "user" /\ taskState[IdleTask] # "RUNNING"
    BY CallerIsThere, ConstantsAssumption DEF Slots
  <1>2. CASE EnterSchedule(st)
    <2>1. IdleDiscipline' /\ CursorOnTask'
      BY <1>1, <1>2, EnterScheduleKeeps DEF IInv
    <2>2. TypeOK'
      BY <1>1, <1>2, EnterScheduleKeeps DEF IInv, TypeOK, SlotsKept, SlotArray
    <2> QED BY <2>1, <2>2 DEF IInv, TableOK
  <1>3. CASE /\ taskState' = st
             /\ UNCHANGED <<currentTask, prioritiesUpdated, cpustate, idleTime, ticks, locals,
                            pc, cpu>>
    <2>1. TypeOK'
      BY <1>3 DEF IInv, TypeOK, SlotsKept, SlotArray, locals
    <2>2. IdleDiscipline'
      BY <1>1, <1>3 DEF IInv, IdleDiscipline
    <2>3. CursorOnTask'
      BY <1>1, <1>3, ConstantsAssumption DEF IInv, TypeOK, CursorOnTask, SlotsKept, Slots
    <2> QED BY <2>1, <2>2, <2>3 DEF IInv, TableOK
  <1> QED BY <1>2, <1>3 DEF ScheduleIfWaiting

LEMMA WaitpidKeeps ==
  ASSUME NEW w \in Pids, NEW nohang \in BOOLEAN, IInv, Waitpid(w, nohang)
  PROVE  IInv'
  <1>1. /\ InTask /\ w \in Listed
        /\ UNCHANGED <<pidCounter, priority, passedQuantums, ppid>>
    BY DEF Waitpid
  <1>2. /\ Current \in Pids /\ Current # IdleTask /\ Current \in Objects
        /\ taskState \in [Objects -> TaskStates]
    BY <1>1, CallerIsThere DEF IInv, TypeOK
  <1>3. CASE ReapNow(w)
    <2>1. SlotsKept /\ TableOK'
      BY <1>1, <1>3, RemoveKeeps DEF IInv, TableOK, ReapNow
    <2>2. waitingPid' \in [Pids -> Pids \cup {0}] /\ waitedByPid' \in [Pids -> Pids \cup {0}]
      BY <1>3 DEF IInv, TypeOK, ReapNow
    <2> QED BY <1>1, <1>2, <1>3, <2>1, <2>2, ScheduleIfWaitingKeeps DEF ReapNow
  <1>4. CASE WaitFor(w, nohang)
    <2> DEFINE st == IF nohang THEN taskState ELSE [taskState EXCEPT ![Current] = "WAITING"]
    <2>1. SlotsKept /\ TableOK'
      BY <1>1, <1>4, TableUntouched DEF IInv, TableOK, WaitFor
    <2>2. waitingPid' \in [Pids -> Pids \cup {0}] /\ waitedByPid' \in [Pids -> Pids \cup {0}]
      BY <1>2, <1>4 DEF IInv, TypeOK, WaitFor, RecordWaiter
    <2>3. st \in [Objects -> TaskStates] /\ st[IdleTask] = taskState[IdleTask]
      BY <1>2 DEF TaskStates
    <2>4. ScheduleIfWaiting(st)
      BY <1>4 DEF WaitFor
    <2> HIDE DEF st
    <2> QED BY <1>1, <2>1, <2>2, <2>3, <2>4, ScheduleIfWaitingKeeps
  <1> QED BY <1>3, <1>4 DEF Waitpid

LEMMA WaitNobodyKeeps == IInv /\ WaitNobody => IInv'
  <1> SUFFICES ASSUME IInv, WaitNobody PROVE IInv'
    OBVIOUS
  <1>1. /\ InTask /\ ScheduleIfWaiting(taskState)
        /\ UNCHANGED <<tasks, numTasks, pidCounter, priority, passedQuantums, ppid, waitingPid,
                       waitedByPid>>
    BY DEF WaitNobody, waits
  <1>2. SlotsKept /\ TableOK'
    BY <1>1, TableUntouched DEF IInv, TableOK
  <1>3. /\ taskState \in [Objects -> TaskStates]
        /\ waitingPid' \in [Pids -> Pids \cup {0}] /\ waitedByPid' \in [Pids -> Pids \cup {0}]
    BY <1>1 DEF IInv, TypeOK
  <1> QED BY <1>1, <1>2, <1>3, ScheduleIfWaitingKeeps

LEMMA SetPriorityKeeps ==
  ASSUME NEW w \in Pids, NEW yeni \in UserPriorities, IInv, SetPriority(w, yeni)
  PROVE  IInv'
  <1>1. /\ InTask /\ w \in Listed /\ priority[w] # yeni
        /\ priority' = [priority EXCEPT ![w] = yeni]
        /\ passedQuantums' = [passedQuantums EXCEPT ![w] = 0]
        /\ prioritiesUpdated' = TRUE
        /\ UNCHANGED <<numTasks, pidCounter, taskState, ppid, waitingPid, waitedByPid, cpustate,
                       idleTime, ticks, startedWith, startedWithPid, tamTurAtildi, pc, cpu>>
    BY DEF SetPriority, waits, locals
  <1>2. /\ MaxTasks \in Nat \ {0} /\ numTasks \in 0 .. MaxTasks /\ yeni \in Priority
        /\ priority \in [Pids -> Priority] /\ priority' \in [Pids -> Priority]
        /\ Priority \subseteq Int /\ tasks \in SlotArray /\ Index = 0 .. numTasks - 1
    BY <1>1, ConstantsAssumption DEF IInv, TypeOK, SlotArray, Index,
       Priority, HIGHEST, HIGHER, HIGH, MEDIUM, LOW, LOWER, LOWEST
  <1>3. currentTask \in Slots /\ Current \in Pids /\ pc = "user"
    BY <1>1, CallerIsThere
  <1>4. \A k \in 0 .. numTasks - 1 : k \in Slots /\ tasks[k] \in Pids
    BY <1>2, TableFilled DEF IInv
  <1>5. PICK i \in 0 .. numTasks - 1, stop \in Slots :
          /\ tasks[i] = w
          /\ IF priority[w] > yeni THEN StopsLeft(tasks, priority', i, stop)
             ELSE StopsRight(tasks, priority', i, numTasks, stop)
          /\ tasks' = Moved(tasks, i, stop)
          /\ currentTask' =
               IF w = Current /\ numTasks > 1 THEN stop
               ELSE IF i > currentTask /\ priority'[Current] > yeni THEN currentTask + 1
               ELSE IF i < currentTask /\ priority'[Current] < yeni THEN currentTask - 1
               ELSE currentTask
    BY <1>2 DEF SetPriority
  <1>6. stop \in 0 .. numTasks - 1
    BY <1>2, <1>5 DEF StopsLeft, StopsRight
  <1>7. Distinct(tasks, numTasks) /\ Sorted(tasks, numTasks, priority)
    BY <1>2 DEF IInv, TableSorted, TableDistinct, Distinct, Sorted
  <1>8. /\ priority'[w] = yeni
        /\ \A k \in 0 .. numTasks - 1 : k # i => priority'[tasks[k]] = priority[tasks[k]]
        /\ \A k \in 0 .. numTasks - 1 : tasks[k] \in Pids /\ priority'[tasks[k]] \in Int
        /\ \A j, k \in 0 .. numTasks - 1 : j < k /\ j # i /\ k # i =>
             priority'[tasks[j]] <= priority'[tasks[k]]
    <2>1. priority'[w] = yeni /\ \A q \in Pids : q # w => priority'[q] = priority[q]
      BY <1>1, <1>2
    <2>2. \A k \in 0 .. numTasks - 1 : k # i => tasks[k] # w
      BY <1>5, <1>7 DEF Distinct
    <2>3. \A k \in 0 .. numTasks - 1 : k # i => priority'[tasks[k]] = priority[tasks[k]]
      BY <1>4, <2>1, <2>2
    <2>4. \A k \in 0 .. numTasks - 1 : priority'[tasks[k]] \in Int
      BY <1>2, <1>4
    <2> QED BY <1>4, <1>7, <2>1, <2>3, <2>4 DEF Sorted
  <1>9. Sorted(tasks', numTasks, priority')
    <2>1. CASE priority[w] > yeni
      <3>1. ASSUME NEW k \in i + 1 .. numTasks - 1
            PROVE  priority'[tasks[i]] <= priority'[tasks[k]]
        <4>1. k \in 0 .. numTasks - 1 /\ i < k
          BY <1>2
        <4>2. priority[w] <= priority[tasks[k]] /\ priority'[tasks[k]] = priority[tasks[k]]
          BY <1>5, <1>7, <1>8, <4>1 DEF Sorted
        <4>3. priority[w] \in Int /\ priority[tasks[k]] \in Int /\ yeni \in Int
          BY <1>2, <1>4, <4>1
        <4> QED BY <1>5, <1>8, <2>1, <4>2, <4>3
      <3> QED BY <1>2, <1>5, <1>8, <2>1, <3>1, MoveLeft
    <2>2. CASE ~(priority[w] > yeni)
      <3>1. ASSUME NEW k \in 0 .. i - 1
            PROVE  priority'[tasks[k]] <= priority'[tasks[i]]
        <4>1. k \in 0 .. numTasks - 1 /\ k < i
          BY <1>2
        <4>2. priority[tasks[k]] <= priority[w] /\ priority'[tasks[k]] = priority[tasks[k]]
          BY <1>5, <1>7, <1>8, <4>1 DEF Sorted
        <4>3. priority[w] \in Int /\ priority[tasks[k]] \in Int /\ yeni \in Int
          BY <1>2, <1>4, <4>1
        <4> QED BY <1>5, <1>8, <2>2, <4>2, <4>3
      <3> QED BY <1>2, <1>5, <1>8, <2>2, <3>1, MoveRight
    <2> QED BY <2>1, <2>2
  <1>10. /\ tasks' \in SlotArray /\ Distinct(tasks', numTasks)
         /\ \A k \in Slots : k >= numTasks => tasks'[k] = tasks[k]
         /\ \A k \in 0 .. numTasks - 1 : \E m \in 0 .. numTasks - 1 : tasks'[k] = tasks[m]
    <2>1. numTasks \in 0 .. MaxTasks /\ tasks \in SlotArray
      BY <1>2
    <2>2. /\ Moved(tasks, i, stop) \in SlotArray /\ Distinct(Moved(tasks, i, stop), numTasks)
          /\ \A k \in Slots : k >= numTasks => Moved(tasks, i, stop)[k] = tasks[k]
          /\ \A k \in 0 .. numTasks - 1 : \E m \in 0 .. numTasks - 1 :
               Moved(tasks, i, stop)[k] = tasks[m]
      BY <1>6, <1>7, <2>1, MovePermutes
    <2> QED BY <1>5, <2>2
  <1>11. \A k \in 0 .. numTasks - 1 : tasks'[k] \in Pids /\ tasks'[k] \in 1 .. pidCounter - 1
    BY <1>2, <1>4, <1>10 DEF IInv, TableDistinct
  <1>12. TableSorted' /\ TableDistinct'
    BY <1>1, <1>2, <1>9, <1>10, <1>11 DEF TableSorted, TableDistinct, Sorted, Distinct, Index
  <1>13. currentTask' \in 0 .. MaxTasks - 1
         /\ (currentTask' <= currentTask \/ currentTask' \in 0 .. numTasks - 1)
    <2>1. currentTask \in 0 .. MaxTasks - 1 /\ numTasks \in 0 .. MaxTasks /\ MaxTasks \in Nat
      BY <1>2, <1>3 DEF Slots
    <2>2. \/ currentTask' = stop
          \/ i > currentTask /\ currentTask' = currentTask + 1
          \/ i < currentTask /\ currentTask' = currentTask - 1
          \/ currentTask' = currentTask
      BY <1>5
    <2>3. i \in 0 .. numTasks - 1 /\ stop \in 0 .. numTasks - 1
      BY <1>6
    <2> QED BY <2>1, <2>2, <2>3
  <1>14. \A k \in 0 .. currentTask' : tasks'[k] \in Pids
    <2>1. currentTask \in 0 .. MaxTasks - 1 /\ \A k \in 0 .. currentTask : k \in Slots /\ tasks[k] \in Pids
      BY <1>2, <1>3 DEF Slots, IInv, CursorOnTask
    <2> SUFFICES ASSUME NEW k \in 0 .. currentTask' PROVE tasks'[k] \in Pids
      OBVIOUS
    <2>2. CASE k <= numTasks - 1
      BY <1>2, <1>11, <1>13, <2>2
    <2>3. CASE k > numTasks - 1
      BY <1>2, <1>10, <1>13, <2>1, <2>3, SMTT(30)
    <2> QED BY <1>2, <1>13, <2>2, <2>3
  <1>15. CursorOnTask'
    BY <1>1, <1>3, <1>13, <1>14, <1>2 DEF CursorOnTask, Slots
  <1>16. IdleDiscipline'
    BY <1>1 DEF IInv, IdleDiscipline
  <1>17. passedQuantums' \in [Pids -> Quantums] /\ currentTask' \in -1 .. MaxTasks - 1
    BY <1>1, <1>2, <1>13 DEF IInv, TypeOK, Quantums, Slots
  <1>18. TypeOK'
    BY <1>1, <1>2, <1>10, <1>17 DEF IInv, TypeOK, SlotArray
  <1> QED BY <1>12, <1>15, <1>16, <1>18 DEF IInv

\* fork and setpriority only permute the table (and append to it).
LEMMA SetPriorityKeepsEverybody ==
  ASSUME NEW w \in Pids, NEW yeni \in UserPriorities, IInv, SetPriority(w, yeni)
  PROVE  Listed \subseteq Listed'
  <1>1. /\ MaxTasks \in Nat \ {0} /\ numTasks \in 0 .. MaxTasks /\ numTasks' = numTasks
        /\ tasks \in SlotArray /\ Index = 0 .. numTasks - 1 /\ Index' = 0 .. numTasks - 1
    BY ConstantsAssumption DEF IInv, TypeOK, SlotArray, Index, SetPriority
  <1>2. PICK i \in 0 .. numTasks - 1, stop \in Slots :
          /\ StopsLeft(tasks, priority', i, stop) \/ StopsRight(tasks, priority', i, numTasks, stop)
          /\ tasks' = Moved(tasks, i, stop)
    BY <1>1 DEF SetPriority
  <1>3. stop \in 0 .. numTasks - 1
    BY <1>1, <1>2 DEF StopsLeft, StopsRight
  <1>4. Distinct(tasks, numTasks)
    BY <1>1 DEF IInv, TableDistinct, Distinct
  <1>5. \A k \in 0 .. numTasks - 1 : \E m \in 0 .. numTasks - 1 : tasks'[m] = tasks[k]
    <2>1. numTasks \in 0 .. MaxTasks /\ tasks \in SlotArray
      BY <1>1
    <2>2. \A k \in 0 .. numTasks - 1 : \E m \in 0 .. numTasks - 1 :
            Moved(tasks, i, stop)[m] = tasks[k]
      BY <1>3, <1>4, <2>1, MovePermutes
    <2> QED BY <1>2, <2>2
  <1> QED BY <1>1, <1>5 DEF Listed

LEMMA ForkKeepsEverybody ==
  ASSUME IInv, Fork
  PROVE  Listed \subseteq Listed'
  <1> DEFINE n == numTasks + 1
             appended == [tasks EXCEPT ![numTasks] = pidCounter]
  <1>1. /\ MaxTasks \in Nat \ {0} /\ numTasks \in 0 .. MaxTasks - 1 /\ numTasks' = n
        /\ tasks \in SlotArray /\ pidCounter \in Pids
    BY ConstantsAssumption DEF IInv, TypeOK, SlotArray, Fork, AddTask
  <1>2. PICK stop \in Slots :
          StopsLeft(appended, priority', numTasks, stop) /\ tasks' = Moved(appended, numTasks, stop)
    BY DEF Fork, AddTask
  <1>3. /\ n \in 0 .. MaxTasks /\ numTasks \in 0 .. n - 1 /\ stop \in 0 .. n - 1
        /\ Index = 0 .. numTasks - 1 /\ Index' = 0 .. n - 1
        /\ \A k \in Index : k \in 0 .. n - 1 /\ k # numTasks /\ k \in Slots
    BY <1>1, <1>2 DEF StopsLeft, Index, Slots
  <1>4. /\ appended \in SlotArray /\ appended[numTasks] = pidCounter
        /\ \A k \in Slots : k # numTasks => appended[k] = tasks[k]
    BY <1>1 DEF SlotArray, Slots
  <1>5. Distinct(appended, n)
    <2>1. \A k \in Index : tasks[k] \in 1 .. pidCounter - 1
      BY DEF IInv, TableDistinct
    <2> QED BY <1>1, <1>3, <1>4, <2>1 DEF Distinct, IInv, TableDistinct
  <1> HIDE DEF n, appended
  <1>6. \A k \in 0 .. n - 1 : \E m \in 0 .. n - 1 : tasks'[m] = appended[k]
    <2>1. n \in 0 .. MaxTasks /\ numTasks \in 0 .. n - 1 /\ stop \in 0 .. n - 1 /\ appended \in SlotArray
      BY <1>3, <1>4
    <2>2. \A k \in 0 .. n - 1 : \E m \in 0 .. n - 1 :
            Moved(appended, numTasks, stop)[m] = appended[k]
      BY <1>5, <2>1, MovePermutes
    <2> QED BY <1>2, <2>2
  <1>7. \A k \in Index : \E m \in Index' : tasks'[m] = tasks[k]
    BY <1>3, <1>4, <1>6
  <1> QED BY <1>7 DEF Listed

LEMMA ExecveKeeps == IInv /\ Execve => IInv'
  <1> SUFFICES ASSUME IInv, Execve PROVE IInv'
    OBVIOUS
  <1>1. /\ UNCHANGED <<tasks, numTasks, currentTask, pidCounter, prioritiesUpdated, taskState,
                       priority, passedQuantums, ppid, waitingPid, waitedByPid, idleTime, ticks,
                       startedWith, startedWithPid, tamTurAtildi, pc>>
        /\ InTask /\ cpustate' = [cpustate EXCEPT ![Current] = Current] /\ cpu' = Current
    BY DEF Execve, manager, waits, locals
  <1>2. /\ Current \in Pids /\ Current \in Contexts /\ Current # IdleTask
        /\ currentTask \in Nat /\ taskState[IdleTask] # "RUNNING"
    BY <1>1, CallerIsThere, ConstantsAssumption DEF Contexts, Objects, Slots
  <1>3. SlotsKept /\ TableOK'
    BY <1>1, TableUntouched DEF IInv, TableOK
  <1>4. cpustate' \in [Objects -> Contexts]
    BY <1>1, <1>2 DEF IInv, TypeOK
  <1>5. CursorOnTask'
    BY <1>1, <1>2 DEF IInv, CursorOnTask, Index
  <1>6. IdleDiscipline'
    BY <1>1, <1>2 DEF IInv, TypeOK, IdleDiscipline, Objects
  <1>7. TypeOK'
    BY <1>1, <1>2, <1>4 DEF IInv, TypeOK
  <1> QED BY <1>3, <1>5, <1>6, <1>7 DEF IInv, TableOK

LEMMA StutterKeeps == IInv /\ UNCHANGED vars => IInv'
  BY DEF IInv, TypeOK, TableSorted, TableDistinct, IdleDiscipline, CursorOnTask, Index,
     vars, manager, waits, locals

LEMMA InitIInv == Init => IInv
  <1> SUFFICES ASSUME Init PROVE IInv
    OBVIOUS
  <1>0. MaxTasks \in Nat \ {0} /\ MaxPid \in Nat \ {0} /\ IDLE \in Nat \ {0, 1} /\ 1 \in Pids /\ 0 \in Slots
    BY ConstantsAssumption DEF Pids, Slots
  <1>1. tasks \in [Slots -> Pids \cup {NoTask}] /\ tasks[0] = 1 /\ Index = {0}
    BY <1>0 DEF Init, Index
  <1>2. /\ taskState \in [Objects -> TaskStates] /\ priority \in [Pids -> Priority]
        /\ passedQuantums \in [Pids -> Quantums] /\ cpustate \in [Objects -> Contexts]
    BY DEF Init, TaskStates, Priority, Quantums, Contexts
  <1>3. /\ numTasks \in 0 .. MaxTasks /\ currentTask \in -1 .. MaxTasks - 1
        /\ pidCounter \in 2 .. MaxPid + 1 /\ idleTime \in 0 .. IDLE - 1 /\ ticks \in 1 .. QUANTUM
        /\ startedWith \in Slots
    BY <1>0 DEF Init, QUANTUM
  <1>6. /\ ppid \in [Pids -> Pids \cup {0}] /\ waitingPid \in [Pids -> Pids \cup {0}]
        /\ waitedByPid \in [Pids -> Pids \cup {0}] /\ startedWithPid \in Pids \cup {0}
        /\ cpu \in Contexts
    BY DEF Init, Contexts
  <1>7. TypeOK
    BY <1>1, <1>2, <1>3, <1>6 DEF Init, TypeOK
  <1>4. TableSorted /\ TableDistinct
    BY <1>0, <1>1 DEF Init, TableSorted, TableDistinct
  <1>5. IdleDiscipline /\ CursorOnTask
    BY <1>0, <1>1 DEF Init, IdleDiscipline, CursorOnTask, Objects
  <1> QED BY <1>4, <1>5, <1>7 DEF IInv

LEMMA NextKeeps == IInv /\ [Next]_vars => IInv'
  <1> SUFFICES ASSUME IInv, [Next]_vars PROVE IInv'
    OBVIOUS
  <1>1. CASE Tick
    BY <1>1, TickKeeps
  <1>2. CASE Kernel
    BY <1>2, AdvanceKeeps, SkipKeeps, ExamineKeeps, DispatchKeeps DEF Kernel
  <1>3. CASE Exit
    BY <1>3, ExitKeeps
  <1>4. CASE Fork
    BY <1>4, ForkKeeps
  <1>5. CASE ForkFails
    BY <1>5, StutterKeeps DEF ForkFails
  <1>6. CASE \E w \in Pids, nohang \in BOOLEAN : Waitpid(w, nohang)
    BY <1>6, WaitpidKeeps
  <1>7. CASE \E w \in Pids, yeni \in UserPriorities : SetPriority(w, yeni)
    BY <1>7, SetPriorityKeeps
  <1>8. CASE Execve
    BY <1>8, ExecveKeeps
  <1>9. CASE WaitNobody
    BY <1>9, WaitNobodyKeeps
  <1>10. CASE UNCHANGED vars
    BY <1>10, StutterKeeps
  <1> QED BY <1>1, <1>2, <1>3, <1>4, <1>5, <1>6, <1>7, <1>8, <1>9, <1>10 DEF Next

-----------------------------------------------------------------------------
(* The theorems.                                                           *)

\* The inductive invariant holds whatever programs do.
THEOREM Invariance == Spec => []IInv
  BY InitIInv, NextKeeps, PTL DEF Spec

\* Every variable stays in its type: in particular the cursor, the quantum counter and
\* the idle counter never leave their ranges, for any table size and idle period.
THEOREM TypeCorrect == Spec => []TypeOK
  BY Invariance, PTL DEF IInv

\* The table stays in priority order through every fork, setpriority and removal.
THEOREM TableStaysSorted == Spec => []TableSorted
  BY Invariance, PTL DEF IInv

\* No task is ever listed twice, and every listed pid has been handed out.
THEOREM TableStaysDistinct == Spec => []TableDistinct
  BY Invariance, PTL DEF IInv

\* The idle task is RUNNING exactly between two decisions, with its own frame.
THEOREM IdleIsDisciplined == Spec => []IdleDiscipline
  BY Invariance, PTL DEF IInv

\* getCurrentTask() always has a task to return when a system call asks for it.
THEOREM CursorStaysOnTask == Spec => []CursorOnTask
  BY Invariance, PTL DEF IInv

\* Only zombies leave the table, in every step of every behaviour.
THEOREM OnlyZombiesLeave == Spec => OnlyTerminatedLeave
  <1> DEFINE Leaves == \A p \in Listed : p \in Listed' \/ taskState[p] = "TERMINATED"
  <1>1. IInv /\ [Next]_vars => [Leaves]_vars
    <2> SUFFICES ASSUME IInv, Next PROVE Leaves
      OBVIOUS
    <2>1. ASSUME UNCHANGED <<tasks, numTasks>> PROVE Leaves
      BY <2>1 DEF Listed, Index
    <2>2. CASE Tick \/ Advance \/ Skip \/ Dispatch \/ Exit \/ ForkFails \/ WaitNobody \/ Execve
      BY <2>1, <2>2 DEF Tick, Advance, Skip, Dispatch, Exit, ForkFails, WaitNobody, Execve,
             manager, vars
    <2>3. CASE Examine
      <3>1. CASE Reapable(Current)
        <4>1. currentTask \in Index /\ RemoveAt(currentTask) /\ taskState[Current] = "TERMINATED"
          BY <2>3, <3>1 DEF Examine, Reapable, IInv, CursorOnTask
        <4> QED BY <2>3, <4>1, RemoveKeeps DEF IInv, TableOK, Examine, Current
      <3>2. CASE ~Reapable(Current)
        BY <2>1, <2>3, <3>2 DEF Examine
      <3> QED BY <3>1, <3>2
    <2>4. CASE \E w \in Pids, nohang \in BOOLEAN : Waitpid(w, nohang)
      <3> PICK w \in Pids, nohang \in BOOLEAN : Waitpid(w, nohang)
        BY <2>4
      <3>1. CASE ReapNow(w)
        <4>1. PICK i \in Index : tasks[i] = w /\ RemoveAt(i)
          BY <3>1 DEF ReapNow
        <4> QED BY <3>1, <4>1, RemoveKeeps DEF IInv, TableOK, Waitpid, ReapNow
      <3>2. CASE WaitFor(w, nohang)
        BY <2>1, <3>2 DEF WaitFor
      <3> QED BY <3>1, <3>2 DEF Waitpid
    <2>5. CASE Fork
      BY <2>5, ForkKeepsEverybody
    <2>6. CASE \E w \in Pids, yeni \in UserPriorities : SetPriority(w, yeni)
      BY <2>6, SetPriorityKeepsEverybody
    <2> QED BY <2>2, <2>3, <2>4, <2>5, <2>6 DEF Next, Kernel
  <1> QED BY <1>1, Invariance, PTL DEF Spec, OnlyTerminatedLeave

=============================================================================
