---------------------------- MODULE ProgramsProofs ----------------------------
(***************************************************************************)
(* What the scheduler owes the programs of a known kind, for tables and    *)
(* pids of any size.  Whatever holds of every program (IInv of             *)
(* TaskManagerProofs) holds here too.  What is added rests                 *)
(*   for Unix programs on the order of the pids in the table: a child is   *)
(*     listed behind its parent, so what a parent collects never moves the *)
(*     slot the parent itself is in;                                       *)
(*   for fork-join programs on the table being one line of descent, which  *)
(*     tells what the search has seen when it is back where it started;    *)
(*   for daemons on nobody ever leaving the table.                         *)
(***************************************************************************)
EXTENDS Programs, TaskManagerProofs

-----------------------------------------------------------------------------
(* Unix programs.                                                          *)

\* Nobody changes a priority: no turn is shorter than a tick, no search restarts.
Unprioritised ==
  /\ \A p \in Pids : priority[p] = MEDIUM
  /\ ~prioritiesUpdated /\ ticks = QUANTUM

\* The table holds the older task in front, and parents are older.
InPidOrder ==
  /\ \A i, j \in Index : i < j => tasks[i] < tasks[j]
  /\ \A p \in Pids : ppid[p] < p

\* Nothing has happened to a task still to be forked.
Unborn == \A p \in Pids : p >= pidCounter => taskState[p] = "STOPPED" /\ waitedByPid[p] = 0

\* A live task resumes from its own frame, whatever the kernel is doing.
OwnFrames == \A p \in Listed : Live(p) => cpustate[p] = p

\* What is on the CPU between handlers.
AtUser ==
  pc = "user" =>
    /\ numTasks > 0 /\ currentTask < numTasks
    /\ cpu \in Pids => currentTask >= 0 /\ cpu = Current /\ taskState[cpu] = "RUNNING"
    /\ cpu = Boot => currentTask < 0
    /\ cpu = IdleTask => taskState[IdleTask] = "RUNNING"
    /\ cpu # Garbage

\* The cursor is inside the table during a search, which ends at a task that can run.
InSearch ==
  /\ pc \in {"advance", "skip"} => currentTask < numTasks
  /\ pc = "dispatch" => currentTask \in Index /\ taskState[Current] \in {"READY", "RUNNING"}

\* Only a parent is ever recorded as waiting for a task.
WaitedByParent == \A c \in Pids : waitedByPid[c] \in {0, ppid[c]}

\* The inductive invariant of programs that wait for their own children only.
UInv ==
  /\ IInv
  /\ Unprioritised /\ InPidOrder /\ Unborn /\ OwnFrames /\ AtUser /\ InSearch
  /\ WaitedByParent /\ WaiterIsRecorded

LEMMA Table ==
  ASSUME UInv
  PROVE  /\ numTasks \in 0 .. MaxTasks /\ currentTask \in -1 .. MaxTasks - 1
         /\ Index = 0 .. numTasks - 1 /\ MaxTasks \in Nat /\ MaxPid \in Nat
         /\ \A i \in Index : i \in Slots /\ tasks[i] \in Pids /\ tasks[i] < pidCounter
         /\ Listed \subseteq Pids /\ \A p \in Listed : p < pidCounter
         /\ \A i \in Index : tasks[i] \in Listed
         /\ \A p \in Listed : \E i \in Index : p = tasks[i]
         /\ taskState \in [Objects -> TaskStates] /\ cpustate \in [Objects -> Contexts]
         /\ Pids \subseteq Objects /\ Pids \subseteq Nat \ {0} /\ IdleTask \in Objects
         /\ IdleTask \notin Pids /\ pidCounter \in Nat
  <1>1. /\ numTasks \in 0 .. MaxTasks /\ currentTask \in -1 .. MaxTasks - 1
        /\ Index = 0 .. numTasks - 1 /\ MaxTasks \in Nat /\ MaxPid \in Nat /\ pidCounter \in Nat
        /\ taskState \in [Objects -> TaskStates] /\ cpustate \in [Objects -> Contexts]
    BY ConstantsAssumption DEF UInv, IInv, TypeOK, Index
  <1>2. /\ Pids \subseteq Objects /\ Pids \subseteq Nat \ {0} /\ IdleTask \in Objects
        /\ IdleTask \notin Pids
    BY <1>1 DEF Pids, Objects, IdleTask
  <1>3. \A i \in Index : i \in Slots /\ tasks[i] \in Pids /\ tasks[i] < pidCounter
    <2>1. \A i \in Index : tasks[i] \in 1 .. pidCounter - 1
      BY DEF UInv, IInv, TableDistinct
    <2>2. pidCounter \in 2 .. MaxPid + 1
      BY DEF UInv, IInv, TypeOK
    <2> QED BY <1>1, <2>1, <2>2 DEF Slots, Pids
  <1> QED BY <1>1, <1>2, <1>3 DEF Listed

\* A task leaves the table: those before it keep their slots, those behind move by one.
LEMMA RemoveKeepsOrder ==
  ASSUME UInv, NEW i \in Index, RemoveAt(i), UNCHANGED ppid
  PROVE  /\ InPidOrder' /\ numTasks' = numTasks - 1
         /\ Listed' \subseteq Listed /\ \A p \in Listed : p \in Listed' \/ p = tasks[i]
         /\ \A k \in 0 .. i - 1 : tasks'[k] = tasks[k]
  <1>1. /\ numTasks \in 0 .. MaxTasks /\ Index = 0 .. numTasks - 1 /\ MaxTasks \in Nat
        /\ \A k \in Index : k \in Slots
    BY Table
  <1>2. /\ numTasks' = numTasks - 1 /\ Index' = 0 .. numTasks - 2
        /\ \A k \in Slots : tasks'[k] = IF i <= k /\ k < numTasks - 1 THEN tasks[k + 1] ELSE tasks[k]
    BY <1>1 DEF RemoveAt, Index
  <1>3. \A k \in Index' : tasks'[k] = IF i <= k THEN tasks[k + 1] ELSE tasks[k]
    BY <1>1, <1>2
  <1>4. InPidOrder'
    <2>1. \A j, k \in Index : j < k => tasks[j] < tasks[k]
      BY DEF UInv, InPidOrder
    <2>2. ASSUME NEW j \in Index', NEW k \in Index', j < k PROVE tasks'[j] < tasks'[k]
      <3>1. j \in Index /\ k \in Index /\ j + 1 \in Index /\ k + 1 \in Index
        BY <1>1, <1>2
      <3>2. CASE i <= j
        BY <1>1, <1>3, <2>1, <2>2, <3>1, <3>2
      <3>3. CASE ~(i <= j) /\ i <= k
        BY <1>1, <1>3, <2>1, <2>2, <3>1, <3>3
      <3>4. CASE ~(i <= j) /\ ~(i <= k)
        BY <1>1, <1>3, <2>1, <2>2, <3>1, <3>4
      <3> QED BY <1>1, <1>2, <2>2, <3>2, <3>3, <3>4
    <2> QED BY <2>2 DEF UInv, InPidOrder
  <1>5. Listed' \subseteq Listed
    <2>1. ASSUME NEW k \in Index' PROVE tasks'[k] \in Listed
      <3>1. k \in Index /\ k + 1 \in Index
        BY <1>1, <1>2
      <3> QED BY <1>3, <3>1 DEF Listed
    <2> QED BY <2>1 DEF Listed
  <1>6. ASSUME NEW p \in Listed, p # tasks[i] PROVE p \in Listed'
    <2>1. PICK k \in Index : p = tasks[k]
      BY DEF Listed
    <2>2. CASE k < i
      <3>1. k \in Index' /\ tasks'[k] = p
        BY <1>1, <1>2, <1>3, <2>1, <2>2
      <3> QED BY <3>1 DEF Listed
    <2>3. CASE k > i
      <3>1. k - 1 \in Index' /\ i <= k - 1 /\ (k - 1) + 1 = k
        BY <1>1, <1>2, <2>3
      <3>2. tasks'[k - 1] = p
        BY <1>3, <2>1, <3>1
      <3> QED BY <3>1, <3>2 DEF Listed
    <2> QED BY <1>1, <1>6, <2>1, <2>2, <2>3
  <1>7. \A k \in 0 .. i - 1 : tasks'[k] = tasks[k]
    BY <1>1, <1>2
  <1> QED BY <1>2, <1>4, <1>5, <1>6, <1>7

\* The table, the pids and the records of who waits for whom are left alone.
Undisturbed == UNCHANGED <<tasks, numTasks, pidCounter, priority, ppid>>

LEMMA UndisturbedKeeps ==
  ASSUME UInv, Undisturbed
  PROVE  /\ InPidOrder' /\ Index' = Index /\ Listed' = Listed
         /\ \A p \in Pids : priority'[p] = MEDIUM
  BY DEF Undisturbed, UInv, InPidOrder, Unprioritised, Index, Listed

\* A handler calls Schedule, the caller's state being fixed: the interrupted frame is saved
\* where it belongs, and a search starts or the idle task has the CPU.
LEMMA EnterScheduleOwns ==
  ASSUME UInv, IInv', Undisturbed, pc = "user", NEW st \in [Objects -> TaskStates],
         \/ st = taskState
         \/ InTask /\ \E s \in {"TERMINATED", "WAITING"} : st = [taskState EXCEPT ![Current] = s],
         EnterSchedule(st)
  PROVE  /\ \A p \in Pids : taskState'[p] = st[p]
         /\ Unprioritised' /\ OwnFrames' /\ AtUser' /\ InSearch'
  <1>1. /\ numTasks > 0 /\ currentTask < numTasks /\ numTasks \in Nat /\ currentTask \in Int
        /\ currentTask >= -1 /\ numTasks' = numTasks /\ tasks' = tasks
        /\ cpu \in Pids => currentTask >= 0 /\ cpu = Current /\ taskState[cpu] = "RUNNING"
        /\ cpu = Boot => currentTask < 0
        /\ cpu = IdleTask => taskState[IdleTask] = "RUNNING"
        /\ cpu # Garbage
    BY Table DEF UInv, AtUser, Undisturbed
  <1>2. currentTask >= 0 => currentTask \in Index /\ Current \in Pids /\ Current \in Listed
    BY <1>1, Table DEF Current
  <1>3. /\ st[IdleTask] = taskState[IdleTask]
        /\ \A p \in Pids : st[p] # "TERMINATED" => taskState[p] # "TERMINATED"
    BY <1>1, <1>2, Table DEF InTask
  <1>4. /\ ~prioritiesUpdated /\ ticks = QUANTUM
        /\ \A p \in Pids : priority[p] = MEDIUM
    BY DEF UInv, Unprioritised
  <1>5. ~QuantumLeft(st)
    BY <1>1, <1>2, <1>4 DEF QuantumLeft, QUANTUM, MEDIUM, Current
  <1>6. \A p \in Listed : st[p] # "TERMINATED" => Saved(st)[p] = p
    <2> SUFFICES ASSUME NEW p \in Listed, st[p] # "TERMINATED" PROVE Saved(st)[p] = p
      OBVIOUS
    <2>1. p \in Pids /\ p # IdleTask /\ cpustate[p] = p
      BY <1>3, Table DEF UInv, OwnFrames, Live
    <2>2. CASE st[IdleTask] = "RUNNING"
      BY <2>1, <2>2, Table DEF Saved
    <2>3. CASE st[IdleTask] # "RUNNING" /\ currentTask >= 0 /\ p = Current
      <3>1. cpu = Current
        BY <1>1, <1>3, <2>3 DEF UInv, IInv, TypeOK, Contexts, Objects
      <3> QED BY <1>1, <1>2, <2>1, <2>3, <3>1, Table DEF Saved, Current
    <2>4. CASE st[IdleTask] # "RUNNING" /\ ~(currentTask >= 0 /\ p = Current)
      BY <1>1, <2>1, <2>4, Table DEF Saved, Current
    <2> QED BY <2>2, <2>3, <2>4
  <1>7. cpustate'[IdleTask] = IdleTask
    BY DEF IInv, IdleDiscipline
  <1>8. Listed' = Listed /\ Index' = Index /\ \A p \in Pids : priority'[p] = MEDIUM
    BY UndisturbedKeeps
  <1> DEFINE saved == Saved(st)
  <1> HIDE DEF saved
  <1>9. CASE StayIdle(st, saved)
    <2>1. /\ taskState' = [st EXCEPT ![IdleTask] = "RUNNING"] /\ cpustate' = saved
          /\ cpu' = IdleTask /\ pc' = "user"
          /\ UNCHANGED <<currentTask, prioritiesUpdated, ticks>>
      BY <1>7, <1>9 DEF StayIdle
    <2>2. \A p \in Pids : taskState'[p] = st[p]
      BY <2>1, Table
    <2>3. OwnFrames'
      BY <1>6, <1>8, <2>1, <2>2, Table DEF OwnFrames, Live, saved
    <2>4. AtUser'
      BY <1>1, <2>1, Table DEF AtUser, Boot, Garbage, IdleTask
    <2> QED BY <1>4, <1>8, <2>1, <2>2, <2>3, <2>4 DEF InSearch, Unprioritised
  <1>10. CASE StartSearch(st, saved)
    <2>1. /\ taskState' = [st EXCEPT ![IdleTask] = "READY"] /\ cpustate' = saved
          /\ pc' = LoopHead(tasks', currentTask, taskState') /\ ticks' = QUANTUM
          /\ UNCHANGED <<currentTask, prioritiesUpdated>>
      BY <1>10 DEF StartSearch
    <2>2. \A p \in Pids : taskState'[p] = st[p]
      BY <2>1, Table
    <2>3. OwnFrames'
      BY <1>6, <1>8, <2>1, <2>2, Table DEF OwnFrames, Live, saved
    <2>4. pc' # "user" /\ (pc' = "dispatch" => currentTask >= 0 /\ taskState'[tasks'[currentTask]] = "READY")
      BY <1>1, <2>1 DEF LoopHead
    <2>5. InSearch' /\ AtUser'
      BY <1>1, <1>2, <1>8, <2>1, <2>4 DEF InSearch, AtUser, Current
    <2> QED BY <1>4, <1>8, <2>1, <2>2, <2>3, <2>5 DEF Unprioritised
  <1> QED BY <1>1, <1>4, <1>5, <1>9, <1>10 DEF EnterSchedule, RestartSearch, ReturnToInterrupted, saved

\* What the step of an action owes the invariant besides IInv.
Rest ==
  /\ Unprioritised /\ InPidOrder /\ Unborn /\ OwnFrames /\ AtUser /\ InSearch
  /\ WaitedByParent /\ WaiterIsRecorded

LEMMA TickOwns ==
  ASSUME UInv, IInv', Tick
  PROVE  Rest' /\ \A p \in Pids : taskState'[p] = taskState[p]
  <1>1. Undisturbed /\ pc = "user" /\ EnterSchedule(taskState) /\ UNCHANGED <<waitingPid, waitedByPid>>
    BY DEF Tick, Undisturbed, waits
  <1>2. taskState \in [Objects -> TaskStates]
    BY Table
  <1>3. /\ \A p \in Pids : taskState'[p] = taskState[p]
        /\ Unprioritised' /\ OwnFrames' /\ AtUser' /\ InSearch'
    BY <1>1, <1>2, EnterScheduleOwns
  <1>4. InPidOrder' /\ Listed' = Listed
    BY <1>1, UndisturbedKeeps
  <1>5. Unborn' /\ WaitedByParent' /\ WaiterIsRecorded'
    BY <1>1, <1>3, <1>4, Table DEF UInv, Unborn, WaitedByParent, WaiterIsRecorded, Undisturbed
  <1> QED BY <1>3, <1>4, <1>5 DEF Rest

LEMMA ExitOwns ==
  ASSUME UInv, IInv', Exit
  PROVE  /\ Rest' /\ taskState[Current] = "RUNNING" /\ Current \in Pids
         /\ \A p \in Pids : taskState'[p] = IF p = Current THEN "TERMINATED" ELSE taskState[p]
  <1> DEFINE st == [taskState EXCEPT ![Current] = "TERMINATED"]
  <1>1. /\ Undisturbed /\ pc = "user" /\ InTask /\ EnterSchedule(st)
        /\ UNCHANGED <<waitingPid, waitedByPid>>
    BY DEF Exit, InTask, Undisturbed, waits
  <1>2. cpu = Current /\ taskState[Current] = "RUNNING" /\ Current \in Pids /\ Current < pidCounter
    <2>1. currentTask >= 0 /\ currentTask < numTasks /\ cpu = Current /\ taskState[cpu] = "RUNNING"
      BY <1>1 DEF UInv, AtUser, InTask
    <2>2. currentTask \in Index
      BY <2>1, Table
    <2> QED BY <2>1, <2>2, Table DEF Current
  <1>3. st \in [Objects -> TaskStates]
    BY Table DEF TaskStates
  <1>4. /\ \A p \in Pids : taskState'[p] = st[p]
        /\ Unprioritised' /\ OwnFrames' /\ AtUser' /\ InSearch'
    BY <1>1, <1>3, EnterScheduleOwns
  <1>5. InPidOrder' /\ Listed' = Listed
    BY <1>1, UndisturbedKeeps
  <1>6. \A p \in Pids : taskState'[p] = IF p = Current THEN "TERMINATED" ELSE taskState[p]
    BY <1>4, Table
  <1>7. Unborn' /\ WaitedByParent' /\ WaiterIsRecorded'
    BY <1>1, <1>2, <1>5, <1>6, Table
       DEF UInv, Unborn, WaitedByParent, WaiterIsRecorded, Undisturbed, Pids
  <1> QED BY <1>2, <1>4, <1>5, <1>6, <1>7 DEF Rest

LEMMA AdvanceOwns ==
  ASSUME UInv, IInv', Advance
  PROVE  Rest' /\ \A p \in Pids : taskState'[p] = taskState[p]
  <1>1. /\ Undisturbed /\ UNCHANGED <<waitingPid, waitedByPid, taskState, cpustate, ticks, prioritiesUpdated>>
        /\ pc' \in {"skip", "fault"}
    BY DEF Advance, Undisturbed, waits
  <1>2. InPidOrder' /\ Listed' = Listed /\ Index' = Index /\ \A p \in Pids : priority'[p] = MEDIUM
    BY <1>1, UndisturbedKeeps
  <1>3. pc' = "skip" => currentTask' < numTasks'
    BY Table, <1>1, <1>2 DEF IInv, CursorOnTask, Undisturbed
  <1>4. AtUser' /\ InSearch'
    BY <1>1, <1>3 DEF AtUser, InSearch
  <1>5. Unprioritised' /\ OwnFrames' /\ Unborn' /\ WaitedByParent' /\ WaiterIsRecorded'
    BY <1>1, <1>2 DEF UInv, Unprioritised, OwnFrames, Live, Unborn, WaitedByParent, WaiterIsRecorded,
       Undisturbed
  <1> QED BY <1>1, <1>2, <1>4, <1>5 DEF Rest

\* No task is passed over: none has a low priority.
LEMMA NeverSkips ==
  ASSUME UInv, Skip
  PROVE  FALSE
  <1>1. currentTask \in Index
    BY DEF UInv, IInv, CursorOnTask, Skip
  <1> QED BY <1>1, Table DEF UInv, Unprioritised, Skip, PassedOver, Current

\* Where the end of a turn leads, the task under the cursor having been seen to.
LEMMA EndOfTurnLeads ==
  ASSUME NEW ts, NEW cur, NEW st, EndOfTurn(ts, cur, st)
  PROVE  /\ pc' \in {"advance", "dispatch", "deadlock", "fault"}
         /\ pc' = "dispatch" => cur # -1 /\ st[ts[cur]] \in {"READY", "RUNNING"}
  BY DEF EndOfTurn, LoopHead

\* The zombie under the cursor is taken out and its parent woken.
LEMMA ReapOwns ==
  ASSUME UInv, IInv', Examine, Reapable(Current)
  PROVE  /\ Rest'
         /\ \A p \in Pids : taskState[p] = "TERMINATED" => taskState'[p] = "TERMINATED"
  <1> DEFINE zombie == Current
             waiter == waitedByPid[Current]
  <1>1. /\ pc = "skip" /\ RemoveAt(currentTask) /\ currentTask' = currentTask - 1
        /\ EndOfTurn(tasks', currentTask', taskState')
        /\ UNCHANGED <<pidCounter, prioritiesUpdated, priority, ppid, waitedByPid, cpustate, ticks>>
        /\ IF taskState[waiter] = "WAITING"
           THEN /\ taskState' = [taskState EXCEPT ![waiter] = "READY"]
                /\ waitingPid' = [waitingPid EXCEPT ![waiter] = 0]
           ELSE UNCHANGED <<taskState, waitingPid>>
    BY DEF Examine
  <1>2. currentTask \in Index /\ zombie \in Listed /\ zombie \in Pids /\ taskState[zombie] = "TERMINATED"
        /\ waiter \in Listed /\ waiter \in Pids /\ zombie = tasks[currentTask]
    <2>1. currentTask \in Index
      BY <1>1 DEF UInv, IInv, CursorOnTask
    <2> QED BY <2>1, Table DEF Reapable, Current
  <1>3. /\ InPidOrder' /\ numTasks' = numTasks - 1 /\ Listed' \subseteq Listed
        /\ \A p \in Listed : p \in Listed' \/ p = zombie
    BY <1>1, <1>2, RemoveKeepsOrder
  <1>4. /\ waiter # zombie
        /\ \A p \in Pids : taskState'[p] = IF p = waiter /\ taskState[p] = "WAITING" THEN "READY"
                                           ELSE taskState[p]
        /\ \A p \in Pids : p = waiter \/ waitingPid'[p] = waitingPid[p]
    <2>1. waiter # zombie
      BY <1>2, Table DEF UInv, WaitedByParent, InPidOrder
    <2>2. waitingPid \in [Pids -> Pids \cup {0}]
      BY DEF UInv, IInv, TypeOK
    <2> QED BY <1>1, <1>2, <2>1, <2>2, Table
  <1>6. \A p \in Listed : taskState[p] = "WAITING" /\ p # waiter => waitingPid[p] # zombie
    BY <1>2 DEF UInv, WaiterIsRecorded
  <1>7. WaiterIsRecorded'
    <2> SUFFICES ASSUME NEW p \in Listed', taskState'[p] = "WAITING"
                 PROVE  waitingPid'[p] \in Listed' /\ waitedByPid'[waitingPid'[p]] = p
      BY DEF WaiterIsRecorded
    <2>1. p \in Listed /\ p \in Pids /\ p # waiter /\ taskState[p] = "WAITING"
      BY <1>3, <1>4, Table
    <2>2. waitingPid[p] \in Listed /\ waitedByPid[waitingPid[p]] = p /\ waitingPid[p] # zombie
      BY <1>6, <2>1 DEF UInv, WaiterIsRecorded
    <2> QED BY <1>1, <1>3, <1>4, <2>1, <2>2
  <1>8. OwnFrames'
    BY <1>1, <1>3, <1>4, Table DEF UInv, OwnFrames, Live
  <1>9. /\ pc' \in {"advance", "dispatch", "deadlock", "fault"}
        /\ pc' = "dispatch" => currentTask' # -1 /\ taskState'[tasks'[currentTask']] \in {"READY", "RUNNING"}
    BY <1>1, EndOfTurnLeads
  <1>10. AtUser' /\ InSearch'
    <2>1. currentTask' < numTasks' /\ (currentTask' # -1 => currentTask' \in Index')
      BY <1>1, <1>2, <1>3, Table DEF Index
    <2> QED BY <1>9, <2>1 DEF AtUser, InSearch, Current
  <1>11. Unprioritised' /\ WaitedByParent'
    BY <1>1 DEF UInv, Unprioritised, WaitedByParent
  <1>12. Unborn'
    BY <1>1, <1>4 DEF UInv, Unborn
  <1> QED BY <1>3, <1>4, <1>7, <1>8, <1>10, <1>11, <1>12 DEF Rest

LEMMA ExamineOwns ==
  ASSUME UInv, IInv', Examine
  PROVE  Rest' /\ \A p \in Pids : taskState[p] = "TERMINATED" => taskState'[p] = "TERMINATED"
  <1>1. CASE Reapable(Current)
    BY <1>1, ReapOwns
  <1>2. CASE ~Reapable(Current)
    <2>1. /\ Undisturbed /\ currentTask' = currentTask /\ taskState' = taskState
          /\ UNCHANGED <<waitingPid, waitedByPid, cpustate, ticks, prioritiesUpdated>>
          /\ pc = "skip" /\ EndOfTurn(tasks', currentTask', taskState')
      BY <1>2 DEF Examine, Undisturbed
    <2>2. InPidOrder' /\ Listed' = Listed /\ Index' = Index /\ \A p \in Pids : priority'[p] = MEDIUM
      BY <2>1, UndisturbedKeeps
    <2>3. /\ pc' \in {"advance", "dispatch", "deadlock", "fault"}
          /\ pc' = "dispatch" => taskState'[tasks'[currentTask']] \in {"READY", "RUNNING"}
      BY <2>1, EndOfTurnLeads
    <2>4. currentTask \in Index
      BY <2>1 DEF UInv, IInv, CursorOnTask
    <2>5. AtUser' /\ InSearch'
      BY <2>1, <2>2, <2>3, <2>4, Table DEF AtUser, InSearch, Current, Undisturbed
    <2>6. Unprioritised' /\ OwnFrames' /\ Unborn' /\ WaitedByParent' /\ WaiterIsRecorded'
      BY <2>1, <2>2 DEF UInv, Unprioritised, OwnFrames, Live, Unborn, WaitedByParent, WaiterIsRecorded,
         Undisturbed
    <2> QED BY <2>1, <2>2, <2>5, <2>6 DEF Rest
  <1> QED BY <1>1, <1>2

LEMMA DispatchOwns ==
  ASSUME UInv, IInv', Dispatch
  PROVE  /\ Rest' /\ pc' = "user"
         /\ \A p \in Pids : \/ taskState'[p] = taskState[p]
                            \/ /\ taskState[p] \in {"READY", "RUNNING"}
                               /\ taskState'[p] \in {"READY", "RUNNING"}
  <1>1. /\ Undisturbed /\ pc = "dispatch" /\ cpu' = cpustate[Current]
        /\ taskState' = [taskState EXCEPT ![tasks[startedWith]] = AfterTurn(@), ![Current] = "RUNNING"]
        /\ UNCHANGED <<waitingPid, waitedByPid, cpustate, ticks, prioritiesUpdated, currentTask>>
    BY DEF Dispatch, Undisturbed, waits, manager
  <1>2. /\ currentTask \in Index /\ Current \in Listed /\ Current \in Pids
        /\ taskState[Current] \in {"READY", "RUNNING"}
    BY <1>1, Table DEF UInv, InSearch, Current
  <1>3. cpustate[Current] = Current /\ Current # Garbage /\ Current # Boot /\ Current # IdleTask
    BY <1>2, Table DEF UInv, OwnFrames, Live, Garbage, Boot, Pids
  <1>4. cpu' = Current /\ pc' = "user"
    BY <1>1, <1>3 DEF Dispatch
  <1>5. /\ \A p \in Pids \ {Current} : \/ taskState'[p] = taskState[p]
                                       \/ taskState[p] = "RUNNING" /\ taskState'[p] = "READY"
        /\ taskState'[Current] = "RUNNING"
    BY <1>1, <1>2, Table DEF AfterTurn
  <1>6. InPidOrder' /\ Listed' = Listed /\ Index' = Index /\ \A p \in Pids : priority'[p] = MEDIUM
    BY <1>1, UndisturbedKeeps
  <1>7. Current' = Current
    BY <1>1 DEF Current, Undisturbed
  <1>8. AtUser' /\ InSearch'
    BY <1>1, <1>2, <1>3, <1>4, <1>5, <1>7, Table DEF AtUser, InSearch, Undisturbed
  <1>9. Unprioritised' /\ OwnFrames' /\ WaitedByParent' /\ WaiterIsRecorded'
    <2>1. Unprioritised'
      BY <1>1, <1>6 DEF UInv, Unprioritised
    <2>2. OwnFrames'
      BY <1>1, <1>2, <1>5, <1>6, Table DEF UInv, OwnFrames, Live
    <2>3. WaitedByParent'
      BY <1>1 DEF UInv, WaitedByParent, Undisturbed
    <2>4. WaiterIsRecorded'
      BY <1>1, <1>2, <1>5, <1>6, Table DEF UInv, WaiterIsRecorded, Undisturbed
    <2> QED BY <2>1, <2>2, <2>3, <2>4
  <1>10. Unborn'
    BY <1>1, <1>2, <1>5 DEF UInv, Unborn, Undisturbed
  <1> QED BY <1>2, <1>4, <1>5, <1>6, <1>8, <1>9, <1>10 DEF Rest

\* A handler that leaves the caller on the CPU.
LEMMA CallerIsCurrent ==
  ASSUME UInv, InTask
  PROVE  /\ currentTask \in Index /\ Current \in Listed /\ Current \in Pids /\ cpu = Current
         /\ taskState[Current] = "RUNNING" /\ pc = "user" /\ Current < pidCounter
         /\ Current = tasks[currentTask]
  <1>1. /\ currentTask >= 0 /\ currentTask < numTasks /\ cpu = Current /\ taskState[cpu] = "RUNNING"
        /\ pc = "user"
    BY DEF UInv, AtUser, InTask
  <1>2. currentTask \in Index
    BY <1>1, Table
  <1> QED BY <1>1, <1>2, Table DEF Current

\* The new task goes behind all others: it has their priority.
LEMMA ForkAppends ==
  ASSUME UInv, Fork
  PROVE  /\ tasks'[numTasks] = pidCounter /\ \A k \in Index : tasks'[k] = tasks[k]
         /\ numTasks' = numTasks + 1 /\ numTasks \in Nat
         /\ Index' = 0 .. numTasks /\ Index' = Index \cup {numTasks}
         /\ Listed' = Listed \cup {pidCounter} /\ pidCounter \in Pids /\ pidCounter' = pidCounter + 1
         /\ currentTask' = currentTask /\ tasks'[currentTask'] = Current /\ Current' = Current
         /\ taskState' = [taskState EXCEPT ![pidCounter] = "READY"]
         /\ ~prioritiesUpdated' /\ \A p \in Pids : priority'[p] = MEDIUM
  <1> DEFINE child == pidCounter
             n == numTasks
             appended == [tasks EXCEPT ![n] = child]
  <1>1. /\ InTask /\ n < MaxTasks /\ child \in Pids /\ AddTask(child)
        /\ priority' = [priority EXCEPT ![child] = priority[Current]]
        /\ ppid' = [ppid EXCEPT ![child] = tasks'[currentTask']]
        /\ cpustate' = [cpustate EXCEPT ![child] =
                          IF cpu = Current /\ tasks'[currentTask'] = Current THEN child ELSE Garbage]
        /\ UNCHANGED <<waitingPid, waitedByPid, idleTime, ticks, locals, pc, cpu>>
    BY DEF Fork
  <1>2. /\ currentTask \in Index /\ Current \in Listed /\ Current \in Pids /\ cpu = Current
        /\ taskState[Current] = "RUNNING" /\ pc = "user" /\ Current < child
    BY <1>1, CallerIsCurrent
  <1>3. \A p \in Pids : priority'[p] = MEDIUM
    <2>1. priority \in [Pids -> Priority] /\ \A p \in Pids : priority[p] = MEDIUM
      BY DEF UInv, IInv, TypeOK, Unprioritised
    <2> QED BY <1>1, <1>2, <2>1
  <1>4. /\ numTasks' = n + 1 /\ pidCounter' = child + 1
        /\ taskState' = [taskState EXCEPT ![child] = "READY"]
        /\ currentTask' = IF currentTask > 0 /\ priority'[appended[currentTask]] > priority'[child]
                          THEN currentTask + 1 ELSE currentTask
    BY <1>1 DEF AddTask
  <1>5. PICK stop \in Slots :
          /\ StopsLeft(appended, priority', n, stop) /\ tasks' = Moved(appended, n, stop)
          /\ prioritiesUpdated' = (prioritiesUpdated \/ stop < n)
    BY <1>1 DEF AddTask
  <1>6. /\ n \in Slots /\ n \in Nat /\ Slots = 0 .. MaxTasks - 1
        /\ tasks \in [Slots -> Pids \cup {NoTask}]
    BY <1>1, Table DEF Slots, UInv, IInv, TypeOK
  <1>7. /\ appended[n] = child /\ \A k \in Index : appended[k] = tasks[k] /\ appended[k] \in Pids
    BY <1>6, Table
  <1>8. stop = n
    <2>1. stop \in 0 .. n /\ \A k \in stop .. n - 1 : priority'[appended[k]] > priority'[appended[n]]
      BY <1>5 DEF StopsLeft
    <2>2. SUFFICES ASSUME stop < n PROVE FALSE
      BY <1>6, <2>1
    <2>3. stop \in stop .. n - 1 /\ stop \in Index
      BY <1>6, <2>1, <2>2, Table
    <2>4. priority'[appended[stop]] > priority'[appended[n]]
      BY <2>1, <2>3
    <2> QED BY <1>1, <1>3, <1>7, <2>3, <2>4 DEF MEDIUM
  <1> HIDE DEF appended
  <1>9. tasks'[n] = child /\ \A k \in Index : tasks'[k] = tasks[k]
    <2>1. \A k \in Slots : k <= n => tasks'[k] = appended[k]
      BY <1>5, <1>6, <1>8 DEF Moved
    <2>2. n <= n /\ \A k \in Index : k \in Slots /\ k <= n
      BY <1>6, Table
    <2> QED BY <1>6, <1>7, <2>1, <2>2
  <1>10. currentTask' = currentTask
    BY <1>1, <1>2, <1>3, <1>4, <1>7 DEF MEDIUM
  <1>11. tasks'[currentTask'] = Current /\ Current' = Current
    BY <1>2, <1>9, <1>10 DEF Current
  <1>12. Index' = 0 .. n /\ Index' = Index \cup {n} /\ Listed' = Listed \cup {child}
    <2>1. Index' = 0 .. n
      BY <1>4, <1>6 DEF Index
    <2>2. Index' = Index \cup {n}
      BY <1>6, <2>1, Table
    <2> QED BY <1>9, <2>1, <2>2 DEF Listed
  <1>13. ~prioritiesUpdated'
    <2>1. ~(stop < n)
      BY <1>6, <1>8
    <2> QED BY <1>5, <2>1, Zenon DEF UInv, Unprioritised
  <1> QED BY <1>1, <1>3, <1>4, <1>6, <1>9, <1>10, <1>11, <1>12, <1>13

LEMMA ForkOwns ==
  ASSUME UInv, IInv', Fork
  PROVE  Rest' /\ \A p \in Pids : taskState[p] # "STOPPED" => taskState'[p] = taskState[p]
  <1> DEFINE child == pidCounter
             n == numTasks
  <1>1. /\ InTask /\ child \in Pids
        /\ ppid' = [ppid EXCEPT ![child] = tasks'[currentTask']]
        /\ cpustate' = [cpustate EXCEPT ![child] =
                          IF cpu = Current /\ tasks'[currentTask'] = Current THEN child ELSE Garbage]
        /\ UNCHANGED <<waitingPid, waitedByPid, idleTime, ticks, locals, pc, cpu>>
    BY DEF Fork
  <1>2. /\ currentTask \in Index /\ Current \in Listed /\ Current \in Pids /\ cpu = Current
        /\ taskState[Current] = "RUNNING" /\ pc = "user" /\ Current < child
    BY <1>1, CallerIsCurrent
  <1>3. \A p \in Pids : priority'[p] = MEDIUM
    BY ForkAppends
  <1>4. /\ numTasks' = n + 1 /\ pidCounter' = child + 1
        /\ taskState' = [taskState EXCEPT ![child] = "READY"]
    BY ForkAppends
  <1>6. n \in Nat
    BY ForkAppends
  <1>9. tasks'[n] = child /\ \A k \in Index : tasks'[k] = tasks[k]
    BY ForkAppends
  <1>10. currentTask' = currentTask
    BY ForkAppends
  <1>11. tasks'[currentTask'] = Current /\ Current' = Current
    BY ForkAppends
  <1>12. Index' = 0 .. n /\ Index' = Index \cup {n} /\ Listed' = Listed \cup {child}
    BY ForkAppends
  <1>13. InPidOrder'
    <2>1. \A i, j \in Index' : i < j => tasks'[i] < tasks'[j]
      <3> SUFFICES ASSUME NEW i \in Index', NEW j \in Index', i < j PROVE tasks'[i] < tasks'[j]
        OBVIOUS
      <3>1. i \in Index
        BY <1>6, <1>12, Table
      <3>2. CASE j = n
        BY <1>9, <3>1, <3>2, Table
      <3>3. CASE j # n
        BY <1>9, <1>12, <3>1, <3>3 DEF UInv, InPidOrder
      <3> QED BY <3>2, <3>3
    <2>2. \A p \in Pids : ppid'[p] < p
      BY <1>1, <1>2, <1>11 DEF UInv, InPidOrder, IInv, TypeOK
    <2> QED BY <2>1, <2>2 DEF InPidOrder
  <1>14. child \notin Listed /\ taskState[child] = "STOPPED"
    BY <1>1, Table DEF UInv, Unborn
  <1>15. \A p \in Pids : taskState'[p] = IF p = child THEN "READY" ELSE taskState[p]
    BY <1>4, Table
  <1>16. Unprioritised'
    BY <1>1, <1>3, ForkAppends DEF UInv, Unprioritised
  <1>17. Unborn'
    BY <1>1, <1>4, <1>15, Table DEF UInv, Unborn, Pids
  <1>18. OwnFrames'
    BY <1>1, <1>2, <1>11, <1>12, <1>14, <1>15, Table DEF UInv, OwnFrames, Live
  <1>19. AtUser' /\ InSearch'
    <2>1. taskState'[IdleTask] = taskState[IdleTask]
      BY <1>1, <1>4, Table
    <2>2. currentTask < numTasks' /\ numTasks' > 0 /\ currentTask >= 0
      BY <1>2, <1>4, <1>6, Table
    <2>3. taskState'[Current] = "RUNNING" /\ Current # Boot /\ Current # IdleTask /\ Current # Garbage
      BY <1>2, <1>15, Table DEF Boot, Garbage, Pids
    <2> QED BY <1>1, <1>2, <1>10, <1>11, <2>2, <2>3 DEF AtUser, InSearch
  <1>20. WaitedByParent'
    <2>1. waitedByPid[child] = 0
      BY <1>1, Table DEF UInv, Unborn
    <2> QED BY <1>1, <2>1 DEF UInv, WaitedByParent, IInv, TypeOK
  <1>21. WaiterIsRecorded'
    BY <1>1, <1>12, <1>15, Table DEF UInv, WaiterIsRecorded
  <1> QED BY <1>13, <1>14, <1>15, <1>16, <1>17, <1>18, <1>19, <1>20, <1>21 DEF Rest

\* What stays as it is when a handler neither switches nor changes a state.
LEMMA SameTask ==
  ASSUME UInv, IInv', InTask, UNCHANGED <<tasks, numTasks, pidCounter, priority, ppid, taskState, pc, cpu,
                                          currentTask, prioritiesUpdated, ticks, cpustate>>
  PROVE  Unprioritised' /\ InPidOrder' /\ OwnFrames' /\ AtUser' /\ InSearch' /\ Listed' = Listed
  BY DEF UInv, Unprioritised, InPidOrder, OwnFrames, Live, AtUser, InSearch, Listed, Current, Index, InTask

\* A parent collects a zombie: the table closes behind the parent's own slot.
LEMMA ReapNowOwns ==
  ASSUME UInv, IInv', InTask, NEW w \in Children(cpu), ReapNow(w),
         UNCHANGED <<pidCounter, priority, passedQuantums, ppid>>
  PROVE  Rest' /\ taskState' = taskState /\ currentTask' = currentTask /\ pc' = pc
  <1>1. /\ currentTask \in Index /\ Current \in Listed /\ Current \in Pids /\ cpu = Current
        /\ taskState[Current] = "RUNNING" /\ pc = "user" /\ Current = tasks[currentTask]
    BY CallerIsCurrent
  <1>2. w \in Listed /\ w \in Pids /\ ppid[w] = Current /\ Current < w
    BY <1>1, Table DEF Children, UInv, InPidOrder
  <1>3. PICK i \in Index : tasks[i] = w /\ RemoveAt(i)
    BY DEF ReapNow
  <1>4. UNCHANGED <<waitingPid, waitedByPid>> /\ ScheduleIfWaiting(taskState) /\ taskState[w] = "TERMINATED"
    BY DEF ReapNow
  <1>5. /\ InPidOrder' /\ numTasks' = numTasks - 1
        /\ Listed' \subseteq Listed /\ \A p \in Listed : p \in Listed' \/ p = w
        /\ \A k \in 0 .. i - 1 : tasks'[k] = tasks[k]
    BY <1>3, RemoveKeepsOrder
  <1>6. i \in Int /\ currentTask \in Int /\ i > currentTask /\ currentTask >= 0 /\ numTasks \in Nat
        /\ i < numTasks
    <2>1. i \in Int /\ currentTask \in Int /\ currentTask >= 0 /\ numTasks \in Nat /\ i < numTasks
      BY <1>1, Table
    <2>2. ~(i < currentTask) /\ i # currentTask
      BY <1>1, <1>2, <1>3, Table DEF UInv, InPidOrder
    <2> QED BY <2>1, <2>2
  <1>7. tasks'[currentTask] = Current
    BY <1>1, <1>5, <1>6
  <1>8. /\ taskState' = taskState
        /\ UNCHANGED <<currentTask, prioritiesUpdated, cpustate, idleTime, ticks, locals, pc, cpu>>
    BY <1>1, <1>4, <1>7 DEF ScheduleIfWaiting
  <1>9. Current' = Current /\ currentTask' < numTasks' /\ numTasks' > 0
    BY <1>5, <1>6, <1>7, <1>8 DEF Current
  <1>10. AtUser' /\ InSearch'
    BY <1>1, <1>8, <1>9 DEF UInv, AtUser, InSearch
  <1>11. WaiterIsRecorded'
    <2> SUFFICES ASSUME NEW p \in Listed', taskState'[p] = "WAITING"
                 PROVE  waitingPid'[p] \in Listed' /\ waitedByPid'[waitingPid'[p]] = p
      BY DEF WaiterIsRecorded
    <2>1. p \in Listed /\ p \in Pids /\ taskState[p] = "WAITING" /\ p # Current
      BY <1>1, <1>5, <1>8, Table
    <2>2. waitingPid[p] \in Listed /\ waitedByPid[waitingPid[p]] = p
      BY <2>1 DEF UInv, WaiterIsRecorded
    <2>3. waitingPid[p] # w
      BY <1>2, <2>1, <2>2, Table DEF UInv, WaitedByParent
    <2> QED BY <1>4, <1>5, <2>2, <2>3
  <1>12. OwnFrames' /\ Unprioritised' /\ Unborn' /\ WaitedByParent'
    BY <1>4, <1>5, <1>8 DEF UInv, OwnFrames, Live, Unprioritised, Unborn, WaitedByParent
  <1> QED BY <1>5, <1>8, <1>10, <1>11, <1>12 DEF Rest

\* A parent waits for a live child or polls it; the child remembers its parent.
LEMMA WaitForOwns ==
  ASSUME UInv, IInv', InTask, NEW w \in Children(cpu), NEW nohang \in BOOLEAN, WaitFor(w, nohang),
         UNCHANGED <<pidCounter, priority, passedQuantums, ppid>>
  PROVE  /\ Rest' /\ taskState[Current] = "RUNNING"
         /\ \A p \in Pids \ {Current} : taskState'[p] = taskState[p]
  <1>1. /\ currentTask \in Index /\ Current \in Listed /\ Current \in Pids /\ cpu = Current
        /\ taskState[Current] = "RUNNING" /\ pc = "user" /\ Current = tasks[currentTask]
        /\ Current < pidCounter
    BY CallerIsCurrent
  <1>2. w \in Listed /\ w \in Pids /\ ppid[w] = Current /\ w < pidCounter
    BY <1>1, Table DEF Children
  <1>3. Undisturbed /\ waitedByPid' = [waitedByPid EXCEPT ![w] = Current]
    BY DEF WaitFor, RecordWaiter, Undisturbed
  <1>4. waitedByPid \in [Pids -> Pids \cup {0}] /\ waitingPid \in [Pids -> Pids \cup {0}]
        /\ pidCounter \in Nat
    BY Table DEF UInv, IInv, TypeOK
  <1>5. WaitedByParent'
    BY <1>2, <1>3, <1>4 DEF UInv, WaitedByParent, Undisturbed
  <1>6. InPidOrder' /\ Listed' = Listed
    BY <1>3, UndisturbedKeeps
  <1>7. CASE nohang
    <2>1. /\ UNCHANGED waitingPid /\ taskState' = taskState
          /\ UNCHANGED <<currentTask, prioritiesUpdated, cpustate, idleTime, ticks, locals, pc, cpu>>
      BY <1>1, <1>3, <1>7 DEF WaitFor, ScheduleIfWaiting, Undisturbed
    <2>2. Unprioritised' /\ OwnFrames' /\ AtUser' /\ InSearch'
      BY <1>3, <2>1, SameTask DEF Undisturbed
    <2>3. Unborn'
      BY <1>2, <1>3, <1>4, <2>1 DEF UInv, Unborn, Undisturbed, Pids
    <2>4. WaiterIsRecorded'
      <3> SUFFICES ASSUME NEW p \in Listed, taskState[p] = "WAITING"
                   PROVE  waitingPid'[p] \in Listed /\ waitedByPid'[waitingPid'[p]] = p
        BY <1>6, <2>1 DEF WaiterIsRecorded
      <3>1. waitingPid[p] \in Listed /\ waitedByPid[waitingPid[p]] = p /\ p \in Pids /\ waitingPid[p] \in Pids
        BY Table DEF UInv, WaiterIsRecorded
      <3>2. waitingPid[p] = w => p = Current
        BY <1>2, <3>1, Table DEF UInv, WaitedByParent
      <3> QED BY <1>2, <1>3, <1>4, <2>1, <3>1, <3>2
    <2> QED BY <1>1, <1>5, <1>6, <2>1, <2>2, <2>3, <2>4 DEF Rest
  <1>8. CASE ~nohang
    <2> DEFINE st == [taskState EXCEPT ![Current] = "WAITING"]
    <2>1. waitingPid' = [waitingPid EXCEPT ![Current] = w] /\ ScheduleIfWaiting(st)
      BY <1>8 DEF WaitFor
    <2>2. st \in [Objects -> TaskStates] /\ st[Current] = "WAITING" /\ tasks' = tasks
          /\ \A p \in Pids \ {Current} : st[p] = taskState[p]
      BY <1>1, <1>3, Table DEF TaskStates, Undisturbed
    <2> HIDE DEF st
    <2>3. EnterSchedule(st)
      BY <1>1, <2>1, <2>2 DEF ScheduleIfWaiting
    <2>4. /\ \A p \in Pids : taskState'[p] = st[p]
          /\ Unprioritised' /\ OwnFrames' /\ AtUser' /\ InSearch'
      BY <1>1, <1>3, <2>2, <2>3, EnterScheduleOwns DEF st
    <2>5. Unborn'
      BY <1>1, <1>2, <1>3, <1>4, <2>2, <2>4 DEF UInv, Unborn, Undisturbed, Pids
    <2>6. WaiterIsRecorded'
      <3> SUFFICES ASSUME NEW p \in Listed, taskState'[p] = "WAITING"
                   PROVE  waitingPid'[p] \in Listed /\ waitedByPid'[waitingPid'[p]] = p
        BY <1>6 DEF WaiterIsRecorded
      <3>1. p \in Pids
        BY Table
      <3>2. CASE p = Current
        BY <1>2, <1>3, <1>4, <2>1, <3>1, <3>2
      <3>3. CASE p # Current
        <4>1. taskState[p] = "WAITING" /\ waitingPid'[p] = waitingPid[p]
          BY <1>1, <1>4, <2>1, <2>2, <2>4, <3>1, <3>3
        <4>2. waitingPid[p] \in Listed /\ waitedByPid[waitingPid[p]] = p /\ waitingPid[p] \in Pids
          BY <4>1, Table DEF UInv, WaiterIsRecorded
        <4>3. waitingPid[p] # w
          BY <1>2, <3>1, <3>3, <4>2, Table DEF UInv, WaitedByParent
        <4> QED BY <1>2, <1>3, <1>4, <4>1, <4>2, <4>3
      <3> QED BY <3>2, <3>3
    <2> QED BY <1>1, <1>5, <1>6, <2>2, <2>4, <2>5, <2>6 DEF Rest
  <1> QED BY <1>7, <1>8

LEMMA WaitNobodyOwns ==
  ASSUME UInv, IInv', WaitNobody
  PROVE  Rest' /\ taskState' = taskState
  <1>1. /\ InTask /\ Current = tasks[currentTask] /\ taskState[Current] = "RUNNING"
        /\ UNCHANGED <<tasks, numTasks, pidCounter, priority, waits>> /\ ScheduleIfWaiting(taskState)
    BY CallerIsCurrent DEF WaitNobody
  <1>2. /\ taskState' = taskState
        /\ UNCHANGED <<currentTask, prioritiesUpdated, cpustate, idleTime, ticks, locals, pc, cpu>>
    BY <1>1 DEF ScheduleIfWaiting
  <1>3. UNCHANGED <<ppid, waitingPid, waitedByPid>>
    BY <1>1 DEF waits
  <1>4. Unprioritised' /\ InPidOrder' /\ OwnFrames' /\ AtUser' /\ InSearch' /\ Listed' = Listed
    BY <1>1, <1>2, <1>3, SameTask
  <1> QED BY <1>1, <1>2, <1>3, <1>4 DEF Rest, UInv, Unborn, WaitedByParent, WaiterIsRecorded

LEMMA ExecveOwns ==
  ASSUME UInv, IInv', Execve
  PROVE  Rest' /\ taskState' = taskState
  <1>1. /\ cpustate' = [cpustate EXCEPT ![Current] = Current] /\ cpu' = Current
        /\ UNCHANGED <<tasks, numTasks, currentTask, pidCounter, prioritiesUpdated, taskState, priority,
                       ppid, waitingPid, waitedByPid, ticks, pc>>
    BY DEF Execve, manager, waits
  <1>2. cpu' = cpu /\ Current \in Pids /\ InTask
    BY <1>1, CallerIsCurrent DEF Execve
  <1>3. Listed' = Listed /\ Index' = Index /\ Current' = Current
    BY <1>1 DEF Listed, Index, Current
  <1>4. OwnFrames'
    BY <1>1, <1>2, <1>3, Table DEF UInv, OwnFrames, Live
  <1>5. AtUser' /\ InSearch'
    BY <1>1, <1>2, <1>3 DEF UInv, AtUser, InSearch
  <1>6. Unprioritised' /\ InPidOrder' /\ Unborn' /\ WaitedByParent' /\ WaiterIsRecorded'
    BY <1>1, <1>3 DEF UInv, Unprioritised, InPidOrder, Unborn, WaitedByParent, WaiterIsRecorded
  <1> QED BY <1>1, <1>4, <1>5, <1>6 DEF Rest

-----------------------------------------------------------------------------
(* Together.                                                               *)

LEMMA UInitially ==
  ASSUME Init
  PROVE  UInv
  <1>1. IInv
    BY InitIInv
  <1>2. /\ Index = {0} /\ Listed = {1} /\ MaxPid \in Nat \ {0} /\ IdleTask \in Objects /\ 0 \in Slots
        /\ 1 \in Pids
    BY ConstantsAssumption DEF Init, Index, Listed, Slots, Pids, IdleTask, Objects
  <1>3. Unprioritised /\ InPidOrder /\ WaitedByParent
    BY <1>2 DEF Init, Unprioritised, InPidOrder, WaitedByParent, Pids
  <1>4. Unborn
    BY <1>2 DEF Init, Unborn, Pids, Objects, IdleTask
  <1>5. OwnFrames
    BY <1>2 DEF Init, OwnFrames, Objects
  <1>6. AtUser /\ InSearch
    BY DEF Init, AtUser, InSearch, Boot, Garbage, IdleTask, Pids
  <1>7. WaiterIsRecorded
    BY <1>2 DEF Init, WaiterIsRecorded, Objects, IdleTask
  <1> QED BY <1>1, <1>3, <1>4, <1>5, <1>6, <1>7 DEF UInv

\* Every step of Unix programs is one of arbitrary programs.
LEMMA UnixIsOrdinary ==
  ASSUME UInv, UnixNext
  PROVE  Next
  <1>1. Listed \subseteq Pids
    BY Table
  <1> QED BY <1>1 DEF UnixNext, System, WaitOwnChild, Children, Next

LEMMA UStays ==
  ASSUME UInv, UnixNext
  PROVE  UInv' /\ \A p \in Pids : taskState[p] = "TERMINATED" => taskState'[p] = "TERMINATED"
  <1>1. IInv'
    BY UnixIsOrdinary, NextKeeps DEF UInv
  <1> DEFINE Owed == Rest' /\ \A p \in Pids : taskState[p] = "TERMINATED" => taskState'[p] = "TERMINATED"
  <1> SUFFICES Owed
    BY <1>1 DEF UInv, Rest
  <1>2. CASE Tick
    BY <1>1, <1>2, TickOwns
  <1>3. CASE Advance
    BY <1>1, <1>3, AdvanceOwns
  <1>4. CASE Skip
    BY <1>4, NeverSkips
  <1>5. CASE Examine
    BY <1>1, <1>5, ExamineOwns
  <1>6. CASE Dispatch
    BY <1>1, <1>6, DispatchOwns
  <1>7. CASE Exit
    BY <1>1, <1>7, ExitOwns
  <1>8. CASE Fork
    BY <1>1, <1>8, ForkOwns
  <1>9. CASE WaitOwnChild
    <2>1. PICK w \in Children(cpu), nohang \in BOOLEAN : Waitpid(w, nohang)
      BY <1>9 DEF WaitOwnChild
    <2>2. /\ InTask /\ UNCHANGED <<pidCounter, priority, passedQuantums, ppid>>
          /\ ReapNow(w) \/ WaitFor(w, nohang)
      BY <2>1 DEF Waitpid
    <2>3. CASE ReapNow(w)
      BY <1>1, <2>2, <2>3, ReapNowOwns
    <2>4. CASE WaitFor(w, nohang)
      BY <1>1, <2>2, <2>4, WaitForOwns
    <2> QED BY <2>2, <2>3, <2>4
  <1>10. CASE WaitNobody
    BY <1>1, <1>10, WaitNobodyOwns
  <1>11. CASE Execve
    BY <1>1, <1>11, ExecveOwns
  <1>12. CASE ForkFails
    <2>1. UNCHANGED vars
      BY <1>12 DEF ForkFails
    <2> QED BY <1>1, <2>1 DEF UInv, Rest, vars, manager, waits, locals, Unprioritised, InPidOrder, Unborn,
         OwnFrames, AtUser, InSearch, WaitedByParent, WaiterIsRecorded, Live, Listed, Index, Current
  <1> HIDE DEF Owed
  <1> QED BY <1>2, <1>3, <1>4, <1>5, <1>6, <1>7, <1>8, <1>9, <1>10, <1>11, <1>12
          DEF UnixNext, System, Kernel

LEMMA UStutters ==
  ASSUME UInv, UNCHANGED vars
  PROVE  UInv' /\ taskState' = taskState
  BY StutterKeeps DEF UInv, vars, manager, waits, locals, Unprioritised, InPidOrder, Unborn,
     OwnFrames, AtUser, InSearch, WaitedByParent, WaiterIsRecorded, Live, Listed, Index, Current

\* Table, frames and the records of the waiting keep the shape the invariant gives them, as
\* long as programs wait for their own children and leave priorities alone.
THEOREM UnixInvariance == Unix => []UInv
  <1>1. Init => UInv
    BY UInitially
  <1>2. UInv /\ [UnixNext]_vars => UInv'
    BY UStays, UStutters
  <1> QED BY <1>1, <1>2, PTL DEF Unix

\* A task on the CPU is the current one and RUNNING, and every live task resumes from its own
\* frame: Schedule never saves the registers of one as those of another.
THEOREM EachRunsItsOwnContext == Unix => []RunsOwnContext
  <1>1. UInv => RunsOwnContext
    <2> SUFFICES ASSUME UInv PROVE RunsOwnContext
      OBVIOUS
    <2> QED BY DEF UInv, AtUser, OwnFrames, Live, RunsOwnContext
  <1> QED BY <1>1, UnixInvariance, PTL

\* A blocked parent is on record with the child it waits for, and the child is still listed:
\* neither the search nor another waitpid takes away who would wake it.
THEOREM WaitersAreRecorded == Unix => []WaiterIsRecorded
  <1>1. UInv => WaiterIsRecorded
    BY DEF UInv
  <1> QED BY <1>1, UnixInvariance, PTL

\* A zombie stays one: no wake-up and no dispatch makes a terminated task run again.
THEOREM ZombiesNeverRun == Unix => ZombiesStayDead
  <1>1. UInv /\ [UnixNext]_vars =>
          [\A p \in Pids : taskState[p] = "TERMINATED" => taskState'[p] = "TERMINATED"]_vars
    BY UStays
  <1> QED BY <1>1, UnixInvariance, PTL DEF Unix, ZombiesStayDead

-----------------------------------------------------------------------------
(* Fork-join programs.                                                     *)

\* The table is one line of descent: each task is the only child of the one before it.
Chain ==
  /\ numTasks > 0 /\ tasks[0] = 1
  /\ \A k \in 1 .. numTasks - 1 : ppid[tasks[k]] = tasks[k - 1]

\* Whoever has a child does not exit over it, and the first task never exits.
OnlyLastDies ==
  \A k \in Index : /\ taskState[tasks[k]] # "STOPPED"
                   /\ taskState[tasks[k]] = "TERMINATED" => k = numTasks - 1 /\ k > 0

\* One task has the turn: the current one, and during a search the one it started from.
OneHasTurn ==
  \A p \in Listed : taskState[p] = "RUNNING" =>
    IF pc = "user" THEN currentTask >= 0 /\ p = Current ELSE p = startedWithPid

\* Until the first task has run there is nobody to start a search from, and it is READY.
FirstSearch ==
  /\ pc = "user" /\ currentTask < 0 => taskState[1] = "READY"
  /\ pc # "user" /\ startedWithPid = 0 =>
       /\ startedWith = 0 /\ taskState[1] = "READY"
       /\ pc = "advance" => currentTask = -1
       /\ pc = "skip" => currentTask = 0

\* Nothing to do at slot k: the task cannot run, and is no zombie to be collected.
PassedBy(k) == taskState[tasks[k]] # "READY" /\ ~Reapable(tasks[k])

\* The slots the search has been through, first from the one it started at to the end of
\* the table, then from the front, held nobody to run.
Searched ==
  pc # "user" /\ startedWithPid # 0 =>
    LET last == IF pc = "skip" THEN currentTask - 1 ELSE currentTask
    IN  /\ tasks[startedWith] = startedWithPid
        /\ pc # "dispatch" =>
             /\ startedWith < numTasks /\ taskState[startedWithPid] # "READY"
             /\ ~tamTurAtildi =>
                  startedWith <= last /\ \A k \in startedWith + 1 .. last : PassedBy(k)
             /\ tamTurAtildi =>
                  /\ last < startedWith /\ taskState[startedWithPid] # "WAITING"
                  /\ \A k \in 0 .. last : taskState[tasks[k]] # "READY"

\* The inductive invariant of fork-join programs.
Line == Chain /\ OnlyLastDies /\ OneHasTurn /\ FirstSearch /\ Searched /\ AlwaysSomebody
JInv == UInv /\ Line

\* What a step does to those that wait, in the words of WokenOnlyByAwaited.
WakesByDeath ==
  \A p \in Pids : taskState[p] = "WAITING" /\ taskState'[p] = "READY" =>
    taskState[waitingPid[p]] = "TERMINATED"

LEMMA InLine ==
  ASSUME JInv
  PROVE  /\ \A c \in Listed, p \in Pids : ppid[c] = p =>
              \E k \in 1 .. numTasks - 1 : c = tasks[k] /\ p = tasks[k - 1]
         /\ \A j, k \in Index : tasks[j] = tasks[k] => j = k
         /\ 1 \in Listed /\ 1 \in Pids /\ 0 \in Index /\ numTasks - 1 \in Index
  <1>1. numTasks \in Nat /\ numTasks > 0 /\ Index = 0 .. numTasks - 1 /\ tasks[0] = 1
    BY Table DEF JInv, Line, Chain
  <1>2. 0 \in Index /\ numTasks - 1 \in Index
    BY <1>1
  <1>3. 1 \in Listed /\ 1 \in Pids
    BY <1>1, <1>2, Table DEF JInv
  <1>4. \A j, k \in Index : tasks[j] = tasks[k] => j = k
    BY DEF JInv, UInv, IInv, TableDistinct
  <1>5. ASSUME NEW c \in Listed, NEW p \in Pids, ppid[c] = p
        PROVE  \E k \in 1 .. numTasks - 1 : c = tasks[k] /\ p = tasks[k - 1]
    <2>1. PICK k \in Index : c = tasks[k]
      BY DEF Listed
    <2>2. k # 0
      <3>1. ppid[1] < 1
        BY <1>3 DEF JInv, UInv, InPidOrder
      <3> QED BY <1>1, <1>3, <1>5, <2>1, <3>1, Table DEF JInv, Pids
    <2>3. k \in 1 .. numTasks - 1
      BY <1>1, <2>2
    <2> QED BY <1>5, <2>1, <2>3 DEF JInv, Line, Chain
  <1> QED BY <1>2, <1>3, <1>4, <1>5

\* A task that waits, waits for the next in line, which has it on record.
LEMMA WaitsForNext ==
  ASSUME JInv, NEW k \in Index, taskState[tasks[k]] = "WAITING"
  PROVE  /\ k + 1 \in Index /\ waitingPid[tasks[k]] = tasks[k + 1]
         /\ waitedByPid[tasks[k + 1]] = tasks[k]
  <1>1. tasks[k] \in Listed /\ tasks[k] \in Pids /\ tasks[k] # 0
    BY Table DEF JInv
  <1>2. PICK c : c = waitingPid[tasks[k]]
    OBVIOUS
  <1>3. c \in Listed /\ c \in Pids /\ waitedByPid[c] = tasks[k]
    BY <1>1, <1>2, Table DEF JInv, UInv, WaiterIsRecorded
  <1>4. ppid[c] = tasks[k]
    BY <1>1, <1>3 DEF JInv, UInv, WaitedByParent
  <1>5. PICK m \in 1 .. numTasks - 1 : c = tasks[m] /\ tasks[k] = tasks[m - 1]
    BY <1>1, <1>3, <1>4, InLine
  <1>6. m \in Index /\ m - 1 \in Index /\ m = (m - 1) + 1
    BY <1>5, Table DEF JInv
  <1>7. k = m - 1
    BY <1>5, <1>6, InLine
  <1> QED BY <1>2, <1>3, <1>5, <1>6, <1>7

\* The other way round: whoever is on record with a task is the one before it.
LEMMA RecordedIsPrevious ==
  ASSUME JInv, NEW k \in Index, waitedByPid[tasks[k]] \in Listed
  PROVE  k - 1 \in Index /\ waitedByPid[tasks[k]] = tasks[k - 1]
  <1>1. tasks[k] \in Listed /\ tasks[k] \in Pids /\ waitedByPid[tasks[k]] \in Pids
        /\ waitedByPid[tasks[k]] # 0
    BY Table DEF JInv
  <1>2. ppid[tasks[k]] = waitedByPid[tasks[k]]
    BY <1>1 DEF JInv, UInv, WaitedByParent
  <1>3. PICK m \in 1 .. numTasks - 1 : tasks[k] = tasks[m] /\ waitedByPid[tasks[k]] = tasks[m - 1]
    BY <1>1, <1>2, InLine
  <1>4. m \in Index /\ m - 1 \in Index
    BY <1>3, Table DEF JInv
  <1>5. k = m
    BY <1>3, <1>4, InLine
  <1> QED BY <1>3, <1>4, <1>5

LEMMA LineUndisturbed ==
  ASSUME JInv, Undisturbed
  PROVE  Chain' /\ Index' = Index /\ Listed' = Listed /\ tasks' = tasks /\ numTasks' = numTasks
  BY DEF Undisturbed, JInv, Line, Chain, Index, Listed

\* Schedule is entered with the states st: nobody but the current task may be RUNNING then.
LEMMA EnterInLine ==
  ASSUME JInv, UInv', Undisturbed, pc = "user", NEW st \in [Objects -> TaskStates],
         \A k \in Index : /\ st[tasks[k]] # "STOPPED"
                          /\ st[tasks[k]] = "TERMINATED" => k = numTasks - 1 /\ k > 0,
         \A p \in Listed : st[p] = "RUNNING" => currentTask >= 0 /\ p = Current,
         currentTask < 0 => st[1] = "READY",
         \A p \in Pids : taskState'[p] = st[p],
         EnterSchedule(st)
  PROVE  Line'
  <1>1. Chain' /\ Index' = Index /\ Listed' = Listed /\ tasks' = tasks /\ numTasks' = numTasks
    BY LineUndisturbed
  <1>2. OnlyLastDies'
    <2>1. \A k \in Index : taskState'[tasks[k]] = st[tasks[k]]
      BY Table DEF JInv
    <2> QED BY <1>1, <2>1 DEF OnlyLastDies
  <1>3. /\ \A p \in Listed : taskState'[p] = "RUNNING" => currentTask >= 0 /\ p = Current
        /\ currentTask < 0 => taskState'[1] = "READY"
    BY InLine, Table DEF JInv
  <1>4. ~prioritiesUpdated /\ numTasks > 0 /\ currentTask < numTasks /\ currentTask \in Int /\ currentTask >= -1
    BY Table DEF JInv, UInv, Unprioritised, AtUser
  <1> SUFFICES OneHasTurn' /\ FirstSearch' /\ Searched' /\ AlwaysSomebody'
    BY <1>1, <1>2 DEF Line
  <1> DEFINE saved == Saved(st)
  <1> HIDE DEF saved
  <1>5. CASE StayIdle(st, saved) \/ ReturnToInterrupted(st, saved)
    <2>1. pc' = "user" /\ currentTask' = currentTask
      BY <1>5 DEF StayIdle, ReturnToInterrupted
    <2> QED BY <1>1, <1>3, <2>1 DEF OneHasTurn, FirstSearch, Searched, AlwaysSomebody, Current
  <1>6. CASE StartSearch(st, saved)
    <2>1. /\ currentTask' = currentTask /\ pc' = LoopHead(tasks', currentTask, taskState')
          /\ startedWith' = IF currentTask < 0 THEN 0 ELSE currentTask
          /\ startedWithPid' = IF currentTask < 0 THEN 0 ELSE tasks'[currentTask]
          /\ tamTurAtildi' = FALSE
      BY <1>6 DEF StartSearch
    <2>2. /\ pc' \in {"advance", "dispatch"}
          /\ pc' = "dispatch" => currentTask # -1
          /\ pc' = "advance" /\ currentTask # -1 => taskState'[tasks[currentTask]] # "READY"
      BY <1>1, <2>1 DEF LoopHead
    <2>3. CASE currentTask >= 0
      <3>1. /\ startedWith' = currentTask /\ startedWithPid' = Current /\ Current = tasks[currentTask]
            /\ Current \in Pids
        BY <1>1, <1>4, <2>1, <2>3, Table DEF JInv, Current
      <3>2. Current # 0
        BY <3>1, Table DEF JInv
      <3>3. OneHasTurn' /\ FirstSearch' /\ AlwaysSomebody'
        BY <1>1, <1>3, <2>2, <2>3, <3>1, <3>2 DEF OneHasTurn, FirstSearch, AlwaysSomebody
      <3>4. Searched'
        BY <1>1, <1>4, <2>1, <2>2, <2>3, <3>1 DEF Searched
      <3> QED BY <3>3, <3>4
    <2>4. CASE currentTask < 0
      <3>1. currentTask' = -1 /\ startedWith' = 0 /\ startedWithPid' = 0 /\ pc' = "advance"
        BY <1>4, <2>1, <2>2, <2>4
      <3> QED BY <1>1, <1>3, <1>4, <2>4, <3>1 DEF OneHasTurn, FirstSearch, Searched, AlwaysSomebody
    <2> QED BY <1>4, <2>3, <2>4
  <1> QED BY <1>1, <1>4, <1>5, <1>6 DEF EnterSchedule, RestartSearch, saved

LEMMA TickInLine ==
  ASSUME JInv, UInv', Tick
  PROVE  Line'
  <1>1. Undisturbed /\ pc = "user" /\ EnterSchedule(taskState) /\ taskState \in [Objects -> TaskStates]
    BY Table DEF Tick, Undisturbed, waits, JInv
  <1>2. \A p \in Pids : taskState'[p] = taskState[p]
    BY TickOwns DEF JInv, UInv
  <1>3. /\ \A k \in Index : /\ taskState[tasks[k]] # "STOPPED"
                            /\ taskState[tasks[k]] = "TERMINATED" => k = numTasks - 1 /\ k > 0
        /\ \A p \in Listed : taskState[p] = "RUNNING" => currentTask >= 0 /\ p = Current
        /\ currentTask < 0 => taskState[1] = "READY"
    BY <1>1 DEF JInv, Line, OnlyLastDies, OneHasTurn, FirstSearch
  <1> QED BY <1>1, <1>2, <1>3, EnterInLine

\* A task without children is the last in line.
LEMMA ChildlessIsLast ==
  ASSUME JInv, InTask, Children(cpu) = {}
  PROVE  /\ currentTask = numTasks - 1 /\ currentTask \in Index /\ Current = tasks[currentTask]
         /\ Current \in Listed /\ Current \in Pids /\ cpu = Current /\ pc = "user"
         /\ taskState[Current] = "RUNNING" /\ currentTask >= 0
  <1>1. /\ currentTask \in Index /\ Current \in Listed /\ Current \in Pids /\ cpu = Current
        /\ taskState[Current] = "RUNNING" /\ pc = "user" /\ Current = tasks[currentTask]
    BY CallerIsCurrent DEF JInv
  <1>2. numTasks \in Nat /\ Index = 0 .. numTasks - 1
    BY Table DEF JInv
  <1>3. currentTask = numTasks - 1
    <2> SUFFICES ASSUME currentTask # numTasks - 1 PROVE FALSE
      OBVIOUS
    <2>1. currentTask + 1 \in 1 .. numTasks - 1 /\ currentTask + 1 \in Index /\ (currentTask + 1) - 1 = currentTask
      BY <1>1, <1>2
    <2>2. ppid[tasks[currentTask + 1]] = Current /\ tasks[currentTask + 1] \in Listed
      BY <1>1, <2>1, Table DEF JInv, Line, Chain
    <2> QED BY <1>1, <2>2 DEF Children
  <1> QED BY <1>1, <1>2, <1>3

LEMMA ExitInLine ==
  ASSUME JInv, UInv', cpu # 1, Children(cpu) = {}, Exit
  PROVE  Line'
  <1> DEFINE st == [taskState EXCEPT ![Current] = "TERMINATED"]
  <1>1. Undisturbed /\ InTask /\ EnterSchedule(st)
    BY DEF Exit, Undisturbed, waits
  <1>2. /\ currentTask = numTasks - 1 /\ currentTask \in Index /\ Current = tasks[currentTask]
        /\ Current \in Listed /\ Current \in Pids /\ cpu = Current /\ pc = "user" /\ currentTask >= 0
        /\ taskState[Current] = "RUNNING"
    BY <1>1, ChildlessIsLast
  <1>3. currentTask > 0
    BY <1>2, Table DEF JInv, Line, Chain
  <1>4. st \in [Objects -> TaskStates]
    BY Table DEF TaskStates, JInv
  <1>5. \A p \in Pids : st[p] = IF p = Current THEN "TERMINATED" ELSE taskState[p]
    BY Table DEF JInv
  <1>6. \A p \in Pids : taskState'[p] = st[p]
    BY <1>5, ExitOwns DEF JInv, UInv
  <1> HIDE DEF st
  <1>7. \A k \in Index : /\ st[tasks[k]] # "STOPPED"
                         /\ st[tasks[k]] = "TERMINATED" => k = numTasks - 1 /\ k > 0
    <2> SUFFICES ASSUME NEW k \in Index
                 PROVE  /\ st[tasks[k]] # "STOPPED"
                        /\ st[tasks[k]] = "TERMINATED" => k = numTasks - 1 /\ k > 0
      OBVIOUS
    <2>1. tasks[k] \in Pids
      BY Table DEF JInv
    <2>2. CASE tasks[k] = Current
      <3>1. k = currentTask
        BY <1>2, <2>2, InLine
      <3> QED BY <1>2, <1>3, <1>5, <2>1, <2>2, <3>1
    <2>3. CASE tasks[k] # Current
      BY <1>5, <2>1, <2>3 DEF JInv, Line, OnlyLastDies
    <2> QED BY <2>2, <2>3
  <1>8. \A p \in Listed : st[p] = "RUNNING" => currentTask >= 0 /\ p = Current
    BY <1>2, <1>5, Table DEF JInv, Line, OneHasTurn
  <1> QED BY <1>1, <1>2, <1>4, <1>6, <1>7, <1>8, EnterInLine

LEMMA AdvanceInLine ==
  ASSUME JInv, UInv', Advance
  PROVE  Line'
  <1>1. /\ Undisturbed /\ pc = "advance"
        /\ UNCHANGED <<taskState, waitedByPid, startedWith, startedWithPid>>
    BY DEF Advance, Undisturbed, waits
  <1>2. Chain' /\ Index' = Index /\ Listed' = Listed /\ tasks' = tasks /\ numTasks' = numTasks
    BY <1>1, LineUndisturbed
  <1>3. /\ numTasks \in Nat /\ numTasks > 0 /\ currentTask < numTasks /\ currentTask \in Int
        /\ currentTask >= -1 /\ Index = 0 .. numTasks - 1 /\ numTasks \in Nat \ {0}
    BY <1>1, Table DEF JInv, UInv, InSearch, Line, Chain
  <1>4. /\ pc' = "skip"
        /\ \/ currentTask + 1 < numTasks /\ currentTask' = currentTask + 1 /\ tamTurAtildi' = tamTurAtildi
           \/ currentTask + 1 = numTasks /\ currentTask' = 0 /\ tamTurAtildi' = TRUE
    <2>1. CASE currentTask + 1 < numTasks
      BY <2>1 DEF Advance
    <2>2. CASE ~(currentTask + 1 < numTasks)
      <3>1. currentTask + 1 = numTasks
        BY <1>3, <2>2
      <3>2. (currentTask + 1) % numTasks = 0
        BY <1>3, <3>1, Remainder
      <3> QED BY <1>3, <2>2, <3>1, <3>2 DEF Advance
    <2> QED BY <2>1, <2>2
  <1>5. OneHasTurn' /\ OnlyLastDies' /\ AlwaysSomebody'
    BY <1>1, <1>2, <1>4 DEF JInv, Line, OneHasTurn, OnlyLastDies, AlwaysSomebody
  <1>6. FirstSearch'
    <2>1. currentTask' >= 0 /\ (currentTask = -1 => currentTask' = 0)
      BY <1>3, <1>4
    <2> QED BY <1>1, <1>4, <2>1 DEF JInv, Line, FirstSearch
  <1>7. Searched'
    <2> SUFFICES ASSUME startedWithPid # 0 PROVE Searched'
      BY <1>1 DEF Searched
    <2>1. /\ tasks[startedWith] = startedWithPid /\ startedWith < numTasks
          /\ taskState[startedWithPid] # "READY" /\ startedWith \in Nat
          /\ ~tamTurAtildi =>
               startedWith <= currentTask /\ \A k \in startedWith + 1 .. currentTask : PassedBy(k)
          /\ tamTurAtildi =>
               /\ currentTask < startedWith /\ taskState[startedWithPid] # "WAITING"
               /\ \A k \in 0 .. currentTask : taskState[tasks[k]] # "READY"
      BY <1>1 DEF JInv, Line, Searched, UInv, IInv, TypeOK, Slots
    <2>2. \A k : PassedBy(k)' = PassedBy(k)
      BY <1>1, <1>2 DEF PassedBy, Reapable
    <2>3. CASE currentTask + 1 < numTasks /\ currentTask' = currentTask + 1 /\ tamTurAtildi' = tamTurAtildi
      <3>1. currentTask' - 1 = currentTask
        BY <1>3, <2>3
      <3>2. CASE ~tamTurAtildi
        BY <1>1, <1>2, <1>4, <2>1, <2>2, <2>3, <3>1, <3>2 DEF Searched
      <3>3. CASE tamTurAtildi
        BY <1>1, <1>2, <1>4, <2>1, <2>3, <3>1, <3>3 DEF Searched
      <3> QED BY <3>2, <3>3
    <2>4. CASE currentTask + 1 = numTasks /\ currentTask' = 0 /\ tamTurAtildi' = TRUE
      <3>1. ~tamTurAtildi
        BY <1>3, <2>1, <2>4
      <3>2. taskState[startedWithPid] # "WAITING"
        <4> SUFFICES ASSUME taskState[startedWithPid] = "WAITING" PROVE FALSE
          OBVIOUS
        <4>1. startedWith \in Index /\ startedWith + 1 \in Index
          BY <1>3, <2>1, WaitsForNext
        <4>2. numTasks - 1 \in startedWith + 1 .. currentTask
          BY <1>3, <2>1, <2>4, <4>1
        <4> DEFINE z == numTasks - 1
        <4>3. z \in Index /\ z - 1 \in Index /\ startedWith < z
          BY <1>3, <4>1, <4>2
        <4>4. PassedBy(z)
          BY <2>1, <3>1, <4>2
        <4>5. taskState[tasks[z]] # "WAITING"
          <5>1. ~(z + 1 \in Index)
            BY <1>3
          <5> QED BY <4>3, <5>1, WaitsForNext
        <4>6. taskState[tasks[z]] # "RUNNING"
          <5>1. tasks[z] # startedWithPid
            <6>1. startedWith # z
              BY <1>3, <2>1, <4>3
            <6> QED BY <2>1, <4>1, <4>3, <6>1, InLine
          <5> QED BY <1>1, <4>3, <5>1, Table DEF JInv, Line, OneHasTurn
        <4>7. taskState[tasks[z]] = "TERMINATED"
          <5>1. taskState[tasks[z]] \in TaskStates /\ taskState[tasks[z]] # "STOPPED"
            BY <4>3, Table DEF JInv, Line, OnlyLastDies
          <5> QED BY <4>4, <4>5, <4>6, <5>1 DEF PassedBy, TaskStates
        <4>8. taskState[tasks[z - 1]] = "WAITING"
          <5>1. CASE z - 1 = startedWith
            BY <2>1, <5>1
          <5>2. CASE z - 1 # startedWith
            <6>1. z - 1 \in startedWith + 1 .. currentTask
              BY <1>3, <2>1, <2>4, <4>2, <4>3, <5>2
            <6>2. PassedBy(z - 1)
              BY <2>1, <3>1, <6>1
            <6>3. tasks[z - 1] # startedWithPid
              BY <2>1, <4>1, <4>3, <5>2, InLine
            <6>4. taskState[tasks[z - 1]] # "RUNNING"
              BY <1>1, <4>3, <6>3, Table DEF JInv, Line, OneHasTurn
            <6>5. taskState[tasks[z - 1]] \in TaskStates /\ taskState[tasks[z - 1]] # "STOPPED"
              BY <4>3, Table DEF JInv, Line, OnlyLastDies
            <6>6. taskState[tasks[z - 1]] # "TERMINATED"
              BY <1>3, <4>3 DEF JInv, Line, OnlyLastDies
            <6> QED BY <6>2, <6>4, <6>5, <6>6 DEF PassedBy, TaskStates
          <5> QED BY <5>1, <5>2
        <4>9. waitedByPid[tasks[(z - 1) + 1]] = tasks[z - 1]
          BY <4>3, <4>8, WaitsForNext
        <4>10. waitedByPid[tasks[z]] \in Listed
          BY <1>3, <4>3, <4>9, Table DEF JInv
        <4> QED BY <4>4, <4>7, <4>10 DEF PassedBy, Reapable
      <3> QED BY <1>1, <1>2, <1>4, <2>1, <2>4, <3>2 DEF Searched
    <2> QED BY <1>4, <2>3, <2>4
  <1> QED BY <1>2, <1>5, <1>6, <1>7 DEF Line

\* The last in line is a zombie nobody has taken away: its parent is told, and can run.
LEMMA CollectInLine ==
  ASSUME JInv, UInv', Examine, Reapable(Current)
  PROVE  /\ Line' /\ WakesByDeath /\ UNCHANGED <<pidCounter, ppid, waitedByPid>>
         /\ Current \in Listed /\ Current \in Pids /\ taskState[Current] = "TERMINATED"
         /\ Listed' = Listed \ {Current} /\ waitedByPid[Current] = ppid[Current]
         /\ ppid[Current] \in Listed /\ ppid[Current] # Current
         /\ \A p \in Pids : taskState'[p] = IF p = ppid[Current] /\ taskState[p] = "WAITING" THEN "READY"
                                            ELSE taskState[p]
  <1> DEFINE c == currentTask
             waiter == waitedByPid[Current]
  <1>1. /\ pc = "skip" /\ c \in Index /\ Current = tasks[c] /\ Current \in Listed /\ Current \in Pids
        /\ taskState[Current] = "TERMINATED" /\ waiter \in Listed /\ waiter \in Pids
    <2>1. pc = "skip" /\ c \in Index
      BY DEF Examine, JInv, UInv, IInv, CursorOnTask
    <2> QED BY <2>1, Table DEF JInv, Current, Reapable
  <1>2. c = numTasks - 1 /\ c > 0 /\ numTasks \in Nat /\ Index = 0 .. numTasks - 1
    BY <1>1, Table DEF JInv, Line, OnlyLastDies
  <1>3. c - 1 \in Index /\ waiter = tasks[c - 1]
    BY <1>1, RecordedIsPrevious
  <1>4. /\ RemoveAt(c) /\ currentTask' = c - 1 /\ EndOfTurn(tasks', c - 1, taskState')
        /\ UNCHANGED <<ppid, waitedByPid, startedWith, startedWithPid, tamTurAtildi>>
        /\ IF taskState[waiter] = "WAITING"
           THEN taskState' = [taskState EXCEPT ![waiter] = "READY"]
           ELSE taskState' = taskState
    <2>1. currentTask' = currentTask - 1
      BY DEF Examine
    <2> QED BY <2>1 DEF Examine, locals
  <1>5. tasks' = tasks /\ numTasks' = numTasks - 1 /\ Index' = 0 .. numTasks - 2
    <2>1. tasks \in [Slots -> Pids \cup {NoTask}]
      BY DEF JInv, UInv, IInv, TypeOK
    <2>2. \A k \in Slots : ~(c <= k /\ k < numTasks - 1)
      BY <1>2, Table DEF JInv, Slots
    <2> QED BY <1>2, <1>4, <2>1, <2>2 DEF RemoveAt, Index
  <1>6. \A p \in Pids : taskState'[p] = IF p = waiter /\ taskState[p] = "WAITING" THEN "READY" ELSE taskState[p]
    BY <1>1, <1>4, Table DEF JInv
  <1>7. Chain'
    BY <1>2, <1>4, <1>5 DEF JInv, Line, Chain
  <1>8. OnlyLastDies'
    <2> SUFFICES ASSUME NEW k \in Index'
                 PROVE  taskState'[tasks[k]] # "STOPPED" /\ taskState'[tasks[k]] # "TERMINATED"
      BY <1>5 DEF OnlyLastDies
    <2>1. k \in Index /\ k # numTasks - 1
      BY <1>2, <1>5
    <2>2. taskState[tasks[k]] # "STOPPED" /\ taskState[tasks[k]] # "TERMINATED" /\ tasks[k] \in Pids
      BY <2>1, Table DEF JInv, Line, OnlyLastDies
    <2> QED BY <1>6, <2>2
  <1>9. Listed' = Listed \ {Current}
    <2>1. \A k \in Index : k \in Index' <=> k # c
      BY <1>2, <1>5
    <2>2. Index' \subseteq Index
      BY <1>2, <1>5
    <2>3. \A k \in Index : tasks[k] = Current => k = c
      BY <1>1, InLine
    <2> QED BY <1>1, <1>5, <2>1, <2>2, <2>3 DEF Listed
  <1>10. startedWithPid # 0
    BY <1>1, <1>2 DEF JInv, Line, FirstSearch
  <1>11. /\ tasks[startedWith] = startedWithPid /\ startedWith < numTasks /\ startedWith \in Nat
         /\ ~tamTurAtildi => startedWith <= c - 1
         /\ tamTurAtildi => c - 1 < startedWith
    BY <1>1, <1>10 DEF JInv, Line, Searched, UInv, IInv, TypeOK, Slots
  <1>12. startedWith \in Index /\ c - 1 # -1
    BY <1>2, <1>11
  <1>13. ~(tasks[c - 1] = startedWithPid /\ tamTurAtildi)
    <2> SUFFICES ASSUME tasks[c - 1] = startedWithPid, tamTurAtildi PROVE FALSE
      OBVIOUS
    <2>1. c - 1 = startedWith
      BY <1>3, <1>11, <1>12, InLine
    <2> QED BY <1>11, <2>1
  <1>14. /\ pc' \in {"advance", "dispatch"}
         /\ pc' = "advance" => taskState'[waiter] # "READY"
    BY <1>3, <1>4, <1>5, <1>12, <1>13 DEF EndOfTurn, LoopHead
  <1>15. \A p \in Listed : taskState[p] = "RUNNING" => p = startedWithPid
    BY <1>1 DEF JInv, Line, OneHasTurn
  <1>16. OneHasTurn' /\ FirstSearch' /\ AlwaysSomebody'
    <2>1. \A p \in Listed' : taskState'[p] = "RUNNING" => p = startedWithPid'
      BY <1>4, <1>6, <1>9, <1>15, Table DEF JInv
    <2> QED BY <1>4, <1>10, <1>14, <2>1 DEF OneHasTurn, FirstSearch, AlwaysSomebody
  <1>17. Searched'
    <2>1. CASE pc' = "dispatch"
      BY <1>4, <1>5, <1>11, <2>1 DEF Searched
    <2>2. CASE pc' = "advance"
      <3>1. taskState[waiter] = "RUNNING"
        <4>1. taskState[waiter] \in TaskStates /\ taskState[waiter] # "STOPPED"
          BY <1>1, <1>3, Table DEF JInv, Line, OnlyLastDies
        <4>2. taskState[waiter] # "TERMINATED"
          BY <1>2, <1>3 DEF JInv, Line, OnlyLastDies
        <4>3. taskState[waiter] # "WAITING" /\ taskState[waiter] # "READY"
          BY <1>1, <1>6, <1>14, <2>2
        <4> QED BY <4>1, <4>2, <4>3 DEF TaskStates
      <3>2. waiter = startedWithPid
        BY <1>1, <1>15, <3>1
      <3>3. c - 1 = startedWith
        BY <1>3, <1>11, <1>12, <3>2, InLine
      <3>4. ~tamTurAtildi /\ startedWith < numTasks' /\ taskState'[startedWithPid] # "READY"
        BY <1>2, <1>5, <1>11, <1>14, <2>2, <3>2, <3>3
      <3> QED BY <1>4, <1>5, <1>11, <2>2, <3>3, <3>4 DEF Searched
    <2> QED BY <1>14, <2>1, <2>2
  <1>18. WakesByDeath
    <2> SUFFICES ASSUME NEW p \in Pids, taskState[p] = "WAITING", taskState'[p] = "READY"
                 PROVE  taskState[waitingPid[p]] = "TERMINATED"
      BY DEF WakesByDeath
    <2>1. p = tasks[c - 1]
      BY <1>3, <1>6
    <2>2. waitingPid[p] = tasks[(c - 1) + 1]
      BY <1>3, <2>1, WaitsForNext
    <2> QED BY <1>1, <1>2, <2>2
  <1>19. waiter = ppid[Current] /\ waiter # Current
    <2>1. waiter # 0
      BY <1>1, Table DEF JInv
    <2>2. waiter = ppid[Current]
      BY <1>1, <2>1 DEF JInv, UInv, WaitedByParent
    <2> QED BY <1>1, <2>2, Table DEF JInv, UInv, InPidOrder
  <1>20. UNCHANGED <<pidCounter, ppid, waitedByPid>>
    BY DEF Examine
  <1> QED BY <1>1, <1>6, <1>7, <1>8, <1>9, <1>16, <1>17, <1>18, <1>19, <1>20 DEF Line

\* Nothing to collect at the slot under the cursor: the search ends there or goes on, and a
\* full turn without success ends at a task that is still RUNNING.
LEMMA ExamineInLine ==
  ASSUME JInv, UInv', Examine, ~Reapable(Current)
  PROVE  Line' /\ taskState' = taskState
  <1> DEFINE c == currentTask
  <1>1. /\ Undisturbed /\ pc = "skip" /\ currentTask' = c /\ taskState' = taskState
        /\ EndOfTurn(tasks, c, taskState)
        /\ UNCHANGED <<waitedByPid, startedWith, startedWithPid, tamTurAtildi>>
    <2>1. UNCHANGED <<taskState, tasks, numTasks, currentTask>>
      BY DEF Examine
    <2> QED BY <2>1 DEF Examine, Undisturbed, locals
  <1>2. Chain' /\ Index' = Index /\ Listed' = Listed /\ tasks' = tasks /\ numTasks' = numTasks
    BY <1>1, LineUndisturbed
  <1>3. c \in Index /\ Current = tasks[c] /\ Current \in Pids /\ Current \in Listed
        /\ numTasks \in Nat /\ Index = 0 .. numTasks - 1
    <2>1. c \in Index
      BY <1>1 DEF JInv, UInv, IInv, CursorOnTask
    <2> QED BY <2>1, Table DEF JInv, Current
  <1>4. OnlyLastDies'
    BY <1>1, <1>2 DEF JInv, Line, OnlyLastDies
  <1>5. c # -1 /\ c \in Int
    BY <1>3
  <1>6. pc' # "user" => OneHasTurn'
    BY <1>1, <1>2 DEF JInv, Line, OneHasTurn
  <1> SUFFICES pc' \in {"advance", "dispatch"} /\ FirstSearch' /\ Searched'
    BY <1>1, <1>2, <1>4, <1>6 DEF Line, AlwaysSomebody
  <1>7. CASE startedWithPid = 0
    <2>1. c = 0 /\ taskState[1] = "READY" /\ tasks[0] = 1 /\ startedWith = 0
      BY <1>1, <1>7 DEF JInv, Line, FirstSearch, Chain
    <2>2. pc' = "dispatch"
      BY <1>1, <1>7, <2>1 DEF EndOfTurn, LoopHead
    <2> QED BY <1>1, <1>7, <2>1, <2>2 DEF FirstSearch, Searched
  <1>8. CASE startedWithPid # 0
    <2>1. /\ tasks[startedWith] = startedWithPid /\ startedWith < numTasks
          /\ taskState[startedWithPid] # "READY" /\ startedWith \in Nat
          /\ ~tamTurAtildi =>
               startedWith <= c - 1 /\ \A k \in startedWith + 1 .. c - 1 : PassedBy(k)
          /\ tamTurAtildi =>
               /\ c - 1 < startedWith /\ taskState[startedWithPid] # "WAITING"
               /\ \A k \in 0 .. c - 1 : taskState[tasks[k]] # "READY"
      BY <1>1, <1>8 DEF JInv, Line, Searched, UInv, IInv, TypeOK, Slots
    <2>2. startedWith \in Index
      BY <1>3, <2>1
    <2>3. FirstSearch'
      BY <1>1, <1>8, <1>3 DEF FirstSearch, EndOfTurn, LoopHead
    <2>4. CASE tasks[c] = startedWithPid /\ tamTurAtildi
      <3>1. c = startedWith
        BY <1>3, <2>1, <2>2, <2>4, InLine
      <3>2. taskState[tasks[c]] # "TERMINATED"
        <4> SUFFICES ASSUME taskState[tasks[c]] = "TERMINATED" PROVE FALSE
          OBVIOUS
        <4>1. c = numTasks - 1 /\ c > 0
          BY <1>3 DEF JInv, Line, OnlyLastDies
        <4>2. c - 1 \in Index /\ c - 1 \in 0 .. c - 1 /\ c - 1 # numTasks - 1 /\ (c - 1) + 1 = c
          BY <1>3, <4>1
        <4>3. taskState[tasks[c - 1]] \in TaskStates /\ taskState[tasks[c - 1]] # "STOPPED"
              /\ tasks[c - 1] \in Listed
          BY <4>2, Table DEF JInv, Line, OnlyLastDies
        <4>4. taskState[tasks[c - 1]] # "TERMINATED" /\ taskState[tasks[c - 1]] # "READY"
          BY <2>1, <2>4, <4>2 DEF JInv, Line, OnlyLastDies
        <4>5. taskState[tasks[c - 1]] # "RUNNING"
          <5>1. tasks[c - 1] # startedWithPid
            BY <1>3, <2>1, <2>2, <3>1, <4>2, InLine
          <5> QED BY <1>1, <4>3, <5>1 DEF JInv, Line, OneHasTurn
        <4>6. taskState[tasks[c - 1]] = "WAITING"
          BY <4>3, <4>4, <4>5 DEF TaskStates
        <4>7. waitedByPid[tasks[(c - 1) + 1]] = tasks[c - 1]
          BY <4>2, <4>6, WaitsForNext
        <4> QED BY <1>3, <4>2, <4>3, <4>7 DEF Reapable
      <3>3. taskState[tasks[c]] = "RUNNING"
        <4>1. taskState[tasks[c]] \in TaskStates /\ taskState[tasks[c]] # "STOPPED"
          BY <1>3, Table DEF JInv, Line, OnlyLastDies
        <4> QED BY <2>1, <2>4, <3>2, <4>1 DEF TaskStates
      <3>4. pc' = "dispatch"
        BY <1>1, <1>5, <2>4, <3>3 DEF EndOfTurn
      <3> QED BY <1>1, <1>2, <2>1, <2>3, <3>4 DEF Searched
    <2>5. CASE ~(tasks[c] = startedWithPid /\ tamTurAtildi)
      <3>1. pc' = IF taskState[tasks[c]] = "READY" THEN "dispatch" ELSE "advance"
        BY <1>1, <1>5, <2>5 DEF EndOfTurn, LoopHead
      <3>2. CASE pc' = "dispatch"
        BY <1>1, <1>2, <2>1, <2>3, <3>2 DEF Searched
      <3>3. CASE pc' = "advance"
        <4>1. taskState[tasks[c]] # "READY" /\ PassedBy(c)
          BY <1>3, <3>1, <3>3 DEF PassedBy
        <4>2. \A k : PassedBy(k)' = PassedBy(k)
          BY <1>1, <1>2 DEF PassedBy, Reapable
        <4>3. CASE ~tamTurAtildi
          <5>1. startedWith <= c /\ \A k \in startedWith + 1 .. c : PassedBy(k)
            BY <1>5, <2>1, <4>1, <4>3
          <5> QED BY <1>1, <1>2, <2>1, <2>3, <3>3, <4>2, <4>3, <5>1 DEF Searched
        <4>4. CASE tamTurAtildi
          <5>1. c < startedWith
            <6>1. c # startedWith
              BY <2>1, <2>5, <4>4
            <6> QED BY <1>5, <2>1, <4>4, <6>1
          <5>2. \A k \in 0 .. c : taskState[tasks[k]] # "READY"
            BY <1>5, <2>1, <4>1, <4>4
          <5> QED BY <1>1, <1>2, <2>1, <2>3, <3>3, <4>4, <5>1, <5>2 DEF Searched
        <4> QED BY <4>3, <4>4
      <3> QED BY <3>1, <3>2, <3>3
    <2> QED BY <2>4, <2>5
  <1> QED BY <1>7, <1>8

LEMMA DispatchInLine ==
  ASSUME JInv, UInv', Dispatch
  PROVE  /\ Line' /\ Listed' = Listed /\ pidCounter' = pidCounter /\ UNCHANGED <<ppid, waitedByPid>>
         /\ Current \in Listed /\ Current \in Pids /\ taskState[Current] \in {"READY", "RUNNING"}
         /\ \A p \in Pids : taskState'[p] = IF p = Current THEN "RUNNING"
                                            ELSE IF p = tasks[startedWith] THEN AfterTurn(taskState[p])
                                            ELSE taskState[p]
         /\ \A p \in Listed : taskState[p] = "RUNNING" => p = tasks[startedWith]
  <1>1. /\ Undisturbed /\ pc = "dispatch" /\ pc' = "user" /\ currentTask' = currentTask
        /\ taskState' = [taskState EXCEPT ![tasks[startedWith]] = AfterTurn(@), ![Current] = "RUNNING"]
        /\ UNCHANGED <<ppid, waitedByPid>>
    BY DispatchOwns DEF Dispatch, Undisturbed, waits, manager, JInv, UInv
  <1>2. Chain' /\ Index' = Index /\ Listed' = Listed /\ tasks' = tasks /\ numTasks' = numTasks
    BY <1>1, LineUndisturbed
  <1>3. currentTask \in Index /\ Current = tasks[currentTask] /\ Current \in Listed /\ Current \in Pids
        /\ taskState[Current] \in {"READY", "RUNNING"}
    BY <1>1, Table DEF JInv, UInv, InSearch, Current
  <1>4. \A p \in Pids : taskState'[p] = IF p = Current THEN "RUNNING"
                                        ELSE IF p = tasks[startedWith] THEN AfterTurn(taskState[p])
                                        ELSE taskState[p]
    BY <1>1, <1>3, Table DEF JInv
  <1>5. \A p \in Listed : taskState[p] = "RUNNING" => p = tasks[startedWith]
    <2> SUFFICES ASSUME NEW p \in Listed, taskState[p] = "RUNNING" PROVE p = tasks[startedWith]
      OBVIOUS
    <2>1. p = startedWithPid
      BY <1>1 DEF JInv, Line, OneHasTurn
    <2>2. p # 0
      BY Table DEF JInv
    <2> QED BY <1>1, <2>1, <2>2 DEF JInv, Line, Searched
  <1>6. OnlyLastDies'
    <2> SUFFICES ASSUME NEW k \in Index
                 PROVE  /\ taskState'[tasks[k]] # "STOPPED"
                        /\ taskState'[tasks[k]] = "TERMINATED" => k = numTasks - 1 /\ k > 0
      BY <1>2 DEF OnlyLastDies
    <2>1. tasks[k] \in Pids
      BY Table DEF JInv
    <2> QED BY <1>4, <2>1 DEF JInv, Line, OnlyLastDies, AfterTurn
  <1>7. Current' = Current /\ currentTask' >= 0
    BY <1>1, <1>2, <1>3, Table DEF Current, JInv
  <1>8. OneHasTurn'
    <2> SUFFICES ASSUME NEW p \in Listed, taskState'[p] = "RUNNING" PROVE p = Current
      BY <1>1, <1>2, <1>7 DEF OneHasTurn
    <2>1. p \in Pids
      BY Table DEF JInv
    <2> QED BY <1>4, <1>5, <2>1 DEF AfterTurn
  <1>9. FirstSearch' /\ Searched' /\ AlwaysSomebody'
    <2>1. ~(currentTask' < 0)
      BY <1>1, <1>3, Table DEF JInv
    <2> QED BY <1>1, <2>1 DEF FirstSearch, Searched, AlwaysSomebody
  <1>10. pidCounter' = pidCounter
    BY <1>1 DEF Undisturbed
  <1> QED BY <1>1, <1>2, <1>3, <1>4, <1>5, <1>6, <1>8, <1>9, <1>10 DEF Line

\* The child of the last in line becomes the last.
LEMMA ForkInLine ==
  ASSUME JInv, UInv', Children(cpu) = {}, Fork
  PROVE  Line'
  <1> DEFINE child == pidCounter
             n == numTasks
  <1>1. /\ InTask /\ pc' = pc /\ ppid' = [ppid EXCEPT ![child] = tasks'[currentTask']]
    BY DEF Fork
  <1>2. /\ currentTask = n - 1 /\ currentTask \in Index /\ Current = tasks[currentTask]
        /\ Current \in Pids /\ pc = "user" /\ currentTask >= 0 /\ taskState[Current] = "RUNNING"
    BY <1>1, ChildlessIsLast
  <1>3. /\ tasks'[n] = child /\ \A k \in Index : tasks'[k] = tasks[k]
        /\ numTasks' = n + 1 /\ n \in Nat /\ Index' = 0 .. n /\ Index' = Index \cup {n}
        /\ Listed' = Listed \cup {child} /\ child \in Pids
        /\ currentTask' = currentTask /\ tasks'[currentTask'] = Current /\ Current' = Current
        /\ taskState' = [taskState EXCEPT ![child] = "READY"]
    BY ForkAppends DEF JInv
  <1>4. \A k \in Index : tasks[k] \in Pids /\ tasks[k] # child
    BY <1>3, Table DEF JInv
  <1>5. taskState'[child] = "READY" /\ \A k \in Index : taskState'[tasks'[k]] = taskState[tasks[k]]
    BY <1>3, <1>4, Table DEF JInv
  <1>6. Chain'
    <2>1. n > 0 /\ tasks[0] = 1 /\ 0 \in Index /\ Index = 0 .. n - 1
      BY <1>3, InLine, Table DEF JInv, Line, Chain
    <2>2. ppid \in [Pids -> Pids \cup {0}]
      BY DEF JInv, UInv, IInv, TypeOK
    <2> SUFFICES ASSUME NEW k \in 1 .. n PROVE ppid'[tasks'[k]] = tasks'[k - 1]
      BY <1>3, <2>1 DEF Chain
    <2>3. k - 1 \in Index
      BY <1>3, <2>1
    <2>4. CASE k = n
      BY <1>1, <1>2, <1>3, <2>2, <2>3, <2>4
    <2>5. CASE k # n
      <3>1. k \in Index /\ k \in 1 .. n - 1
        BY <1>3, <2>1, <2>5
      <3>2. ppid'[tasks[k]] = ppid[tasks[k]]
        BY <1>1, <1>4, <2>2, <3>1
      <3> QED BY <1>3, <2>3, <3>1, <3>2 DEF JInv, Line, Chain
    <2> QED BY <2>4, <2>5
  <1>7. OnlyLastDies'
    <2> SUFFICES ASSUME NEW k \in Index'
                 PROVE  taskState'[tasks'[k]] # "STOPPED" /\ taskState'[tasks'[k]] # "TERMINATED"
      BY DEF OnlyLastDies
    <2>1. CASE k = n
      BY <1>3, <1>5, <2>1
    <2>2. CASE k \in Index
      <3>1. taskState[tasks[k]] = "TERMINATED" => k = currentTask
        BY <1>2, <2>2 DEF JInv, Line, OnlyLastDies
      <3> QED BY <1>2, <1>5, <2>2, <3>1 DEF JInv, Line, OnlyLastDies
    <2> QED BY <1>3, <2>1, <2>2
  <1>8. OneHasTurn'
    <2> SUFFICES ASSUME NEW p \in Listed', taskState'[p] = "RUNNING" PROVE p = Current
      BY <1>1, <1>2, <1>3 DEF OneHasTurn
    <2>1. p # child /\ p \in Listed
      BY <1>3, <1>5
    <2>2. taskState[p] = "RUNNING"
      BY <1>3, <2>1, Table DEF JInv
    <2> QED BY <1>2, <2>1, <2>2 DEF JInv, Line, OneHasTurn
  <1>9. FirstSearch' /\ Searched' /\ AlwaysSomebody'
    BY <1>1, <1>2, <1>3 DEF FirstSearch, Searched, AlwaysSomebody
  <1> QED BY <1>6, <1>7, <1>8, <1>9 DEF Line

\* A parent takes the last in line away and becomes the last itself.
LEMMA ReapInLine ==
  ASSUME JInv, UInv', InTask, NEW w \in Children(cpu), ReapNow(w),
         UNCHANGED <<pidCounter, priority, passedQuantums, ppid>>
  PROVE  Line' /\ Listed' = Listed \ {w}
  <1>1. taskState' = taskState /\ currentTask' = currentTask /\ pc' = pc
    BY ReapNowOwns DEF JInv, UInv
  <1>2. PICK i \in Index : tasks[i] = w /\ RemoveAt(i)
    BY DEF ReapNow
  <1>3. i = numTasks - 1 /\ i > 0 /\ numTasks \in Nat /\ Index = 0 .. numTasks - 1
    BY <1>2, Table DEF ReapNow, JInv, Line, OnlyLastDies
  <1>4. tasks' = tasks /\ numTasks' = numTasks - 1 /\ Index' = 0 .. numTasks - 2
    <2>1. tasks \in [Slots -> Pids \cup {NoTask}]
      BY DEF JInv, UInv, IInv, TypeOK
    <2>2. \A k \in Slots : ~(i <= k /\ k < numTasks - 1)
      BY <1>3, Table DEF JInv, Slots
    <2> QED BY <1>2, <1>3, <2>1, <2>2 DEF RemoveAt, Index
  <1>5. Listed' = Listed \ {w}
    <2>1. \A k \in Index : k \in Index' <=> k # i
      BY <1>3, <1>4
    <2>2. Index' \subseteq Index
      BY <1>3, <1>4
    <2>3. \A k \in Index : tasks[k] = w => k = i
      BY <1>2, InLine
    <2> QED BY <1>2, <1>4, <2>1, <2>2, <2>3 DEF Listed
  <1>6. Chain'
    BY <1>3, <1>4 DEF JInv, Line, Chain
  <1>7. OnlyLastDies'
    <2>1. \A k \in Index' : k \in Index /\ k # numTasks - 1
      BY <1>3, <1>4
    <2> QED BY <1>1, <1>4, <2>1 DEF JInv, Line, OnlyLastDies
  <1>8. /\ pc = "user" /\ currentTask >= 0 /\ Current' = Current
    BY <1>1, <1>4, CallerIsCurrent, Table DEF JInv, Current
  <1>9. OneHasTurn' /\ FirstSearch' /\ Searched' /\ AlwaysSomebody'
    BY <1>1, <1>5, <1>8 DEF JInv, Line, OneHasTurn, FirstSearch, Searched, AlwaysSomebody
  <1> QED BY <1>5, <1>6, <1>7, <1>9 DEF Line

LEMMA SameLine ==
  ASSUME JInv, InTask, UNCHANGED <<tasks, numTasks, ppid, taskState, currentTask, pc>>
  PROVE  Line'
  BY DEF JInv, InTask, Line, Chain, OnlyLastDies, OneHasTurn, FirstSearch, Searched, AlwaysSomebody,
     Listed, Index, Current

LEMMA WaitInLine ==
  ASSUME JInv, UInv', InTask, NEW w \in Children(cpu), NEW nohang \in BOOLEAN, WaitFor(w, nohang),
         UNCHANGED <<pidCounter, priority, passedQuantums, ppid>>
  PROVE  /\ Line' /\ Listed' = Listed
         /\ waitedByPid' = [waitedByPid EXCEPT ![w] = Current]
         /\ taskState[w] # "TERMINATED"
         /\ \A p \in Pids : taskState'[p] = IF ~nohang /\ p = Current THEN "WAITING" ELSE taskState[p]
  <1>1. /\ currentTask \in Index /\ Current \in Listed /\ Current \in Pids /\ cpu = Current
        /\ taskState[Current] = "RUNNING" /\ pc = "user" /\ Current = tasks[currentTask]
    BY CallerIsCurrent DEF JInv
  <1>2. /\ Undisturbed /\ waitedByPid' = [waitedByPid EXCEPT ![w] = Current]
        /\ taskState[w] # "TERMINATED" /\ tasks' = tasks
    BY DEF WaitFor, RecordWaiter, Undisturbed
  <1>3. Listed' = Listed
    BY <1>2, LineUndisturbed
  <1>4. CASE nohang
    <2>1. taskState' = taskState /\ currentTask' = currentTask /\ pc' = pc
      BY <1>1, <1>2, <1>4 DEF WaitFor, ScheduleIfWaiting
    <2> QED BY <1>2, <1>3, <1>4, <2>1, SameLine DEF Undisturbed
  <1>5. CASE ~nohang
    <2> DEFINE st == [taskState EXCEPT ![Current] = "WAITING"]
    <2>1. ScheduleIfWaiting(st)
      BY <1>5 DEF WaitFor
    <2>2. st \in [Objects -> TaskStates]
          /\ \A p \in Pids : st[p] = IF p = Current THEN "WAITING" ELSE taskState[p]
      BY <1>1, Table DEF TaskStates, JInv
    <2>3. \/ st = taskState
          \/ InTask /\ \E s \in {"TERMINATED", "WAITING"} : st = [taskState EXCEPT ![Current] = s]
      OBVIOUS
    <2> HIDE DEF st
    <2>4. EnterSchedule(st)
      BY <1>1, <1>2, <2>1, <2>2 DEF ScheduleIfWaiting
    <2>5. \A p \in Pids : taskState'[p] = st[p]
      BY <1>1, <1>2, <2>2, <2>3, <2>4, EnterScheduleOwns DEF JInv, UInv
    <2>6. \A k \in Index : /\ st[tasks[k]] # "STOPPED"
                           /\ st[tasks[k]] = "TERMINATED" => k = numTasks - 1 /\ k > 0
      <3> SUFFICES ASSUME NEW k \in Index
                   PROVE  /\ st[tasks[k]] # "STOPPED"
                          /\ st[tasks[k]] = "TERMINATED" => k = numTasks - 1 /\ k > 0
        OBVIOUS
      <3>1. tasks[k] \in Pids
        BY Table DEF JInv
      <3> QED BY <2>2, <3>1 DEF JInv, Line, OnlyLastDies
    <2>7. \A p \in Listed : st[p] = "RUNNING" => currentTask >= 0 /\ p = Current
      BY <1>1, <2>2, Table DEF JInv, Line, OneHasTurn
    <2>8. ~(currentTask < 0)
      BY <1>1, Table DEF JInv
    <2>9. Line'
      BY <1>1, <1>2, <2>2, <2>4, <2>5, <2>6, <2>7, <2>8, EnterInLine
    <2> QED BY <1>2, <1>3, <1>5, <2>2, <2>5, <2>9
  <1> QED BY <1>4, <1>5

-----------------------------------------------------------------------------
(* The life of processes, as Processes tells it.                           *)

\* Nothing that Processes speaks of has changed.
LEMMA LifeGoesOn ==
  ASSUME UNCHANGED <<pidCounter, ppid, waitedByPid>>, Listed' = Listed,
         \A p \in Pids : taskState'[p] = taskState[p]
  PROVE  UNCHANGED Abstract!procs
  <1>1. \A p \in Pids : LifeOf(p)' = LifeOf(p)
    BY DEF LifeOf
  <1> QED BY <1>1 DEF Abstract!procs

LEMMA LivesOfListed ==
  ASSUME UInv
  PROVE  /\ \A p \in Listed : LifeOf(p) = taskState[p]
         /\ \A p \in Pids : p \notin Listed => LifeOf(p) \in {"unborn", "gone"}
  <1>1. \A p \in Listed : ~(p >= pidCounter)
    BY Table
  <1> QED BY <1>1 DEF LifeOf

LEMMA ExitOfLife ==
  ASSUME JInv, Exit, UInv'
  PROVE  Abstract!PExit(Current)
  <1>1. /\ taskState[Current] = "RUNNING" /\ Current \in Pids
        /\ \A p \in Pids : taskState'[p] = IF p = Current THEN "TERMINATED" ELSE taskState[p]
    BY ExitOwns DEF JInv, UInv
  <1>2. Current \in Listed
    BY CallerIsCurrent DEF JInv, Exit
  <1>3. UNCHANGED <<pidCounter, ppid, waitedByPid>> /\ Listed' = Listed
    BY DEF Exit, waits, Listed, Index
  <1>4. LifeOf(Current) = "RUNNING"
    BY <1>1, <1>2, LivesOfListed DEF JInv
  <1>5. \A p \in Pids : LifeOf(p)' = IF p = Current THEN "TERMINATED" ELSE LifeOf(p)
    <2>1. ~(Current >= pidCounter)
      BY <1>2, Table DEF JInv
    <2> QED BY <1>1, <1>2, <1>3, <2>1 DEF LifeOf
  <1> QED BY <1>1, <1>3, <1>4, <1>5 DEF Abstract!PExit

LEMMA DispatchOfLife ==
  ASSUME JInv, Dispatch, UInv'
  PROVE  Abstract!PDispatch(Current) \/ UNCHANGED Abstract!procs
  <1>1. /\ Listed' = Listed /\ pidCounter' = pidCounter /\ UNCHANGED <<ppid, waitedByPid>>
        /\ Current \in Listed /\ Current \in Pids /\ taskState[Current] \in {"READY", "RUNNING"}
        /\ \A p \in Pids : taskState'[p] = IF p = Current THEN "RUNNING"
                                           ELSE IF p = tasks[startedWith] THEN AfterTurn(taskState[p])
                                           ELSE taskState[p]
        /\ \A p \in Listed : taskState[p] = "RUNNING" => p = tasks[startedWith]
    BY DispatchInLine
  <1>2. CASE taskState[Current] = "RUNNING"
    <2>1. \A p \in Listed : taskState'[p] = taskState[p]
      BY <1>1, <1>2, Table DEF AfterTurn, JInv
    <2>2. \A p \in Pids : LifeOf(p)' = LifeOf(p)
      BY <1>1, <2>1 DEF LifeOf
    <2> QED BY <1>1, <2>2 DEF Abstract!procs
  <1>3. CASE taskState[Current] = "READY"
    <2>1. LifeOf(Current) = "READY"
      BY <1>1, <1>3, LivesOfListed DEF JInv
    <2>2. \A p \in Listed : taskState'[p] = IF p = Current THEN "RUNNING"
                                            ELSE IF taskState[p] = "RUNNING" THEN "READY" ELSE taskState[p]
      BY <1>1, Table DEF AfterTurn, JInv
    <2>3. \A p \in Pids : LifeOf(p)' = IF p = Current THEN "RUNNING"
                                       ELSE IF LifeOf(p) = "RUNNING" THEN "READY" ELSE LifeOf(p)
      <3> SUFFICES ASSUME NEW p \in Pids
                   PROVE  LifeOf(p)' = IF p = Current THEN "RUNNING"
                                       ELSE IF LifeOf(p) = "RUNNING" THEN "READY" ELSE LifeOf(p)
        OBVIOUS
      <3>1. CASE p \in Listed
        <4>1. LifeOf(p) = taskState[p] /\ LifeOf(p)' = taskState'[p]
          BY <1>1, <3>1, Table DEF LifeOf, JInv
        <4> QED BY <2>2, <3>1, <4>1
      <3>2. CASE p \notin Listed
        <4>1. LifeOf(p)' = LifeOf(p)
          BY <1>1, <3>2 DEF LifeOf
        <4> QED BY <1>1, <3>2, <4>1, LivesOfListed DEF JInv
      <3> QED BY <3>1, <3>2
    <2> QED BY <1>1, <2>1, <2>3 DEF Abstract!PDispatch
  <1> QED BY <1>1, <1>2, <1>3

LEMMA ForkOfLife ==
  ASSUME JInv, Fork, UInv'
  PROVE  pidCounter \in Pids /\ Current \in Pids /\ Abstract!PFork(Current, pidCounter)
  <1>1. /\ Listed' = Listed \cup {pidCounter} /\ pidCounter \in Pids /\ pidCounter' = pidCounter + 1
        /\ tasks'[currentTask'] = Current /\ taskState' = [taskState EXCEPT ![pidCounter] = "READY"]
    BY ForkAppends DEF JInv
  <1>2. /\ Current \in Listed /\ Current \in Pids /\ taskState[Current] = "RUNNING"
    BY CallerIsCurrent DEF JInv, Fork
  <1>3. ppid' = [ppid EXCEPT ![pidCounter] = Current] /\ waitedByPid' = waitedByPid
    BY <1>1 DEF Fork
  <1>4. LifeOf(Current) = "RUNNING" /\ LifeOf(pidCounter) = "unborn"
    <2>1. pidCounter >= pidCounter
      BY Table DEF JInv
    <2> QED BY <1>2, <2>1, LivesOfListed DEF JInv, LifeOf
  <1>5. \A p \in Pids : LifeOf(p)' = IF p = pidCounter THEN "READY" ELSE LifeOf(p)
    <2> SUFFICES ASSUME NEW p \in Pids PROVE LifeOf(p)' = IF p = pidCounter THEN "READY" ELSE LifeOf(p)
      OBVIOUS
    <2>1. taskState'[p] = IF p = pidCounter THEN "READY" ELSE taskState[p]
      BY <1>1, Table DEF JInv
    <2>2. /\ p \in Int /\ pidCounter \in Int
          /\ (p >= pidCounter + 1) <=> (p >= pidCounter /\ p # pidCounter)
      BY Table DEF JInv
    <2> QED BY <1>1, <2>1, <2>2 DEF LifeOf
  <1> QED BY <1>1, <1>2, <1>3, <1>4, <1>5 DEF Abstract!PFork

LEMMA ReapOfLife ==
  ASSUME JInv, UInv', InTask, NEW w \in Children(cpu), ReapNow(w),
         UNCHANGED <<pidCounter, priority, passedQuantums, ppid>>
  PROVE  Abstract!PReap(Current, w)
  <1>1. taskState' = taskState /\ Listed' = Listed \ {w} /\ waitedByPid' = waitedByPid
        /\ taskState[w] = "TERMINATED"
    BY ReapNowOwns, ReapInLine DEF JInv, UInv, ReapNow
  <1>2. Current \in Listed /\ Current \in Pids /\ cpu = Current /\ taskState[Current] = "RUNNING"
    BY CallerIsCurrent DEF JInv
  <1>3. w \in Listed /\ w \in Pids /\ ppid[w] = Current /\ ~(w >= pidCounter)
    BY <1>2, Table DEF Children, JInv
  <1>4. LifeOf(Current) = "RUNNING" /\ LifeOf(w) = "TERMINATED"
    BY <1>1, <1>2, <1>3, LivesOfListed DEF JInv
  <1>5. \A p \in Pids : LifeOf(p)' = IF p = w THEN "gone" ELSE LifeOf(p)
    BY <1>1, <1>3 DEF LifeOf
  <1> QED BY <1>1, <1>2, <1>3, <1>4, <1>5 DEF Abstract!PReap

LEMMA WaitOfLife ==
  ASSUME JInv, UInv', InTask, NEW w \in Children(cpu), NEW nohang \in BOOLEAN, WaitFor(w, nohang),
         UNCHANGED <<pidCounter, priority, passedQuantums, ppid>>
  PROVE  Abstract!PWait(Current, w, nohang)
  <1>1. /\ Listed' = Listed /\ waitedByPid' = [waitedByPid EXCEPT ![w] = Current]
        /\ taskState[w] # "TERMINATED"
        /\ \A p \in Pids : taskState'[p] = IF ~nohang /\ p = Current THEN "WAITING" ELSE taskState[p]
    BY WaitInLine
  <1>2. Current \in Listed /\ Current \in Pids /\ cpu = Current /\ taskState[Current] = "RUNNING"
        /\ ~(Current >= pidCounter) /\ Current # 0
    BY CallerIsCurrent, Table DEF JInv
  <1>3. w \in Listed /\ w \in Pids /\ ppid[w] = Current
    BY <1>2, Table DEF Children, JInv
  <1>4. LifeOf(Current) = "RUNNING" /\ LifeOf(w) \in {"READY", "RUNNING", "WAITING"}
    <2>1. PICK k \in Index : w = tasks[k]
      BY <1>3 DEF Listed
    <2>2. taskState[w] # "STOPPED" /\ taskState[w] \in TaskStates
      BY <1>3, <2>1, Table DEF JInv, Line, OnlyLastDies
    <2> QED BY <1>1, <1>2, <1>3, <2>2, LivesOfListed DEF JInv, TaskStates
  <1>5. {c \in Pids : waitedByPid'[c] # 0} = {c \in Pids : waitedByPid[c] # 0} \cup {w}
    <2>1. waitedByPid \in [Pids -> Pids \cup {0}]
      BY DEF JInv, UInv, IInv, TypeOK
    <2> QED BY <1>1, <1>2, <1>3, <2>1
  <1>6. \A p \in Pids : LifeOf(p)' = IF ~nohang /\ p = Current THEN "WAITING" ELSE LifeOf(p)
    BY <1>1, <1>2 DEF LifeOf
  <1>7. CASE nohang
    <2>1. [p \in Pids |-> LifeOf(p)]' = [p \in Pids |-> LifeOf(p)]
      BY <1>6, <1>7
    <2> QED BY <1>2, <1>3, <1>4, <1>5, <1>7, <2>1 DEF Abstract!PWait
  <1>8. CASE ~nohang
    <2>1. [p \in Pids |-> LifeOf(p)]' = [[p \in Pids |-> LifeOf(p)] EXCEPT ![Current] = "WAITING"]
      BY <1>2, <1>6, <1>8
    <2> QED BY <1>2, <1>3, <1>4, <1>5, <1>8, <2>1 DEF Abstract!PWait
  <1> QED BY <1>7, <1>8

LEMMA CollectOfLife ==
  ASSUME JInv, UInv', Examine, Reapable(Current)
  PROVE  Current \in Pids /\ Abstract!PCollect(Current)
  <1>1. /\ UNCHANGED <<pidCounter, ppid, waitedByPid>>
        /\ Current \in Listed /\ Current \in Pids /\ taskState[Current] = "TERMINATED"
        /\ Listed' = Listed \ {Current} /\ waitedByPid[Current] = ppid[Current]
        /\ ppid[Current] \in Listed /\ ppid[Current] # Current
        /\ \A p \in Pids : taskState'[p] = IF p = ppid[Current] /\ taskState[p] = "WAITING" THEN "READY"
                                           ELSE taskState[p]
    BY CollectInLine
  <1>2. ppid[Current] # 0 /\ ~(Current >= pidCounter) /\ ~(ppid[Current] >= pidCounter)
    BY <1>1, Table DEF JInv
  <1>3. LifeOf(Current) = "TERMINATED" /\ LifeOf(ppid[Current]) = taskState[ppid[Current]]
    BY <1>1, LivesOfListed DEF JInv
  <1>4. \A p \in Pids : LifeOf(p)' = IF p = Current THEN "gone"
                                     ELSE IF p = ppid[Current] /\ LifeOf(p) = "WAITING" THEN "READY"
                                     ELSE LifeOf(p)
    <2> SUFFICES ASSUME NEW p \in Pids
                 PROVE  LifeOf(p)' = IF p = Current THEN "gone"
                                     ELSE IF p = ppid[Current] /\ LifeOf(p) = "WAITING" THEN "READY"
                                     ELSE LifeOf(p)
      OBVIOUS
    <2>1. CASE p = Current
      BY <1>1, <1>2, <2>1 DEF LifeOf
    <2>2. CASE p = ppid[Current]
      <3>1. LifeOf(p)' = taskState'[p]
        BY <1>1, <1>2, <2>2 DEF LifeOf
      <3> QED BY <1>1, <1>3, <2>2, <3>1
    <2>3. CASE p # Current /\ p # ppid[Current]
      BY <1>1, <2>3 DEF LifeOf
    <2> QED BY <2>1, <2>2, <2>3
  <1> QED BY <1>1, <1>2, <1>3, <1>4 DEF Abstract!PCollect

LEMMA JInitially ==
  ASSUME Init
  PROVE  JInv /\ Abstract!PInit
  <1>1. UInv
    BY UInitially
  <1>2. /\ Index = {0} /\ Listed = {1} /\ numTasks = 1 /\ tasks[0] = 1 /\ 0 \in Slots
        /\ taskState[1] = "READY" /\ currentTask = -1 /\ pc = "user" /\ pidCounter = 2
        /\ Pids \subseteq Nat \ {0}
    BY ConstantsAssumption DEF Init, Index, Listed, Slots, Pids, Objects
  <1>3. Line
    BY <1>2 DEF Line, Chain, OnlyLastDies, OneHasTurn, FirstSearch, Searched, AlwaysSomebody
  <1>4. \A p \in Pids : LifeOf(p) = IF p = 1 THEN "READY" ELSE "unborn"
    BY <1>2 DEF LifeOf
  <1>5. {c \in Pids : waitedByPid[c] # 0} = {}
    BY DEF Init
  <1> QED BY <1>1, <1>3, <1>4, <1>5 DEF JInv, Abstract!PInit, Init

\* What each step of fork-join programs owes: the invariant, nobody woken but by the death
\* awaited, and a step of the life of processes or none.
Owed == Line' /\ WakesByDeath /\ (Abstract!PNext \/ UNCHANGED Abstract!procs)

\* A step that changes no task's state and lets none of them come or go.
LEMMA QuietOwes ==
  ASSUME UNCHANGED <<pidCounter, ppid, waitedByPid>>, Listed' = Listed,
         \A p \in Pids : taskState'[p] = taskState[p], Line'
  PROVE  Owed
  BY LifeGoesOn DEF Owed, WakesByDeath

LEMMA JStays ==
  ASSUME JInv, ForkJoinNext
  PROVE  JInv' /\ Owed
  <1>1. UInv'
    <2>1. UnixNext
      BY DEF ForkJoinNext, UnixNext
    <2> QED BY <2>1, UStays DEF JInv
  <1> SUFFICES Owed
    BY <1>1 DEF Owed, JInv
  <1>2. CASE Tick
    <2>1. UNCHANGED <<pidCounter, ppid, waitedByPid>> /\ Listed' = Listed
      BY <1>2 DEF Tick, waits, Listed, Index
    <2>2. \A p \in Pids : taskState'[p] = taskState[p]
      BY <1>1, <1>2, TickOwns DEF JInv, UInv
    <2>3. Line'
      BY <1>1, <1>2, TickInLine
    <2> QED BY <2>1, <2>2, <2>3, QuietOwes
  <1>3. CASE Advance
    <2>1. UNCHANGED <<pidCounter, ppid, waitedByPid, taskState>> /\ Listed' = Listed
      BY <1>3 DEF Advance, waits, Listed, Index
    <2>2. Line'
      BY <1>1, <1>3, AdvanceInLine
    <2> QED BY <2>1, <2>2, QuietOwes
  <1>4. CASE Skip
    BY <1>4, NeverSkips DEF JInv
  <1>5. CASE Examine /\ Reapable(Current)
    <2>1. Line' /\ WakesByDeath
      BY <1>1, <1>5, CollectInLine
    <2>2. Current \in Pids /\ Abstract!PCollect(Current)
      BY <1>1, <1>5, CollectOfLife
    <2>3. Abstract!PNext
      BY <2>2 DEF Abstract!PNext
    <2> QED BY <2>1, <2>3 DEF Owed
  <1>6. CASE Examine /\ ~Reapable(Current)
    <2>1. UNCHANGED <<pidCounter, ppid, waitedByPid>> /\ Listed' = Listed
      BY <1>6 DEF Examine, Listed, Index
    <2>2. Line' /\ taskState' = taskState
      BY <1>1, <1>6, ExamineInLine
    <2> QED BY <2>1, <2>2, QuietOwes
  <1>7. CASE Dispatch
    <2>1. Line' /\ Current \in Pids
      BY <1>1, <1>7, DispatchInLine
    <2>2. WakesByDeath
      BY <1>1, <1>7, DispatchOwns DEF JInv, UInv, WakesByDeath
    <2>3. Abstract!PNext \/ UNCHANGED Abstract!procs
      BY <1>1, <1>7, <2>1, DispatchOfLife DEF Abstract!PNext
    <2> QED BY <2>1, <2>2, <2>3 DEF Owed
  <1>8. CASE cpu # 1 /\ Children(cpu) = {} /\ Exit
    <2>1. Line'
      BY <1>1, <1>8, ExitInLine
    <2>2. Current \in Pids
          /\ \A p \in Pids : taskState'[p] = IF p = Current THEN "TERMINATED" ELSE taskState[p]
      BY <1>1, <1>8, ExitOwns DEF JInv, UInv
    <2>3. WakesByDeath
      BY <2>2 DEF WakesByDeath
    <2>4. Abstract!PNext
      BY <1>1, <1>8, <2>2, ExitOfLife DEF Abstract!PNext
    <2> QED BY <2>1, <2>3, <2>4 DEF Owed
  <1>9. CASE Children(cpu) = {} /\ Fork
    <2>1. Line'
      BY <1>1, <1>9, ForkInLine
    <2>2. WakesByDeath
      BY <1>1, <1>9, ForkOwns DEF JInv, UInv, WakesByDeath
    <2>3. Abstract!PNext
      BY <1>1, <1>9, ForkOfLife DEF Abstract!PNext
    <2> QED BY <2>1, <2>2, <2>3 DEF Owed
  <1>10. CASE WaitOwnChild
    <2>1. PICK w \in Children(cpu), nohang \in BOOLEAN : Waitpid(w, nohang)
      BY <1>10 DEF WaitOwnChild
    <2>2. /\ InTask /\ UNCHANGED <<pidCounter, priority, passedQuantums, ppid>>
          /\ ReapNow(w) \/ WaitFor(w, nohang)
      BY <2>1 DEF Waitpid
    <2>3. w \in Pids /\ Current \in Pids
      BY <2>2, CallerIsCurrent, Table DEF JInv, Children
    <2>4. CASE ReapNow(w)
      <3>1. Line' /\ taskState' = taskState
        BY <1>1, <2>2, <2>4, ReapInLine, ReapNowOwns DEF JInv, UInv
      <3>2. Abstract!PNext
        BY <1>1, <2>2, <2>3, <2>4, ReapOfLife DEF Abstract!PNext
      <3> QED BY <3>1, <3>2 DEF Owed, WakesByDeath
    <2>5. CASE WaitFor(w, nohang)
      <3>1. Line' /\ \A p \in Pids : taskState'[p] = IF ~nohang /\ p = Current THEN "WAITING" ELSE taskState[p]
        BY <1>1, <2>2, <2>5, WaitInLine
      <3>2. Abstract!PNext
        BY <1>1, <2>2, <2>3, <2>5, WaitOfLife DEF Abstract!PNext
      <3> QED BY <3>1, <3>2 DEF Owed, WakesByDeath
    <2> QED BY <2>2, <2>4, <2>5
  <1>11. CASE WaitNobody
    <2>1. InTask /\ UNCHANGED <<tasks, numTasks, pidCounter, ppid, waitedByPid>> /\ ScheduleIfWaiting(taskState)
      BY <1>11 DEF WaitNobody, waits
    <2>2. taskState[Current] = "RUNNING" /\ Current = tasks[currentTask]
      BY <2>1, CallerIsCurrent DEF JInv
    <2>3. UNCHANGED <<taskState, currentTask, pc>> /\ Listed' = Listed
      BY <2>1, <2>2 DEF ScheduleIfWaiting, Listed, Index
    <2> QED BY <2>1, <2>3, SameLine, QuietOwes
  <1>12. CASE Execve \/ ForkFails
    <2>1. InTask /\ UNCHANGED <<tasks, numTasks, pidCounter, ppid, waitedByPid, taskState, currentTask, pc>>
      BY <1>12 DEF Execve, ForkFails, vars, manager, waits
    <2>2. Listed' = Listed
      BY <2>1 DEF Listed, Index
    <2> QED BY <2>1, <2>2, SameLine, QuietOwes
  <1> QED BY <1>2, <1>3, <1>4, <1>5, <1>6, <1>7, <1>8, <1>9, <1>10, <1>11, <1>12
          DEF ForkJoinNext, System, Kernel

LEMMA JStutters ==
  ASSUME JInv, UNCHANGED vars
  PROVE  JInv' /\ UNCHANGED Abstract!procs
  <1>1. UInv'
    BY UStutters DEF JInv
  <1>2. Line'
    BY DEF JInv, vars, manager, waits, locals, Line, Chain, OnlyLastDies, OneHasTurn, FirstSearch,
       Searched, PassedBy, Reapable, AlwaysSomebody, Listed, Index, Current
  <1>3. Listed' = Listed /\ UNCHANGED <<pidCounter, ppid, waitedByPid, taskState>>
    BY DEF vars, manager, waits, Listed, Index
  <1> QED BY <1>1, <1>2, <1>3, LifeGoesOn DEF JInv

\* The line of descent, the turn and the progress of the search keep the shape JInv gives
\* them, for every table and whatever order fork-join programs call in.
THEOREM ForkJoinInvariance == ForkJoin => []JInv
  <1>1. Init => JInv
    BY JInitially
  <1>2. JInv /\ [ForkJoinNext]_vars => JInv'
    BY JStays, JStutters
  <1> QED BY <1>1, <1>2, PTL DEF ForkJoin

\* The scheduler always finds a task: a search that comes back to the task it started from
\* finds it RUNNING, so "Deadlock" is never reached, and no frame outside a stack is loaded.
THEOREM NeverDeadlocked == ForkJoin => []AlwaysSomebody
  <1>1. JInv => AlwaysSomebody
    BY DEF JInv, Line
  <1> QED BY <1>1, ForkJoinInvariance, PTL

\* A blocked parent is made READY by the death of the very child it waits for.
THEOREM WokenByTheAwaited == ForkJoin => WokenOnlyByAwaited
  <1>1. JInv /\ [ForkJoinNext]_vars =>
          [\A p \in Pids : taskState[p] = "WAITING" /\ taskState'[p] = "READY" =>
             taskState[waitingPid[p]] = "TERMINATED"]_vars
    BY JStays DEF Owed, WakesByDeath
  <1> QED BY <1>1, ForkJoinInvariance, PTL DEF ForkJoin, WokenOnlyByAwaited

\* The table driven by fork-join programs takes only steps of the life of processes: the
\* safety half of ImplementsProcesses (its fairness is left to the model checker).
THEOREM TableLivesProcesses == ForkJoin => Abstract!PInit /\ [][Abstract!PNext]_(Abstract!procs)
  <1>1. Init => Abstract!PInit
    BY JInitially
  <1>2. JInv /\ [ForkJoinNext]_vars => [Abstract!PNext]_(Abstract!procs)
    <2> SUFFICES ASSUME JInv, [ForkJoinNext]_vars PROVE Abstract!PNext \/ UNCHANGED Abstract!procs
      BY DEF Abstract!procs
    <2>1. CASE ForkJoinNext
      BY <2>1, JStays DEF Owed
    <2>2. CASE UNCHANGED vars
      BY <2>2, JStutters
    <2> QED BY <2>1, <2>2
  <1> QED BY <1>1, <1>2, ForkJoinInvariance, PTL DEF ForkJoin

\* At any time at most one task has the turn, in all states of the kernel.
THEOREM NoTwoTurns == ForkJoin => [](\A p, q \in Listed :
                                        taskState[p] = "RUNNING" /\ taskState[q] = "RUNNING" => p = q)
  <1>1. JInv => \A p, q \in Listed : taskState[p] = "RUNNING" /\ taskState[q] = "RUNNING" => p = q
    BY DEF JInv, Line, OneHasTurn
  <1> QED BY <1>1, ForkJoinInvariance, PTL

-----------------------------------------------------------------------------
(* Daemons.                                                                *)

\* Nobody has anything to wait for, and nobody dies.
NobodyRests == \A p \in Listed : taskState[p] \in {"READY", "RUNNING"}

\* The cursor never runs past the end of the table: nothing is ever removed.
CursorListed == numTasks > 0 /\ currentTask < numTasks

\* Outside Schedule the RUNNING task is the one under the cursor; inside, the one whose
\* slot the search started from, which will give up RUNNING when the search ends.
TurnIsCurrents ==
  /\ pc = "user" => \A p \in Listed : taskState[p] = "RUNNING" => currentTask >= 0 /\ p = Current
  /\ pc \in {"advance", "skip", "dispatch"} =>
       \A p \in Listed : taskState[p] = "RUNNING" => p = tasks[startedWith]

\* The inductive invariant of programs that fork, poll, set priorities and never exit.
DInv == IInv /\ NobodyRests /\ CursorListed /\ TurnIsCurrents

LEMMA DTable ==
  ASSUME IInv
  PROVE  /\ MaxTasks \in Nat \ {0} /\ MaxPid \in Nat \ {0} /\ numTasks \in 0 .. MaxTasks
         /\ currentTask \in -1 .. MaxTasks - 1 /\ Index = 0 .. numTasks - 1 /\ Slots = 0 .. MaxTasks - 1
         /\ tasks \in SlotArray /\ priority \in [Pids -> Priority] /\ Priority \subseteq Int
         /\ taskState \in [Objects -> TaskStates] /\ Pids \subseteq Objects
         /\ IdleTask \in Objects /\ IdleTask \notin Pids /\ NoTask \notin Objects
         /\ \A i \in Index : i \in Slots /\ tasks[i] \in Pids /\ tasks[i] \in Listed
         /\ Listed \subseteq Pids /\ \A p \in Listed : \E i \in Index : p = tasks[i]
  <1>1. /\ MaxTasks \in Nat \ {0} /\ MaxPid \in Nat \ {0} /\ numTasks \in 0 .. MaxTasks
        /\ currentTask \in -1 .. MaxTasks - 1 /\ Index = 0 .. numTasks - 1 /\ Slots = 0 .. MaxTasks - 1
        /\ tasks \in SlotArray /\ priority \in [Pids -> Priority] /\ Priority \subseteq Int
        /\ taskState \in [Objects -> TaskStates]
    BY ConstantsAssumption DEF IInv, TypeOK, Index, Slots, SlotArray,
       Priority, HIGHEST, HIGHER, HIGH, MEDIUM, LOW, LOWER, LOWEST
  <1>2. Pids \subseteq Objects /\ IdleTask \in Objects /\ IdleTask \notin Pids /\ NoTask \notin Objects
    BY <1>1 DEF Pids, Objects, IdleTask, NoTask
  <1>3. \A i \in Index : i \in Slots /\ tasks[i] \in Pids
    BY TableFilled DEF IInv
  <1> QED BY <1>1, <1>2, <1>3 DEF Listed

\* The timer finds a task whose turn is not over, or starts a search from its slot.
LEMMA DTickKeeps ==
  ASSUME DInv, Tick
  PROVE  NobodyRests' /\ CursorListed' /\ TurnIsCurrents'
  <1>1. /\ UNCHANGED <<tasks, numTasks>> /\ EnterSchedule(taskState) /\ pc = "user"
        /\ numTasks > 0 /\ currentTask < numTasks
    BY DEF Tick, DInv, CursorListed
  <1>2. Listed' = Listed /\ Index' = Index
    BY <1>1 DEF Listed, Index
  <1>3. \A p \in Listed : taskState[p] = "RUNNING" => currentTask >= 0 /\ p = Current
    BY <1>1 DEF DInv, TurnIsCurrents
  <1>4. \A p \in Listed : p \in Pids /\ p \in Objects /\ p # IdleTask
    BY DTable DEF DInv
  <1> DEFINE saved == Saved(taskState)
  <1> HIDE DEF saved
  <1>5. CASE StayIdle(taskState, saved)
    <2>1. taskState' = [taskState EXCEPT ![IdleTask] = "RUNNING"] /\ pc' = "user" /\ currentTask' = currentTask
      BY <1>5 DEF StayIdle
    <2>2. \A p \in Listed : taskState'[p] = taskState[p]
      BY <1>4, <2>1, DTable DEF DInv
    <2> QED BY <1>1, <1>2, <1>3, <2>1, <2>2 DEF DInv, NobodyRests, CursorListed, TurnIsCurrents, Current
  <1>6. CASE RestartSearch(taskState, saved)
    <2>1. /\ taskState' = [taskState EXCEPT ![IdleTask] = "READY", ![tasks'[currentTask]] = AfterTurn(@)]
          /\ pc' = "advance" /\ currentTask' = -1 /\ currentTask >= 0
      BY <1>6 DEF RestartSearch
    <2>2. currentTask \in Index /\ tasks'[currentTask] = Current
      BY <1>1, <2>1, DTable DEF DInv, Current
    <2>3. Current \in Listed /\ Current \in Objects /\ Current # IdleTask
      BY <1>4, <2>2, DTable DEF DInv, Current
    <2>4. \A p \in Listed : p # Current => taskState'[p] = taskState[p]
      BY <1>4, <2>1, <2>2, <2>3, DTable DEF DInv
    <2>5. taskState'[Current] = AfterTurn(taskState[Current])
      BY <1>4, <2>1, <2>2, <2>3, DTable DEF DInv
    <2>6. taskState'[Current] = "READY"
      BY <2>3, <2>5 DEF DInv, NobodyRests, AfterTurn
    <2>7. \A p \in Listed : taskState'[p] = "READY"
      BY <1>3, <2>4, <2>6 DEF DInv, NobodyRests
    <2>8. numTasks' > 0 /\ currentTask' < numTasks' /\ pc' # "user"
      BY <1>1, <2>1, DTable DEF DInv
    <2> QED BY <1>2, <2>7, <2>8 DEF NobodyRests, CursorListed, TurnIsCurrents
  <1>7. CASE ReturnToInterrupted(taskState, saved)
    <2>1. taskState' = [taskState EXCEPT ![IdleTask] = "READY"] /\ pc' = "user" /\ currentTask' = currentTask
      BY <1>7 DEF ReturnToInterrupted
    <2>2. \A p \in Listed : taskState'[p] = taskState[p]
      BY <1>4, <2>1, DTable DEF DInv
    <2> QED BY <1>1, <1>2, <1>3, <2>1, <2>2 DEF DInv, NobodyRests, CursorListed, TurnIsCurrents, Current
  <1>8. CASE StartSearch(taskState, saved)
    <2>1. /\ taskState' = [taskState EXCEPT ![IdleTask] = "READY"] /\ currentTask' = currentTask
          /\ pc' = LoopHead(tasks', currentTask, taskState')
          /\ startedWith' = IF currentTask < 0 THEN 0 ELSE currentTask
      BY <1>8 DEF StartSearch
    <2>2. \A p \in Listed : taskState'[p] = taskState[p]
      BY <1>4, <2>1, DTable DEF DInv
    <2>3. pc' # "user"
      BY <2>1 DEF LoopHead
    <2>4. \A p \in Listed : taskState'[p] = "RUNNING" => p = tasks'[startedWith']
      BY <1>1, <1>3, <2>1, <2>2, DTable DEF DInv, Current
    <2> QED BY <1>1, <1>2, <2>1, <2>2, <2>3, <2>4 DEF DInv, NobodyRests, CursorListed, TurnIsCurrents
  <1> QED BY <1>1, <1>5, <1>6, <1>7, <1>8 DEF EnterSchedule, saved

\* A turn of the search moves the cursor only.
LEMMA DSearchKeeps ==
  ASSUME DInv, Advance \/ Skip \/ Examine
  PROVE  NobodyRests' /\ CursorListed' /\ TurnIsCurrents'
  <1>1. Examine => ~Reapable(Current)
    <2> SUFFICES ASSUME Examine PROVE ~Reapable(Current)
      OBVIOUS
    <2>1. currentTask \in Index
      BY DEF Examine, DInv, IInv, CursorOnTask
    <2> QED BY <2>1, DTable DEF DInv, Current, NobodyRests, Reapable
  <1>2. UNCHANGED <<tasks, numTasks, taskState, startedWith>>
    BY <1>1 DEF Advance, Skip, Examine, locals
  <1>3. Listed' = Listed
    BY <1>2 DEF Listed, Index
  <1>4. pc \in {"advance", "skip", "dispatch"} /\ pc' # "user"
    BY DEF Advance, Skip, Examine, EndOfTurn, LoopHead
  <1>5. currentTask' < numTasks
    <2>1. CASE Advance
      <3>1. numTasks \in Nat \ {0} /\ currentTask + 1 \in Nat
        BY DTable DEF DInv, CursorListed
      <3>2. (currentTask + 1) % numTasks \in 0 .. numTasks - 1
        BY <3>1, Remainder
      <3> QED BY <2>1, <3>1, <3>2 DEF Advance
    <2>2. CASE Skip
      <3>1. numTasks \in Nat \ {0} /\ currentTask + 1 \in Nat
        BY DTable DEF DInv, CursorListed
      <3>2. (currentTask + 1) % numTasks \in 0 .. numTasks - 1
        BY <3>1, Remainder
      <3> QED BY <2>2, <3>1, <3>2 DEF Skip
    <2>3. CASE Examine
      BY <1>1, <2>3 DEF Examine, DInv, CursorListed
    <2> QED BY <2>1, <2>2, <2>3
  <1> QED BY <1>2, <1>3, <1>4, <1>5 DEF DInv, NobodyRests, CursorListed, TurnIsCurrents

LEMMA DDispatchKeeps ==
  ASSUME DInv, Dispatch
  PROVE  NobodyRests' /\ CursorListed' /\ TurnIsCurrents'
  <1>1. /\ taskState' = [taskState EXCEPT ![tasks[startedWith]] = AfterTurn(@), ![Current] = "RUNNING"]
        /\ UNCHANGED <<tasks, numTasks, currentTask>> /\ pc = "dispatch" /\ currentTask >= 0
    BY DEF Dispatch, manager, DInv, IInv, CursorOnTask
  <1>2. Listed' = Listed /\ Current' = Current
    BY <1>1 DEF Listed, Index, Current
  <1>3. \A p \in Listed : taskState[p] = "RUNNING" => p = tasks[startedWith]
    BY <1>1 DEF DInv, TurnIsCurrents
  <1>4. \A p \in Listed : taskState'[p] = IF p = Current THEN "RUNNING"
                                          ELSE IF p = tasks[startedWith] THEN AfterTurn(taskState[p])
                                          ELSE taskState[p]
    BY <1>1, DTable DEF DInv
  <1>5. \A p \in Listed : /\ taskState'[p] \in {"READY", "RUNNING"}
                          /\ taskState'[p] = "RUNNING" => p = Current
    BY <1>3, <1>4 DEF DInv, NobodyRests, AfterTurn
  <1>6. pc' \in {"user", "fault"}
    BY DEF Dispatch
  <1> QED BY <1>1, <1>2, <1>5, <1>6 DEF DInv, NobodyRests, CursorListed, TurnIsCurrents

\* The new task goes behind its parent, and the cursor stays on the parent.
LEMMA DForkKeeps ==
  ASSUME DInv, Fork
  PROVE  NobodyRests' /\ CursorListed' /\ TurnIsCurrents' /\ Current' = Current
  <1> DEFINE child == pidCounter
             n == numTasks
             appended == [tasks EXCEPT ![n] = child]
  <1>1. /\ InTask /\ n < MaxTasks /\ child \in Pids /\ AddTask(child) /\ pc' = pc
        /\ priority' = [priority EXCEPT ![child] = priority[Current]]
    BY DEF Fork
  <1>2. /\ currentTask >= 0 /\ pc = "user" /\ currentTask < n
    BY <1>1, CallerIsThere, DTable DEF DInv, CursorListed
  <1>3. currentTask \in Index /\ Current \in Pids /\ Current \in Listed
    BY <1>2, DTable DEF DInv, Current
  <1>4. /\ numTasks' = n + 1 /\ taskState' = [taskState EXCEPT ![child] = "READY"]
        /\ currentTask' = IF currentTask > 0 /\ priority'[appended[currentTask]] > priority'[child]
                          THEN currentTask + 1 ELSE currentTask
    BY <1>1 DEF AddTask
  <1>5. PICK stop \in Slots : StopsLeft(appended, priority', n, stop) /\ tasks' = Moved(appended, n, stop)
    BY <1>1 DEF AddTask
  <1>6. n \in 1 .. MaxTasks - 1 /\ n \in Slots
    BY <1>1, DTable DEF DInv, CursorListed
  <1>7. appended[n] = child /\ \A k \in Index : appended[k] = tasks[k]
    BY <1>6, DTable DEF DInv, SlotArray
  <1>8. priority'[child] = priority[Current] /\ priority'[Current] = priority[Current]
        /\ priority[Current] \in Int
    BY <1>1, <1>3, DTable DEF DInv
  <1>9. appended[currentTask] = Current
    BY <1>3, <1>7 DEF Current
  <1> HIDE DEF appended
  <1>10. currentTask' = currentTask
    BY <1>4, <1>8, <1>9
  <1>11. stop \in 0 .. n /\ stop > currentTask
    <2>1. stop \in 0 .. n /\ \A k \in stop .. n - 1 : priority'[appended[k]] > priority'[appended[n]]
      BY <1>5 DEF StopsLeft
    <2>2. ASSUME stop <= currentTask PROVE FALSE
      <3>1. currentTask \in stop .. n - 1
        BY <1>2, <1>6, <2>1, <2>2, DTable DEF DInv
      <3> QED BY <1>7, <1>8, <1>9, <2>1, <3>1
    <2> QED BY <2>1, <2>2, DTable DEF DInv
  <1>12. Current' = Current
    <2>1. currentTask \in Slots /\ currentTask < stop /\ stop <= n
      BY <1>3, <1>6, <1>11, DTable DEF DInv
    <2>2. tasks'[currentTask] = appended[currentTask]
      BY <1>5, <1>6, <1>11, <2>1, DTable DEF DInv, Moved
    <2> QED BY <1>9, <1>10, <2>2 DEF Current
  <1>13. Listed' \subseteq Listed \cup {child}
    <2>1. Index' = 0 .. n
      BY <1>4, <1>6 DEF Index
    <2> SUFFICES ASSUME NEW k \in 0 .. n PROVE tasks'[k] \in Listed \cup {child}
      BY <2>1 DEF Listed
    <2>2. /\ k \in Slots
          /\ tasks'[k] = IF k = stop THEN appended[n]
                         ELSE IF stop < k /\ k <= n THEN appended[k - 1]
                         ELSE IF n <= k /\ k < stop THEN appended[k + 1] ELSE appended[k]
      BY <1>5, <1>6, DTable DEF DInv, Moved
    <2>3. CASE k = stop
      BY <1>7, <2>2, <2>3
    <2>4. CASE k > stop
      <3>1. k - 1 \in Index /\ tasks'[k] = appended[k - 1]
        BY <1>6, <1>11, <2>2, <2>4, DTable DEF DInv
      <3> QED BY <1>7, <3>1, DTable DEF DInv
    <2>5. CASE k < stop
      <3>1. k \in Index /\ tasks'[k] = appended[k]
        BY <1>6, <1>11, <2>2, <2>5, DTable DEF DInv
      <3> QED BY <1>7, <3>1, DTable DEF DInv
    <2> QED BY <1>6, <1>11, <2>3, <2>4, <2>5
  <1>14. \A p \in Listed' : /\ taskState'[p] \in {"READY", "RUNNING"}
                            /\ taskState'[p] = "RUNNING" => p = Current
    <2>1. \A p \in Listed : taskState'[p] = taskState[p] \/ taskState'[p] = "READY"
      BY <1>1, <1>4, DTable DEF DInv
    <2>2. taskState'[child] = "READY"
      BY <1>1, <1>4, DTable DEF DInv
    <2> SUFFICES ASSUME NEW p \in Listed'
                 PROVE  /\ taskState'[p] \in {"READY", "RUNNING"}
                        /\ taskState'[p] = "RUNNING" => p = Current
      OBVIOUS
    <2>4. p \in Listed \/ p = child
      BY <1>13
    <2>5. CASE p \in Listed
      <3>1. taskState[p] \in {"READY", "RUNNING"} /\ (taskState[p] = "RUNNING" => p = Current)
        BY <1>2, <2>5 DEF DInv, NobodyRests, TurnIsCurrents
      <3>2. taskState'[p] = taskState[p] \/ taskState'[p] = "READY"
        BY <2>1, <2>5
      <3> QED BY <3>1, <3>2
    <2>6. CASE p = child
      BY <2>2, <2>6
    <2> QED BY <2>4, <2>5, <2>6
  <1> QED BY <1>1, <1>2, <1>4, <1>6, <1>10, <1>12, <1>14, DTable
          DEF DInv, NobodyRests, CursorListed, TurnIsCurrents

\* A change of priorities moves a task through the table, and the cursor with the caller.
LEMMA DSetPriorityKeeps ==
  ASSUME DInv, NEW w \in Pids, NEW yeni \in UserPriorities, SetPriority(w, yeni)
  PROVE  NobodyRests' /\ CursorListed' /\ TurnIsCurrents' /\ Current' = Current
  <1>1. /\ InTask /\ w \in Listed /\ priority[w] # yeni /\ priority' = [priority EXCEPT ![w] = yeni]
        /\ numTasks' = numTasks /\ taskState' = taskState /\ pc' = pc
    BY DEF SetPriority
  <1>2. /\ currentTask >= 0 /\ pc = "user" /\ currentTask < numTasks
    BY <1>1, CallerIsThere, DTable DEF DInv, CursorListed
  <1>3. /\ currentTask \in Index /\ Current \in Pids /\ Index = 0 .. numTasks - 1
        /\ numTasks \in Nat /\ Index' = Index /\ \A k \in Index : k \in Slots
    BY <1>1, <1>2, DTable DEF DInv, Current, Index
  <1>4. PICK i \in Index, stop \in Slots :
          /\ tasks[i] = w
          /\ IF priority[w] > yeni THEN StopsLeft(tasks, priority', i, stop)
             ELSE StopsRight(tasks, priority', i, numTasks, stop)
          /\ tasks' = Moved(tasks, i, stop)
          /\ currentTask' =
               IF w = Current /\ numTasks > 1 THEN stop
               ELSE IF i > currentTask /\ priority'[Current] > yeni THEN currentTask + 1
               ELSE IF i < currentTask /\ priority'[Current] < yeni THEN currentTask - 1
               ELSE currentTask
    BY DEF SetPriority
  <1>5. stop \in Index
    BY <1>3, <1>4 DEF StopsLeft, StopsRight
  <1>6. \A k \in Index : tasks'[k] =
          IF k = stop THEN tasks[i] ELSE IF stop < k /\ k <= i THEN tasks[k - 1]
          ELSE IF i <= k /\ k < stop THEN tasks[k + 1] ELSE tasks[k]
    BY <1>3, <1>4 DEF Moved
  <1>7. yeni \in Int /\ priority'[w] = yeni /\ \A p \in Pids : /\ priority[p] \in Int
                                                               /\ p # w => priority'[p] = priority[p]
    <2>1. yeni \in Int
      BY ConstantsAssumption, DTable DEF DInv
    <2> QED BY <1>1, <2>1, DTable DEF DInv
  <1>8. /\ \A j, k \in Index : j < k => priority[tasks[j]] <= priority[tasks[k]]
        /\ \A j, k \in Index : tasks[j] = tasks[k] => j = k
        /\ \A k \in Index : tasks[k] \in Pids
    BY DTable DEF DInv, IInv, TableSorted, TableDistinct
  <1>9. tasks'[currentTask'] = Current /\ currentTask' \in Index
    <2>1. Current = tasks[currentTask] /\ i \in Int /\ currentTask \in Int /\ stop \in Int
      BY <1>3, <1>5 DEF Current
    <2>2. CASE w = Current
      <3>1. i = currentTask
        BY <1>3, <1>4, <1>8, <2>1, <2>2
      <3>2. CASE numTasks > 1
        <4>1. currentTask' = stop
          BY <1>4, <2>2, <3>2
        <4> QED BY <1>4, <1>5, <1>6, <2>2, <4>1
      <3>3. CASE ~(numTasks > 1)
        <4>1. currentTask' = currentTask /\ stop = currentTask
          BY <1>2, <1>3, <1>4, <1>5, <2>1, <3>1, <3>3
        <4> QED BY <1>4, <1>5, <1>6, <2>2, <4>1
      <3> QED BY <3>2, <3>3
    <2>3. CASE w # Current
      <3> DEFINE m == priority[Current]
      <3>1. i # currentTask /\ priority'[Current] = m /\ m \in Int /\ priority[w] \in Int
        BY <1>3, <1>4, <1>7, <2>1, <2>3
      <3>2. CASE i > currentTask /\ m > yeni
        <4>1. m <= priority[w]
          BY <1>3, <1>4, <1>8, <2>1, <3>2
        <4>2. StopsLeft(tasks, priority', i, stop)
          BY <1>4, <1>7, <3>1, <3>2, <4>1
        <4>3. stop <= currentTask
          <5> SUFFICES ASSUME stop > currentTask PROVE FALSE
            BY <2>1
          <5>1. /\ stop - 1 \in Index /\ stop - 1 < i /\ currentTask <= stop - 1
                /\ ~(priority'[tasks[i]] < priority'[tasks[stop - 1]])
            BY <1>2, <1>3, <1>5, <2>1, <4>2 DEF StopsLeft
          <5>2. m <= priority[tasks[stop - 1]]
            BY <1>3, <1>7, <1>8, <2>1, <5>1
          <5>3. tasks[stop - 1] # w /\ tasks[stop - 1] \in Pids
            BY <1>4, <1>8, <2>1, <5>1
          <5>4. priority'[tasks[stop - 1]] = priority[tasks[stop - 1]]
                /\ priority[tasks[stop - 1]] \in Int
            BY <1>7, <5>3
          <5> QED BY <1>4, <1>7, <3>1, <3>2, <5>1, <5>2, <5>4
        <4>4. currentTask' = currentTask + 1
          BY <1>4, <2>3, <3>1, <3>2
        <4>5. currentTask + 1 \in Index /\ stop < currentTask + 1 /\ currentTask + 1 <= i
          BY <1>3, <2>1, <3>2, <4>3
        <4>6. tasks'[currentTask + 1] = tasks[(currentTask + 1) - 1]
          BY <1>6, <2>1, <4>5
        <4> QED BY <2>1, <4>4, <4>5, <4>6
      <3>3. CASE i > currentTask /\ ~(m > yeni)
        <4>1. stop > currentTask
          <5>1. CASE StopsLeft(tasks, priority', i, stop)
            <6>1. \A k \in stop .. i - 1 : priority'[tasks[k]] > priority'[tasks[i]]
              BY <5>1 DEF StopsLeft
            <6>2. ~(currentTask \in stop .. i - 1)
              BY <1>4, <1>7, <2>1, <3>1, <3>3, <6>1
            <6> QED BY <2>1, <3>3, <6>2
          <5>2. CASE StopsRight(tasks, priority', i, numTasks, stop)
            BY <1>3, <2>1, <3>3, <5>2 DEF StopsRight
          <5> QED BY <1>4, <5>1, <5>2
        <4>2. currentTask' = currentTask
          BY <1>4, <2>1, <2>3, <3>1, <3>3
        <4>3. tasks'[currentTask] = tasks[currentTask]
          BY <1>3, <1>6, <2>1, <3>3, <4>1
        <4> QED BY <1>3, <2>1, <4>2, <4>3
      <3>4. CASE i < currentTask /\ m < yeni
        <4>1. priority[w] <= m
          BY <1>3, <1>4, <1>8, <2>1, <3>4
        <4>2. StopsRight(tasks, priority', i, numTasks, stop)
          BY <1>4, <1>7, <3>1, <3>4, <4>1
        <4>3. stop >= currentTask
          <5> SUFFICES ASSUME stop < currentTask PROVE FALSE
            BY <2>1
          <5>1. /\ stop + 1 \in Index /\ i < stop + 1 /\ stop + 1 <= currentTask
                /\ ~(priority'[tasks[i]] > priority'[tasks[stop + 1]])
            BY <1>2, <1>3, <1>5, <2>1, <4>2 DEF StopsRight
          <5>2. priority[tasks[stop + 1]] <= m
            BY <1>3, <1>7, <1>8, <2>1, <5>1
          <5>3. tasks[stop + 1] # w /\ tasks[stop + 1] \in Pids
            BY <1>4, <1>8, <2>1, <5>1
          <5>4. priority'[tasks[stop + 1]] = priority[tasks[stop + 1]]
                /\ priority[tasks[stop + 1]] \in Int
            BY <1>7, <5>3
          <5> QED BY <1>4, <1>7, <3>1, <3>4, <5>1, <5>2, <5>4
        <4>4. currentTask' = currentTask - 1
          BY <1>4, <2>1, <2>3, <3>1, <3>4
        <4>5. currentTask - 1 \in Index /\ i <= currentTask - 1 /\ currentTask - 1 < stop
          BY <1>3, <2>1, <3>4, <4>3
        <4>6. tasks'[currentTask - 1] = tasks[(currentTask - 1) + 1]
          BY <1>6, <2>1, <4>5
        <4> QED BY <2>1, <4>4, <4>5, <4>6
      <3>5. CASE i < currentTask /\ ~(m < yeni)
        <4>1. stop < currentTask
          <5>1. CASE StopsRight(tasks, priority', i, numTasks, stop)
            <6>1. \A k \in i + 1 .. stop : priority'[tasks[i]] > priority'[tasks[k]]
              BY <5>1 DEF StopsRight
            <6>2. ~(currentTask \in i + 1 .. stop)
              BY <1>4, <1>7, <2>1, <3>1, <3>5, <6>1
            <6> QED BY <2>1, <3>5, <6>2
          <5>2. CASE StopsLeft(tasks, priority', i, stop)
            BY <1>3, <2>1, <3>5, <5>2 DEF StopsLeft
          <5> QED BY <1>4, <5>1, <5>2
        <4>2. currentTask' = currentTask
          BY <1>4, <2>1, <2>3, <3>1, <3>5
        <4>3. tasks'[currentTask] = tasks[currentTask]
          BY <1>3, <1>6, <2>1, <3>5, <4>1
        <4> QED BY <1>3, <2>1, <4>2, <4>3
      <3> QED BY <2>1, <3>1, <3>2, <3>3, <3>4, <3>5
    <2> QED BY <2>2, <2>3
  <1>10. Current' = Current /\ currentTask' >= 0 /\ currentTask' < numTasks'
    BY <1>1, <1>3, <1>9 DEF Current
  <1>11. Listed' \subseteq Listed
    <2> SUFFICES ASSUME NEW k \in Index PROVE tasks'[k] \in Listed
      BY <1>3 DEF Listed
    <2>1. \E j \in Index : tasks'[k] = tasks[j]
      <3>1. i \in Int /\ stop \in Int /\ k \in Int
        BY <1>3, <1>5
      <3>2. k = stop => tasks'[k] = tasks[i]
        BY <1>6
      <3>3. stop < k /\ k <= i => tasks'[k] = tasks[k - 1] /\ k - 1 \in Index
        BY <1>3, <1>5, <1>6, <3>1
      <3>4. i <= k /\ k < stop => tasks'[k] = tasks[k + 1] /\ k + 1 \in Index
        BY <1>3, <1>5, <1>6, <3>1
      <3>5. k # stop /\ ~(stop < k /\ k <= i) /\ ~(i <= k /\ k < stop) => tasks'[k] = tasks[k]
        BY <1>6
      <3> QED BY <3>2, <3>3, <3>4, <3>5
    <2> QED BY <2>1 DEF Listed
  <1> QED BY <1>1, <1>2, <1>10, <1>11 DEF DInv, NobodyRests, CursorListed, TurnIsCurrents

\* Nobody has terminated and the caller does not wait: a poll leaves its record and no more.
LEMMA DPollKeeps ==
  ASSUME DInv, Poll
  PROVE  NobodyRests' /\ CursorListed' /\ TurnIsCurrents' /\ Current' = Current
  <1>1. PICK c \in Children(cpu) : Waitpid(c, TRUE)
    BY DEF Poll
  <1>2. InTask /\ c \in Listed /\ (ReapNow(c) \/ WaitFor(c, TRUE))
    BY <1>1 DEF Waitpid
  <1>3. taskState[c] # "TERMINATED"
    BY <1>2 DEF DInv, NobodyRests
  <1>4. tasks' = tasks /\ numTasks' = numTasks /\ ScheduleIfWaiting(taskState)
    BY <1>2, <1>3 DEF ReapNow, WaitFor
  <1>5. currentTask >= 0
    BY <1>2, CallerIsThere, DTable DEF DInv
  <1>6. Current \in Listed
    BY <1>5, DTable DEF DInv, CursorListed, Current
  <1>7. taskState[Current] # "WAITING"
    BY <1>6 DEF DInv, NobodyRests
  <1>8. taskState' = taskState /\ currentTask' = currentTask /\ locals' = locals /\ pc' = pc
    BY <1>4, <1>7 DEF ScheduleIfWaiting, Current, locals
  <1>9. startedWith' = startedWith
    BY <1>8 DEF locals
  <1> QED BY <1>4, <1>8, <1>9 DEF DInv, NobodyRests, CursorListed, TurnIsCurrents, Listed,
       Index, Current

LEMMA DInitially ==
  ASSUME Init
  PROVE  DInv
  <1>1. IInv
    BY InitIInv
  <1>2. Index = {0} /\ Listed = {1}
    BY ConstantsAssumption DEF Init, Index, Listed, Slots
  <1>3. taskState[1] = "READY" /\ numTasks = 1 /\ currentTask = -1 /\ pc = "user"
    BY ConstantsAssumption DEF Init, Objects, Pids
  <1> QED BY <1>1, <1>2, <1>3 DEF DInv, NobodyRests, CursorListed, TurnIsCurrents

LEMMA DStays ==
  ASSUME DInv, [DaemonsNext]_vars
  PROVE  DInv'
  <1>1. [Next]_vars
    <2>1. Poll => \E w \in Pids, nohang \in BOOLEAN : Waitpid(w, nohang)
      <3>1. Listed \subseteq Pids
        BY DTable DEF DInv
      <3> QED BY <3>1 DEF Poll, Children
    <2> QED BY <2>1 DEF DaemonsNext, System, Reprioritise, Next
  <1>2. IInv'
    BY <1>1, NextKeeps DEF DInv
  <1> DEFINE Kept == NobodyRests' /\ CursorListed' /\ TurnIsCurrents'
  <1> SUFFICES Kept
    BY <1>2 DEF DInv
  <1>3. CASE Tick
    BY <1>3, DTickKeeps
  <1>4. CASE Kernel
    BY <1>4, DSearchKeeps, DDispatchKeeps DEF Kernel
  <1>5. CASE Fork
    BY <1>5, DForkKeeps
  <1>6. CASE Reprioritise
    BY <1>6, DSetPriorityKeeps DEF Reprioritise
  <1>7. CASE ForkFails \/ UNCHANGED vars
    <2>1. UNCHANGED vars
      BY <1>7 DEF ForkFails
    <2> QED BY <2>1 DEF DInv, vars, manager, locals, NobodyRests, CursorListed, TurnIsCurrents,
         Listed, Index, Current
  <1>8. CASE Poll
    BY <1>8, DPollKeeps
  <1> HIDE DEF Kept
  <1> QED BY <1>3, <1>4, <1>5, <1>6, <1>7, <1>8 DEF DaemonsNext, System

\* Table, cursor and task states of programs that never exit keep the shape of DInv, for
\* every sequence of forks, polls and changes of priority.
THEOREM DaemonsInvariance == Daemons => []DInv
  BY DInitially, DStays, PTL DEF Daemons

\* No task that is not the current one stays RUNNING: each gives up the CPU as READY when its
\* turn ends, even when a fork or a change of priorities has moved it in the table meanwhile.
THEOREM OneTaskRuns == Daemons => []OneRunning
  <1>1. DInv => OneRunning
    BY DEF DInv, TurnIsCurrents, OneRunning
  <1> QED BY <1>1, DaemonsInvariance, PTL

\* Wherever a fork or a change of priorities moves tasks in the table, the cursor follows the
\* caller: the kernel still takes it, and nobody else, for the task that made the call; a poll
\* does not move it either.
THEOREM CallersStayCurrent ==
  Daemons => [][Fork \/ Poll \/ Reprioritise => Current' = Current]_vars
  <1> DEFINE Stays == Fork \/ Poll \/ Reprioritise => Current' = Current
  <1>1. DInv /\ [DaemonsNext]_vars => [Stays]_vars
    BY DForkKeeps, DPollKeeps, DSetPriorityKeeps DEF Reprioritise
  <1> QED BY <1>1, DaemonsInvariance, PTL DEF Daemons

=============================================================================
