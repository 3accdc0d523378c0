---------------------------- MODULE TaskManager ----------------------------
(***************************************************************************)
(* The process table and the scheduler of the kernel                       *)
(* (src/multitasking.cpp, include/multitasking.h), driven by the timer     *)
(* interrupt and by int 0x80 (src/syscalls.cpp).                           *)
(*                                                                         *)
(* The kernel is single-CPU and runs its handlers with interrupts masked,  *)
(* so a handler is one action, with one exception: the search loop of      *)
(* Schedule need not terminate, and each turn of it is an action.          *)
(*                                                                         *)
(* Task objects are identified by their pid (pids are never reused); the   *)
(* idle task, which is never in the table, is object 0.  A saved CPUState  *)
(* pointer is abstracted to the object on whose stack the frame lies.      *)
(***************************************************************************)
EXTENDS Integers, FiniteSets

CONSTANTS
  MaxTasks,        \* slots of tasks[] (256 in the source)
  MaxPid,          \* bound: the pids handed out before fork is not tried again
  IDLE,            \* timer ticks given to the idle task between two decisions
  UserPriorities,  \* bound: the priorities programs pass to setpriority
  UninitQuantums   \* bound: what the uninitialised passedQuantums may hold

HIGHEST == 1
HIGHER  == 2
HIGH    == 3
MEDIUM  == 6
LOW     == 12
LOWER   == 18
LOWEST  == 30
Priority == {HIGHEST, HIGHER, HIGH, MEDIUM, LOW, LOWER, LOWEST}
QUANTUM == 6

\* passedQuantums is compared with priority / QUANTUM <= 5 only, and counted up
\* only below it, so every larger garbage value behaves as 5.
Quantums == 0 .. 5

ASSUME ConstantsAssumption ==
  /\ MaxTasks \in Nat \ {0}
  /\ MaxPid \in Nat \ {0}
  /\ IDLE \in Nat \ {0, 1}
  /\ UserPriorities \subseteq Priority
  /\ UninitQuantums \subseteq Quantums

Slots    == 0 .. MaxTasks - 1
Pids     == 1 .. MaxPid
IdleTask == 0
Objects  == Pids \cup {IdleTask}
NoTask   == -1                       \* a slot of tasks[] never written
Boot     == -1                       \* the context of kernelMain's own loop
Garbage  == -2                       \* a CPUState pointer outside any task's stack
Contexts == Objects \cup {Boot, Garbage}
TaskStates == {"READY", "RUNNING", "WAITING", "STOPPED", "TERMINATED"}

VARIABLES
  tasks, numTasks, currentTask, pidCounter, prioritiesUpdated,  \* TaskManager
  taskState, priority, passedQuantums, ppid,                    \* Task fields
  waitingPid, waitedByPid, cpustate,
  idleTime, ticks,                                  \* function-static counters
  startedWith, startedWithPid, tamTurAtildi,        \* locals of Schedule
  pc,                                               \* where the kernel is
  cpu                                               \* the context on the CPU

manager  == <<tasks, numTasks, currentTask, pidCounter, prioritiesUpdated>>
waits    == <<ppid, waitingPid, waitedByPid>>
locals   == <<startedWith, startedWithPid, tamTurAtildi>>
vars     == <<manager, taskState, priority, passedQuantums, waits, cpustate,
              idleTime, ticks, locals, pc, cpu>>

Index   == 0 .. numTasks - 1
Listed  == {tasks[i] : i \in Index}             \* getTaskByPid finds exactly these
Current == tasks[currentTask]

TypeOK ==
  /\ tasks \in [Slots -> Pids \cup {NoTask}]
  /\ numTasks \in 0 .. MaxTasks
  /\ currentTask \in -1 .. MaxTasks - 1
  /\ pidCounter \in 2 .. MaxPid + 1
  /\ prioritiesUpdated \in BOOLEAN
  /\ taskState \in [Objects -> TaskStates]
  /\ priority \in [Pids -> Priority]
  /\ passedQuantums \in [Pids -> Quantums]
  /\ ppid \in [Pids -> Pids \cup {0}]
  /\ waitingPid \in [Pids -> Pids \cup {0}]
  /\ waitedByPid \in [Pids -> Pids \cup {0}]
  /\ cpustate \in [Objects -> Contexts]
  /\ idleTime \in 0 .. IDLE - 1
  /\ ticks \in 1 .. QUANTUM
  /\ startedWith \in Slots
  /\ startedWithPid \in Pids \cup {0}
  /\ tamTurAtildi \in BOOLEAN
  /\ pc \in {"user", "advance", "skip", "dispatch", "deadlock", "fault"}
  /\ cpu \in Contexts

(***************************************************************************)
(* kernelMain: one task (init3) is created and added; then interrupts are  *)
(* enabled and the boot context spins until the first timer tick.          *)
(***************************************************************************)
Init ==
  /\ tasks = [i \in Slots |-> IF i = 0 THEN 1 ELSE NoTask]
  /\ numTasks = 1
  /\ currentTask = -1
  /\ pidCounter = 2
  /\ prioritiesUpdated = FALSE
  /\ taskState = [t \in Objects |-> IF t \in {IdleTask, 1} THEN "READY" ELSE "STOPPED"]
  /\ priority = [p \in Pids |-> MEDIUM]
  /\ passedQuantums = [p \in Pids |-> 0]
  /\ ppid = [p \in Pids |-> 0]
  /\ waitingPid = [p \in Pids |-> 0]
  /\ waitedByPid = [p \in Pids |-> 0]
  /\ cpustate = [t \in Objects |-> t]
  /\ idleTime = 0
  /\ ticks = QUANTUM
  /\ startedWith = 0
  /\ startedWithPid = 0
  /\ tamTurAtildi = FALSE
  /\ pc = "user"
  /\ cpu = Boot

-----------------------------------------------------------------------------
(* The table: tasks[] with the swap loops and the left shift over it.      *)

\* The element at slot i after it has been swapped, neighbour by neighbour, to slot j.
Moved(a, i, j) ==
  [k \in Slots |-> IF k = j THEN a[i]
                   ELSE IF j < k /\ k <= i THEN a[k - 1]
                   ELSE IF i <= k /\ k < j THEN a[k + 1]
                   ELSE a[k]]

\* Where the swap loop that moves slot i to the left stops, under priorities pr.
StopsLeft(a, pr, i, stop) ==
  /\ stop \in 0 .. i
  /\ ~(stop > 0 /\ pr[a[i]] < pr[a[stop - 1]])
  /\ \A k \in stop .. i - 1 : pr[a[k]] > pr[a[i]]

\* Faulty variant: the loop to the right stops one slot short of the end.
StopsRightShort(a, pr, i, n, stop) ==
  /\ stop \in i .. n - 1
  /\ ~(stop < n - 2 /\ pr[a[i]] > pr[a[stop + 1]])
  /\ \A k \in i + 1 .. stop : pr[a[i]] > pr[a[k]]

\* Where the swap loop that moves slot i to the right stops among the first n slots.
StopsRight(a, pr, i, n, stop) ==
  /\ stop \in i .. n - 1
  /\ ~(stop < n - 1 /\ pr[a[i]] > pr[a[stop + 1]])
  /\ \A k \in i + 1 .. stop : pr[a[i]] > pr[a[k]]

\* Faulty variant: the shift without numTasks--.
RemoveWithoutCount(i) ==
  /\ tasks' = [k \in Slots |-> IF i <= k /\ k < numTasks - 1 THEN tasks[k + 1] ELSE tasks[k]]
  /\ UNCHANGED numTasks

\* RemoveTask of the task at slot i: the last slot keeps its old pointer.
RemoveAt(i) ==
  /\ tasks' = [k \in Slots |-> IF i <= k /\ k < numTasks - 1 THEN tasks[k + 1] ELSE tasks[k]]
  /\ numTasks' = numTasks - 1

\* AddTask of the new object p, whose priority is already set in priority'.
AddTask(p) ==
  LET appended == [tasks EXCEPT ![numTasks] = p]
  IN  /\ numTasks' = numTasks + 1
      /\ pidCounter' = pidCounter + 1
      /\ taskState' = [taskState EXCEPT ![p] = "READY"]
      /\ currentTask' =
           IF currentTask > 0 /\ priority'[appended[currentTask]] > priority'[p]
           THEN currentTask + 1 ELSE currentTask
      /\ \E stop \in Slots :
           /\ StopsLeft(appended, priority', numTasks, stop)
           /\ tasks' = Moved(appended, numTasks, stop)
           /\ prioritiesUpdated' = (prioritiesUpdated \/ stop < numTasks)

-----------------------------------------------------------------------------
(* Schedule.  Each operator below reads tasks' and numTasks', which the    *)
(* calling handler has fixed, and st, the task states it leaves behind.    *)

\* Faulty variants: no first turn for currentTask = -1; a RUNNING task passes for READY.
LoopHeadWithoutStart(ts, cur, st) ==
  IF cur # -1 /\ st[ts[cur]] # "READY" THEN "advance" ELSE "dispatch"
LoopHeadKeepsRunning(ts, cur, st) ==
  IF cur = -1 \/ st[ts[cur]] \notin {"READY", "RUNNING"} THEN "advance" ELSE "dispatch"

\* The condition of the search loop, and where the kernel goes on it.
LoopHead(ts, cur, st) ==
  IF cur = -1 \/ st[ts[cur]] # "READY" THEN "advance" ELSE "dispatch"

\* Faulty variants: every frame saved as the current task's, or as the idle task's.
SavedAsCurrent(st) ==
  IF currentTask >= 0 THEN [cpustate EXCEPT ![tasks'[currentTask]] = cpu] ELSE cpustate
SavedAsIdle(st) == [cpustate EXCEPT ![IdleTask] = cpu]

\* The interrupted frame is saved as the idle task's, else as the current task's.
Saved(st) ==
  IF st[IdleTask] = "RUNNING" THEN [cpustate EXCEPT ![IdleTask] = cpu]
  ELSE IF currentTask >= 0 THEN [cpustate EXCEPT ![tasks'[currentTask]] = cpu]
  ELSE cpustate

\* Faulty variants: the state is not looked at, or not changed.
AlwaysReady(state)  == "READY"
StaysRunning(state) == state

\* What becomes of the task whose turn is over.
AfterTurn(state) == IF state = "RUNNING" THEN "READY" ELSE state

\* The idle task keeps (or gets) the CPU for this tick.
StayIdle(st, saved) ==
  /\ (idleTime + 1) % IDLE # 0
  /\ idleTime' = idleTime + 1
  /\ taskState' = [st EXCEPT ![IdleTask] = "RUNNING"]
  /\ cpustate' = saved
  /\ cpu' = saved[IdleTask]
  /\ pc' = "user"
  /\ UNCHANGED <<currentTask, prioritiesUpdated, ticks, locals>>

\* Priorities changed: the search restarts from the front of the table.
RestartSearch(st, saved) ==
  /\ currentTask >= 0 /\ prioritiesUpdated
  /\ prioritiesUpdated' = FALSE
  /\ currentTask' = -1
  /\ ticks' = QUANTUM
  /\ taskState' = [st EXCEPT ![IdleTask] = "READY",
                             ![tasks'[currentTask]] = AfterTurn(@)]
  /\ startedWith' = 0
  /\ startedWithPid' = 0
  /\ tamTurAtildi' = FALSE
  /\ pc' = "advance"
  /\ cpustate' = saved
  /\ UNCHANGED cpu

\* Faulty variant: >= for >.
QuantumLeftOrZero(st) ==
  /\ currentTask >= 0
  /\ ticks - priority[tasks'[currentTask]] >= 0
  /\ st[tasks'[currentTask]] = "RUNNING"

\* The quantum of a RUNNING current task is not used up: `return cpustate`.
QuantumLeft(st) ==
  /\ currentTask >= 0
  /\ ticks - priority[tasks'[currentTask]] > 0
  /\ st[tasks'[currentTask]] = "RUNNING"

ReturnToInterrupted(st, saved) ==
  /\ ~(currentTask >= 0 /\ prioritiesUpdated)
  /\ QuantumLeft(st)
  /\ ticks' = ticks - priority[tasks'[currentTask]]
  /\ taskState' = [st EXCEPT ![IdleTask] = "READY"]
  /\ cpustate' = saved
  /\ pc' = "user"
  /\ UNCHANGED <<currentTask, prioritiesUpdated, locals, cpu>>

StartSearch(st, saved) ==
  /\ ~(currentTask >= 0 /\ prioritiesUpdated)
  /\ ~QuantumLeft(st)
  /\ ticks' = QUANTUM
  /\ startedWith' = IF currentTask < 0 THEN 0 ELSE currentTask
  /\ startedWithPid' = IF currentTask < 0 THEN 0 ELSE tasks'[currentTask]
  /\ tamTurAtildi' = FALSE
  /\ taskState' = [st EXCEPT ![IdleTask] = "READY"]
  /\ pc' = LoopHead(tasks', currentTask, taskState')
  /\ cpustate' = saved
  /\ UNCHANGED <<currentTask, prioritiesUpdated, cpu>>

\* Schedule up to its search loop.
EnterSchedule(st) ==
  \/ /\ numTasks' = 0
     /\ taskState' = st
     /\ UNCHANGED <<currentTask, prioritiesUpdated, cpustate, idleTime, ticks, locals, pc, cpu>>
  \/ /\ numTasks' > 0
     /\ LET saved == Saved(st)
        IN  \/ StayIdle(st, saved)
            \/ /\ (idleTime + 1) % IDLE = 0
               /\ idleTime' = 0
               /\ \/ RestartSearch(st, saved)
                  \/ ReturnToInterrupted(st, saved)
                  \/ StartSearch(st, saved)

\* The timer interrupt: InterruptManager calls Schedule on the interrupted context.
Tick ==
  /\ pc = "user"
  /\ UNCHANGED <<tasks, numTasks, pidCounter, priority, passedQuantums, waits>>
  /\ EnterSchedule(taskState)

\* One turn of the search loop: the step to the next slot, a division by zero
\* when the table has become empty.
Advance ==
  /\ pc = "advance"
  /\ IF currentTask + 1 < numTasks
     THEN /\ currentTask' = currentTask + 1
          /\ pc' = "skip"
          /\ UNCHANGED tamTurAtildi
     ELSE /\ tamTurAtildi' = TRUE
          /\ IF numTasks = 0 THEN pc' = "fault" /\ UNCHANGED currentTask
             ELSE pc' = "skip" /\ currentTask' = (currentTask + 1) % numTasks
  /\ UNCHANGED <<tasks, numTasks, pidCounter, prioritiesUpdated, taskState, priority,
                 passedQuantums, waits, cpustate, idleTime, ticks, startedWith,
                 startedWithPid, cpu>>

\* A low-priority task is passed over until it has been passed priority / QUANTUM times.
PassedOver ==
  /\ priority[Current] # MEDIUM
  /\ passedQuantums[Current] < priority[Current] \div QUANTUM

Skip ==
  /\ pc = "skip"
  /\ PassedOver
  /\ passedQuantums' = [passedQuantums EXCEPT ![Current] = @ + 1]
  /\ currentTask' = IF currentTask + 1 < numTasks THEN currentTask + 1
                    ELSE (currentTask + 1) % numTasks
  /\ UNCHANGED <<tasks, numTasks, pidCounter, prioritiesUpdated, taskState, priority, waits,
                 cpustate, idleTime, ticks, locals, pc, cpu>>

\* Faulty variant: no deadlock detection.
EndOfTurnUnbounded(ts, cur, st) == pc' = LoopHead(ts, cur, st)

\* The end of a turn at slot cur: a full turn back to the task the search started
\* with ends it, else the loop condition is tested again.  Slot -1 (the first task
\* was removed) is read out of bounds: what lies there may pass for the task the
\* search started with, in any state.
EndOfTurn(ts, cur, st) ==
  \/ /\ cur # -1 /\ ts[cur] = startedWithPid /\ tamTurAtildi
     /\ pc' = IF st[ts[cur]] = "RUNNING" THEN "dispatch" ELSE "deadlock"
  \/ /\ ~(cur # -1 /\ ts[cur] = startedWithPid /\ tamTurAtildi)
     /\ pc' = LoopHead(ts, cur, st)
  \/ /\ cur = -1 /\ tamTurAtildi
     /\ pc' \in {"deadlock", "fault"}

\* Faulty variants: the task's state is not tested; a WAITING waiter is not served.
ReapableAlive(p)   == waitedByPid[p] \in Listed
ReapableByReady(p) ==
  taskState[p] = "TERMINATED" /\ \E w \in Listed : w = waitedByPid[p] /\ taskState[w] = "READY"

\* The task under the cursor: a terminated one whose waiter is in the table is
\* removed, and the waiter woken when it is WAITING.
Reapable(p) == taskState[p] = "TERMINATED" /\ waitedByPid[p] \in Listed

Examine ==
  /\ pc = "skip"
  /\ ~PassedOver
  /\ passedQuantums' = [passedQuantums EXCEPT ![Current] = 0]
  /\ IF Reapable(Current)
     THEN LET waiter == waitedByPid[Current]
          IN  /\ IF taskState[waiter] = "WAITING"
                 THEN /\ taskState' = [taskState EXCEPT ![waiter] = "READY"]
                      /\ waitingPid' = [waitingPid EXCEPT ![waiter] = 0]
                 ELSE UNCHANGED <<taskState, waitingPid>>
              /\ RemoveAt(currentTask)
              /\ currentTask' = currentTask - 1
     ELSE UNCHANGED <<taskState, waitingPid, tasks, numTasks, currentTask>>
  /\ EndOfTurn(tasks', currentTask', taskState')
  /\ UNCHANGED <<pidCounter, prioritiesUpdated, priority, ppid, waitedByPid, cpustate,
                 idleTime, ticks, locals, cpu>>

\* The locals of Schedule are kept at their start values while it is not running.
LocalsUnused == startedWith' = 0 /\ startedWithPid' = 0 /\ tamTurAtildi' = FALSE

\* After the loop: the task now in the slot the search started at gives up RUNNING.
Dispatch ==
  /\ pc = "dispatch"
  /\ taskState' = [taskState EXCEPT
                     ![tasks[startedWith]] = AfterTurn(@),
                     ![Current] = "RUNNING"]
  /\ cpu' = cpustate[Current]
  /\ pc' = IF cpustate[Current] = Garbage THEN "fault" ELSE "user"
  /\ LocalsUnused
  /\ UNCHANGED <<manager, priority, passedQuantums, waits, cpustate, idleTime, ticks>>

-----------------------------------------------------------------------------
(* System calls.  Only code of a task issues them; the kernel takes the    *)
(* caller to be tasks[currentTask].                                        *)

InTask == pc = "user" /\ cpu \in Pids

Exit ==
  /\ InTask
  /\ UNCHANGED <<tasks, numTasks, pidCounter, priority, passedQuantums, waits>>
  /\ EnterSchedule([taskState EXCEPT ![Current] = "TERMINATED"])

\* A full table: forkTask returns -1 and nothing else changes.
ForkFails ==
  /\ InTask
  /\ numTasks >= MaxTasks
  /\ UNCHANGED vars

Fork ==
  /\ InTask
  /\ numTasks < MaxTasks
  /\ pidCounter \in Pids
  /\ LET child == pidCounter
     IN  /\ priority' = [priority EXCEPT ![child] = priority[Current]]
         /\ \E garbage \in UninitQuantums :
              passedQuantums' = [passedQuantums EXCEPT ![child] = garbage]
         /\ AddTask(child)
         /\ ppid' = [ppid EXCEPT ![child] = tasks'[currentTask']]
         \* the frame lands on the child's stack only if it was on the parent's, and
         \* holds anything only if the stack copied is the parent's
         /\ cpustate' = [cpustate EXCEPT ![child] =
                           IF cpu = Current /\ tasks'[currentTask'] = Current
                           THEN child ELSE Garbage]
  /\ UNCHANGED <<waitingPid, waitedByPid, idleTime, ticks, locals, pc, cpu>>

\* After waitpid the handler runs Schedule if the task that is now current is WAITING.
ScheduleIfWaiting(st) ==
  IF st[tasks'[currentTask]] = "WAITING" THEN EnterSchedule(st)
  ELSE /\ taskState' = st
       /\ UNCHANGED <<currentTask, prioritiesUpdated, cpustate, idleTime, ticks, locals, pc, cpu>>

\* waitpid of a terminated task: it is removed, currentTask keeps its value.
ReapNow(w) ==
  /\ taskState[w] = "TERMINATED"
  /\ \E i \in Index : tasks[i] = w /\ RemoveAt(i)
  /\ UNCHANGED <<waitingPid, waitedByPid>>
  /\ ScheduleIfWaiting(taskState)

\* Faulty variant: the two tasks exchanged.
RecordSwapped(w) == waitedByPid' = [waitedByPid EXCEPT ![Current] = w]

\* The task waited for remembers its (last) waiter.
RecordWaiter(w) == waitedByPid' = [waitedByPid EXCEPT ![w] = Current]

\* waitpid of a live task; without WNOHANG the caller blocks.
WaitFor(w, nohang) ==
  /\ taskState[w] # "TERMINATED"
  /\ RecordWaiter(w)
  /\ UNCHANGED <<tasks, numTasks>>
  /\ IF nohang
     THEN UNCHANGED waitingPid /\ ScheduleIfWaiting(taskState)
     ELSE /\ waitingPid' = [waitingPid EXCEPT ![Current] = w]
          /\ ScheduleIfWaiting([taskState EXCEPT ![Current] = "WAITING"])

Waitpid(w, nohang) ==
  /\ InTask
  /\ w \in Listed
  /\ ReapNow(w) \/ WaitFor(w, nohang)
  /\ UNCHANGED <<pidCounter, priority, passedQuantums, ppid>>

\* waitpid of a pid that is not in the table, or with options it refuses.  pid_t is
\* unsigned: -1 passes for a pid nobody has, and the branch "match any" is dead.
WaitNobody ==
  /\ InTask
  /\ UNCHANGED <<tasks, numTasks, pidCounter, priority, passedQuantums, waits>>
  /\ ScheduleIfWaiting(taskState)

\* setpriority of a pid that is not listed, or to the same priority, changes nothing.
SetPriority(w, yeni) ==
  /\ InTask
  /\ w \in Listed
  /\ priority[w] # yeni
  /\ priority' = [priority EXCEPT ![w] = yeni]
  /\ passedQuantums' = [passedQuantums EXCEPT ![w] = 0]
  /\ prioritiesUpdated' = TRUE
  /\ \E i \in Index, stop \in Slots :
       /\ tasks[i] = w
       /\ IF priority[w] > yeni THEN StopsLeft(tasks, priority', i, stop)
          ELSE StopsRight(tasks, priority', i, numTasks, stop)
       /\ tasks' = Moved(tasks, i, stop)
       /\ currentTask' =
            IF w = Current /\ numTasks > 1 THEN stop
            ELSE IF i > currentTask /\ priority'[Current] > yeni THEN currentTask + 1
            ELSE IF i < currentTask /\ priority'[Current] < yeni THEN currentTask - 1
            ELSE currentTask
  /\ UNCHANGED <<numTasks, pidCounter, taskState, waits, cpustate, idleTime, ticks, locals,
                 pc, cpu>>

\* execve: the kernel's current task restarts at the top of its own stack.
Execve ==
  /\ InTask
  /\ cpustate' = [cpustate EXCEPT ![Current] = Current]
  /\ cpu' = Current
  /\ UNCHANGED <<manager, taskState, priority, passedQuantums, waits, idleTime, ticks, locals, pc>>

-----------------------------------------------------------------------------
Kernel == Advance \/ Skip \/ Examine \/ Dispatch

Next ==
  \/ Tick
  \/ Kernel
  \/ Exit
  \/ Fork
  \/ ForkFails
  \/ \E w \in Pids, nohang \in BOOLEAN : Waitpid(w, nohang)
  \/ WaitNobody
  \/ \E w \in Pids, yeni \in UserPriorities : SetPriority(w, yeni)
  \/ Execve

Spec == Init /\ [][Next]_vars

-----------------------------------------------------------------------------
(* What holds of the table and of the idle task whatever programs do.      *)

\* The table is in ascending order of the Priority values: the appends, the swap
\* loops of AddTask and ChangePriority and the shift of RemoveTask keep it so, and
\* the search after a change of priorities (from slot 0) relies on it.
TableSorted ==
  \A i, j \in Index : i < j => priority[tasks[i]] <= priority[tasks[j]]

\* No task is listed twice, and no listed task has a pid still to be handed out:
\* getTaskByPid, RemoveTask and the search find the one task they mean.
TableDistinct ==
  /\ \A i, j \in Index : tasks[i] = tasks[j] => i = j
  /\ \A i \in Index : tasks[i] \in 1 .. pidCounter - 1

\* The idle task is RUNNING exactly between two decisions of the scheduler, its code
\* is then on the CPU, and no task's frame is ever saved as the idle task's.
IdleDiscipline ==
  /\ cpustate[IdleTask] = IdleTask
  /\ taskState[IdleTask] = "RUNNING" <=> idleTime # 0
  /\ taskState[IdleTask] = "RUNNING" => pc = "user" /\ cpu = IdleTask

\* The cursor currentTask stays on a slot that holds a task or, past the end of a table
\* that waitpid has shortened, the pointer of one it held; it is inside the table while
\* the search examines it, and on no slot only before the first task has ever run.
\* getCurrentTask() of a system call is then never a wild pointer.
CursorOnTask ==
  /\ \A k \in 0 .. currentTask : tasks[k] \in Pids
  /\ pc = "skip" => currentTask \in Index
  /\ pc = "dispatch" => currentTask >= 0
  /\ pc = "user" /\ currentTask < 0 => cpu \in {Boot, IdleTask}

\* A task leaves the table only as a zombie: RemoveTask is reached from the search
\* and from waitpid only.
OnlyTerminatedLeave ==
  [][\A p \in Listed : p \in Listed' \/ taskState[p] = "TERMINATED"]_vars

=============================================================================
