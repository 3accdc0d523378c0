------------------------------ MODULE Programs ------------------------------
(***************************************************************************)
(* The process table driven by programs of a known kind.  TaskManager lets *)
(* a program issue any system call at any time; what the scheduler owes a  *)
(* program depends on how all of them use the calls.                       *)
(*                                                                         *)
(*   Unix         programs wait for their own children or poll them with   *)
(*                WNOHANG, and may leave zombies behind (init1, init2 and  *)
(*                testChildOfChild in src/kernel.cpp); nobody changes a    *)
(*                priority;                                                *)
(*   Supervisors  as Unix, and parents set their children's priorities     *)
(*                (init3);                                                 *)
(*   ForkJoin     as Unix, but a program has one child at a time, does not *)
(*                exit over it, and the first task never exits (taskA);    *)
(*   Daemons      programs fork, poll their children, set priorities and   *)
(*                never exit (init, whose children go into taskB's loop).  *)
(***************************************************************************)
EXTENDS TaskManager

System == Tick \/ Kernel

\* User code runs with interrupts enabled (eflags 0x202), so the timer always comes
\* again; a handler that has not returned goes on.  Programs need not do anything.
Fairness == WF_vars(Tick) /\ WF_vars(Kernel)

Children(p) == {c \in Listed : ppid[c] = p}

WaitOwnChild == \E c \in Children(cpu), nohang \in BOOLEAN : Waitpid(c, nohang)

UnixNext == System \/ Exit \/ Fork \/ ForkFails \/ WaitOwnChild \/ WaitNobody \/ Execve
Unix     == Init /\ [][UnixNext]_vars /\ Fairness

SetChildPriority == \E c \in Children(cpu), yeni \in UserPriorities : SetPriority(c, yeni)

SupervisorsNext == UnixNext \/ SetChildPriority
Supervisors     == Init /\ [][SupervisorsNext]_vars /\ Fairness

ForkJoinNext ==
  \/ System
  \/ cpu # 1 /\ Children(cpu) = {} /\ Exit
  \/ Children(cpu) = {} /\ (Fork \/ ForkFails)
  \/ WaitOwnChild
  \/ WaitNobody
  \/ Execve
ForkJoin == Init /\ [][ForkJoinNext]_vars /\ Fairness

Reprioritise == \E w \in Pids, yeni \in UserPriorities : SetPriority(w, yeni)

Poll == \E c \in Children(cpu) : Waitpid(c, TRUE)

DaemonsNext == System \/ Fork \/ ForkFails \/ Poll \/ Reprioritise
Daemons     == Init /\ [][DaemonsNext]_vars /\ Fairness

-----------------------------------------------------------------------------
Live(p) == p \in Listed /\ taskState[p] # "TERMINATED"

\* User code of a task runs only while the kernel holds that task for its current and
\* RUNNING one, and the frame a live task will resume from is its own: Schedule never
\* saves one task's (or the idle task's) registers as another's.
RunsOwnContext ==
  pc = "user" =>
    /\ cpu \in Pids => cpu = Current /\ taskState[cpu] = "RUNNING"
    /\ \A p \in Pids : Live(p) => cpustate[p] = p

\* A task that is not the current one does not stay RUNNING: Schedule makes the
\* previous task READY, or it could never be chosen again.
OneRunning == pc = "user" => \A p \in Listed : taskState[p] = "RUNNING" => p = Current

\* A blocked parent is on record with the child it waits for, and that child is still in
\* the table: neither the search nor another waitpid removes it behind its back.
WaiterIsRecorded ==
  \A p \in Listed : taskState[p] = "WAITING" =>
    waitingPid[p] \in Listed /\ waitedByPid[waitingPid[p]] = p

\* A terminated task never becomes READY, RUNNING or WAITING again.
ZombiesStayDead ==
  [][\A p \in Pids : taskState[p] = "TERMINATED" => taskState'[p] = "TERMINATED"]_vars

\* A blocked parent is made READY only by the death of the child it waits for.
WokenOnlyByAwaited ==
  [][\A p \in Pids : taskState[p] = "WAITING" /\ taskState'[p] = "READY" =>
       taskState[waitingPid[p]] = "TERMINATED"]_vars

\* The scheduler always finds a task: no "Deadlock", no frame outside a stack.
AlwaysSomebody == pc \notin {"deadlock", "fault"}

\* The search loop of Schedule terminates, with a task or with "Deadlock".
SearchEnds == pc \in {"advance", "skip", "dispatch"} ~> pc \in {"user", "deadlock", "fault"}

\* Every READY task gets the CPU.
EveryReadyTaskRuns ==
  \A p \in Pids : (p \in Listed /\ taskState[p] = "READY") ~> cpu = p

\* A parent blocked on a child that has terminated is woken.
WokenByChild ==
  \A p \in Pids, c \in Pids :
    (waitingPid[p] = c /\ taskState[c] = "TERMINATED") ~> taskState[p] # "WAITING"

\* When programs stop changing priorities (each change restarts the search at the front
\* of the table), every READY task gets the CPU, the low ones after being passed over.
FairWhenSettled == <>[][~Reprioritise]_vars => EveryReadyTaskRuns

-----------------------------------------------------------------------------
(* Processes, the abstract machine, in the terms of the table.             *)

LifeOf(p) == IF p >= pidCounter THEN "unborn"
             ELSE IF p \in Listed THEN taskState[p] ELSE "gone"

Abstract == INSTANCE Processes WITH
  Pid     <- Pids,
  state   <- [p \in Pids |-> LifeOf(p)],
  parent  <- ppid,
  awaited <- {c \in Pids : waitedByPid[c] # 0}

\* The table driven by fork-join programs implements the life of processes: at most one
\* RUNNING, each zombie collected once and by its parent, each READY one dispatched.
ImplementsProcesses == Abstract!PSpec

=============================================================================
