----------------------------- MODULE Processes -----------------------------
(***************************************************************************)
(* What the process table promises to programs, without the table: the     *)
(* life of a process from fork to the collection of its exit status        *)
(* (design.txt and the comments over exit, fork and waitpid in             *)
(* src/syscalls.cpp, as the code of src/multitasking.cpp carries them out  *)
(* for fork-join programs; Programs.tla shows that it does).               *)
(***************************************************************************)
EXTENDS Integers

CONSTANT Pid                 \* the pids the system will ever hand out

VARIABLES
  state,                     \* where in its life each process is
  parent,                    \* who forked it (0: nobody)
  awaited                    \* the pids somebody has called waitpid on
procs == <<state, parent, awaited>>

Life == {"unborn", "READY", "RUNNING", "WAITING", "TERMINATED", "gone"}

LifeOK ==
  /\ state \in [Pid -> Life]
  /\ parent \in [Pid -> Pid \cup {0}]
  /\ awaited \subseteq Pid

PInit ==
  /\ state = [p \in Pid |-> IF p = 1 THEN "READY" ELSE "unborn"]
  /\ parent = [p \in Pid |-> 0]
  /\ awaited = {}

\* A process calls fork: the child is READY, the parent goes on.
PFork(p, c) ==
  /\ state[p] = "RUNNING" /\ state[c] = "unborn"
  /\ state' = [state EXCEPT ![c] = "READY"]
  /\ parent' = [parent EXCEPT ![c] = p]
  /\ UNCHANGED awaited

\* Exit marks the process; what is left of it waits to be collected.
PExit(p) ==
  /\ state[p] = "RUNNING"
  /\ state' = [state EXCEPT ![p] = "TERMINATED"]
  /\ UNCHANGED <<parent, awaited>>

\* waitpid on a living child, without (blocking) and with WNOHANG.
PWait(p, c, nohang) ==
  /\ state[p] = "RUNNING" /\ parent[c] = p
  /\ state[c] \in {"READY", "RUNNING", "WAITING"}
  /\ awaited' = awaited \cup {c}
  /\ state' = IF nohang THEN state ELSE [state EXCEPT ![p] = "WAITING"]
  /\ UNCHANGED parent

\* waitpid on a dead child returns at once.
PReap(p, c) ==
  /\ state[p] = "RUNNING" /\ parent[c] = p /\ state[c] = "TERMINATED"
  /\ state' = [state EXCEPT ![c] = "gone"]
  /\ UNCHANGED <<parent, awaited>>

\* The scheduler collects an awaited zombie and wakes its parent if it blocks.
PCollect(c) ==
  /\ c \in awaited /\ state[c] = "TERMINATED"
  /\ state' = [q \in Pid |-> IF q = c THEN "gone"
                             ELSE IF q = parent[c] /\ state[q] = "WAITING" THEN "READY"
                             ELSE state[q]]
  /\ UNCHANGED <<parent, awaited>>

\* The scheduler gives p the turn; whoever had it is READY again.
PDispatch(p) ==
  /\ state[p] = "READY"
  /\ state' = [q \in Pid |-> IF q = p THEN "RUNNING"
                             ELSE IF state[q] = "RUNNING" THEN "READY"
                             ELSE state[q]]
  /\ UNCHANGED <<parent, awaited>>

PNext ==
  \E p \in Pid :
    \/ PExit(p)
    \/ PCollect(p)
    \/ PDispatch(p)
    \/ \E c \in Pid : PFork(p, c) \/ PReap(p, c)
    \/ \E c \in Pid, nohang \in BOOLEAN : PWait(p, c, nohang)

PSpec ==
  /\ PInit /\ [][PNext]_procs
  /\ \A p \in Pid : WF_procs(PDispatch(p)) /\ WF_procs(PCollect(p))

-----------------------------------------------------------------------------
\* At any time at most one process has the turn (the kernel has one CPU).
AtMostOneRunning ==
  \A p, q \in Pid : state[p] = "RUNNING" /\ state[q] = "RUNNING" => p = q

\* A blocked process has a child in the table that it has asked about: nobody waits
\* for a status that was already handed out.
BlockedOnSomebody ==
  \A p \in Pid : state[p] = "WAITING" =>
    \E c \in awaited : parent[c] = p /\ state[c] \notin {"unborn", "gone"}

=============================================================================
