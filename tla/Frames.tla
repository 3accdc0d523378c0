------------------------------- MODULE Frames -------------------------------
(***************************************************************************)
(* The stacks under the tasks: what the CPU, the stubs                     *)
(* (interruptstubs.s), DoHandleInterrupt (interrupts.cpp) and the system   *)
(* calls push on them and pop, and what forkTask (multitasking.cpp) makes  *)
(* of a copied stack.  The kernel is built without optimisation, so every  *)
(* function keeps a frame pointer.                                         *)
(*                                                                         *)
(* A stack is a row of slots; a slot holds the frame of a called function  *)
(* or the context of an interrupted one, and an address is a task and a    *)
(* slot of its stack.  A frame pointer is an address: forkTask copies it   *)
(* as it copies any word.  A slot that is popped is blanked: what lies     *)
(* above the top of a stack is written before it is read.                  *)
(*                                                                         *)
(* Programs are those of kernel.cpp that never return from a function in   *)
(* which they fork (init, init3, taskA): the child ends in exit or execve, *)
(* the parent loops.  Which task gets the CPU is any of those alive.       *)
(***************************************************************************)
EXTENDS Integers, FiniteSets

CONSTANTS
  Task,      \* the tasks there may be; their pids
  Root,      \* the first of them
  MaxDepth,  \* bound: the slots of a stack
  Faults     \* bound: the vectors that come and have no handler; of the exceptions only
             \* those with an error code, the others' stubs lose a word

Timer == 32
Syscall == 128

\* The vectors with a stub and an entry in the descriptor table.
Stubbed == (0 .. 21) \cup (32 .. 47) \cup {Syscall}

ASSUME FramesAssumption ==
  /\ Task \subseteq Nat \ {0} /\ Root \in Task
  /\ MaxDepth \in Nat \ {0, 1, 2}
  /\ Faults \subseteq Stubbed \ {Timer, Syscall}

Nowhere == <<0, 0>>        \* the null frame pointer

VARIABLES
  stack,     \* stack[t]: the slots of task t, the first called lowest
  cpustate,  \* the address of the context a task goes on with
  cpu,       \* the task that has the CPU, and its registers
  alive,     \* the tasks in the table
  unborn,    \* the tasks still to be forked
  kept,      \* history: the context a task without the CPU is to go on with
  depth,     \* history: the functions a task has entered and not left
  stored     \* history: what a task has last assigned to its variable child

vars == <<stack, cpustate, cpu, alive, unborn, kept, depth, stored>>

Frame(ret, link) == [kind |-> "frame", ret |-> ret, link |-> link, child |-> 0]
Context(words, pc, ebp, answer) ==
  [kind |-> "context", words |-> words, pc |-> pc, ebp |-> ebp, answer |-> answer]
Blank == Frame("nothing", Nowhere)

\* The frame Task's constructor and execve lay out at the top of the stack: words counts
\* the error code, which is left as it was.
FirstContext == Context(1, "entry", Nowhere, 0)

Init ==
  /\ stack = [t \in Task |-> [[d \in 1 .. MaxDepth |-> Blank] EXCEPT ![1] = FirstContext]]
  /\ cpustate = [t \in Task |-> <<t, 1>>]
  /\ cpu = [task |-> Root, pc |-> "entry", ebp |-> Nowhere, esp |-> <<Root, 0>>, answer |-> 0]
  /\ alive = {Root} /\ unborn = Task \ {Root}
  /\ kept = [t \in Task |-> Blank]
  /\ depth = [t \in Task |-> 0]
  /\ stored = [t \in Task |-> 0]

Me == cpu.task
At(stk, a) == stk[a[1]][a[2]]
Above(a) == <<a[1], a[2] + 1>>
Below(a) == <<a[1], a[2] - 1>>
With(stk, a, slot) == [stk EXCEPT ![a[1]][a[2]] = slot]

-----------------------------------------------------------------------------
(* Into a handler and out of it.                                           *)

\* Faulty variant: the stubs of hardware interrupts and system calls push no dummy.
NoDummy(v) == 0

\* The error code that the CPU pushes, and the dummy that a stub pushes for lack of one.
ErrorCode(v) == IF v \in {8, 10, 11, 12, 13, 14, 17, 21} THEN 1 ELSE 0
Dummy(v) == IF v >= Timer THEN 1 ELSE 0

\* The stub of vector v has pushed the registers at Above(cpu.esp).
Interrupted(v) == Context(ErrorCode(v) + Dummy(v), cpu.pc, cpu.ebp, cpu.answer)

\* The shared exit pops the registers at address a and one word more, and iret the rest.
Resume(t, stk, a, keeps) ==
  LET c == At(stk, a)
  IN  /\ cpu' = [task |-> t, pc |-> IF c.words = 1 THEN c.pc ELSE "astray",
                  ebp |-> c.ebp, esp |-> Below(a), answer |-> c.answer]
      /\ stack' = With(stk, a, Blank)
      /\ kept' = [keeps EXCEPT ![t] = Blank]

\* The timer: Schedule stores the context as the task's and returns any task's.
Tick ==
  /\ LET a == Above(cpu.esp)
         stk == With(stack, a, Interrupted(Timer))
     IN  /\ cpustate' = [cpustate EXCEPT ![Me] = a]
         /\ \E t \in alive :
              Resume(t, stk, cpustate'[t], [kept EXCEPT ![Me] = Interrupted(Timer)])
  /\ UNCHANGED <<alive, unborn, depth, stored>>

\* An interrupt without a handler: the stack it came with is the one returned.
Unhandled(v) ==
  /\ LET a == Above(cpu.esp)
     IN  Resume(Me, With(stack, a, Interrupted(v)), a, kept)
  /\ UNCHANGED <<cpustate, alive, unborn, depth, stored>>

-----------------------------------------------------------------------------
(* Functions.                                                              *)

\* The call of a function and its prologue.
Enter(pc, ret) ==
  /\ cpu.esp[2] < MaxDepth - 1
  /\ LET a == Above(cpu.esp)
     IN  /\ stack' = With(stack, a, Frame(ret, cpu.ebp))
         /\ cpu' = [cpu EXCEPT !.pc = pc, !.ebp = a, !.esp = a]
  /\ depth' = [depth EXCEPT ![Me] = @ + 1]
  /\ UNCHANGED <<cpustate, alive, unborn, kept, stored>>

\* leave and ret: whatever the frame pointer points at is the end of the stack.
Leave ==
  /\ LET f == At(stack, cpu.ebp)
     IN  cpu' = [cpu EXCEPT !.pc = f.ret, !.ebp = f.link, !.esp = Below(cpu.ebp)]
  /\ stack' = With(stack, cpu.ebp, Blank)
  /\ depth' = [depth EXCEPT ![Me] = @ - 1]
  /\ UNCHANGED <<cpustate, alive, unborn, kept, stored>>

Start == cpu.pc = "entry" /\ Enter("main", "nothing")

\* main calls a function that returns, one that forks and never returns, or fork.
Calls ==
  /\ cpu.pc = "main"
  /\ Enter("work", "main") \/ Enter("main", "main") \/ Enter("fork", "forked")

WorkReturns == cpu.pc = "work" /\ Leave
ForkReturns == cpu.pc = "answered" /\ Leave

\* A local variable is written: in a frame it is child, in a context it is some word of it.
Written(slot, value) ==
  IF slot.kind = "frame" THEN [slot EXCEPT !.child = value] ELSE [slot EXCEPT !.pc = "astray"]

\* child = fork(): the answer goes where the frame pointer says.
Assigns ==
  /\ cpu.pc = "forked"
  /\ stack' = With(stack, cpu.ebp, Written(At(stack, cpu.ebp), cpu.answer))
  /\ stored' = [stored EXCEPT ![Me] = cpu.answer]
  /\ cpu' = [cpu EXCEPT !.pc = "assigned", !.answer = 0]
  /\ UNCHANGED <<cpustate, alive, unborn, kept, depth>>

\* if(child == 0): both branches are a program's main again; waitpid reads it a last time.
Decides ==
  /\ cpu.pc = "assigned"
  /\ cpu' = [cpu EXCEPT !.pc = "main"]
  /\ stored' = [stored EXCEPT ![Me] = 0]
  /\ UNCHANGED <<stack, cpustate, alive, unborn, kept, depth>>

-----------------------------------------------------------------------------
(* The system calls that change stacks.                                    *)

\* An address plus the difference of two stacks: the same slot of the other.
Moved(a, t) == <<t, a[2]>>

\* Faulty variant: the frame pointer stays as it was copied.
NotRelocated(a, t) == a

\* Only the frame pointer in the context is relocated, none of those in the frames.
Relocated(a, t) == Moved(a, t)

\* The child's stack is a copy of the caller's; its context is where the caller's is.
Fork ==
  /\ cpu.pc = "fork"
  /\ LET a == Above(cpu.esp)
         c == [Interrupted(Syscall) EXCEPT !.pc = "answered"]
         stk == With(stack, a, c)
     IN  \/ /\ unborn = {}          \* AddTask finds the table full
            /\ Resume(Me, With(stk, a, [c EXCEPT !.answer = -1]), a, kept)
            /\ UNCHANGED <<cpustate, alive, unborn, depth, stored>>
         \/ \E n \in unborn :
              LET b == Moved(a, n)
                  given == [c EXCEPT !.ebp = Relocated(cpu.ebp, n), !.answer = 0]
              IN  /\ \A u \in unborn : n <= u
                  /\ Resume(Me, With([stk EXCEPT ![n] = stk[Me], ![Me][a[2]].answer = n], b, given), a,
                            [kept EXCEPT ![n] = [c EXCEPT !.ebp = <<n, @[2]>>, !.answer = 0]])
                  /\ cpustate' = [cpustate EXCEPT ![n] = b]
                  /\ alive' = alive \cup {n} /\ unborn' = unborn \ {n}
                  /\ depth' = [depth EXCEPT ![n] = depth[Me]]
                  /\ stored' = [stored EXCEPT ![n] = stored[Me]]

Exit ==
  /\ cpu.pc = "main" /\ Me # Root
  /\ alive' = alive \ {Me}
  /\ \E t \in alive' : Resume(t, stack, cpustate[t], kept)
  /\ cpustate' = [cpustate EXCEPT ![Me] = <<Me, 1>>]
  /\ depth' = [depth EXCEPT ![Me] = 0]
  /\ UNCHANGED <<unborn, stored>>

Execve ==
  /\ cpu.pc = "main"
  /\ Resume(Me, With(stack, <<Me, 1>>, FirstContext), <<Me, 1>>, kept)
  /\ cpustate' = [cpustate EXCEPT ![Me] = <<Me, 1>>]
  /\ depth' = [depth EXCEPT ![Me] = 0]
  /\ UNCHANGED <<alive, unborn, stored>>

-----------------------------------------------------------------------------
\* The tasks that return into frames on the stack of t.
Guests(t) ==
  {u \in alive \ {t} : kept[u].ebp[1] = t \/ \E d \in 1 .. depth[u] : stack[u][d].link[1] = t}

\* The programs call execve as the child of init that is commented out did, with no child
\* of their own in their frames: the kernel would let them.
Replaces == Guests(Me) = {} /\ Execve

Next ==
  \/ Tick \/ \E v \in Faults : Unhandled(v)
  \/ Start \/ Calls \/ WorkReturns \/ ForkReturns \/ Assigns \/ Decides
  \/ Fork \/ Exit \/ Replaces

Spec == Init /\ [][Next]_vars

-----------------------------------------------------------------------------
\* A task's stack pointer stays on its own stack, as high as the functions it has entered:
\* returns, interrupts and switches take off what was put on, and a forked child returns
\* from fork on its own stack.
StackIsOwn ==
  \A t \in alive :
    IF t = Me THEN cpu.esp = <<t, depth[t]>> ELSE cpustate[t] = <<t, depth[t] + 1>>

\* A task goes on with the registers it was interrupted with, a forked child with its
\* parent's and the answer 0: nobody writes over the context of a task without the CPU,
\* though children write into the frames of their parents.
ContextIntact ==
  /\ cpu.pc # "astray"
  /\ \A t \in alive \ {Me} : At(stack, cpustate[t]) = kept[t]

\* "Clone the calling process, creating an exact copy": a task finds in its variables what
\* it has put there.
OwnVariables ==
  \A t \in alive :
    LET r == IF t = Me THEN [pc |-> cpu.pc, ebp |-> cpu.ebp] ELSE kept[t]
    IN  r.pc = "assigned" => At(stack, r.ebp).child = stored[t]

=============================================================================
