----------------------------- MODULE FramesProofs -----------------------------
(***************************************************************************)
(* What holds of the stacks under the tasks for every number of tasks,     *)
(* depth of the stacks and sequence of interrupts, calls and system calls. *)
(*                                                                         *)
(* A forked child returns into frames of its ancestors, which go on using  *)
(* them, or exit.  It does no harm because such a frame is never left: a   *)
(* function that forks does not return, so below the top of a stack there  *)
(* are frames of main only, for ever.                                      *)
(***************************************************************************)
EXTENDS Frames, TLAPS

Labels == {"entry", "main", "work", "fork", "answered", "forked", "assigned"}
Address == (Task \cup {0}) \X (0 .. MaxDepth)
FrameSlot == [kind : {"frame"}, ret : {"nothing", "main", "forked"}, link : Address, child : Int]
ContextSlot == [kind : {"context"}, words : 0 .. 2, pc : Labels, ebp : Address, answer : Int]
Slot == FrameSlot \cup ContextSlot

FTypeOK ==
  /\ cpu \in [task : Task, pc : Labels, ebp : Address, esp : Address, answer : Int]
  /\ stack \in [Task -> [1 .. MaxDepth -> Slot]]
  /\ cpustate \in [Task -> Task \X (1 .. MaxDepth)]
  /\ kept \in [Task -> Slot]
  /\ alive \subseteq Task /\ unborn \subseteq Task /\ alive \cap unborn = {} /\ Me \in alive
  /\ depth \in [Task -> 0 .. MaxDepth - 1] /\ stored \in [Task -> Int]

\* The registers of the tasks, whether they have the CPU or not.
Pc == [t \in alive |-> IF t = Me THEN cpu.pc ELSE kept[t].pc]
Ebp == [t \in alive |-> IF t = Me THEN cpu.ebp ELSE kept[t].ebp]

\* In a function that will return.
Inner == {"work", "fork", "answered"}

\* The frames of main on the stacks, which are never left.
Floor == [t \in alive |-> IF Pc[t] \in Inner THEN depth[t] - 1 ELSE depth[t]]

\* The addresses of frames that stay, on the stacks of tasks that have been forked.
Standing ==
  {a \in (Task \ unborn) \X (1 .. MaxDepth) :
     /\ At(stack, a).kind = "frame"
     /\ a[1] \in alive => a[2] <= Floor[a[1]]}

\* The frame pointer of t is where its stack says: on its own stack while the function
\* will return, else at a frame that stays.
PointerFits(t) ==
  /\ Ebp[t][2] = depth[t]
  /\ Pc[t] = "entry" <=> depth[t] = 0
  /\ IF Pc[t] \in Inner
     THEN /\ Ebp[t] = <<t, depth[t]>> /\ depth[t] >= 2
          /\ stack[t][depth[t]].ret = IF Pc[t] = "work" THEN "main" ELSE "forked"
     ELSE depth[t] >= 1 => Ebp[t] \in Standing

\* The frames of t are linked one by one, each to one that stays.
FramesLinked(t) ==
  \A d \in 1 .. depth[t] :
    /\ stack[t][d].kind = "frame"
    /\ d >= 2 => stack[t][d].link \in Standing /\ stack[t][d].link[2] = d - 1

\* A task without the CPU is to go on with a whole context.
KeptWhole == \A t \in alive \ {Me} : kept[t] \in ContextSlot /\ kept[t].words = 1

\* The interrupts that come push an error code or have a stub that pushes one.
WholeContexts == \A v \in Faults : ErrorCode(v) + Dummy(v) = 1

\* The inductive invariant.
FInv ==
  /\ WholeContexts
  /\ FTypeOK /\ StackIsOwn /\ ContextIntact /\ KeptWhole
  /\ \A t \in alive : PointerFits(t) /\ FramesLinked(t)

-----------------------------------------------------------------------------
(* Slots and registers.                                                    *)

Stacks == [Task -> [1 .. MaxDepth -> Slot]]

LEMMA WithIs ==
  ASSUME NEW stk \in Stacks, NEW t \in Task, NEW d \in 1 .. MaxDepth, NEW s \in Slot
  PROVE  /\ With(stk, <<t, d>>, s) \in Stacks
         /\ \A u \in Task, e \in 1 .. MaxDepth :
              With(stk, <<t, d>>, s)[u][e] = IF u = t /\ e = d THEN s ELSE stk[u][e]
  BY DEF With, Stacks

LEMMA BlankIsSlot ==
  /\ Blank \in FrameSlot /\ Blank \in Slot /\ Nowhere \in Address
  /\ Blank.kind = "frame"
  BY FramesAssumption DEF Blank, Frame, FrameSlot, Slot, Nowhere, Address

LEMMA ContextIs ==
  ASSUME NEW w \in 0 .. 2, NEW p \in Labels, NEW e \in Address, NEW r \in Int
  PROVE  /\ Context(w, p, e, r) \in ContextSlot /\ Context(w, p, e, r) \in Slot
         /\ Context(w, p, e, r).words = w /\ Context(w, p, e, r).pc = p
         /\ Context(w, p, e, r).ebp = e /\ Context(w, p, e, r).answer = r
  BY DEF Context, ContextSlot, Slot

\* A whole context that is resumed from slot d of t's stack.
LEMMA ResumeIs ==
  ASSUME NEW t \in Task, NEW d \in 1 .. MaxDepth, NEW stk \in Stacks, NEW keeps \in [Task -> Slot],
         Resume(t, stk, <<t, d>>, keeps),
         stk[t][d] \in ContextSlot, stk[t][d].words = 1
  PROVE  /\ cpu' \in [task : Task, pc : Labels, ebp : Address, esp : Address, answer : Int]
         /\ cpu'.task = t /\ cpu'.pc = stk[t][d].pc /\ cpu'.ebp = stk[t][d].ebp
         /\ cpu'.esp = <<t, d - 1>>
         /\ stack' \in Stacks
         /\ \A u \in Task, e \in 1 .. MaxDepth :
              stack'[u][e] = IF u = t /\ e = d THEN Blank ELSE stk[u][e]
         /\ kept' \in [Task -> Slot]
         /\ \A u \in Task : kept'[u] = IF u = t THEN Blank ELSE keeps[u]
  <1>1. /\ cpu' = [task |-> t, pc |-> stk[t][d].pc, ebp |-> stk[t][d].ebp, esp |-> <<t, d - 1>>,
                   answer |-> stk[t][d].answer]
        /\ stack' = With(stk, <<t, d>>, Blank)
        /\ kept' = [keeps EXCEPT ![t] = Blank]
    BY DEF Resume, At, Below
  <1>2. <<t, d - 1>> \in Address
    BY FramesAssumption DEF Address
  <1>3. /\ stk[t][d].pc \in Labels /\ stk[t][d].ebp \in Address /\ stk[t][d].answer \in Int
    BY DEF ContextSlot
  <1>4. /\ stack' \in Stacks
        /\ \A u \in Task, e \in 1 .. MaxDepth :
             stack'[u][e] = IF u = t /\ e = d THEN Blank ELSE stk[u][e]
    BY <1>1, WithIs, BlankIsSlot
  <1>5. /\ kept' \in [Task -> Slot]
        /\ \A u \in Task : kept'[u] = IF u = t THEN Blank ELSE keeps[u]
    BY <1>1, BlankIsSlot
  <1>6. /\ cpu' \in [task : Task, pc : Labels, ebp : Address, esp : Address, answer : Int]
        /\ cpu'.task = t /\ cpu'.pc = stk[t][d].pc /\ cpu'.ebp = stk[t][d].ebp
        /\ cpu'.esp = <<t, d - 1>>
    BY <1>1, <1>2, <1>3
  <1> QED BY <1>4, <1>5, <1>6

\* What the invariant says of the task with the CPU and of the others.
LEMMA Unfolded ==
  ASSUME FInv
  PROVE  /\ Me \in alive /\ Me \in Task /\ Me \notin unborn
         /\ stack \in Stacks /\ kept \in [Task -> Slot]
         /\ depth[Me] \in 0 .. MaxDepth - 1 /\ depth[Me] + 1 \in 1 .. MaxDepth
         /\ cpu.esp = <<Me, depth[Me]>> /\ Above(cpu.esp) = <<Me, depth[Me] + 1>>
         /\ cpu.pc \in Labels /\ cpu.ebp \in Address /\ cpu.answer \in Int
         /\ Pc[Me] = cpu.pc /\ Ebp[Me] = cpu.ebp
         /\ \A t \in alive \ {Me} :
              /\ t \in Task /\ Pc[t] = kept[t].pc /\ Ebp[t] = kept[t].ebp
              /\ cpustate[t] = <<t, depth[t] + 1>> /\ depth[t] + 1 \in 1 .. MaxDepth
              /\ stack[t][depth[t] + 1] = kept[t]
              /\ kept[t] \in ContextSlot /\ kept[t].words = 1
  <1>1. FTypeOK /\ StackIsOwn /\ ContextIntact /\ KeptWhole
    BY DEF FInv
  <1>2. /\ Me \in alive /\ Me \in Task /\ Me \notin unborn /\ alive \subseteq Task
        /\ stack \in Stacks /\ kept \in [Task -> Slot]
        /\ cpu.pc \in Labels /\ cpu.ebp \in Address /\ cpu.answer \in Int
    BY <1>1 DEF FTypeOK, Stacks, Me
  <1>3. \A t \in alive : depth[t] \in 0 .. MaxDepth - 1 /\ depth[t] + 1 \in 1 .. MaxDepth
    BY <1>1, FramesAssumption DEF FTypeOK
  <1>4. cpu.esp = <<Me, depth[Me]>> /\ Above(cpu.esp) = <<Me, depth[Me] + 1>>
    BY <1>1, <1>2 DEF StackIsOwn, Above
  <1>5. ASSUME NEW t \in alive \ {Me}
        PROVE  /\ cpustate[t] = <<t, depth[t] + 1>>
               /\ stack[t][depth[t] + 1] = kept[t]
               /\ kept[t] \in ContextSlot /\ kept[t].words = 1
    BY <1>1 DEF StackIsOwn, ContextIntact, KeptWhole, At
  <1> QED BY <1>2, <1>3, <1>4, <1>5 DEF Pc, Ebp

LEMMA FloorIs ==
  ASSUME FInv, NEW t \in alive
  PROVE  /\ depth[t] \in 0 .. MaxDepth - 1 /\ Floor[t] <= depth[t] /\ Floor[t] \in Int
         /\ Floor[t] = IF Pc[t] \in Inner THEN depth[t] - 1 ELSE depth[t]
         /\ PointerFits(t) /\ FramesLinked(t)
  BY FramesAssumption, SMTT(30) DEF FInv, FTypeOK, Floor

-----------------------------------------------------------------------------
(* What keeps frames standing and linked.                                  *)

LEMMA StandingStays ==
  ASSUME NEW a \in Standing, unborn' \subseteq unborn,
         stack'[a[1]][a[2]].kind = "frame",
         a[1] \in alive' => a[2] <= Floor'[a[1]]
  PROVE  a \in Standing'
  BY DEF Standing, At

\* A task keeps its registers and the frames of its stack, and what they point at stands.
LEMMA TaskKept ==
  ASSUME NEW t \in alive, t \in alive', PointerFits(t), FramesLinked(t), depth[t] \in Nat,
         depth'[t] = depth[t], Ebp'[t] = Ebp[t],
         \/ Pc'[t] = Pc[t]
         \/ Pc[t] = "fork" /\ Pc'[t] = "answered"
         \/ {Pc[t], Pc'[t]} \subseteq {"main", "forked", "assigned"},
         \A e \in 1 .. depth[t] :
           /\ stack'[t][e].kind = "frame" /\ stack'[t][e].ret = stack[t][e].ret
           /\ stack'[t][e].link = stack[t][e].link,
         Ebp[t] \in Standing => Ebp[t] \in Standing',
         \A e \in 2 .. depth[t] : stack[t][e].link \in Standing => stack[t][e].link \in Standing'
  PROVE  PointerFits(t)' /\ FramesLinked(t)'
  <1>1. PointerFits(t)'
    <2>1. CASE Pc[t] \in Inner
      <3>1. Pc'[t] \in Inner /\ (Pc'[t] = "work" <=> Pc[t] = "work") /\ Pc'[t] # "entry" /\ Pc[t] # "entry"
        BY <2>1 DEF Inner
      <3>2. depth[t] >= 2 /\ Ebp[t] = <<t, depth[t]>> /\ depth[t] \in 1 .. depth[t] /\ Ebp[t][2] = depth[t]
            /\ stack[t][depth[t]].ret = IF Pc[t] = "work" THEN "main" ELSE "forked"
        BY <2>1 DEF PointerFits
      <3> QED BY <3>1, <3>2 DEF PointerFits
    <2>2. CASE Pc[t] \notin Inner
      <3>1. Pc'[t] \notin Inner /\ (Pc'[t] = "entry" <=> Pc[t] = "entry")
        BY <2>2 DEF Inner
      <3> QED BY <2>2, <3>1 DEF PointerFits
    <2> QED BY <2>1, <2>2
  <1>2. FramesLinked(t)'
    BY DEF FramesLinked
  <1> QED BY <1>1, <1>2

-----------------------------------------------------------------------------
(* Switches: the frames stay as they are, and task t goes on.              *)

LEMMA SwitchKeeps ==
  ASSUME FInv, NEW t \in alive', alive' \subseteq alive, unborn' = unborn,
         cpu' \in [task : Task, pc : Labels, ebp : Address, esp : Address, answer : Int],
         cpu'.task = t, cpu'.esp = <<t, depth[t]>>, cpu'.ebp = Ebp[t],
         cpu'.pc = Pc[t] \/ (Pc[t] = "fork" /\ cpu'.pc = "answered"),
         stack' \in Stacks,
         \A u \in Task : \A e \in 1 .. MaxDepth :
           (u \in alive => e <= depth[u]) => stack'[u][e] = stack[u][e],
         kept' \in [Task -> Slot], cpustate' \in [Task -> Task \X (1 .. MaxDepth)],
         depth' \in [Task -> 0 .. MaxDepth - 1], stored' \in [Task -> Int],
         \A u \in alive' : depth'[u] = depth[u],
         \A u \in alive' \ {t} :
           /\ cpustate'[u] = <<u, depth[u] + 1>> /\ stack'[u][depth[u] + 1] = kept'[u]
           /\ kept'[u] \in ContextSlot /\ kept'[u].words = 1
           /\ kept'[u].pc = Pc[u] /\ kept'[u].ebp = Ebp[u]
  PROVE  FInv'
  <1>0. WholeContexts /\ FTypeOK /\ alive \subseteq Task
    BY DEF FInv, FTypeOK
  <1>1. FTypeOK'
    BY <1>0 DEF FTypeOK, Stacks, Me
  <1>2. Me' = t
    BY DEF Me
  <1>3. /\ \A u \in alive' : Ebp'[u] = Ebp[u]
        /\ \A u \in alive' : Pc'[u] = Pc[u] \/ (Pc[u] = "fork" /\ Pc'[u] = "answered")
        /\ Pc'[t] = cpu'.pc
    BY <1>2 DEF Pc, Ebp
  <1>4. \A u \in alive' : Floor'[u] = Floor[u]
    BY <1>3 DEF Floor, Inner
  <1>5. ASSUME NEW a \in Standing PROVE a \in Standing'
    <2>1. /\ a[1] \in Task /\ a[2] \in 1 .. MaxDepth /\ stack[a[1]][a[2]].kind = "frame"
          /\ a[1] \in alive => a[2] <= Floor[a[1]]
      BY DEF Standing, At
    <2>2. a[1] \in alive => a[2] <= depth[a[1]]
      BY <2>1, FloorIs
    <2>3. stack'[a[1]][a[2]] = stack[a[1]][a[2]]
      BY <2>1, <2>2
    <2> QED BY <1>4, <2>1, <2>3, StandingStays
  <1>6. ASSUME NEW u \in alive' PROVE PointerFits(u)' /\ FramesLinked(u)'
    <2>1. u \in alive /\ u \in Task /\ PointerFits(u) /\ FramesLinked(u) /\ depth[u] \in 0 .. MaxDepth - 1
      BY <1>0, FloorIs
    <2>2. \A e \in 1 .. depth[u] : e \in 1 .. MaxDepth /\ e <= depth[u] /\ stack[u][e].kind = "frame"
      BY <2>1, FramesAssumption DEF FramesLinked
    <2>3. \A e \in 1 .. depth[u] :
            /\ stack'[u][e].kind = "frame" /\ stack'[u][e].ret = stack[u][e].ret
            /\ stack'[u][e].link = stack[u][e].link
      BY <2>1, <2>2
    <2>4. /\ depth[u] \in Nat /\ depth'[u] = depth[u] /\ Ebp'[u] = Ebp[u]
          /\ Pc'[u] = Pc[u] \/ (Pc[u] = "fork" /\ Pc'[u] = "answered")
      BY <1>3, <2>1, FramesAssumption
    <2> QED BY <1>5, <2>1, <2>3, <2>4, TaskKept
  <1>7. StackIsOwn'
    BY <1>2 DEF StackIsOwn
  <1>8. ContextIntact'
    <2>1. cpu'.pc # "astray"
      BY DEF Labels
    <2>2. \A u \in alive' \ {t} : stack'[cpustate'[u][1]][cpustate'[u][2]] = kept'[u]
      OBVIOUS
    <2> QED BY <1>2, <2>1, <2>2 DEF ContextIntact, At
  <1>9. KeptWhole'
    BY <1>2 DEF KeptWhole
  <1>10. WholeContexts'
    BY <1>0 DEF WholeContexts
  <1> QED BY <1>1, <1>6, <1>7, <1>8, <1>9, <1>10 DEF FInv

\* The context pushed by an interrupt that pushes one.
LEMMA InterruptedIs ==
  ASSUME FInv, NEW v \in Nat, ErrorCode(v) + Dummy(v) = 1
  PROVE  /\ Interrupted(v) \in ContextSlot /\ Interrupted(v) \in Slot /\ Interrupted(v).words = 1
         /\ Interrupted(v).pc = cpu.pc /\ Interrupted(v).ebp = cpu.ebp
         /\ Interrupted(v).answer = cpu.answer
  <1>1. cpu.pc \in Labels /\ cpu.ebp \in Address /\ cpu.answer \in Int
    BY Unfolded
  <1> QED BY <1>1, ContextIs DEF Interrupted

LEMMA OwnVectors == ErrorCode(Timer) + Dummy(Timer) = 1 /\ ErrorCode(Syscall) + Dummy(Syscall) = 1
  BY DEF ErrorCode, Dummy, Timer, Syscall

LEMMA TickKeeps ==
  ASSUME FInv, Tick
  PROVE  FInv'
  <1> DEFINE d == depth[Me]
             c == Interrupted(Timer)
  <1>1. /\ c \in ContextSlot /\ c \in Slot /\ c.words = 1 /\ c.pc = cpu.pc /\ c.ebp = cpu.ebp
    BY OwnVectors, InterruptedIs DEF Timer
  <1>2. Above(cpu.esp) = <<Me, d + 1>> /\ d + 1 \in 1 .. MaxDepth
    BY Unfolded
  <1>3. PICK t \in alive :
          Resume(t, With(stack, <<Me, d + 1>>, c), cpustate'[t], [kept EXCEPT ![Me] = c])
    BY <1>2 DEF Tick
  <1> PICK me : me = Me
    OBVIOUS
  <1>4. /\ cpustate' = [cpustate EXCEPT ![me] = <<me, d + 1>>]
        /\ alive' = alive /\ unborn' = unborn /\ depth' = depth /\ stored' = stored
    BY <1>2 DEF Tick
  <1>5. /\ FTypeOK /\ stack \in Stacks /\ kept \in [Task -> Slot] /\ me \in Task /\ me \in alive
        /\ t \in Task /\ d \in 0 .. MaxDepth - 1 /\ alive \subseteq Task
    BY Unfolded DEF FInv, FTypeOK
  <1> HIDE DEF c
  <1>6. PICK stk \in Stacks : /\ stk = With(stack, <<me, d + 1>>, c)
                              /\ \A u \in Task, e \in 1 .. MaxDepth :
                                   stk[u][e] = IF u = me /\ e = d + 1 THEN c ELSE stack[u][e]
    BY <1>1, <1>2, <1>5, WithIs
  <1>7. PICK keeps \in [Task -> Slot] : keeps = [kept EXCEPT ![me] = c]
    BY <1>1, <1>5
  <1>8. PICK b : b = depth[t] + 1
    OBVIOUS
  <1>9. cpustate'[t] = <<t, b>> /\ b \in 1 .. MaxDepth
    BY <1>2, <1>4, <1>5, <1>8, Unfolded DEF FTypeOK
  <1>10. Resume(t, stk, <<t, b>>, keeps)
    BY <1>3, <1>6, <1>7, <1>9
  <1>11. /\ stk[t][b] \in ContextSlot /\ stk[t][b].words = 1
         /\ stk[t][b].pc = Pc[t] /\ stk[t][b].ebp = Ebp[t]
    <2>1. CASE t = me
      BY <1>1, <1>2, <1>5, <1>6, <1>8, <2>1, Unfolded
    <2>2. CASE t # me
      BY <1>5, <1>6, <1>8, <1>9, <2>2, Unfolded
    <2> QED BY <2>1, <2>2
  <1>12. /\ cpu' \in [task : Task, pc : Labels, ebp : Address, esp : Address, answer : Int]
         /\ cpu'.task = t /\ cpu'.pc = Pc[t] /\ cpu'.ebp = Ebp[t]
         /\ cpu'.esp = <<t, b - 1>>
         /\ stack' \in Stacks
         /\ \A u \in Task, e \in 1 .. MaxDepth :
              stack'[u][e] = IF u = t /\ e = b THEN Blank ELSE stk[u][e]
         /\ kept' \in [Task -> Slot]
         /\ \A u \in Task : kept'[u] = IF u = t THEN Blank ELSE keeps[u]
    BY <1>5, <1>9, <1>10, <1>11, ResumeIs
  <1>13. b - 1 = depth[t] /\ depth[t] \in 0 .. MaxDepth - 1
    BY <1>5, <1>8, FramesAssumption DEF FTypeOK
  <1>14. ASSUME NEW u \in Task, NEW e \in 1 .. MaxDepth, u \in alive => e <= depth[u]
         PROVE  stack'[u][e] = stack[u][e]
    <2>1. ~(u = t /\ e = b)
      BY <1>8, <1>13, <1>14
    <2>2. ~(u = me /\ e = d + 1)
      BY <1>5, <1>14
    <2> QED BY <1>6, <1>12, <2>1, <2>2
  <1>15. ASSUME NEW u \in alive \ {t}
         PROVE  /\ cpustate'[u] = <<u, depth[u] + 1>> /\ stack'[u][depth[u] + 1] = kept'[u]
                /\ kept'[u] \in ContextSlot /\ kept'[u].words = 1
                /\ kept'[u].pc = Pc[u] /\ kept'[u].ebp = Ebp[u]
    <2>1. CASE u = me
      <3>1. cpustate'[me] = <<me, d + 1>>
        BY <1>4, <1>5 DEF FTypeOK
      <3>2. kept'[me] = c /\ stack'[me][d + 1] = c
        BY <1>2, <1>5, <1>6, <1>7, <1>12, <2>1
      <3>3. Pc[me] = cpu.pc /\ Ebp[me] = cpu.ebp
        BY Unfolded
      <3> QED BY <1>1, <2>1, <3>1, <3>2, <3>3
    <2>2. CASE u # me
      <3>1. /\ u \in Task /\ depth[u] + 1 \in 1 .. MaxDepth
            /\ cpustate[u] = <<u, depth[u] + 1>> /\ stack[u][depth[u] + 1] = kept[u]
            /\ kept[u] \in ContextSlot /\ kept[u].words = 1 /\ kept[u].pc = Pc[u] /\ kept[u].ebp = Ebp[u]
        BY <2>2, Unfolded
      <3>2. cpustate'[u] = cpustate[u]
        BY <1>4, <2>2, <3>1 DEF FTypeOK
      <3>3. kept'[u] = kept[u] /\ stack'[u][depth[u] + 1] = stack[u][depth[u] + 1]
        BY <1>5, <1>6, <1>7, <1>12, <2>2, <3>1
      <3> QED BY <3>1, <3>2, <3>3
    <2> QED BY <2>1, <2>2
  <1>16. cpustate' \in [Task -> Task \X (1 .. MaxDepth)] /\ depth' \in [Task -> 0 .. MaxDepth - 1]
         /\ stored' \in [Task -> Int]
    BY <1>2, <1>4, <1>5 DEF FTypeOK
  <1> QED BY <1>4, <1>12, <1>13, <1>14, <1>15, <1>16, SwitchKeeps

LEMMA UnhandledKeeps ==
  ASSUME FInv, NEW v \in Faults, Unhandled(v)
  PROVE  FInv'
  <1> DEFINE d == depth[Me]
             c == Interrupted(v)
  <1>1. /\ c \in ContextSlot /\ c \in Slot /\ c.words = 1 /\ c.pc = cpu.pc /\ c.ebp = cpu.ebp
    <2>1. v \in Nat /\ ErrorCode(v) + Dummy(v) = 1
      BY FramesAssumption DEF FInv, WholeContexts, Stubbed, Timer, Syscall
    <2> QED BY <2>1, InterruptedIs
  <1>2. Above(cpu.esp) = <<Me, d + 1>> /\ d + 1 \in 1 .. MaxDepth
    BY Unfolded
  <1> PICK me : me = Me
    OBVIOUS
  <1>3. /\ Resume(me, With(stack, <<me, d + 1>>, c), <<me, d + 1>>, kept)
        /\ cpustate' = cpustate /\ alive' = alive /\ unborn' = unborn /\ depth' = depth
        /\ stored' = stored
    BY <1>2 DEF Unhandled
  <1>4. /\ FTypeOK /\ stack \in Stacks /\ kept \in [Task -> Slot] /\ me \in Task /\ me \in alive
        /\ d \in 0 .. MaxDepth - 1 /\ alive \subseteq Task /\ Pc[me] = cpu.pc /\ Ebp[me] = cpu.ebp
    BY Unfolded DEF FInv, FTypeOK
  <1> HIDE DEF c
  <1>5. PICK stk \in Stacks : /\ stk = With(stack, <<me, d + 1>>, c)
                              /\ \A u \in Task, e \in 1 .. MaxDepth :
                                   stk[u][e] = IF u = me /\ e = d + 1 THEN c ELSE stack[u][e]
    BY <1>1, <1>2, <1>4, WithIs
  <1>6. PICK b \in 1 .. MaxDepth : b = d + 1
    BY <1>2
  <1>7. PICK keeps \in [Task -> Slot] : keeps = kept
    BY <1>4
  <1>8. Resume(me, stk, <<me, b>>, keeps) /\ stk[me][b] = c
    BY <1>3, <1>4, <1>5, <1>6, <1>7
  <1>9. /\ cpu' \in [task : Task, pc : Labels, ebp : Address, esp : Address, answer : Int]
        /\ cpu'.task = me /\ cpu'.pc = Pc[me] /\ cpu'.ebp = Ebp[me]
        /\ cpu'.esp = <<me, b - 1>>
        /\ stack' \in Stacks
        /\ \A u \in Task, e \in 1 .. MaxDepth :
             stack'[u][e] = IF u = me /\ e = b THEN Blank ELSE stk[u][e]
        /\ kept' \in [Task -> Slot]
        /\ \A u \in Task : kept'[u] = IF u = me THEN Blank ELSE kept[u]
    BY <1>1, <1>4, <1>7, <1>8, ResumeIs
  <1>10. b - 1 = depth[me]
    BY <1>4, <1>6
  <1>11. ASSUME NEW u \in Task, NEW e \in 1 .. MaxDepth, u \in alive => e <= depth[u]
         PROVE  stack'[u][e] = stack[u][e]
    <2>1. ~(u = me /\ e = d + 1)
      BY <1>4, <1>11
    <2> QED BY <1>5, <1>6, <1>9, <2>1
  <1>12. ASSUME NEW u \in alive \ {me}
         PROVE  /\ cpustate'[u] = <<u, depth[u] + 1>> /\ stack'[u][depth[u] + 1] = kept'[u]
                /\ kept'[u] \in ContextSlot /\ kept'[u].words = 1
                /\ kept'[u].pc = Pc[u] /\ kept'[u].ebp = Ebp[u]
    BY <1>3, <1>4, <1>5, <1>9, Unfolded, SMTT(30)
  <1>13. cpustate' \in [Task -> Task \X (1 .. MaxDepth)] /\ depth' \in [Task -> 0 .. MaxDepth - 1]
         /\ stored' \in [Task -> Int]
    BY <1>3, <1>4 DEF FTypeOK
  <1> QED BY <1>3, <1>4, <1>9, <1>10, <1>11, <1>12, <1>13, SwitchKeeps

LEMMA ExitKeeps ==
  ASSUME FInv, Exit
  PROVE  FInv'
  <1> PICK me : me = Me
    OBVIOUS
  <1>1. /\ FTypeOK /\ stack \in Stacks /\ kept \in [Task -> Slot] /\ me \in Task /\ me \in alive
        /\ alive \subseteq Task
    BY Unfolded DEF FInv, FTypeOK
  <1>2. PICK t \in alive' : Resume(t, stack, cpustate[t], kept)
    BY DEF Exit
  <1>3. /\ alive' = alive \ {me} /\ unborn' = unborn /\ stored' = stored
        /\ cpustate' = [cpustate EXCEPT ![me] = <<me, 1>>] /\ depth' = [depth EXCEPT ![me] = 0]
    BY DEF Exit
  <1>4. \A u \in alive' :
          /\ u \in Task /\ u # me /\ Pc[u] = kept[u].pc /\ Ebp[u] = kept[u].ebp
          /\ cpustate[u] = <<u, depth[u] + 1>> /\ depth[u] + 1 \in 1 .. MaxDepth
          /\ stack[u][depth[u] + 1] = kept[u]
          /\ kept[u] \in ContextSlot /\ kept[u].words = 1
          /\ depth[u] \in 0 .. MaxDepth - 1
    BY <1>3, Unfolded, FloorIs
  <1>5. PICK b \in 1 .. MaxDepth : b = depth[t] + 1
    BY <1>4
  <1>6. PICK stk \in Stacks, keeps \in [Task -> Slot] : stk = stack /\ keeps = kept
    BY <1>1
  <1>7. Resume(t, stk, <<t, b>>, keeps) /\ stk[t][b] = kept[t]
    BY <1>2, <1>4, <1>5, <1>6
  <1>8. /\ cpu' \in [task : Task, pc : Labels, ebp : Address, esp : Address, answer : Int]
        /\ cpu'.task = t /\ cpu'.pc = Pc[t] /\ cpu'.ebp = Ebp[t]
        /\ cpu'.esp = <<t, b - 1>>
        /\ stack' \in Stacks
        /\ \A u \in Task, e \in 1 .. MaxDepth :
             stack'[u][e] = IF u = t /\ e = b THEN Blank ELSE stack[u][e]
        /\ kept' \in [Task -> Slot]
        /\ \A u \in Task : kept'[u] = IF u = t THEN Blank ELSE kept[u]
    BY <1>4, <1>6, <1>7, ResumeIs
  <1>9. b - 1 = depth[t]
    BY <1>4, <1>5
  <1>10. ASSUME NEW u \in Task, NEW e \in 1 .. MaxDepth, u \in alive => e <= depth[u]
         PROVE  stack'[u][e] = stack[u][e]
    <2>1. ~(u = t /\ e = b)
      BY <1>3, <1>4, <1>5, <1>10
    <2> QED BY <1>8, <2>1
  <1>11. \A u \in alive' : depth'[u] = depth[u] /\ cpustate'[u] = cpustate[u]
    BY <1>1, <1>3, <1>4 DEF FTypeOK
  <1>12. ASSUME NEW u \in alive' \ {t}
         PROVE  /\ cpustate'[u] = <<u, depth[u] + 1>> /\ stack'[u][depth[u] + 1] = kept'[u]
                /\ kept'[u] \in ContextSlot /\ kept'[u].words = 1
                /\ kept'[u].pc = Pc[u] /\ kept'[u].ebp = Ebp[u]
    BY <1>4, <1>8, <1>11
  <1>13. cpustate' \in [Task -> Task \X (1 .. MaxDepth)] /\ depth' \in [Task -> 0 .. MaxDepth - 1]
         /\ stored' \in [Task -> Int]
    <2>1. <<me, 1>> \in Task \X (1 .. MaxDepth) /\ 0 \in 0 .. MaxDepth - 1
      BY <1>1, FramesAssumption
    <2> QED BY <1>1, <1>3, <2>1 DEF FTypeOK
  <1> QED BY <1>3, <1>8, <1>9, <1>10, <1>11, <1>12, <1>13, SwitchKeeps

-----------------------------------------------------------------------------
(* Functions and variables.                                                *)

\* What tasks without the CPU keep when only the one that has it changes frames, each that
\* stands staying so, and its own slot above them or at its top.
LEMMA OthersKeep ==
  ASSUME FInv, alive' = alive, cpustate' = cpustate, kept' = kept, Me' = Me,
         stack' \in Stacks, depth' \in [Task -> 0 .. MaxDepth - 1],
         \A u \in alive \ {Me} : depth'[u] = depth[u],
         \A u \in alive \ {Me} : \A e \in 1 .. depth[u] :
           /\ stack'[u][e].kind = "frame" /\ stack'[u][e].ret = stack[u][e].ret
           /\ stack'[u][e].link = stack[u][e].link,
         \A u \in alive \ {Me} : stack'[u][depth[u] + 1] = stack[u][depth[u] + 1],
         Standing \subseteq Standing'
  PROVE  /\ KeptWhole'
         /\ \A u \in alive \ {Me} : /\ cpustate'[u] = <<u, depth'[u] + 1>>
                                    /\ stack'[cpustate'[u][1]][cpustate'[u][2]] = kept'[u]
                                    /\ PointerFits(u)' /\ FramesLinked(u)'
  <1>1. KeptWhole'
    BY DEF FInv, KeptWhole
  <1>2. ASSUME NEW u \in alive \ {Me}
        PROVE  /\ cpustate'[u] = <<u, depth'[u] + 1>>
               /\ stack'[cpustate'[u][1]][cpustate'[u][2]] = kept'[u]
               /\ PointerFits(u)' /\ FramesLinked(u)'
    <2>1. cpustate[u] = <<u, depth[u] + 1>> /\ stack[u][depth[u] + 1] = kept[u]
      BY Unfolded
    <2>2. Pc'[u] = Pc[u] /\ Ebp'[u] = Ebp[u]
      BY DEF Pc, Ebp
    <2>3. PointerFits(u) /\ FramesLinked(u) /\ depth[u] \in Nat
      BY FloorIs
    <2>4. PointerFits(u)' /\ FramesLinked(u)'
      BY <2>2, <2>3, TaskKept
    <2> QED BY <2>1, <2>4
  <1> QED BY <1>1, <1>2

LEMMA EnterKeeps ==
  ASSUME FInv, NEW pc, NEW ret, Enter(pc, ret),
         \/ cpu.pc = "entry" /\ pc = "main" /\ ret = "nothing"
         \/ cpu.pc = "main" /\ <<pc, ret>> \in {<<"work", "main">>, <<"main", "main">>, <<"fork", "forked">>}
  PROVE  FInv'
  <1> DEFINE d == depth[Me]
             f == Frame(ret, cpu.ebp)
  <1> PICK me : me = Me
    OBVIOUS
  <1>1. /\ FTypeOK /\ stack \in Stacks /\ me \in Task /\ me \in alive /\ me \notin unborn
        /\ alive \subseteq Task /\ Above(cpu.esp) = <<me, d + 1>> /\ cpu.esp = <<me, d>>
        /\ d \in 0 .. MaxDepth - 1 /\ cpu.ebp \in Address /\ cpu.pc \in Labels
        /\ Pc[me] = cpu.pc /\ Ebp[me] = cpu.ebp /\ WholeContexts
    BY Unfolded DEF FInv, FTypeOK
  <1>2. /\ d + 1 \in 1 .. MaxDepth - 1 /\ d + 1 \in 1 .. MaxDepth /\ d + 1 \in 0 .. MaxDepth - 1
    BY <1>1, FramesAssumption DEF Enter
  <1>3. /\ pc \in {"main", "work", "fork"} /\ ret \in {"nothing", "main", "forked"}
        /\ pc = "work" => ret = "main"
        /\ pc = "fork" => ret = "forked"
    OBVIOUS
  <1>4. f \in FrameSlot /\ f \in Slot /\ f.kind = "frame" /\ f.ret = ret /\ f.link = cpu.ebp
    BY <1>1, <1>3 DEF Frame, FrameSlot, Slot
  <1> HIDE DEF f
  <1>5. /\ stack' = With(stack, <<me, d + 1>>, f)
        /\ cpu' = [cpu EXCEPT !.pc = pc, !.ebp = <<me, d + 1>>, !.esp = <<me, d + 1>>]
        /\ depth' = [depth EXCEPT ![me] = d + 1]
        /\ cpustate' = cpustate /\ alive' = alive /\ unborn' = unborn /\ kept' = kept
        /\ stored' = stored
    BY <1>1 DEF Enter, f
  <1>6. /\ stack' \in Stacks
        /\ \A u \in Task, e \in 1 .. MaxDepth :
             stack'[u][e] = IF u = me /\ e = d + 1 THEN f ELSE stack[u][e]
    BY <1>1, <1>2, <1>4, <1>5, WithIs
  <1>7. <<me, d + 1>> \in Address
    BY <1>1, <1>2, FramesAssumption DEF Address
  <1>8. FTypeOK'
    BY <1>1, <1>2, <1>3, <1>5, <1>6, <1>7 DEF FTypeOK, Stacks, Me, Labels
  <1>9. /\ Me' = me /\ Pc'[me] = pc /\ Ebp'[me] = <<me, d + 1>> /\ depth'[me] = d + 1
        /\ cpu'.esp = <<me, d + 1>> /\ cpu'.pc = pc
        /\ \A u \in alive \ {me} : Pc'[u] = Pc[u] /\ depth'[u] = depth[u]
    BY <1>1, <1>5 DEF FTypeOK, Me, Pc, Ebp
  <1>10. /\ Floor[me] = d
         /\ Floor'[me] = IF pc \in Inner THEN d ELSE d + 1
         /\ \A u \in alive \ {me} : Floor'[u] = Floor[u]
    <2>1. Floor[me] = d
      BY <1>1 DEF Floor, Inner
    <2>2. Floor'[me] = IF pc \in Inner THEN d ELSE d + 1
      BY <1>1, <1>2, <1>5, <1>9 DEF Floor
    <2>3. \A u \in alive \ {me} : Floor'[u] = Floor[u]
      BY <1>5, <1>9 DEF Floor
    <2> QED BY <2>1, <2>2, <2>3
  <1>11. Standing \subseteq Standing'
    <2> SUFFICES ASSUME NEW a \in Standing PROVE a \in Standing'
      OBVIOUS
    <2>1. /\ a[1] \in Task /\ a[2] \in 1 .. MaxDepth /\ stack[a[1]][a[2]].kind = "frame"
          /\ a[1] \in alive => a[2] <= Floor[a[1]]
      BY DEF Standing, At
    <2>2. stack'[a[1]][a[2]] = stack[a[1]][a[2]]
      BY <1>1, <1>2, <1>6, <1>10, <2>1
    <2>3. a[1] \in alive => a[2] <= Floor'[a[1]]
      <3>1. CASE a[1] = me
        <4>1. a[2] <= d
          BY <1>1, <1>10, <2>1, <3>1
        <4> QED BY <1>1, <1>10, <2>1, <3>1, <4>1
      <3>2. CASE a[1] # me
        BY <1>10, <2>1, <3>2, <1>5
      <3> QED BY <3>1, <3>2
    <2> QED BY <1>5, <2>1, <2>2, <2>3, StandingStays
  <1>12. \A u \in alive \ {me} : \A e \in 1 .. depth[u] + 1 :
           u \in Task /\ e \in 1 .. MaxDepth /\ stack'[u][e] = stack[u][e]
    <2> TAKE u \in alive \ {me}
    <2>1. u \in Task /\ depth[u] \in 0 .. MaxDepth - 1
      BY <1>1, FloorIs
    <2> TAKE e \in 1 .. depth[u] + 1
    <2>2. e \in 1 .. MaxDepth
      BY <2>1, FramesAssumption
    <2> QED BY <1>6, <2>1, <2>2
  <1>13. \A u \in alive \ {me} : \A e \in 1 .. depth[u] :
           stack[u][e].kind = "frame" /\ e \in 1 .. depth[u] + 1 /\ depth[u] + 1 \in 1 .. depth[u] + 1
    BY FloorIs, FramesAssumption DEF FramesLinked
  <1>14. /\ KeptWhole'
         /\ \A u \in alive \ {me} : /\ cpustate'[u] = <<u, depth'[u] + 1>>
                                    /\ stack'[cpustate'[u][1]][cpustate'[u][2]] = kept'[u]
                                    /\ PointerFits(u)' /\ FramesLinked(u)'
    <2>1. \A u \in alive \ {Me} : depth[u] + 1 \in 1 .. depth[u] + 1
      BY FloorIs, FramesAssumption
    <2>2. depth' \in [Task -> 0 .. MaxDepth - 1]
      BY <1>8 DEF FTypeOK
    <2> QED BY <1>5, <1>6, <1>9, <1>11, <1>12, <1>13, <2>1, <2>2, OthersKeep
  <1>15. d >= 1 => cpu.ebp \in Standing'
    <2>1. d >= 1 => cpu.pc = "main"
      BY <1>1, FloorIs DEF PointerFits
    <2> QED BY <1>1, <1>11, <2>1, FloorIs DEF PointerFits, Inner
  <1>16. PointerFits(me)'
    <2>1. pc \in Inner => d + 1 >= 2 /\ stack'[me][d + 1].ret = IF pc = "work" THEN "main" ELSE "forked"
      <3> HAVE pc \in Inner
      <3>1. cpu.pc = "main"
        BY DEF Inner
      <3>2. d # 0
        BY <1>1, <3>1, FloorIs DEF PointerFits
      <3> QED BY <1>1, <1>2, <1>3, <1>4, <1>6, <3>2 DEF Inner
    <2>2. pc \notin Inner => <<me, d + 1>> \in Standing'
      <3> HAVE pc \notin Inner
      <3>1. /\ <<me, d + 1>> \in (Task \ unborn') \X (1 .. MaxDepth)
            /\ stack'[me][d + 1].kind = "frame" /\ d + 1 <= Floor'[me]
        BY <1>1, <1>2, <1>4, <1>5, <1>6, <1>10
      <3> QED BY <3>1 DEF Standing, At
    <2>3. pc # "entry" /\ d + 1 # 0
      BY <1>2, <1>3
    <2> QED BY <1>9, <2>1, <2>2, <2>3 DEF PointerFits
  <1>17. FramesLinked(me)'
    <2> SUFFICES ASSUME NEW e \in 1 .. d + 1
                 PROVE  /\ stack'[me][e].kind = "frame"
                        /\ e >= 2 => stack'[me][e].link \in Standing' /\ stack'[me][e].link[2] = e - 1
      BY <1>9 DEF FramesLinked
    <2>1. CASE e = d + 1
      <3>1. stack'[me][e] = f
        BY <1>1, <1>2, <1>6, <2>1
      <3>2. cpu.ebp[2] = d
        BY <1>1, FloorIs DEF PointerFits
      <3>3. e >= 2 => d >= 1
        BY <1>1, <2>1
      <3> QED BY <1>1, <1>4, <1>15, <2>1, <3>1, <3>2, <3>3
    <2>2. CASE e # d + 1
      <3>1. e \in 1 .. d /\ e \in 1 .. MaxDepth
        BY <1>1, <1>2, <2>2, FramesAssumption
      <3>2. stack'[me][e] = stack[me][e]
        BY <1>1, <1>6, <2>2, <3>1
      <3> QED BY <1>1, <1>11, <3>1, <3>2, FloorIs DEF FramesLinked
    <2> QED BY <2>1, <2>2
  <1>18. StackIsOwn'
    BY <1>5, <1>9, <1>14 DEF StackIsOwn
  <1>19. ContextIntact'
    BY <1>3, <1>5, <1>9, <1>14 DEF ContextIntact, At
  <1>20. WholeContexts'
    BY <1>1 DEF WholeContexts
  <1> QED BY <1>5, <1>8, <1>14, <1>16, <1>17, <1>18, <1>19, <1>20 DEF FInv

LEMMA LeaveKeeps ==
  ASSUME FInv, cpu.pc \in {"work", "answered"}, Leave
  PROVE  FInv'
  <1> DEFINE d == depth[Me]
             f == stack[Me][d]
  <1> PICK me : me = Me
    OBVIOUS
  <1>1. /\ FTypeOK /\ stack \in Stacks /\ me \in Task /\ me \in alive /\ me \notin unborn
        /\ alive \subseteq Task /\ cpu.esp = <<me, d>>
        /\ d \in 0 .. MaxDepth - 1 /\ Pc[me] = cpu.pc /\ Ebp[me] = cpu.ebp /\ WholeContexts
    BY Unfolded DEF FInv, FTypeOK
  <1>2. /\ cpu.ebp = <<me, d>> /\ d >= 2 /\ d \in 1 .. MaxDepth /\ d - 1 \in 1 .. d
        /\ d - 1 \in 0 .. MaxDepth - 1
        /\ f.ret = IF cpu.pc = "work" THEN "main" ELSE "forked"
    <2>1. PointerFits(me) /\ Pc[me] \in Inner
      BY <1>1, FloorIs DEF Inner
    <2> QED BY <1>1, <2>1, FramesAssumption DEF PointerFits
  <1>3. f \in Slot /\ f.kind = "frame" /\ f.link \in Standing /\ f.link[2] = d - 1 /\ f \in FrameSlot
    <2>1. FramesLinked(me) /\ d \in 1 .. d
      BY <1>1, <1>2, FloorIs
    <2>2. f \in Slot
      BY <1>1, <1>2 DEF Stacks
    <2>3. f.kind = "frame" /\ f.link \in Standing /\ f.link[2] = d - 1
      BY <1>2, <2>1 DEF FramesLinked
    <2> QED BY <2>2, <2>3 DEF Slot, ContextSlot
  <1>4. At(stack, cpu.ebp) = f /\ Below(cpu.ebp) = <<me, d - 1>>
    BY <1>2 DEF At, Below
  <1> HIDE DEF f
  <1>5. /\ stack' = With(stack, <<me, d>>, Blank)
        /\ cpu' = [cpu EXCEPT !.pc = f.ret, !.ebp = f.link, !.esp = <<me, d - 1>>]
        /\ depth' = [depth EXCEPT ![me] = d - 1]
        /\ cpustate' = cpustate /\ alive' = alive /\ unborn' = unborn /\ kept' = kept
        /\ stored' = stored
    BY <1>2, <1>4 DEF Leave
  <1>6. /\ stack' \in Stacks
        /\ \A u \in Task, e \in 1 .. MaxDepth :
             stack'[u][e] = IF u = me /\ e = d THEN Blank ELSE stack[u][e]
    BY <1>1, <1>2, <1>5, WithIs, BlankIsSlot
  <1>7. <<me, d - 1>> \in Address /\ f.link \in Address /\ f.ret \in {"main", "forked"}
    BY <1>1, <1>2, <1>3, FramesAssumption DEF Address, FrameSlot
  <1>8. FTypeOK'
    BY <1>1, <1>2, <1>5, <1>6, <1>7 DEF FTypeOK, Stacks, Me, Labels
  <1>9. /\ Me' = me /\ Pc'[me] = f.ret /\ Ebp'[me] = f.link /\ depth'[me] = d - 1
        /\ cpu'.esp = <<me, d - 1>> /\ cpu'.pc = f.ret
        /\ \A u \in alive \ {me} : Pc'[u] = Pc[u] /\ depth'[u] = depth[u]
    BY <1>1, <1>5 DEF FTypeOK, Me, Pc, Ebp
  <1>10. /\ Floor[me] = d - 1 /\ Floor'[me] = d - 1
         /\ \A u \in alive \ {me} : Floor'[u] = Floor[u]
    <2>1. Floor[me] = d - 1
      BY <1>1 DEF Floor, Inner
    <2>2. Floor'[me] = d - 1
      BY <1>1, <1>5, <1>7, <1>9 DEF Floor, Inner
    <2>3. \A u \in alive \ {me} : Floor'[u] = Floor[u]
      BY <1>5, <1>9 DEF Floor
    <2> QED BY <2>1, <2>2, <2>3
  <1>11. Standing \subseteq Standing'
    <2> SUFFICES ASSUME NEW a \in Standing PROVE a \in Standing'
      OBVIOUS
    <2>1. /\ a[1] \in Task /\ a[2] \in 1 .. MaxDepth /\ stack[a[1]][a[2]].kind = "frame"
          /\ a[1] \in alive => a[2] <= Floor[a[1]]
      BY DEF Standing, At
    <2>2. stack'[a[1]][a[2]] = stack[a[1]][a[2]]
      BY <1>1, <1>6, <1>10, <2>1
    <2>3. a[1] \in alive => a[2] <= Floor'[a[1]]
      BY <1>10, <2>1, <1>5
    <2> QED BY <1>5, <2>1, <2>2, <2>3, StandingStays
  <1>12. \A u \in alive \ {me} : \A e \in 1 .. depth[u] + 1 :
           u \in Task /\ e \in 1 .. MaxDepth /\ stack'[u][e] = stack[u][e]
    <2> TAKE u \in alive \ {me}
    <2>1. u \in Task /\ depth[u] \in 0 .. MaxDepth - 1
      BY <1>1, FloorIs
    <2> TAKE e \in 1 .. depth[u] + 1
    <2>2. e \in 1 .. MaxDepth
      BY <2>1, FramesAssumption
    <2> QED BY <1>6, <2>1, <2>2
  <1>13. \A u \in alive \ {me} : \A e \in 1 .. depth[u] :
           stack[u][e].kind = "frame" /\ e \in 1 .. depth[u] + 1 /\ depth[u] + 1 \in 1 .. depth[u] + 1
    BY FloorIs, FramesAssumption DEF FramesLinked
  <1>14. /\ KeptWhole'
         /\ \A u \in alive \ {me} : /\ cpustate'[u] = <<u, depth'[u] + 1>>
                                    /\ stack'[cpustate'[u][1]][cpustate'[u][2]] = kept'[u]
                                    /\ PointerFits(u)' /\ FramesLinked(u)'
    <2>1. \A u \in alive \ {Me} : depth[u] + 1 \in 1 .. depth[u] + 1
      BY FloorIs, FramesAssumption
    <2>2. depth' \in [Task -> 0 .. MaxDepth - 1]
      BY <1>8 DEF FTypeOK
    <2> QED BY <1>5, <1>6, <1>9, <1>11, <1>12, <1>13, <2>1, <2>2, OthersKeep
  <1>15. PointerFits(me)'
    <2>1. Pc'[me] \notin Inner /\ Pc'[me] # "entry" /\ d - 1 # 0
      BY <1>2, <1>7, <1>9 DEF Inner
    <2> QED BY <1>3, <1>9, <1>11, <2>1 DEF PointerFits
  <1>16. FramesLinked(me)'
    <2> SUFFICES ASSUME NEW e \in 1 .. d - 1
                 PROVE  /\ stack'[me][e].kind = "frame"
                        /\ e >= 2 => stack'[me][e].link \in Standing' /\ stack'[me][e].link[2] = e - 1
      BY <1>9 DEF FramesLinked
    <2>1. e \in 1 .. d /\ e \in 1 .. MaxDepth /\ e # d
      BY <1>1, <1>2, FramesAssumption
    <2>2. stack'[me][e] = stack[me][e]
      BY <1>1, <1>6, <2>1
    <2> QED BY <1>1, <1>11, <2>1, <2>2, FloorIs DEF FramesLinked
  <1>17. StackIsOwn'
    BY <1>5, <1>9, <1>14 DEF StackIsOwn
  <1>18. ContextIntact'
    BY <1>5, <1>7, <1>9, <1>14 DEF ContextIntact, At
  <1>19. WholeContexts'
    BY <1>1 DEF WholeContexts
  <1> QED BY <1>5, <1>8, <1>14, <1>15, <1>16, <1>17, <1>18, <1>19 DEF FInv

\* The task with the CPU goes on in the same function; frames are written but stay frames.
LEMMA SameFunctionKeeps ==
  ASSUME FInv, alive' = alive, unborn' = unborn, cpustate' = cpustate, kept' = kept, depth' = depth,
         stored' \in [Task -> Int],
         cpu' \in [task : Task, pc : Labels, ebp : Address, esp : Address, answer : Int],
         cpu'.task = Me, cpu'.ebp = cpu.ebp, cpu'.esp = cpu.esp,
         {cpu.pc, cpu'.pc} \subseteq {"main", "forked", "assigned"},
         stack' \in Stacks,
         \A u \in Task, e \in 1 .. MaxDepth : stack[u][e].kind = "frame" =>
           /\ stack'[u][e].kind = "frame" /\ stack'[u][e].ret = stack[u][e].ret
           /\ stack'[u][e].link = stack[u][e].link,
         \A u \in alive \ {Me} : stack'[u][depth[u] + 1] = stack[u][depth[u] + 1]
  PROVE  FInv'
  <1> PICK me : me = Me
    OBVIOUS
  <1>1. FTypeOK /\ WholeContexts /\ alive \subseteq Task /\ me \in alive /\ cpu.esp = <<me, depth[me]>>
    BY Unfolded DEF FInv, FTypeOK
  <1>2. FTypeOK'
    BY <1>1 DEF FTypeOK, Stacks, Me
  <1>3. /\ Me' = me /\ Ebp' = Ebp /\ \A u \in alive \ {me} : Pc'[u] = Pc[u]
        /\ {Pc[me], Pc'[me]} \subseteq {"main", "forked", "assigned"}
    BY <1>1 DEF Me, Pc, Ebp
  <1>4. \A u \in alive : Floor'[u] = Floor[u]
    BY <1>1, <1>3 DEF Floor, Inner
  <1>5. Standing \subseteq Standing'
    <2> SUFFICES ASSUME NEW a \in Standing PROVE a \in Standing'
      OBVIOUS
    <2>1. /\ a[1] \in Task /\ a[2] \in 1 .. MaxDepth /\ stack[a[1]][a[2]].kind = "frame"
          /\ a[1] \in alive => a[2] <= Floor[a[1]]
      BY DEF Standing, At
    <2> QED BY <1>4, <2>1, StandingStays
  <1>6. ASSUME NEW u \in alive PROVE PointerFits(u)' /\ FramesLinked(u)'
    <2>1. u \in Task /\ PointerFits(u) /\ FramesLinked(u) /\ depth[u] \in 0 .. MaxDepth - 1
      BY <1>1, FloorIs
    <2>2. \A e \in 1 .. depth[u] : e \in 1 .. MaxDepth /\ stack[u][e].kind = "frame"
      BY <2>1, FramesAssumption DEF FramesLinked
    <2>3. \A e \in 1 .. depth[u] :
            /\ stack'[u][e].kind = "frame" /\ stack'[u][e].ret = stack[u][e].ret
            /\ stack'[u][e].link = stack[u][e].link
      BY <2>1, <2>2
    <2>4. Pc'[u] = Pc[u] \/ {Pc[u], Pc'[u]} \subseteq {"main", "forked", "assigned"}
      BY <1>3
    <2>5. u \in alive' /\ depth'[u] = depth[u] /\ Ebp'[u] = Ebp[u] /\ depth[u] \in Nat
      BY <1>3, <2>1
    <2> QED BY <1>5, <2>1, <2>3, <2>4, <2>5, TaskKept
  <1>7. StackIsOwn'
    BY <1>1, <1>3 DEF FInv, StackIsOwn
  <1>8. ContextIntact'
    <2>1. cpu'.pc # "astray"
      BY DEF Labels
    <2>2. \A u \in alive \ {me} : cpustate[u] = <<u, depth[u] + 1>> /\ stack[u][depth[u] + 1] = kept[u]
      BY Unfolded
    <2> QED BY <1>3, <2>1, <2>2 DEF ContextIntact, At
  <1>9. KeptWhole' /\ WholeContexts'
    BY <1>1, <1>3 DEF FInv, KeptWhole, WholeContexts
  <1> QED BY <1>2, <1>6, <1>7, <1>8, <1>9 DEF FInv

LEMMA AssignsKeeps ==
  ASSUME FInv, Assigns
  PROVE  FInv'
  <1>1. /\ FTypeOK /\ stack \in Stacks /\ Me \in alive /\ Pc[Me] = cpu.pc /\ Ebp[Me] = cpu.ebp
        /\ cpu.pc = "forked" /\ cpu.answer \in Int
    BY Unfolded DEF FInv, Assigns
  <1>2. cpu.ebp \in Standing
    <2>1. PointerFits(Me) /\ depth[Me] \in 0 .. MaxDepth - 1
      BY <1>1, FloorIs
    <2>2. depth[Me] # 0 /\ Pc[Me] \notin Inner
      BY <1>1, <2>1 DEF PointerFits, Inner
    <2> QED BY <1>1, <2>1, <2>2, FramesAssumption DEF PointerFits
  <1>3. PICK a \in Standing : a = cpu.ebp
    BY <1>2
  <1>4. PICK t \in Task, e \in 1 .. MaxDepth : a = <<t, e>>
    BY DEF Standing
  <1>5. stack[t][e].kind = "frame" /\ (t \in alive => e <= Floor[t])
    BY <1>4 DEF Standing, At
  <1>6. PICK s : s = [stack[t][e] EXCEPT !.child = cpu.answer]
    OBVIOUS
  <1>7. stack[t][e] \in FrameSlot
    <2>1. stack[t][e] \in Slot
      BY <1>1 DEF Stacks
    <2> QED BY <1>5, <2>1 DEF Slot, ContextSlot
  <1>8. /\ s \in Slot /\ s.kind = "frame" /\ s.ret = stack[t][e].ret /\ s.link = stack[t][e].link
    BY <1>1, <1>6, <1>7 DEF FrameSlot, Slot
  <1>9. stack' = With(stack, <<t, e>>, s)
    BY <1>3, <1>4, <1>5, <1>6 DEF Assigns, Written, At
  <1>10. /\ stack' \in Stacks
         /\ \A u \in Task, i \in 1 .. MaxDepth :
              stack'[u][i] = IF u = t /\ i = e THEN s ELSE stack[u][i]
    BY <1>1, <1>8, <1>9, WithIs
  <1>11. ASSUME NEW u \in alive \ {Me} PROVE stack'[u][depth[u] + 1] = stack[u][depth[u] + 1]
    <2>1. u \in Task /\ depth[u] + 1 \in 1 .. MaxDepth
      BY Unfolded
    <2>2. Floor[u] <= depth[u] /\ Floor[u] \in Int /\ depth[u] \in Int
      BY FloorIs
    <2>3. ~(u = t /\ depth[u] + 1 = e)
      BY <1>5, <2>2
    <2> QED BY <1>10, <2>1, <2>3
  <1>12. /\ alive' = alive /\ unborn' = unborn /\ cpustate' = cpustate /\ kept' = kept
         /\ depth' = depth /\ stored' = [stored EXCEPT ![Me] = cpu.answer]
         /\ cpu' = [cpu EXCEPT !.pc = "assigned", !.answer = 0]
    BY DEF Assigns
  <1>13. /\ cpu' \in [task : Task, pc : Labels, ebp : Address, esp : Address, answer : Int]
         /\ cpu'.task = Me /\ cpu'.ebp = cpu.ebp /\ cpu'.esp = cpu.esp /\ cpu'.pc = "assigned"
         /\ stored' \in [Task -> Int]
    <2>1. /\ cpu \in [task : Task, pc : Labels, ebp : Address, esp : Address, answer : Int]
          /\ stored \in [Task -> Int] /\ "assigned" \in Labels /\ 0 \in Int
      BY <1>1 DEF FTypeOK, Labels
    <2>2. /\ cpu' \in [task : Task, pc : Labels, ebp : Address, esp : Address, answer : Int]
          /\ cpu'.task = cpu.task /\ cpu'.ebp = cpu.ebp /\ cpu'.esp = cpu.esp /\ cpu'.pc = "assigned"
      BY <1>12, <2>1
    <2>3. stored' \in [Task -> Int]
      BY <1>1, <1>12, <2>1
    <2> QED BY <2>2, <2>3 DEF Me
  <1> QED BY <1>1, <1>8, <1>10, <1>11, <1>12, <1>13, SameFunctionKeeps

LEMMA DecidesKeeps ==
  ASSUME FInv, Decides
  PROVE  FInv'
  <1>1. FTypeOK /\ stack \in Stacks
    BY Unfolded DEF FInv
  <1>2. /\ alive' = alive /\ unborn' = unborn /\ cpustate' = cpustate /\ kept' = kept
        /\ depth' = depth /\ stored' = [stored EXCEPT ![Me] = 0] /\ stack' = stack
        /\ cpu' = [cpu EXCEPT !.pc = "main"] /\ cpu.pc = "assigned"
    BY DEF Decides
  <1>3. /\ cpu' \in [task : Task, pc : Labels, ebp : Address, esp : Address, answer : Int]
        /\ cpu'.task = Me /\ cpu'.ebp = cpu.ebp /\ cpu'.esp = cpu.esp /\ cpu'.pc = "main"
        /\ stored' \in [Task -> Int]
    <2>1. /\ cpu \in [task : Task, pc : Labels, ebp : Address, esp : Address, answer : Int]
          /\ stored \in [Task -> Int] /\ "main" \in Labels /\ 0 \in Int
      BY <1>1 DEF FTypeOK, Labels
    <2>2. /\ cpu' \in [task : Task, pc : Labels, ebp : Address, esp : Address, answer : Int]
          /\ cpu'.task = cpu.task /\ cpu'.ebp = cpu.ebp /\ cpu'.esp = cpu.esp /\ cpu'.pc = "main"
      BY <1>2, <2>1
    <2>3. stored' \in [Task -> Int]
      BY <1>1, <1>2, <2>1
    <2> QED BY <2>2, <2>3 DEF Me
  <1> QED BY <1>1, <1>2, <1>3, SameFunctionKeeps

-----------------------------------------------------------------------------
(* Fork and execve.                                                        *)

\* The context the system call fork pushes, returning from fork's function.
LEMMA ForkContextIs ==
  ASSUME FInv, NEW c, c = [Interrupted(Syscall) EXCEPT !.pc = "answered"]
  PROVE  /\ c = Context(1, "answered", cpu.ebp, cpu.answer)
         /\ c \in ContextSlot /\ c \in Slot /\ c.words = 1 /\ c.pc = "answered" /\ c.ebp = cpu.ebp
  <1>1. c = Context(1, "answered", cpu.ebp, cpu.answer)
    BY OwnVectors DEF Interrupted, Context
  <1>2. cpu.ebp \in Address /\ cpu.answer \in Int
    BY Unfolded
  <1>3. 1 \in 0 .. 2 /\ "answered" \in Labels
    BY DEF Labels
  <1>4. PICK s : s = Context(1, "answered", cpu.ebp, cpu.answer)
    OBVIOUS
  <1>5. s \in ContextSlot /\ s \in Slot /\ s.words = 1 /\ s.pc = "answered" /\ s.ebp = cpu.ebp
    BY <1>2, <1>3, <1>4, ContextIs
  <1> QED BY <1>1, <1>4, <1>5

LEMMA FullForkKeeps ==
  ASSUME FInv, Fork, unborn = {}
  PROVE  FInv'
  <1> DEFINE d == depth[Me]
  <1> PICK me : me = Me
    OBVIOUS
  <1>a. PICK c : c = [Interrupted(Syscall) EXCEPT !.pc = "answered"]
    OBVIOUS
  <1>b. PICK r : r = [c EXCEPT !.answer = -1]
    OBVIOUS
  <1>1. /\ FTypeOK /\ stack \in Stacks /\ kept \in [Task -> Slot] /\ me \in Task /\ me \in alive
        /\ d \in 0 .. MaxDepth - 1 /\ d + 1 \in 1 .. MaxDepth /\ Above(cpu.esp) = <<me, d + 1>>
        /\ Pc[me] = cpu.pc /\ Ebp[me] = cpu.ebp /\ cpu.ebp \in Address
    BY Unfolded DEF FInv
  <1>2. /\ Resume(me, With(With(stack, <<me, d + 1>>, c), <<me, d + 1>>, r), <<me, d + 1>>, kept)
        /\ cpustate' = cpustate /\ alive' = alive /\ unborn' = unborn /\ depth' = depth
        /\ stored' = stored /\ cpu.pc = "fork"
    BY <1>a, <1>b, <1>1 DEF Fork
  <1>3. c = Context(1, "answered", cpu.ebp, cpu.answer) /\ c \in Slot
    BY <1>a, ForkContextIs
  <1>4. r = Context(1, "answered", cpu.ebp, -1)
    BY <1>b, <1>3 DEF Context
  <1>5. r \in ContextSlot /\ r \in Slot /\ r.words = 1 /\ r.pc = "answered" /\ r.ebp = cpu.ebp
    <2>1. 1 \in 0 .. 2 /\ "answered" \in Labels /\ -1 \in Int
      BY DEF Labels
    <2> QED BY <1>1, <1>4, <2>1, ContextIs
  <1>6. PICK pushed \in Stacks : /\ pushed = With(stack, <<me, d + 1>>, c)
                                 /\ \A u \in Task, e \in 1 .. MaxDepth :
                                      pushed[u][e] = IF u = me /\ e = d + 1 THEN c ELSE stack[u][e]
    BY <1>1, <1>3, WithIs
  <1>7. PICK b \in 1 .. MaxDepth : b = d + 1
    BY <1>1
  <1>8. PICK stk \in Stacks : /\ stk = With(pushed, <<me, b>>, r)
                              /\ \A u \in Task, e \in 1 .. MaxDepth :
                                   stk[u][e] = IF u = me /\ e = b THEN r ELSE pushed[u][e]
    <2>1. pushed \in Stacks /\ b \in 1 .. MaxDepth /\ me \in Task /\ r \in Slot
      BY <1>1, <1>5, <1>6, <1>7
    <2> QED BY <2>1, WithIs
  <1>9. PICK keeps \in [Task -> Slot] : keeps = kept
    BY <1>1
  <1>10. Resume(me, stk, <<me, b>>, keeps) /\ stk[me][b] = r
    BY <1>1, <1>2, <1>6, <1>7, <1>8, <1>9
  <1>11. /\ cpu' \in [task : Task, pc : Labels, ebp : Address, esp : Address, answer : Int]
         /\ cpu'.task = me /\ cpu'.pc = "answered" /\ cpu'.ebp = Ebp[me]
         /\ cpu'.esp = <<me, b - 1>>
         /\ stack' \in Stacks
         /\ \A u \in Task, e \in 1 .. MaxDepth :
              stack'[u][e] = IF u = me /\ e = b THEN Blank ELSE stk[u][e]
         /\ kept' \in [Task -> Slot]
         /\ \A u \in Task : kept'[u] = IF u = me THEN Blank ELSE kept[u]
    BY <1>1, <1>5, <1>9, <1>10, ResumeIs
  <1>12. b - 1 = depth[me]
    BY <1>1, <1>7
  <1>13. ASSUME NEW u \in Task, NEW e \in 1 .. MaxDepth, ~(u = me /\ e = b)
         PROVE  stack'[u][e] = stack[u][e]
    BY <1>6, <1>7, <1>8, <1>11, <1>13
  <1>14. ASSUME NEW u \in Task, NEW e \in 1 .. MaxDepth, u \in alive => e <= depth[u]
         PROVE  stack'[u][e] = stack[u][e]
    <2>1. ~(u = me /\ e = b)
      BY <1>1, <1>7, <1>14
    <2> QED BY <1>13, <2>1
  <1>15. ASSUME NEW u \in alive \ {me}
         PROVE  /\ cpustate'[u] = <<u, depth[u] + 1>> /\ stack'[u][depth[u] + 1] = kept'[u]
                /\ kept'[u] \in ContextSlot /\ kept'[u].words = 1
                /\ kept'[u].pc = Pc[u] /\ kept'[u].ebp = Ebp[u]
    BY <1>1, <1>2, <1>11, <1>13, Unfolded
  <1>16. cpustate' \in [Task -> Task \X (1 .. MaxDepth)] /\ depth' \in [Task -> 0 .. MaxDepth - 1]
         /\ stored' \in [Task -> Int]
    BY <1>1, <1>2 DEF FTypeOK
  <1> QED BY <1>1, <1>2, <1>11, <1>12, <1>14, <1>15, <1>16, SwitchKeeps

\* The step of fork in the terms its action names, c being the context pushed at a and stk
\* the stacks with it.
ForkTo(me, a, e, c, stk, n) ==
  LET given == [c EXCEPT !.ebp = <<n, cpu.ebp[2]>>, !.answer = 0]
  IN  /\ Resume(me, With([stk EXCEPT ![n] = stk[me], ![me][e].answer = n], <<n, e>>, given), a,
                [kept EXCEPT ![n] = [c EXCEPT !.ebp = <<n, @[2]>>, !.answer = 0]])
      /\ cpustate' = [cpustate EXCEPT ![n] = <<n, e>>]
      /\ alive' = alive \cup {n} /\ unborn' = unborn \ {n}
      /\ depth' = [depth EXCEPT ![n] = depth[me]] /\ stored' = [stored EXCEPT ![n] = stored[me]]

\* What fork makes of the stacks and of the tasks when there is room: the stack of n is the
\* caller's, with the frame pointer of its context moved.
Forked(me, d, n) ==
  /\ n \in Task /\ n \notin alive
  /\ cpu' \in [task : Task, pc : Labels, ebp : Address, esp : Address, answer : Int]
  /\ cpu'.task = me /\ cpu'.pc = "answered" /\ cpu'.ebp = cpu.ebp /\ cpu'.esp = <<me, d>>
  /\ stack' \in Stacks
  /\ stack'[n][d + 1] = kept'[n]
  /\ \A e \in (1 .. MaxDepth) \ {d + 1} : stack'[n][e] = stack[me][e]
  /\ \A u \in Task \ {n}, e \in 1 .. MaxDepth :
       ~(u = me /\ e = d + 1) => stack'[u][e] = stack[u][e]
  /\ kept' \in [Task -> Slot]
  /\ kept'[n] = Context(1, "answered", <<n, cpu.ebp[2]>>, 0)
  /\ \A u \in Task \ {me, n} : kept'[u] = kept[u]
  /\ cpustate' = [cpustate EXCEPT ![n] = <<n, d + 1>>]
  /\ alive' = alive \cup {n} /\ unborn' = unborn \ {n}
  /\ depth' = [depth EXCEPT ![n] = d] /\ stored' = [stored EXCEPT ![n] = stored[me]]

LEMMA ForkIs ==
  ASSUME FInv, Fork, unborn # {}, NEW me, me = Me, NEW d, d = depth[me]
  PROVE  \E n \in unborn : Forked(me, d, n)
  <1>a. PICK c : c = [Interrupted(Syscall) EXCEPT !.pc = "answered"]
    OBVIOUS
  <1>1. /\ FTypeOK /\ stack \in Stacks /\ kept \in [Task -> Slot] /\ me \in Task /\ me \in alive
        /\ me \notin unborn /\ d \in 0 .. MaxDepth - 1 /\ d + 1 \in 1 .. MaxDepth
        /\ Above(cpu.esp) = <<me, d + 1>>
        /\ cpu.ebp \in Address /\ cpu.answer \in Int
    BY Unfolded DEF FInv
  <1>2. c = Context(1, "answered", cpu.ebp, cpu.answer) /\ c \in Slot /\ c \in ContextSlot
    BY <1>a, ForkContextIs
  <1>3. PICK b \in 1 .. MaxDepth : b = d + 1
    BY <1>1
  <1>4. PICK stk \in Stacks : /\ stk = With(stack, <<me, b>>, c)
                              /\ \A u \in Task, e \in 1 .. MaxDepth :
                                   stk[u][e] = IF u = me /\ e = b THEN c ELSE stack[u][e]
    BY <1>1, <1>2, WithIs
  <1>5. PICK n \in unborn : ForkTo(me, <<me, b>>, b, c, stk, n)
    <2>1. Above(cpu.esp) = <<me, b>> /\ Above(cpu.esp)[2] = b
      BY <1>1, <1>3
    <2>2. \E n \in unborn :
            LET p == [Interrupted(Syscall) EXCEPT !.pc = "answered"]
            IN  ForkTo(Me, Above(cpu.esp), Above(cpu.esp)[2], p, With(stack, Above(cpu.esp), p), n)
      BY DEF Fork, Moved, Relocated, ForkTo
    <2> QED BY <1>a, <1>4, <2>1, <2>2
  <1>6. n \in Task /\ n # me /\ n \notin alive /\ n \in Int /\ 0 \in Int
    BY <1>1, FramesAssumption DEF FTypeOK
  <1>7. PICK r : r = Context(1, "answered", cpu.ebp, n)
    OBVIOUS
  <1>8. PICK g : g = Context(1, "answered", <<n, cpu.ebp[2]>>, 0)
    OBVIOUS
  <1>9. /\ r \in ContextSlot /\ r \in Slot /\ r.words = 1 /\ r.pc = "answered" /\ r.ebp = cpu.ebp
    <2>1. 1 \in 0 .. 2 /\ "answered" \in Labels
      BY DEF Labels
    <2> QED BY <1>1, <1>6, <1>7, <2>1, ContextIs
  <1>10. g \in Slot
    <2>1. <<n, cpu.ebp[2]>> \in Address
      BY <1>1, <1>6 DEF Address
    <2> QED BY <1>6, <1>8, <2>1, ContextIs DEF Labels
  <1>11. /\ [c EXCEPT !.ebp = <<n, cpu.ebp[2]>>, !.answer = 0] = g
         /\ [c EXCEPT !.ebp = <<n, @[2]>>, !.answer = 0] = g
         /\ [c EXCEPT !.answer = n] = r
    <2>1. c = [kind |-> "context", words |-> 1, pc |-> "answered", ebp |-> cpu.ebp, answer |-> cpu.answer]
      BY <1>2 DEF Context
    <2>2. PICK p : p = <<n, cpu.ebp[2]>>
      OBVIOUS
    <2>3. g = [kind |-> "context", words |-> 1, pc |-> "answered", ebp |-> p, answer |-> 0]
      BY <1>8, <2>2 DEF Context
    <2>4. r = [kind |-> "context", words |-> 1, pc |-> "answered", ebp |-> cpu.ebp, answer |-> n]
      BY <1>7 DEF Context
    <2>5. [c EXCEPT !.answer = n] = r
      BY <2>1, <2>4
    <2>6. [c EXCEPT !.ebp = p, !.answer = 0] = g
      <3>1. PICK m : m = [c EXCEPT !.ebp = p]
        OBVIOUS
      <3>2. m = [kind |-> "context", words |-> 1, pc |-> "answered", ebp |-> p, answer |-> cpu.answer]
        BY <2>1, <3>1
      <3>3. [m EXCEPT !.answer = 0] = g
        BY <2>3, <3>2
      <3> QED BY <3>1, <3>3
    <2>7. c.ebp = cpu.ebp
      BY <2>1
    <2>8. <<n, c.ebp[2]>> = p
      BY <2>2, <2>7
    <2>9. [c EXCEPT !.ebp = <<n, cpu.ebp[2]>>, !.answer = 0] = g
      BY <2>2, <2>6
    <2>10. [c EXCEPT !.ebp = <<n, @[2]>>, !.answer = 0] = g
      BY <2>6, <2>8
    <2> QED BY <2>5, <2>9, <2>10
  <1>12. PICK copied : copied = [stk EXCEPT ![n] = stk[me], ![me][b].answer = n]
    OBVIOUS
  <1>13. stk[me][b] = c
    BY <1>1, <1>4
  <1>14. /\ copied \in Stacks
         /\ \A u \in Task, e \in 1 .. MaxDepth :
              copied[u][e] = IF u = me /\ e = b THEN r ELSE IF u = n THEN stk[me][e] ELSE stk[u][e]
    <2>1. PICK once : once = [stk EXCEPT ![n] = stk[me]]
      OBVIOUS
    <2>2. /\ once \in Stacks /\ \A u \in Task : once[u] = IF u = n THEN stk[me] ELSE stk[u]
      BY <1>1, <1>6, <2>1 DEF Stacks
    <2>3. once[me][b] = c
      BY <1>1, <1>6, <1>13, <2>2
    <2>4. copied = [once EXCEPT ![me][b] = r]
      BY <1>11, <1>12, <2>1, <2>3
    <2>5. copied = With(once, <<me, b>>, r)
      BY <2>4 DEF With
    <2>7. once \in Stacks /\ b \in 1 .. MaxDepth /\ me \in Task /\ r \in Slot
      BY <1>1, <1>3, <1>9, <2>2
    <2>6. /\ copied \in Stacks
          /\ \A u \in Task, e \in 1 .. MaxDepth :
               copied[u][e] = IF u = me /\ e = b THEN r ELSE once[u][e]
      BY <2>2, <2>5, <2>7, WithIs
    <2> QED BY <2>2, <2>6
  <1>15. PICK final \in Stacks :
           /\ final = With(copied, <<n, b>>, g)
           /\ \A u \in Task, e \in 1 .. MaxDepth :
                final[u][e] = IF u = n /\ e = b THEN g ELSE copied[u][e]
    BY <1>3, <1>6, <1>10, <1>14, WithIs
  <1>16. PICK keeps \in [Task -> Slot] :
           /\ keeps = [kept EXCEPT ![n] = g]
           /\ \A u \in Task : keeps[u] = IF u = n THEN g ELSE kept[u]
    <2>1. kept \in [Task -> Slot] /\ n \in Task /\ g \in Slot
      BY <1>1, <1>6, <1>10
    <2>2. PICK keeps : keeps = [kept EXCEPT ![n] = g]
      OBVIOUS
    <2>3. keeps \in [Task -> Slot] /\ \A u \in Task : keeps[u] = IF u = n THEN g ELSE kept[u]
      BY <2>1, <2>2
    <2> QED BY <2>2, <2>3
  <1>17. Resume(me, final, <<me, b>>, keeps)
    BY <1>5, <1>11, <1>12, <1>15, <1>16 DEF ForkTo
  <1>18. final[me][b] = r
    BY <1>1, <1>3, <1>6, <1>14, <1>15
  <1>19. /\ cpu' \in [task : Task, pc : Labels, ebp : Address, esp : Address, answer : Int]
         /\ cpu'.task = me /\ cpu'.pc = "answered" /\ cpu'.ebp = cpu.ebp
         /\ cpu'.esp = <<me, b - 1>>
         /\ stack' \in Stacks
         /\ \A u \in Task, e \in 1 .. MaxDepth :
              stack'[u][e] = IF u = me /\ e = b THEN Blank ELSE final[u][e]
         /\ kept' \in [Task -> Slot]
         /\ \A u \in Task : kept'[u] = IF u = me THEN Blank ELSE keeps[u]
    <2>1. /\ me \in Task /\ b \in 1 .. MaxDepth /\ final \in Stacks /\ keeps \in [Task -> Slot]
          /\ final[me][b] \in ContextSlot /\ final[me][b].words = 1
          /\ final[me][b].pc = "answered" /\ final[me][b].ebp = cpu.ebp
      BY <1>1, <1>3, <1>9, <1>15, <1>16, <1>18
    <2> QED BY <1>17, <2>1, ResumeIs
  <1>20. b - 1 = d
    BY <1>1, <1>3
  <1>21. kept'[n] = g /\ stack'[n][b] = g /\ \A u \in Task \ {me, n} : kept'[u] = kept[u]
    BY <1>3, <1>6, <1>15, <1>16, <1>19
  <1>22. \A e \in (1 .. MaxDepth) \ {b} : stack'[n][e] = stack[me][e]
    BY <1>1, <1>4, <1>6, <1>14, <1>15, <1>19
  <1>23. \A u \in Task \ {n}, e \in 1 .. MaxDepth :
           ~(u = me /\ e = b) => stack'[u][e] = stack[u][e]
    BY <1>4, <1>14, <1>15, <1>19
  <1>24. /\ cpustate' = [cpustate EXCEPT ![n] = <<n, b>>]
         /\ alive' = alive \cup {n} /\ unborn' = unborn \ {n}
         /\ depth' = [depth EXCEPT ![n] = d] /\ stored' = [stored EXCEPT ![n] = stored[me]]
    BY <1>5 DEF ForkTo
  <1>25. Forked(me, d, n)
    BY <1>3, <1>6, <1>8, <1>19, <1>20, <1>21, <1>22, <1>23, <1>24 DEF Forked
  <1> QED BY <1>25

LEMMA ForkKeeps ==
  ASSUME FInv, Fork, unborn # {}
  PROVE  FInv'
  <1>a. PICK me, d : me = Me /\ d = depth[me]
    OBVIOUS
  <1>1. /\ FTypeOK /\ stack \in Stacks /\ kept \in [Task -> Slot] /\ me \in Task /\ me \in alive
        /\ me \notin unborn /\ alive \subseteq Task /\ d \in 0 .. MaxDepth - 1 /\ d + 1 \in 1 .. MaxDepth
        /\ Pc[me] = cpu.pc /\ Ebp[me] = cpu.ebp /\ cpu.ebp \in Address /\ WholeContexts
    BY <1>a, Unfolded DEF FInv
  <1>2. cpu.pc = "fork"
    BY DEF Fork
  <1>3. /\ cpu.ebp = <<me, d>> /\ d >= 2 /\ stack[me][d].ret = "forked" /\ PointerFits(me)
        /\ FramesLinked(me)
    BY <1>a, <1>1, <1>2, FloorIs DEF PointerFits, Inner
  <1>b. PICK n \in unborn : Forked(me, d, n)
    BY <1>a, ForkIs
  <1>4. /\ n \in Task /\ n \notin alive
        /\ cpu' \in [task : Task, pc : Labels, ebp : Address, esp : Address, answer : Int]
        /\ cpu'.task = me /\ cpu'.pc = "answered" /\ cpu'.ebp = cpu.ebp /\ cpu'.esp = <<me, d>>
        /\ stack' \in Stacks
        /\ stack'[n][d + 1] = kept'[n]
        /\ \A e \in (1 .. MaxDepth) \ {d + 1} : stack'[n][e] = stack[me][e]
        /\ \A u \in Task \ {n}, e \in 1 .. MaxDepth :
             ~(u = me /\ e = d + 1) => stack'[u][e] = stack[u][e]
        /\ kept' \in [Task -> Slot]
        /\ kept'[n] = Context(1, "answered", <<n, cpu.ebp[2]>>, 0)
        /\ \A u \in Task \ {me, n} : kept'[u] = kept[u]
        /\ cpustate' = [cpustate EXCEPT ![n] = <<n, d + 1>>]
        /\ alive' = alive \cup {n} /\ unborn' = unborn \ {n}
        /\ depth' = [depth EXCEPT ![n] = d] /\ stored' = [stored EXCEPT ![n] = stored[me]]
    BY <1>b DEF Forked
  <1>5. /\ kept'[n] \in ContextSlot /\ kept'[n].words = 1 /\ kept'[n].pc = "answered"
        /\ kept'[n].ebp = <<n, d>>
    <2>1. <<n, d>> \in Address /\ cpu.ebp[2] = d
      BY <1>1, <1>3, <1>4, FramesAssumption DEF Address
    <2>2. 1 \in 0 .. 2 /\ "answered" \in Labels /\ 0 \in Int
      BY DEF Labels
    <2>3. PICK p \in Address : p = <<n, d>>
      BY <2>1
    <2>4. kept'[n] = Context(1, "answered", p, 0)
      BY <1>4, <2>1, <2>3
    <2> QED BY <2>2, <2>3, <2>4, ContextIs
  <1>6. FTypeOK'
    <2>1. alive' \subseteq Task /\ unborn' \subseteq Task /\ alive' \cap unborn' = {} /\ Me' \in alive'
      BY <1>1, <1>4 DEF FTypeOK, Me
    <2>2. <<n, d + 1>> \in Task \X (1 .. MaxDepth) /\ stored[me] \in Int
      BY <1>1, <1>4 DEF FTypeOK
    <2>3. /\ cpustate' \in [Task -> Task \X (1 .. MaxDepth)] /\ depth' \in [Task -> 0 .. MaxDepth - 1]
          /\ stored' \in [Task -> Int]
      BY <1>1, <1>4, <2>2 DEF FTypeOK
    <2> QED BY <1>4, <2>1, <2>3 DEF FTypeOK, Stacks
  <1>7. /\ Me' = me /\ depth'[n] = d /\ \A u \in alive : depth'[u] = depth[u] /\ u # n /\ u \in Task
        /\ cpustate'[n] = <<n, d + 1>> /\ \A u \in alive : cpustate'[u] = cpustate[u]
    BY <1>1, <1>4 DEF FTypeOK, Me
  <1>8. /\ Pc'[me] = "answered" /\ Ebp'[me] = Ebp[me]
        /\ Pc'[n] = "answered" /\ Ebp'[n] = <<n, d>>
        /\ \A u \in alive \ {me} : Pc'[u] = Pc[u] /\ Ebp'[u] = Ebp[u]
    BY <1>a, <1>1, <1>4, <1>5, <1>7 DEF Pc, Ebp
  <1>9. \A u \in alive : Floor'[u] = Floor[u]
    <2>1. ASSUME NEW u \in alive PROVE Pc'[u] \in Inner <=> Pc[u] \in Inner
      BY <1>1, <1>2, <1>8 DEF Inner
    <2> QED BY <1>4, <1>7, <2>1 DEF Floor
  <1>10. Floor[me] = d - 1
    BY <1>a, <1>1, <1>2 DEF Floor, Inner
  <1>11. Standing \subseteq Standing'
    <2> SUFFICES ASSUME NEW a \in Standing PROVE a \in Standing'
      OBVIOUS
    <2>1. /\ a[1] \in Task /\ a[2] \in 1 .. MaxDepth /\ stack[a[1]][a[2]].kind = "frame"
          /\ a[1] \in alive => a[2] <= Floor[a[1]]
          /\ a[1] \notin unborn
      BY DEF Standing, At
    <2>2. ~(a[1] = me /\ a[2] = d + 1)
      BY <1>1, <1>10, <2>1
    <2>3. stack'[a[1]][a[2]] = stack[a[1]][a[2]]
      BY <1>4, <2>1, <2>2
    <2>4. a[1] \in alive' => a[2] <= Floor'[a[1]]
      BY <1>4, <1>9, <2>1
    <2>5. unborn' \subseteq unborn
      BY <1>4
    <2> QED BY <2>1, <2>3, <2>4, <2>5, StandingStays
  <1>12. ASSUME NEW u \in alive PROVE PointerFits(u)' /\ FramesLinked(u)'
    <2>1. u \in Task /\ PointerFits(u) /\ FramesLinked(u) /\ depth[u] \in 0 .. MaxDepth - 1
      BY <1>1, FloorIs
    <2>2. ASSUME NEW e \in 1 .. depth[u]
          PROVE  /\ stack'[u][e].kind = "frame" /\ stack'[u][e].ret = stack[u][e].ret
                 /\ stack'[u][e].link = stack[u][e].link
      <3>1. e \in 1 .. MaxDepth /\ stack[u][e].kind = "frame" /\ ~(u = me /\ e = d + 1)
        BY <1>a, <1>1, <2>1, FramesAssumption DEF FramesLinked
      <3>2. stack'[u][e] = stack[u][e]
        BY <1>4, <1>7, <2>1, <3>1
      <3> QED BY <3>1, <3>2
    <2>3. Pc'[u] = Pc[u] \/ (Pc[u] = "fork" /\ Pc'[u] = "answered")
      BY <1>1, <1>2, <1>8
    <2>4. u \in alive' /\ depth'[u] = depth[u] /\ Ebp'[u] = Ebp[u] /\ depth[u] \in Nat
      BY <1>4, <1>7, <1>8, <2>1
    <2> QED BY <1>11, <2>1, <2>2, <2>3, <2>4, TaskKept
  <1>13. PointerFits(n)' /\ FramesLinked(n)'
    <2>1. ASSUME NEW e \in 1 .. d
          PROVE  /\ stack'[n][e] = stack[me][e] /\ stack[me][e].kind = "frame"
                 /\ e >= 2 => stack[me][e].link \in Standing /\ stack[me][e].link[2] = e - 1
      <3>1. e \in (1 .. MaxDepth) \ {d + 1}
        BY <1>1, FramesAssumption
      <3> QED BY <1>a, <1>3, <1>4, <3>1 DEF FramesLinked
    <2>2. FramesLinked(n)'
      BY <1>7, <1>11, <2>1 DEF FramesLinked
    <2>3. d \in 1 .. d /\ d # 0
      BY <1>1, <1>3
    <2>4. stack'[n][d].ret = "forked"
      BY <1>3, <2>1, <2>3
    <2>5. PointerFits(n)'
      BY <1>3, <1>7, <1>8, <2>3, <2>4 DEF PointerFits, Inner
    <2> QED BY <2>2, <2>5
  <1>14. StackIsOwn'
    <2>1. \A u \in alive \ {me} : cpustate[u] = <<u, depth[u] + 1>>
      BY <1>a, Unfolded
    <2>2. depth'[me] = d /\ cpu'.esp = <<me, d>>
      BY <1>a, <1>1, <1>4, <1>7
    <2> QED BY <1>4, <1>7, <2>1, <2>2 DEF StackIsOwn
  <1>15. ContextIntact'
    <2>1. ASSUME NEW u \in alive \ {me} PROVE stack'[cpustate'[u][1]][cpustate'[u][2]] = kept'[u]
      <3>1. /\ cpustate[u] = <<u, depth[u] + 1>> /\ depth[u] + 1 \in 1 .. MaxDepth
            /\ stack[u][depth[u] + 1] = kept[u]
        BY <1>a, Unfolded
      <3>2. kept'[u] = kept[u] /\ stack'[u][depth[u] + 1] = stack[u][depth[u] + 1]
        BY <1>4, <1>7, <3>1
      <3> QED BY <1>7, <3>1, <3>2
    <2>2. stack'[cpustate'[n][1]][cpustate'[n][2]] = kept'[n]
      BY <1>4, <1>7
    <2> QED BY <1>4, <1>7, <2>1, <2>2 DEF ContextIntact, At
  <1>16. KeptWhole'
    <2>1. \A u \in alive \ {me} : kept[u] \in ContextSlot /\ kept[u].words = 1 /\ kept'[u] = kept[u]
      BY <1>a, <1>4, <1>7, Unfolded
    <2> QED BY <1>4, <1>5, <1>7, <2>1 DEF KeptWhole
  <1>17. WholeContexts'
    BY <1>1 DEF WholeContexts
  <1> QED BY <1>4, <1>6, <1>12, <1>13, <1>14, <1>15, <1>16, <1>17 DEF FInv

LEMMA ExecveKeeps ==
  ASSUME FInv, Replaces
  PROVE  FInv'
  <1>a. PICK me : me = Me
    OBVIOUS
  <1>1. /\ FTypeOK /\ stack \in Stacks /\ kept \in [Task -> Slot] /\ me \in Task /\ me \in alive
        /\ alive \subseteq Task /\ WholeContexts
    BY <1>a, Unfolded DEF FInv, FTypeOK
  <1>2. PICK keeps \in [Task -> Slot], one \in 1 .. MaxDepth, c \in {FirstContext} : keeps = kept /\ one = 1 /\ c = FirstContext
    BY <1>1, FramesAssumption
  <1>3. c \in ContextSlot /\ c \in Slot /\ c.words = 1 /\ c.pc = "entry" /\ c.ebp = Nowhere
    <2>1. 1 \in 0 .. 2 /\ "entry" \in Labels /\ 0 \in Int /\ Nowhere \in Address
      BY BlankIsSlot DEF Labels
    <2>2. c = Context(1, "entry", Nowhere, 0)
      BY <1>2 DEF FirstContext
    <2> QED BY <2>1, <2>2, ContextIs
  <1>4. PICK stk \in Stacks : /\ stk = With(stack, <<me, one>>, c)
                              /\ \A u \in Task, e \in 1 .. MaxDepth :
                                   stk[u][e] = IF u = me /\ e = one THEN c ELSE stack[u][e]
    <2>1. one \in 1 .. MaxDepth
      BY <1>2
    <2> QED BY <1>1, <1>3, <2>1, WithIs
  <1>5. Resume(me, stk, <<me, one>>, keeps)
    BY <1>a, <1>2, <1>4 DEF Replaces, Execve
  <1>6. /\ cpu' \in [task : Task, pc : Labels, ebp : Address, esp : Address, answer : Int]
        /\ cpu'.task = me /\ cpu'.pc = "entry" /\ cpu'.ebp = Nowhere
        /\ cpu'.esp = <<me, one - 1>>
        /\ stack' \in Stacks
        /\ \A u \in Task, e \in 1 .. MaxDepth :
             stack'[u][e] = IF u = me /\ e = one THEN Blank ELSE stk[u][e]
        /\ kept' \in [Task -> Slot]
        /\ \A u \in Task : kept'[u] = IF u = me THEN Blank ELSE keeps[u]
    <2>1. /\ me \in Task /\ one \in 1 .. MaxDepth /\ stk \in Stacks /\ keeps \in [Task -> Slot]
          /\ stk[me][one] = c
      BY <1>1, <1>2, <1>4
    <2> QED BY <1>3, <1>5, <2>1, ResumeIs
  <1>7. /\ cpustate' = [cpustate EXCEPT ![me] = <<me, 1>>] /\ depth' = [depth EXCEPT ![me] = 0]
        /\ alive' = alive /\ unborn' = unborn /\ stored' = stored
    BY <1>a DEF Replaces, Execve
  <1>8. /\ \A u \in Task \ {me}, e \in 1 .. MaxDepth : stack'[u][e] = stack[u][e]
        /\ \A u \in Task \ {me} : kept'[u] = kept[u]
    BY <1>2, <1>4, <1>6
  <1>9. /\ FTypeOK' /\ cpu'.esp = <<me, 0>>
    <2>1. <<me, 1>> \in Task \X (1 .. MaxDepth) /\ 0 \in 0 .. MaxDepth - 1
      BY <1>1, FramesAssumption
    <2>2. cpustate' \in [Task -> Task \X (1 .. MaxDepth)] /\ depth' \in [Task -> 0 .. MaxDepth - 1]
      BY <1>1, <1>7, <2>1 DEF FTypeOK
    <2>3. Me' \in alive'
      BY <1>1, <1>6, <1>7 DEF Me
    <2> QED BY <1>1, <1>2, <1>6, <1>7, <2>2, <2>3 DEF FTypeOK, Stacks
  <1>10. /\ Me' = me /\ depth'[me] = 0 /\ Pc'[me] = "entry" /\ Ebp'[me] = Nowhere
         /\ \A u \in alive \ {me} : /\ u \in Task /\ depth'[u] = depth[u] /\ Pc'[u] = Pc[u]
                                    /\ Ebp'[u] = Ebp[u] /\ Ebp[u] = kept[u].ebp
                                    /\ cpustate'[u] = cpustate[u]
    BY <1>a, <1>1, <1>6, <1>7, <1>8 DEF FTypeOK, Me, Pc, Ebp
  <1>11. \A u \in alive \ {me} : Floor'[u] = Floor[u]
    BY <1>7, <1>10 DEF Floor
  <1>12. ASSUME NEW a \in Standing, a[1] # me PROVE a \in Standing'
    <2>1. /\ a[1] \in Task /\ a[2] \in 1 .. MaxDepth /\ stack[a[1]][a[2]].kind = "frame"
          /\ a[1] \in alive => a[2] <= Floor[a[1]]
      BY DEF Standing, At
    <2> QED BY <1>7, <1>8, <1>11, <1>12, <2>1, StandingStays
  <1>13. ASSUME NEW u \in alive \ {me}
         PROVE  Ebp[u][1] # me /\ \A e \in 1 .. depth[u] : stack[u][e].link[1] # me
    <2>1. u \notin Guests(me)
      BY <1>a DEF Replaces
    <2> QED BY <1>10, <2>1 DEF Guests
  <1>14. ASSUME NEW u \in alive \ {me} PROVE PointerFits(u)' /\ FramesLinked(u)'
    <2>1. u \in Task /\ PointerFits(u) /\ FramesLinked(u) /\ depth[u] \in 0 .. MaxDepth - 1
      BY <1>1, FloorIs
    <2>2. ASSUME NEW e \in 1 .. depth[u]
          PROVE  stack'[u][e] = stack[u][e] /\ stack[u][e].kind = "frame"
      <3>1. e \in 1 .. MaxDepth /\ stack[u][e].kind = "frame"
        BY <2>1, FramesAssumption DEF FramesLinked
      <3> QED BY <1>8, <2>1, <3>1
    <2>3. \A e \in 2 .. depth[u] : e \in 1 .. depth[u]
      BY <2>1
    <2>4. /\ Ebp[u] \in Standing => Ebp[u] \in Standing'
          /\ \A e \in 2 .. depth[u] : stack[u][e].link \in Standing => stack[u][e].link \in Standing'
      BY <1>12, <1>13, <2>3
    <2>5. /\ u \in alive' /\ depth[u] \in Nat /\ depth'[u] = depth[u] /\ Ebp'[u] = Ebp[u]
          /\ Pc'[u] = Pc[u]
      BY <1>7, <1>10, <2>1
    <2> QED BY <2>1, <2>2, <2>4, <2>5, TaskKept
  <1>15. PointerFits(me)' /\ FramesLinked(me)'
    <2>1. PointerFits(me)'
      BY <1>10 DEF PointerFits, Inner, Nowhere
    <2>2. FramesLinked(me)'
      BY <1>10 DEF FramesLinked
    <2> QED BY <2>1, <2>2
  <1>16. \A u \in alive \ {me} :
           /\ cpustate[u] = <<u, depth[u] + 1>> /\ depth[u] + 1 \in 1 .. MaxDepth
           /\ stack[u][depth[u] + 1] = kept[u]
           /\ kept[u] \in ContextSlot /\ kept[u].words = 1
    BY <1>a, Unfolded
  <1>17. StackIsOwn'
    BY <1>7, <1>9, <1>10, <1>16 DEF StackIsOwn
  <1>18. ContextIntact'
    BY <1>6, <1>7, <1>8, <1>10, <1>16 DEF ContextIntact, At
  <1>19. KeptWhole' /\ WholeContexts'
    BY <1>1, <1>7, <1>8, <1>10, <1>16 DEF KeptWhole, WholeContexts
  <1> QED BY <1>7, <1>9, <1>14, <1>15, <1>17, <1>18, <1>19 DEF FInv

-----------------------------------------------------------------------------
(* The invariant and what it says.                                         *)

LEMMA FInitially ==
  ASSUME Init, WholeContexts
  PROVE  FInv
  <1>1. /\ Me = Root /\ alive = {Root} /\ cpu.esp = <<Root, 0>> /\ cpu.pc = "entry" /\ cpu.ebp = Nowhere
        /\ \A t \in Task : depth[t] = 0
    BY DEF Init, Me
  <1>2. FirstContext \in Slot /\ Blank \in Slot
    <2>1. 1 \in 0 .. 2 /\ "entry" \in Labels /\ 0 \in Int /\ Nowhere \in Address
      BY BlankIsSlot DEF Labels
    <2> QED BY <2>1, BlankIsSlot, ContextIs DEF FirstContext
  <1>3. FTypeOK
    <2>1. stack \in [Task -> [1 .. MaxDepth -> Slot]]
      <3>1. 1 \in 1 .. MaxDepth
        BY FramesAssumption
      <3> QED BY <1>2, <3>1 DEF Init
    <2>2. cpu \in [task : Task, pc : Labels, ebp : Address, esp : Address, answer : Int]
      <3>1. <<Root, 0>> \in Address /\ Nowhere \in Address
        BY FramesAssumption, BlankIsSlot DEF Address
      <3> QED BY <3>1, FramesAssumption DEF Init, Labels
    <2>3. /\ cpustate \in [Task -> Task \X (1 .. MaxDepth)] /\ kept \in [Task -> Slot]
          /\ depth \in [Task -> 0 .. MaxDepth - 1] /\ stored \in [Task -> Int]
      BY <1>2, FramesAssumption DEF Init
    <2>4. alive \subseteq Task /\ unborn \subseteq Task /\ alive \cap unborn = {} /\ Me \in alive
      BY <1>1, FramesAssumption DEF Init
    <2> QED BY <2>1, <2>2, <2>3, <2>4 DEF FTypeOK
  <1>4. StackIsOwn /\ ContextIntact /\ KeptWhole
    BY <1>1, FramesAssumption DEF StackIsOwn, ContextIntact, KeptWhole
  <1>5. PointerFits(Root) /\ FramesLinked(Root)
    <2>1. Pc[Root] = "entry" /\ Ebp[Root] = Nowhere /\ depth[Root] = 0
      BY <1>1, FramesAssumption DEF Pc, Ebp
    <2> QED BY <2>1 DEF PointerFits, FramesLinked, Inner, Nowhere
  <1> QED BY <1>1, <1>3, <1>4, <1>5 DEF FInv

LEMMA FStays ==
  ASSUME FInv, [Next]_vars
  PROVE  FInv'
  <1>1. CASE Next
    <2>1. CASE Start
      <3>1. cpu.pc = "entry" /\ Enter("main", "nothing")
        BY <2>1 DEF Start
      <3> QED BY <3>1, EnterKeeps
    <2>2. CASE Calls
      <3>1. /\ cpu.pc = "main"
            /\ Enter("work", "main") \/ Enter("main", "main") \/ Enter("fork", "forked")
        BY <2>2 DEF Calls
      <3>2. CASE Enter("work", "main")
        BY <3>1, <3>2, EnterKeeps
      <3>3. CASE Enter("main", "main")
        BY <3>1, <3>3, EnterKeeps
      <3>4. CASE Enter("fork", "forked")
        BY <3>1, <3>4, EnterKeeps
      <3> QED BY <3>1, <3>2, <3>3, <3>4
    <2>3. CASE WorkReturns \/ ForkReturns
      BY <2>3, LeaveKeeps DEF WorkReturns, ForkReturns
    <2> QED BY <1>1, <2>1, <2>2, <2>3, TickKeeps, UnhandledKeeps, AssignsKeeps, DecidesKeeps,
               FullForkKeeps, ForkKeeps, ExitKeeps, ExecveKeeps DEF Next
  <1>2. CASE UNCHANGED vars
    <2>1. /\ stack' = stack /\ cpustate' = cpustate /\ cpu' = cpu /\ alive' = alive
          /\ unborn' = unborn /\ kept' = kept /\ depth' = depth /\ stored' = stored
      BY <1>2 DEF vars
    <2>2. Me' = Me /\ Pc' = Pc /\ Ebp' = Ebp
      BY <2>1 DEF Me, Pc, Ebp
    <2>3. Floor' = Floor
      BY <2>1, <2>2 DEF Floor
    <2>4. Standing' = Standing
      BY <2>1, <2>3 DEF Standing, At
    <2>5. FTypeOK' /\ WholeContexts'
      BY <2>1, <2>2 DEF FInv, FTypeOK, WholeContexts
    <2>6. StackIsOwn' /\ ContextIntact' /\ KeptWhole'
      BY <2>1, <2>2 DEF FInv, StackIsOwn, ContextIntact, KeptWhole, At
    <2>7. \A t \in alive : PointerFits(t)' /\ FramesLinked(t)'
      BY <2>1, <2>2, <2>4 DEF FInv, PointerFits, FramesLinked
    <2> QED BY <2>1, <2>5, <2>6, <2>7 DEF FInv
  <1> QED BY <1>1, <1>2

\* Stacks, registers and frame pointers keep the shape the invariant gives them, when the
\* interrupts without a handler that come are those whose stubs push a whole context.
THEOREM FramesInvariance == WholeContexts /\ Spec => []FInv
  <1>1. Init /\ WholeContexts => FInv
    BY FInitially
  <1>2. FInv /\ [Next]_vars => FInv'
    BY FStays
  <1> QED BY <1>1, <1>2, PTL DEF Spec, WholeContexts

\* A stack pointer stays on its task's own stack, as high as the functions the task has
\* entered and not left, through interrupts, switches, forks and returns into copied frames.
THEOREM StackPointersAreOwn == WholeContexts /\ Spec => []StackIsOwn
  <1>1. FInv => StackIsOwn
    BY DEF FInv
  <1> QED BY <1>1, FramesInvariance, PTL

\* A task goes on with the registers it was interrupted with, whatever its children and
\* ancestors write into the frames they share.
THEOREM ContextsAreIntact == WholeContexts /\ Spec => []ContextIntact
  <1>1. FInv => ContextIntact
    BY DEF FInv
  <1> QED BY <1>1, FramesInvariance, PTL
=============================================================================
