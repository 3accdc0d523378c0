-------------------------- MODULE ProcessesProofs --------------------------
(***************************************************************************)
(* What the abstract life of processes guarantees, for any set of pids:    *)
(* the contract the process table is held to by ImplementsProcesses.       *)
(***************************************************************************)
EXTENDS Processes, TLAPS

PInv == LifeOK /\ AtMostOneRunning /\ BlockedOnSomebody

\* The invariant holds at boot and through every fork, exit, wait and dispatch.
LEMMA PInitPInv == PInit => PInv
  BY DEF PInit, PInv, LifeOK, Life, AtMostOneRunning, BlockedOnSomebody

LEMMA ForkKeepsPInv ==
  ASSUME PInv, NEW p \in Pid, NEW c \in Pid, PFork(p, c)
  PROVE  PInv'
  BY DEF PFork, PInv, LifeOK, Life, AtMostOneRunning, BlockedOnSomebody

LEMMA ExitKeepsPInv ==
  ASSUME PInv, NEW p \in Pid, PExit(p)
  PROVE  PInv'
  BY DEF PExit, PInv, LifeOK, Life, AtMostOneRunning, BlockedOnSomebody

\* The child waited for is the witness the blocked parent needs.
LEMMA WaitKeepsPInv ==
  ASSUME PInv, NEW p \in Pid, NEW c \in Pid, NEW nohang \in BOOLEAN, PWait(p, c, nohang)
  PROVE  PInv'
  <1>1. LifeOK' /\ AtMostOneRunning'
    BY DEF PWait, PInv, LifeOK, Life, AtMostOneRunning
  <1>2. c \in awaited' /\ parent'[c] = p /\ state'[c] \notin {"unborn", "gone"}
    BY DEF PWait, PInv, LifeOK
  <1>3. BlockedOnSomebody'
    BY <1>2 DEF PWait, PInv, LifeOK, BlockedOnSomebody
  <1> QED BY <1>1, <1>3 DEF PInv

\* A child that is reaped was its RUNNING parent's, so no blocked parent loses it.
LEMMA ReapKeepsPInv ==
  ASSUME PInv, NEW p \in Pid, NEW c \in Pid, PReap(p, c)
  PROVE  PInv'
  BY DEF PReap, PInv, LifeOK, Life, AtMostOneRunning, BlockedOnSomebody

\* A child that is collected takes the block of its parent with it.
LEMMA CollectKeepsPInv ==
  ASSUME PInv, NEW c \in Pid, PCollect(c)
  PROVE  PInv'
  BY DEF PCollect, PInv, LifeOK, Life, AtMostOneRunning, BlockedOnSomebody

LEMMA DispatchKeepsPInv ==
  ASSUME PInv, NEW p \in Pid, PDispatch(p)
  PROVE  PInv'
  BY DEF PDispatch, PInv, LifeOK, Life, AtMostOneRunning, BlockedOnSomebody

\* Every conjunct holds of every behaviour: the types, one process with the turn, and no
\* process blocked without a child that can still end its wait.
THEOREM LifeInvariance == PSpec => []PInv
  <1>1. PInv /\ [PNext]_procs => PInv'
    <2> SUFFICES ASSUME PInv, [PNext]_procs PROVE PInv'
      OBVIOUS
    <2>1. CASE UNCHANGED procs
      BY <2>1 DEF procs, PInv, LifeOK, AtMostOneRunning, BlockedOnSomebody
    <2>2. CASE PNext
      BY <2>2, ForkKeepsPInv, ExitKeepsPInv, WaitKeepsPInv, ReapKeepsPInv, CollectKeepsPInv,
         DispatchKeepsPInv DEF PNext
    <2> QED BY <2>1, <2>2
  <1> QED BY <1>1, PInitPInv, PTL DEF PSpec

\* The promise of waitpid: whoever is blocked has a child in the table to wake it.
THEOREM NobodyBlockedForNothing == PSpec => [](AtMostOneRunning /\ BlockedOnSomebody)
  BY LifeInvariance, PTL DEF PInv

=============================================================================
