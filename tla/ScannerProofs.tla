---------------------------- MODULE ScannerProofs ----------------------------
(***************************************************************************)
(* Proofs about the scan loop: the WaitGroup and the semaphore count the   *)
(* probes that run, so wg.Wait() returns only when none does and Prune     *)
(* never races an Upsert of its own pass, for every port range and every   *)
(* concurrency.                                                            *)
(***************************************************************************)
EXTENDS Scanner, FiniteSetTheorems, TLAPS

(* The control state of the scanner, without the registry.                 *)
ScanCtlType ==
    /\ phase \in {"check", "acquire", "wait", "loop", "stopped"}
    /\ next \in Nat /\ next >= PortStart
    /\ wg \in Nat
    /\ sem \in Nat
    /\ probe \in [Ports -> {"idle", "health", "project"}]
    /\ cancelled \in BOOLEAN

(***************************************************************************)
(* wg.Add(1) runs before the slot is taken, so in "acquire" the group      *)
(* counts one goroutine more than run; otherwise it counts exactly the     *)
(* running probes, and so does the semaphore, which never exceeds its      *)
(* capacity.                                                               *)
(***************************************************************************)
Counted ==
    /\ wg = Cardinality(Running) + (IF phase = "acquire" THEN 1 ELSE 0)
    /\ sem = Cardinality(Running)
    /\ sem <= Concurrency

(***************************************************************************)
(* A pass starts its probes in port order: every running probe is on a     *)
(* port below `next` while the pass is acquiring, or checking or waiting   *)
(* uncancelled; and an uncancelled Run in its select has no probe left.    *)
(* A cancelled pass leaves its probes running, but no later pass gets past *)
(* its first ctx check.                                                    *)
(***************************************************************************)
InOrder ==
    /\ phase = "acquire" => next \in Ports /\ \A p \in Running : p < next
    /\ phase \in {"check", "wait"} /\ ~cancelled => \A p \in Running : p < next
    /\ phase = "loop" /\ ~cancelled => Running = {}

SInv == ScanCtlType /\ Counted /\ InOrder

-----------------------------------------------------------------------------
ProbeStates == {"idle", "health", "project"}

(* The ports whose goroutine runs, for a map of probe steps.               *)
Active(f) == {p \in Ports : f[p] # "idle"}

LEMMA RunningIsActive == Running = Active(probe) /\ Running' = Active(probe')
BY DEF Running, Active

LEMMA ActiveFinite ==
    ASSUME NEW f \in [Ports -> ProbeStates]
    PROVE  IsFiniteSet(Active(f)) /\ Cardinality(Active(f)) \in Nat
<1>1. IsFiniteSet(Ports)
  BY ScanRangeAssumption, FS_Interval
<1>2. Active(f) \subseteq Ports
  BY DEF Active
<1>3. IsFiniteSet(Active(f))
  BY <1>1, <1>2, FS_Subset
<1>4. QED BY <1>3, FS_CardinalityType

(* A goroutine starts on an idle port.                                     *)
LEMMA ActiveStart ==
    ASSUME NEW f \in [Ports -> ProbeStates], NEW q \in Ports, f[q] = "idle"
    PROVE  /\ Active([f EXCEPT ![q] = "health"]) = Active(f) \cup {q}
           /\ q \notin Active(f)
BY DEF Active

(* A goroutine returns.                                                    *)
LEMMA ActiveStop ==
    ASSUME NEW f \in [Ports -> ProbeStates], NEW q \in Ports, f[q] # "idle"
    PROVE  /\ Active([f EXCEPT ![q] = "idle"]) = Active(f) \ {q}
           /\ q \in Active(f)
BY DEF Active

(* A goroutine goes on to its second request.                              *)
LEMMA ActiveMove ==
    ASSUME NEW f \in [Ports -> ProbeStates], NEW q \in Ports, f[q] # "idle"
    PROVE  Active([f EXCEPT ![q] = "project"]) = Active(f)
BY DEF Active

(* The invariant holds at the start of Run.                                *)
LEMMA SInvInit == ScanInit => SInv
<1> SUFFICES ASSUME ScanInit PROVE SInv
  OBVIOUS
<1>1. Running = {}
  BY DEF ScanInit, Running
<1>2. Cardinality(Running) = 0
  BY <1>1, FS_EmptySet
<1>3. ScanCtlType
  <2>1. next \in Nat /\ next >= PortStart
    BY ScanRangeAssumption DEF ScanInit
  <2>2. probe \in [Ports -> {"idle", "health", "project"}]
    BY DEF ScanInit
  <2>3. QED BY <2>1, <2>2 DEF ScanInit, ScanCtlType
<1>4. Counted
  BY <1>2, ConcurrencyAssumption DEF ScanInit, Counted
<1>5. InOrder
  BY <1>1 DEF ScanInit, InOrder
<1>6. QED BY <1>3, <1>4, <1>5 DEF SInv

(* A probe goroutine returns: Finish(p) keeps the invariant.               *)
LEMMA SInvFinish ==
    ASSUME SInv, NEW p \in Ports, probe[p] # "idle", Finish(p),
           UNCHANGED <<phase, next, cancelled>>
    PROVE  SInv'
<1>1. probe \in [Ports -> ProbeStates]
  BY DEF SInv, ScanCtlType, ProbeStates
<1>2. Running' = Running \ {p} /\ p \in Running
  <2>1. Active([probe EXCEPT ![p] = "idle"]) = Active(probe) \ {p}
        /\ p \in Active(probe)
    BY <1>1, ActiveStop
  <2>2. QED BY <2>1, RunningIsActive DEF Finish
<1>3. IsFiniteSet(Running) /\ Cardinality(Running) \in Nat
  BY <1>1, ActiveFinite, RunningIsActive
<1>4. Cardinality(Running') = Cardinality(Running) - 1 /\ Cardinality(Running) >= 1
  <2>1. Cardinality(Running \ {p}) = Cardinality(Running) - 1
    BY <1>2, <1>3, FS_RemoveElement
  <2>2. Cardinality(Running \ {p}) \in Nat
    BY <1>3, FS_RemoveElement, FS_CardinalityType
  <2>3. QED BY <1>2, <1>3, <2>1, <2>2
<1>5. ScanCtlType'
  BY <1>1, <1>4 DEF SInv, ScanCtlType, Counted, Finish, ProbeStates
<1>6. Counted'
  <2> DEFINE ind == IF phase = "acquire" THEN 1 ELSE 0
  <2>1. wg = Cardinality(Running) + ind /\ sem = Cardinality(Running)
        /\ sem <= Concurrency
    BY DEF SInv, Counted
  <2>2. wg' = Cardinality(Running') + ind
    BY <1>3, <1>4, <2>1 DEF Finish
  <2>3. sem' = Cardinality(Running') /\ sem' <= Concurrency
    BY <1>3, <1>4, <2>1, ConcurrencyAssumption DEF Finish
  <2>4. QED BY <2>2, <2>3 DEF Counted
<1>7. InOrder'
  BY <1>2 DEF SInv, InOrder
<1>8. QED BY <1>5, <1>6, <1>7 DEF SInv
(* A step that leaves the probes alone leaves the running set alone.       *)
LEMMA RunningSame == probe' = probe => Running' = Running
BY DEF Running

(* Every step of the driver, the probes and the environment keeps the      *)
(* invariant.                                                              *)
LEMMA SInvNext == SInv /\ [ScanNext]_allVars => SInv'
<1> SUFFICES ASSUME SInv, [ScanNext]_allVars PROVE SInv'
  OBVIOUS
<1>0. probe \in [Ports -> ProbeStates]
  BY DEF SInv, ScanCtlType, ProbeStates
<1>1. CASE ScanCheck
  <2>1. Running' = Running
    BY <1>1, RunningSame DEF ScanCheck
  <2>2. CASE next <= PortEnd /\ cancelled /\ phase' = "loop" /\ UNCHANGED wg
    BY <1>1, <2>1, <2>2 DEF ScanCheck, SInv, ScanCtlType, Counted, InOrder
  <2>3. CASE next <= PortEnd /\ ~cancelled /\ phase' = "acquire" /\ wg' = wg + 1
    <3>1. next \in Ports
      BY <1>1, <2>3, ScanRangeAssumption DEF ScanCheck, SInv, ScanCtlType
    <3>2. QED
      BY <1>1, <2>1, <2>3, <3>1 DEF ScanCheck, SInv, ScanCtlType, Counted, InOrder
  <2>4. CASE next > PortEnd /\ phase' = "wait" /\ UNCHANGED wg
    BY <1>1, <2>1, <2>4 DEF ScanCheck, SInv, ScanCtlType, Counted, InOrder
  <2>5. QED BY <1>1, <2>2, <2>3, <2>4 DEF ScanCheck
<1>2. CASE ScanAcquire
  <2>1. next \in Ports /\ \A p \in Running : p < next
    BY <1>2 DEF ScanAcquire, SInv, InOrder
  <2>2. probe[next] = "idle"
    BY <2>1, ScanRangeAssumption DEF Running
  <2>3. Running' = Running \cup {next} /\ next \notin Running
    <3>1. Active([probe EXCEPT ![next] = "health"]) = Active(probe) \cup {next}
          /\ next \notin Active(probe)
      BY <1>0, <2>1, <2>2, ActiveStart
    <3>2. QED BY <1>2, <3>1, RunningIsActive DEF ScanAcquire
  <2>4. IsFiniteSet(Running) /\ Cardinality(Running) \in Nat
    BY <1>0, ActiveFinite, RunningIsActive
  <2>5. Cardinality(Running') = Cardinality(Running) + 1
    BY <2>3, <2>4, FS_AddElement
  <2>6. ScanCtlType'
    <3>1. probe' \in [Ports -> {"idle", "health", "project"}]
      BY <1>0, <1>2, <2>1 DEF ScanAcquire, ProbeStates
    <3>2. QED
      BY <1>2, <2>1, <3>1, ScanRangeAssumption DEF ScanAcquire, SInv, ScanCtlType
  <2>7. Counted'
    BY <1>2, <2>4, <2>5, ConcurrencyAssumption DEF ScanAcquire, SInv, ScanCtlType, Counted
  <2>8. InOrder'
    <3>0. Running \subseteq Ports
      BY DEF Running
    <3>1. \A p \in Running' : p < next'
      BY <1>2, <2>1, <2>3, <3>0, ScanRangeAssumption DEF ScanAcquire
    <3>2. QED BY <1>2, <3>1 DEF ScanAcquire, InOrder
  <2>9. QED BY <2>6, <2>7, <2>8 DEF SInv
<1>3. CASE ScanWait
  <2>1. Running' = Running
    BY <1>3, RunningSame DEF ScanWait
  <2>2. IsFiniteSet(Running) /\ Cardinality(Running) = 0
    BY <1>0, <1>3, ActiveFinite, RunningIsActive DEF ScanWait, SInv, Counted
  <2>3. Running = {}
    BY <2>2, FS_EmptySet
  <2>4. QED
    BY <1>3, <2>1, <2>3 DEF ScanWait, SInv, ScanCtlType, Counted, InOrder
<1>4. ASSUME NEW p \in Ports, ProbeStep(p) PROVE SInv'
  <2>1. CASE HealthOK(p)
    <3>1. Running' = Running
      <4>1. Active([probe EXCEPT ![p] = "project"]) = Active(probe)
        BY <1>0, <2>1, ActiveMove DEF HealthOK
      <4>2. QED BY <2>1, <4>1, RunningIsActive DEF HealthOK
    <3>2. probe' \in [Ports -> {"idle", "health", "project"}]
      BY <1>0, <2>1 DEF HealthOK, ProbeStates
    <3>3. QED
      BY <2>1, <3>1, <3>2 DEF HealthOK, SInv, ScanCtlType, Counted, InOrder
  <2>2. CASE HealthFail(p)
    BY <2>2, SInvFinish DEF HealthFail
  <2>3. CASE ProjectOK(p)
    BY <2>3, SInvFinish DEF ProjectOK
  <2>4. CASE ProjectFail(p)
    BY <2>4, SInvFinish DEF ProjectFail
  <2>5. QED BY <1>4, <2>1, <2>2, <2>3, <2>4 DEF ProbeStep
<1>5. CASE RunStop
  BY <1>5, RunningSame DEF RunStop, SInv, ScanCtlType, Counted, InOrder
<1>6. CASE RunTicker
  BY <1>6, RunningSame, ScanRangeAssumption
  DEF RunTicker, SInv, ScanCtlType, Counted, InOrder
<1>7. CASE Cancel
  BY <1>7, RunningSame DEF Cancel, SInv, ScanCtlType, Counted, InOrder
<1>8. ASSUME NEW p \in Ports, NEW v \in Instance \cup {Down}, ServerChange(p, v)
      PROVE SInv'
  BY <1>8, RunningSame DEF ServerChange, SInv, ScanCtlType, Counted, InOrder
<1>9. CASE ScanTick
  BY <1>9, RunningSame DEF ScanTick, scanVars, SInv, ScanCtlType, Counted, InOrder
<1>10. CASE UNCHANGED allVars
  BY <1>10, RunningSame DEF allVars, SInv, ScanCtlType, Counted, InOrder
<1>11. QED
  BY <1>1, <1>2, <1>3, <1>4, <1>5, <1>6, <1>7, <1>8, <1>9, <1>10 DEF ScanNext

(***************************************************************************)
(* Spec: Prune runs after all probes of the pass complete (PruneAfterPass) *)
(* for every port range and concurrency: wg.Wait() returns only when no    *)
(* probe goroutine runs, so no Upsert of the pass can follow the Prune.    *)
(***************************************************************************)
THEOREM ScanPruneAfterPass == ScanSpec => PruneAfterPass
<1>1. SInv => (ScanWait => Running = {})
  <2> SUFFICES ASSUME SInv, ScanWait PROVE Running = {}
    OBVIOUS
  <2>1. probe \in [Ports -> ProbeStates]
    BY DEF SInv, ScanCtlType, ProbeStates
  <2>2. IsFiniteSet(Running) /\ Cardinality(Running) = 0
    BY <2>1, ActiveFinite, RunningIsActive DEF ScanWait, SInv, Counted
  <2>3. QED BY <2>2, FS_EmptySet
<1>2. QED
  BY <1>1, SInvInit, SInvNext, PTL DEF ScanSpec, PruneAfterPass

(***************************************************************************)
(* The semaphore bounds the probes running at once by ScanConcurrency, for *)
(* every port range and concurrency.                                       *)
(***************************************************************************)
THEOREM ScanConcurrencyBound == ScanSpec => [](Cardinality(Running) <= Concurrency)
<1>1. SInv => Cardinality(Running) <= Concurrency
  BY DEF SInv, Counted
<1>2. QED
  BY <1>1, SInvInit, SInvNext, PTL DEF ScanSpec
=============================================================================
