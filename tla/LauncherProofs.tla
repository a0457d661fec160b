--------------------------- MODULE LauncherProofs ---------------------------
(***************************************************************************)
(* Proofs that Launcher.Launch never gives two processes the same port and *)
(* reports "no free ports" only when the range is full, for every range,   *)
(* argument list and behaviour of the other programs on the machine.       *)
(***************************************************************************)
EXTENDS Launcher, SequenceTheorems, TLAPS

(***************************************************************************)
(* The inductive invariant.  The ports handed out increase along procs and *)
(* stay below nextPort, and every port the loop has passed (from portStart *)
(* up to nextPort) is held by another program or by a started process:     *)
(* nextPort only moves past a port that portInUse reported, or that a      *)
(* Start has just taken, and neither busy nor procs ever shrinks.          *)
(***************************************************************************)
PortsBelowNext == \A i \in DOMAIN procs : procs[i].port < nextPort

PortsIncreasing ==
    \A i, j \in DOMAIN procs : i < j => procs[i].port < procs[j].port

PassedTaken == \A q \in PortStart..(nextPort - 1) : q \in busy \cup ProcPorts

ErrorPastEnd == result = "error" => nextPort > PortEnd

LInv ==
    /\ LTypeOK
    /\ nextPort >= PortStart
    /\ PortsBelowNext
    /\ PortsIncreasing
    /\ PassedTaken
    /\ ErrorPastEnd

(* What the type of procs says of its entries.                             *)
LEMMA ProcEntries ==
    ASSUME LTypeOK
    PROVE  /\ DOMAIN procs = 1..Len(procs) /\ Len(procs) \in Nat
           /\ \A i \in DOMAIN procs : procs[i] \in [dir : ValidDirs, port : Nat]
BY LenProperties, ElementOfSeq DEF LTypeOK

(* The invariant holds initially.                                          *)
LEMMA LInvInit == LInit => LInv
<1> SUFFICES ASSUME LInit PROVE LInv
  OBVIOUS
<1>1. todo \in Seq(Dirs)
  <2>1. PICK n \in 0..MaxArgs : todo \in [1..n -> Dirs]
    BY DEF LInit, ArgLists
  <2>2. QED BY <2>1
<1>2. QED
  BY <1>1, LaunchAssumption
  DEF LInit, LInv, LTypeOK, PortsBelowNext, PortsIncreasing, PassedTaken,
      ErrorPastEnd, ProcPorts

(* Every step of Launch and of the environment keeps the invariant.        *)
LEMMA LInvNext == LInv /\ [LNext]_vars => LInv'
<1> SUFFICES ASSUME LInv, [LNext]_vars PROVE LInv'
  OBVIOUS
<1> USE LaunchAssumption
<1>1. CASE SkipDir
  BY <1>1 DEF SkipDir, LInv, LTypeOK, PortsBelowNext, PortsIncreasing,
             PassedTaken, ErrorPastEnd, ProcPorts
<1>2. CASE NextPort
  <2>1. nextPort \in busy \cup ProcPorts
    BY <1>2 DEF NextPort, InUse, ProcPorts, LInv, LTypeOK
  <2>2. PassedTaken'
    BY <1>2, <2>1 DEF NextPort, LInv, LTypeOK, PassedTaken, ProcPorts
  <2>3. ErrorPastEnd'
    BY <1>2 DEF NextPort, LInv, LTypeOK, ErrorPastEnd
  <2>4. PortsBelowNext'
    BY <1>2, ProcEntries DEF NextPort, LInv, LTypeOK, PortsBelowNext
  <2>5. QED
    BY <1>2, <2>2, <2>3, <2>4
    DEF NextPort, LInv, LTypeOK, PortsIncreasing
<1>3. CASE Start
  <2> DEFINE new == [dir |-> Head(todo), port |-> nextPort]
  <2>1. procs' = Append(procs, new) /\ nextPort' = nextPort + 1
    BY <1>3 DEF Start
  <2>2. todo # <<>> /\ Head(todo) \in ValidDirs /\ todo \in Seq(Dirs)
    BY <1>3 DEF Start, LInv, LTypeOK
  <2>a. new \in [dir : ValidDirs, port : Nat]
    BY <2>2 DEF LInv, LTypeOK
  <2>3. /\ procs' \in Seq([dir : ValidDirs, port : Nat])
        /\ DOMAIN procs' = 1..(Len(procs) + 1)
        /\ \A i \in 1..Len(procs) : procs'[i] = procs[i]
        /\ procs'[Len(procs) + 1] = new
    BY <2>1, <2>a, AppendProperties, LenProperties DEF LInv, LTypeOK
  <2>b. Tail(todo) \in Seq(Dirs)
    BY <2>2, HeadTailProperties
  <2>4. LTypeOK'
    BY <1>3, <2>1, <2>b, <2>3, ProcEntries DEF Start, LInv, LTypeOK
  <2>c. Len(procs) \in Nat /\ DOMAIN procs = 1..Len(procs)
        /\ \A i \in DOMAIN procs : procs[i].port \in Nat
    BY ProcEntries DEF LInv
  <2>5. PortsBelowNext'
    BY <2>1, <2>3, <2>c DEF LInv, LTypeOK, PortsBelowNext
  <2>6. PortsIncreasing'
    BY <2>1, <2>3, <2>c DEF LInv, LTypeOK, PortsBelowNext, PortsIncreasing
  <2>7. ProcPorts' = ProcPorts \cup {nextPort}
    BY <2>1, <2>3, <2>c DEF ProcPorts
  <2>8. PassedTaken'
    BY <1>3, <2>1, <2>7 DEF Start, LInv, LTypeOK, PassedTaken
  <2>9. QED
    BY <1>3, <2>1, <2>4, <2>5, <2>6, <2>8 DEF Start, LInv, LTypeOK, ErrorPastEnd
<1>4. CASE StartFail
  BY <1>4 DEF StartFail, LInv, LTypeOK, PortsBelowNext, PortsIncreasing,
             PassedTaken, ErrorPastEnd, ProcPorts
<1>5. CASE Finish
  BY <1>5 DEF Finish, LInv, LTypeOK, PortsBelowNext, PortsIncreasing,
             PassedTaken, ErrorPastEnd, ProcPorts
<1>6. CASE \E i \in DOMAIN procs : Listen(i)
  BY <1>6 DEF Listen, LInv, LTypeOK, PortsBelowNext, PortsIncreasing,
             PassedTaken, ErrorPastEnd, ProcPorts
<1>7. CASE \E p \in OtherPorts : Occupy(p)
  BY <1>7 DEF Occupy, LInv, LTypeOK, PortsBelowNext, PortsIncreasing,
             PassedTaken, ErrorPastEnd, ProcPorts
<1>8. CASE UNCHANGED vars
  BY <1>8 DEF vars, LInv, LTypeOK, PortsBelowNext, PortsIncreasing,
             PassedTaken, ErrorPastEnd, ProcPorts
<1>9. QED
  BY <1>1, <1>2, <1>3, <1>4, <1>5, <1>6, <1>7, <1>8 DEF LNext

(***************************************************************************)
(* Launch never starts two processes on the same port (DistinctPorts), for *)
(* every port range, argument list and interleaving of other programs     *)
(* taking ports between portInUse and cmd.Start.                           *)
(***************************************************************************)
THEOREM LaunchDistinctPorts == LSpec => []DistinctPorts
<1>1. LInv => DistinctPorts
  <2> SUFFICES ASSUME LInv, NEW i \in DOMAIN procs, NEW j \in DOMAIN procs, i # j
               PROVE  procs[i].port # procs[j].port
    BY DEF DistinctPorts
  <2>1. DOMAIN procs \subseteq Nat /\ procs[i].port \in Nat /\ procs[j].port \in Nat
    BY ProcEntries DEF LInv
  <2>2. i < j \/ j < i
    BY <2>1
  <2>3. QED
    BY <2>1, <2>2 DEF LInv, PortsIncreasing
<1>2. QED
  BY <1>1, LInvInit, LInvNext, PTL DEF LSpec

(***************************************************************************)
(* Launch returns "no free ports in range" only when every port of the     *)
(* range is held by another program or by a process it started            *)
(* (ErrorOnlyWhenFull).                                                    *)
(***************************************************************************)
THEOREM LaunchErrorOnlyWhenFull == LSpec => []ErrorOnlyWhenFull
<1>1. LInv => ErrorOnlyWhenFull
  <2> SUFFICES ASSUME LInv, result = "error", NEW q \in PortRange
               PROVE  q \in busy \cup ProcPorts
    BY DEF ErrorOnlyWhenFull
  <2>1. nextPort > PortEnd /\ nextPort \in Nat
    BY DEF LInv, LTypeOK, ErrorPastEnd
  <2>2. q \in PortStart..(nextPort - 1)
    BY <2>1, LaunchAssumption DEF PortRange
  <2>3. QED
    BY <2>2 DEF LInv, PassedTaken
<1>2. QED
  BY <1>1, LInvInit, LInvNext, PTL DEF LSpec
=============================================================================
