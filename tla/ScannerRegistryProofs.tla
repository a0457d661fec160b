------------------------- MODULE ScannerRegistryProofs -------------------------
(***************************************************************************)
(* The scanner and the registry composed.  The scan loop changes the       *)
(* registry only by calling its methods: ProjectOK and ProjectFail Upsert, *)
(* ScanWait Prunes, time ages the backends, and every other step of the    *)
(* scanner, its probes, main and the instances leaves the two maps alone.  *)
(* So every behaviour of Scanner, seen on backends and byPort, is one of   *)
(* Registry's Spec, and what is proved of Spec holds of the registry the   *)
(* scanner drives: its index stays consistent and, seen by port, it is the *)
(* port directory.                                                         *)
(***************************************************************************)
EXTENDS Scanner, RegistryProofs

(* What the instances on the ports report.                                 *)
ServerType == server \in [Ports -> Instance \cup {Down}]

LEMMA ServerTypeAlways == ScanSpec => []ServerType
<1>1. ScanInit => ServerType
  BY DEF ScanInit, ServerType
<1>2. ServerType /\ [ScanNext]_allVars => ServerType'
  <2> SUFFICES ASSUME ServerType, [ScanNext]_allVars PROVE ServerType'
    OBVIOUS
  <2>1. CASE \E p \in Ports, s \in Instance \cup {Down} : ServerChange(p, s)
    BY <2>1 DEF ServerChange, ServerType
  <2>2. ASSUME NEW p \in Ports, ProbeStep(p) PROVE ServerType'
    BY <2>2 DEF ProbeStep, HealthOK, HealthFail, ProjectOK, ProjectFail, ServerType
  <2>3. CASE ScanCheck \/ ScanAcquire \/ ScanWait \/ RunStop \/ RunTicker \/ Cancel
    BY <2>3 DEF ScanCheck, ScanAcquire, ScanWait, RunStop, RunTicker, Cancel, ServerType
  <2>4. CASE ScanTick \/ UNCHANGED allVars
    BY <2>4 DEF ScanTick, scanVars, allVars, ServerType
  <2>5. QED BY <2>1, <2>2, <2>3, <2>4 DEF ScanNext
<1>3. QED BY <1>1, <1>2, PTL DEF ScanSpec

(* A path an instance reports, or the synthetic one, is a path.            *)
LEMMA ProbedPaths ==
    ASSUME ServerType, NEW p \in Ports, server[p] # Down
    PROVE  server[p].path \in Paths /\ UnknownPath[p] \in Paths
BY UnknownPathAssumption DEF ServerType, Instance, ProjectPaths

(***************************************************************************)
(* Every step of the scanner's system is a step of the registry or leaves  *)
(* both of its maps unchanged.                                             *)
(***************************************************************************)
LEMMA ScanStepIsRegistryStep ==
    ServerType /\ [ScanNext]_allVars => [Next]_vars
<1> SUFFICES ASSUME ServerType, [ScanNext]_allVars PROVE [Next]_vars
  OBVIOUS
<1>1. CASE ScanWait
  BY <1>1 DEF ScanWait, Next
<1>2. CASE ScanTick
  BY <1>2 DEF ScanTick, Next
<1>3. ASSUME NEW p \in Ports, ProjectOK(p) PROVE [Next]_vars
  <2>1. server[p].path \in Paths
    BY <1>3, ProbedPaths DEF ProjectOK
  <2>2. QED BY <1>3, <2>1 DEF ProjectOK, Next
<1>4. ASSUME NEW p \in Ports, ProjectFail(p) PROVE [Next]_vars
  <2>1. UnknownPath[p] \in Paths
    BY UnknownPathAssumption
  <2>2. QED BY <1>4, <2>1 DEF ProjectFail, Next
<1>5. ASSUME NEW p \in Ports, HealthOK(p) \/ HealthFail(p) PROVE [Next]_vars
  BY <1>5 DEF HealthOK, HealthFail, vars
<1>6. CASE ScanCheck \/ ScanAcquire \/ RunStop \/ RunTicker \/ Cancel
  BY <1>6 DEF ScanCheck, ScanAcquire, RunStop, RunTicker, Cancel, vars
<1>7. CASE \E p \in Ports, s \in Instance \cup {Down} : ServerChange(p, s)
  BY <1>7 DEF ServerChange, vars
<1>8. CASE UNCHANGED allVars
  BY <1>8 DEF allVars, vars
<1>9. QED
  BY <1>1, <1>2, <1>3, <1>4, <1>5, <1>6, <1>7, <1>8 DEF ScanNext, ProbeStep

(***************************************************************************)
(* The scan loop uses the registry only through Upsert, Prune and the      *)
(* passing of time: every behaviour of Scanner, on backends and byPort, is *)
(* a behaviour of Registry's Spec, for every port range, concurrency and   *)
(* behaviour of the instances.                                             *)
(***************************************************************************)
THEOREM ScanDrivesRegistry == ScanSpec => Spec
<1>1. ScanInit => Init
  BY DEF ScanInit
<1>2. []ServerType /\ [][ScanNext]_allVars => [][Next]_vars
  BY ScanStepIsRegistryStep, PTL
<1>3. QED BY <1>1, <1>2, ServerTypeAlways, PTL DEF ScanSpec, Spec

(***************************************************************************)
(* The registry the scanner drives keeps its slug map and port index       *)
(* consistent (IndexConsistent), so LookupByPort never dereferences a      *)
(* missing backend, whatever the probes' interleaving, the instances'      *)
(* changes and the timing of Prune, provided no project's slug is another  *)
(* project's disambiguated slug.                                           *)
(***************************************************************************)
THEOREM ScanIndexConsistent ==
    ASSUME SlugsUnambiguous
    PROVE  ScanSpec => []IndexConsistent
BY ScanDrivesRegistry, RegistryIndexConsistent

(***************************************************************************)
(* Seen through LookupByPort, the registry the scanner drives is the port  *)
(* directory of PortDirectory, under the same proviso.                     *)
(***************************************************************************)
THEOREM ScanImplementsPortDirectory ==
    ASSUME SlugsUnambiguous
    PROVE  ScanSpec => ImplementsPortDirectory
BY ScanDrivesRegistry, RegistryImplementsPortDirectory
=============================================================================
