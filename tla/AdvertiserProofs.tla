-------------------------- MODULE AdvertiserProofs --------------------------
(***************************************************************************)
(* The mDNS advertiser composed with the registry.  The registry calls     *)
(* the environment makes are Upsert, Prune and Tick, and the advertiser's  *)
(* own steps and main's leave the registry alone, so every behaviour of    *)
(* SysSpec is one of Registry's Spec and what is proved of Spec carries    *)
(* over: the advertiser, reading the registry between the scanner's calls, *)
(* never disturbs its index.                                               *)
(***************************************************************************)
EXTENDS Advertiser, RegistryProofs

(***************************************************************************)
(* Every step of the advertiser's system is a step of the registry or      *)
(* leaves both of its maps unchanged.                                      *)
(***************************************************************************)
LEMMA SysStepIsRegistryStep == [SysNext]_sysVars => [Next]_vars
<1> SUFFICES ASSUME [SysNext]_sysVars PROVE [Next]_vars
  OBVIOUS
<1>1. CASE RegistryStep
  BY <1>1 DEF RegistryStep, Next
<1>2. CASE SyncTick \/ SyncStop \/ MainCancel \/ MainShutdown
  BY <1>2 DEF SyncTick, SyncStop, MainCancel, MainShutdown, vars
<1>3. ASSUME NEW failed \in SUBSET ToRegister, SyncRun(failed) PROVE [Next]_vars
  BY <1>3 DEF SyncRun, vars
<1>4. CASE UNCHANGED sysVars
  BY <1>4 DEF sysVars, vars
<1>5. QED BY <1>1, <1>2, <1>3, <1>4 DEF SysNext

(***************************************************************************)
(* The registry the advertiser reads is driven only by the environment's   *)
(* Upsert, Prune and Tick: every behaviour of SysSpec, on backends and     *)
(* byPort, is a behaviour of Registry's Spec, for every set of ports,      *)
(* paths, slug function and bound on the registry calls.                   *)
(***************************************************************************)
THEOREM AdvDrivesRegistry == SysSpec => Spec
<1>1. SysInit => Init
  BY DEF SysInit
<1>2. [][SysNext]_sysVars => [][Next]_vars
  BY SysStepIsRegistryStep, PTL
<1>3. QED BY <1>1, <1>2, PTL DEF SysSpec, Spec

(***************************************************************************)
(* The registry the advertiser reads keeps its slug map and port index     *)
(* consistent (IndexConsistent), and seen by port is the port directory,   *)
(* whatever the sync goroutine and main do meanwhile, provided no          *)
(* project's slug is another project's disambiguated slug.                 *)
(***************************************************************************)
THEOREM AdvIndexConsistent ==
    ASSUME SlugsUnambiguous
    PROVE  SysSpec => []IndexConsistent
BY AdvDrivesRegistry, RegistryIndexConsistent

(* Seen through LookupByPort, the same registry is the port directory.      *)
THEOREM AdvImplementsPortDirectory ==
    ASSUME SlugsUnambiguous
    PROVE  SysSpec => ImplementsPortDirectory
BY AdvDrivesRegistry, RegistryImplementsPortDirectory
=============================================================================
