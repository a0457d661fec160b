----------------------------- MODULE Advertiser -----------------------------
(***************************************************************************)
(* The mDNS advertiser of internal/discovery/discovery.go, driven as main  *)
(* drives it (src/unnamed/part_003): a goroutine that, on every tick of a  *)
(* ticker, takes reg.All() and passes the snapshot to Sync, until ctx is   *)
(* done; and main, which on a signal calls cancel() and then               *)
(* adv.Shutdown().  Sync and Shutdown hold the advertiser's mutex for      *)
(* their whole bodies, so each is one step; reg.All() is taken before Sync *)
(* locks.  The registry changes meanwhile (the scanner's Upserts and       *)
(* Prunes); a bounded number of its steps stands for them.                 *)
(*                                                                         *)
(* An advertisement is kept by slug with the TXT fields that name the      *)
(* backend (backend=127.0.0.1:<port>, path=<path>); the instance name and  *)
(* hostname are functions of the slug, and the router's port and IP are   *)
(* fixed, so they are left out.                                            *)
(***************************************************************************)
EXTENDS Registry

CONSTANTS
    NoAdvert,          \* servers[s] when slug s is not advertised
    MaxRegistrySteps   \* how many registry calls the environment makes

VARIABLES
    servers,           \* slug -> the TXT record of its zeroconf server
    snapshot,          \* the goroutine's reg.All() result
    syncPc,            \* the sync goroutine: "select", "sync" or "done"
    mainPc,            \* main: "running", "cancelled" or "shutdown"
    regSteps           \* registry calls made so far

advVars == <<servers, snapshot, syncPc, mainPc, regSteps>>
sysVars == <<backends, byPort, servers, snapshot, syncPc, mainPc, regSteps>>

ASSUME MaxRegistryStepsAssumption == MaxRegistrySteps \in Nat

(* The TXT records that identify the backend.                              *)
Advert == [port : Ports, path : Paths]

ASSUME NoAdvertAssumption == NoAdvert \notin Advert

(* The slugs a.servers holds.                                              *)
Advertised == {s \in Slugs : servers[s] # NoAdvert}

(* The advertisement register builds for a backend.                        *)
AdvertOf(b) == [port |-> b.port, path |-> b.path]

SysInit ==
    /\ Init
    /\ servers = [s \in Slugs |-> NoAdvert]
    /\ snapshot = {}
    /\ syncPc = "select"
    /\ mainPc = "running"
    /\ regSteps = 0

(* The goroutine's select: ticker.C fires and reg.All() is taken.  After   *)
(* cancel() this is still possible when a tick is pending as the select    *)
(* wakes: Go picks either ready case ...                                   *)
SyncTick ==
    /\ syncPc = "select"
    /\ snapshot' = All
    /\ syncPc' = "sync"
    /\ UNCHANGED <<backends, byPort, servers, mainPc, regSteps>>

(* ... or ctx.Done() ends the goroutine.                                   *)
SyncStop ==
    /\ syncPc = "select"
    /\ mainPc # "running"
    /\ syncPc' = "done"
    /\ UNCHANGED <<backends, byPort, servers, snapshot, mainPc, regSteps>>

(* Variant: Sync without its removal loop.                                 *)
SyncNoRemove(failed) ==
    LET current == {b.slug : b \in snapshot}
        byslug(s) == CHOOSE b \in snapshot : b.slug = s
    IN  /\ syncPc = "sync"
        /\ servers' = [s \in Slugs |->
                         IF servers[s] # NoAdvert THEN servers[s]
                         ELSE IF s \in current \ failed
                                THEN AdvertOf(byslug(s)) ELSE NoAdvert]
        /\ syncPc' = "select"
        /\ UNCHANGED <<backends, byPort, snapshot, mainPc, regSteps>>

(***************************************************************************)
(* Sync(snapshot): shut down and forget the servers of slugs not in the    *)
(* snapshot; register every slug of the snapshot not yet advertised, and   *)
(* keep every one that is, whatever its backend now says.  `failed` are    *)
(* the slugs whose zeroconf.RegisterProxy returns an error: they are       *)
(* logged and left unadvertised.                                           *)
(***************************************************************************)
SyncRun(failed) ==
    LET current == {b.slug : b \in snapshot}
        byslug(s) == CHOOSE b \in snapshot : b.slug = s
    IN  /\ syncPc = "sync"
        /\ servers' = [s \in Slugs |->
                         IF s \notin current THEN NoAdvert
                         ELSE IF servers[s] # NoAdvert THEN servers[s]
                         ELSE IF s \in failed THEN NoAdvert
                         ELSE AdvertOf(byslug(s))]
        /\ syncPc' = "select"
        /\ UNCHANGED <<backends, byPort, snapshot, mainPc, regSteps>>

(* The slugs a Sync of the current snapshot would try to register.         *)
ToRegister == {b.slug : b \in snapshot} \ Advertised

(* main: the signal arrives and cancel() runs ...                          *)
MainCancel ==
    /\ mainPc = "running"
    /\ mainPc' = "cancelled"
    /\ UNCHANGED <<backends, byPort, servers, snapshot, syncPc, regSteps>>

(* ... then adv.Shutdown(): every server shut down, the map cleared.       *)
MainShutdown ==
    /\ mainPc = "cancelled"
    /\ servers' = [s \in Slugs |-> NoAdvert]
    /\ mainPc' = "shutdown"
    /\ UNCHANGED <<backends, byPort, snapshot, syncPc, regSteps>>

(* The scanner's calls on the registry.                                    *)
RegistryStep ==
    /\ regSteps < MaxRegistrySteps
    /\ \/ \E p \in Ports, x \in Paths : Upsert(p, x)
       \/ Prune
       \/ Tick
    /\ regSteps' = regSteps + 1
    /\ UNCHANGED <<servers, snapshot, syncPc, mainPc>>

SysNext ==
    \/ SyncTick \/ SyncStop
    \/ \E failed \in SUBSET ToRegister : SyncRun(failed)
    \/ MainCancel \/ MainShutdown
    \/ RegistryStep

(***************************************************************************)
(* Fairness: the goroutine runs (weak fairness of its steps; strong of     *)
(* SyncStop, since Go's select picks uniformly among ready cases), and     *)
(* main's shutdown, once begun, completes.  Of the network we assume that  *)
(* registrations do not fail forever: strong fairness of a Sync in which   *)
(* none fails.  The signal itself need not come.                           *)
(***************************************************************************)
SysFairness ==
    /\ WF_sysVars(SyncTick) /\ SF_sysVars(SyncStop)
    /\ WF_sysVars(\E failed \in SUBSET ToRegister : SyncRun(failed))
    /\ SF_sysVars(SyncRun({}))
    /\ WF_sysVars(MainShutdown)

SysSpec == SysInit /\ [][SysNext]_sysVars /\ SysFairness

-----------------------------------------------------------------------------
(* The type invariant.                                                     *)
SysTypeOK ==
    /\ TypeOK
    /\ servers \in [Slugs -> Advert \cup {NoAdvert}]
    /\ snapshot \subseteq Backend
    /\ syncPc \in {"select", "sync", "done"}
    /\ mainPc \in {"running", "cancelled", "shutdown"}
    /\ regSteps \in 0..MaxRegistrySteps

(***************************************************************************)
(* While the router runs and the registry has settled, the advertised     *)
(* slugs come to be exactly the registered slugs, and stay so.             *)
(***************************************************************************)
AdvertConverges ==
    <>[](mainPc = "running") => <>[](Advertised = Live)

(***************************************************************************)
(* Spec 5: the Advertiser tears down all registrations synchronously       *)
(* before process exit: once main has called adv.Shutdown(), nothing is    *)
(* advertised.                                                             *)
(***************************************************************************)
NoAdvertAfterShutdown ==
    mainPc = "shutdown" => Advertised = {}

(***************************************************************************)
(* Spec 4.3: one registration per live Backend, whose TXT records name its *)
(* port and path.  Once the registry has settled, every advertisement      *)
(* carries the current port and path of its slug's backend.                *)
(***************************************************************************)
AdvertCurrent ==
    <>[](mainPc = "running") =>
        <>[](\A s \in Advertised : /\ backends[s] # NoBackend
                                   /\ servers[s] = AdvertOf(backends[s]))
=============================================================================
