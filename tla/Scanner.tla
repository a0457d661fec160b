------------------------------ MODULE Scanner ------------------------------
(***************************************************************************)
(* The scan loop of internal/scanner/scanner.go driving the Registry.      *)
(*                                                                         *)
(* Run scans once, then selects between ctx.Done() and the ticker.  A pass *)
(* (scan) checks ctx before each port, adds one to its WaitGroup, takes a  *)
(* slot of a buffered channel of capacity `concurrency` (blocking, deaf to *)
(* ctx) and starts a probe goroutine; after the last port it waits for the *)
(* group and calls Prune.  When ctx is done it returns at once, leaving    *)
(* its probes running.  A probe makes two GETs: /global/health, then       *)
(* /project/current; a failure of the second registers the synthetic path  *)
(* "/unknown/port-<port>".  Every GET can fail (probe timeout), and fails  *)
(* once ctx is cancelled.                                                  *)
(*                                                                         *)
(* The instance listening on a port is the environment: `server[p]` is     *)
(* Down or the health flag and project path the instance reports, and it   *)
(* may change at any moment.  A request's answer is the server's state at  *)
(* the step that completes it.  The two counters stand for the channel's   *)
(* occupancy and the WaitGroup; they are not reset at the start of a pass: *)
(* a pass that runs to its end leaves both at zero, and after a cancelled  *)
(* pass no later pass gets past its first ctx check.                       *)
(***************************************************************************)
EXTENDS Registry, FiniteSets

CONSTANTS
    PortStart,     \* Scanner.portStart
    PortEnd,       \* Scanner.portEnd
    Concurrency,   \* Scanner.concurrency, the semaphore's capacity
    UnknownPath,   \* port -> "/unknown/port-<port>"
    Down           \* server[p] when nothing answers on port p

VARIABLES
    server,        \* port -> Down or [healthy, path] the instance reports
    phase,         \* where Run is: "check", "acquire", "wait", "loop", "stopped"
    next,          \* the loop variable `port` of scan
    sem,           \* slots of the semaphore channel held
    wg,            \* the WaitGroup's counter
    probe,         \* port -> "idle", "health" or "project": a probe's step
    cancelled      \* ctx.Done() is closed

scanVars == <<server, phase, next, sem, wg, probe, cancelled>>
allVars == <<backends, byPort, server, phase, next, sem, wg, probe, cancelled>>

ASSUME ScanRangeAssumption ==
    /\ PortStart \in Nat /\ PortEnd \in Nat
    /\ Ports = PortStart..PortEnd
ASSUME ConcurrencyAssumption == Concurrency \in Nat
ASSUME UnknownPathAssumption == UnknownPath \in [Ports -> Paths]

(* The paths a real instance can report.                                   *)
ProjectPaths == Paths \ {UnknownPath[p] : p \in Ports}

Instance == [healthy : BOOLEAN, path : ProjectPaths]

(* The goroutines still probing.                                           *)
Running == {p \in Ports : probe[p] # "idle"}

(* New and the first s.scan(ctx) of Run.                                   *)
ScanInit ==
    /\ Init
    /\ server \in [Ports -> Instance \cup {Down}]
    /\ phase = "check"
    /\ next = PortStart
    /\ sem = 0
    /\ wg = 0
    /\ probe = [p \in Ports |-> "idle"]
    /\ cancelled = FALSE

(* Variant: wg.Add(1) left out of the loop (as if done in the goroutine). *)
ScanCheckNoAdd ==
    /\ phase = "check"
    /\ \/ next <= PortEnd /\ cancelled /\ phase' = "loop"
       \/ next <= PortEnd /\ ~cancelled /\ phase' = "acquire"
       \/ next > PortEnd /\ phase' = "wait"
    /\ UNCHANGED <<backends, byPort, server, next, sem, wg, probe, cancelled>>

(* Top of scan's loop: return if ctx is done, else wg.Add(1); after the    *)
(* last port, go on to wg.Wait().                                          *)
ScanCheck ==
    /\ phase = "check"
    /\ \/ /\ next <= PortEnd
          /\ cancelled
          /\ phase' = "loop"
          /\ UNCHANGED wg
       \/ /\ next <= PortEnd
          /\ ~cancelled
          /\ phase' = "acquire"
          /\ wg' = wg + 1
       \/ /\ next > PortEnd
          /\ phase' = "wait"
          /\ UNCHANGED wg
    /\ UNCHANGED <<backends, byPort, server, next, sem, probe, cancelled>>

(* sem <- struct{}{} blocks until a slot is free; then the goroutine for   *)
(* `next` starts.                                                          *)
ScanAcquire ==
    /\ phase = "acquire"
    /\ sem < Concurrency
    /\ sem' = sem + 1
    /\ probe' = [probe EXCEPT ![next] = "health"]
    /\ next' = next + 1
    /\ phase' = "check"
    /\ UNCHANGED <<backends, byPort, server, wg, cancelled>>

(* Variant: the pass ends without calling Prune.                           *)
ScanWaitNoPrune ==
    /\ phase = "wait"
    /\ wg = 0
    /\ phase' = "loop"
    /\ UNCHANGED <<backends, byPort, server, next, sem, wg, probe, cancelled>>

(* wg.Wait() returns once every probe of the pass is done; Prune follows.  *)
ScanWait ==
    /\ phase = "wait"
    /\ wg = 0
    /\ Prune
    /\ phase' = "loop"
    /\ UNCHANGED <<server, next, sem, wg, probe, cancelled>>

(* Variant: the goroutine's deferred release of its slot is missing.       *)
FinishKeepSlot(p) ==
    /\ probe' = [probe EXCEPT ![p] = "idle"]
    /\ wg' = wg - 1
    /\ UNCHANGED sem

(* The goroutine returns: its deferred <-sem and wg.Done() run.            *)
Finish(p) ==
    /\ probe' = [probe EXCEPT ![p] = "idle"]
    /\ sem' = sem - 1
    /\ wg' = wg - 1

(* GET /global/health fails (nothing listening, a non-200, bad JSON, the   *)
(* probe timeout, or ctx cancelled) or reports healthy = false: return.    *)
HealthFail(p) ==
    /\ probe[p] = "health"
    /\ Finish(p)
    /\ UNCHANGED <<backends, byPort, server, phase, next, cancelled>>

(* Variant: the test of health.Healthy inverted.                           *)
HealthOKInverted(p) ==
    /\ probe[p] = "health"
    /\ ~cancelled
    /\ server[p] # Down
    /\ ~server[p].healthy
    /\ probe' = [probe EXCEPT ![p] = "project"]
    /\ UNCHANGED <<backends, byPort, server, phase, next, sem, wg, cancelled>>

(* The health check answers healthy: go on to the project request.         *)
HealthOK(p) ==
    /\ probe[p] = "health"
    /\ ~cancelled
    /\ server[p] # Down
    /\ server[p].healthy
    /\ probe' = [probe EXCEPT ![p] = "project"]
    /\ UNCHANGED <<backends, byPort, server, phase, next, sem, wg, cancelled>>

(* GET /project/current answers: upsert the instance's project path.       *)
(* The instance answering may not be the one whose health was checked.     *)
ProjectOK(p) ==
    /\ probe[p] = "project"
    /\ ~cancelled
    /\ server[p] # Down
    /\ Upsert(p, server[p].path)
    /\ Finish(p)
    /\ UNCHANGED <<server, phase, next, cancelled>>

(* GET /project/current fails after a healthy answer: upsert the synthetic *)
(* path "/unknown/port-<port>".                                            *)
ProjectFail(p) ==
    /\ probe[p] = "project"
    /\ Upsert(p, UnknownPath[p])
    /\ Finish(p)
    /\ UNCHANGED <<server, phase, next, cancelled>>

(* Run's select: ctx.Done() returns ...                                    *)
RunStop ==
    /\ phase = "loop"
    /\ cancelled
    /\ phase' = "stopped"
    /\ UNCHANGED <<backends, byPort, server, next, sem, wg, probe, cancelled>>

(* ... and ticker.C starts a pass; both may be ready, and Go picks either. *)
RunTicker ==
    /\ phase = "loop"
    /\ phase' = "check"
    /\ next' = PortStart
    /\ UNCHANGED <<backends, byPort, server, sem, wg, probe, cancelled>>

(* main: the signal arrives and cancel() closes ctx.Done().                *)
Cancel ==
    /\ ~cancelled
    /\ cancelled' = TRUE
    /\ UNCHANGED <<backends, byPort, server, phase, next, sem, wg, probe>>

(* The instance on a port starts, stops, changes project or health.        *)
ServerChange(p, s) ==
    /\ server[p] # s
    /\ server' = [server EXCEPT ![p] = s]
    /\ UNCHANGED <<backends, byPort, phase, next, sem, wg, probe, cancelled>>

(* Time passes: every registered backend ages.                             *)
ScanTick ==
    /\ Tick
    /\ UNCHANGED scanVars

ProbeStep(p) == HealthOK(p) \/ HealthFail(p) \/ ProjectOK(p) \/ ProjectFail(p)

ScanNext ==
    \/ ScanCheck \/ ScanAcquire \/ ScanWait
    \/ \E p \in Ports : ProbeStep(p)
    \/ RunStop \/ RunTicker \/ Cancel
    \/ \E p \in Ports, s \in Instance \cup {Down} : ServerChange(p, s)
    \/ ScanTick

(***************************************************************************)
(* Fairness.  The driver and the probe goroutines are weakly fair: a       *)
(* runnable goroutine runs, and every GET ends within the probe timeout.   *)
(* Go's select chooses uniformly among ready cases, so once ctx is done    *)
(* Run takes ctx.Done() eventually: strong fairness of RunStop.  The       *)
(* ticker keeps firing, and time keeps passing.  Of the environment we     *)
(* assume that a request to an instance that keeps answering does not     *)
(* time out forever: strong fairness of HealthOK and ProjectOK.            *)
(***************************************************************************)
ScanFairness ==
    /\ WF_allVars(ScanCheck) /\ WF_allVars(ScanAcquire) /\ WF_allVars(ScanWait)
    /\ WF_allVars(RunTicker) /\ SF_allVars(RunStop)
    /\ WF_allVars(ScanTick)
    /\ \A p \in Ports : /\ WF_allVars(ProbeStep(p))
                        /\ SF_allVars(HealthOK(p))
                        /\ SF_allVars(ProjectOK(p))

ScanSpec == ScanInit /\ [][ScanNext]_allVars /\ ScanFairness

-----------------------------------------------------------------------------
(* The type invariant.                                                     *)
ScanTypeOK ==
    /\ TypeOK
    /\ server \in [Ports -> Instance \cup {Down}]
    /\ phase \in {"check", "acquire", "wait", "loop", "stopped"}
    /\ next \in PortStart..PortEnd + 1
    /\ sem \in 0..Concurrency
    /\ wg \in Nat
    /\ probe \in [Ports -> {"idle", "health", "project"}]
    /\ cancelled \in BOOLEAN

(***************************************************************************)
(* Every pass that starts ends: scan returns, by Prune after wg.Wait() or  *)
(* at a ctx check.  It needs the semaphore to admit one probe at a time    *)
(* and every slot taken to be given back.                                  *)
(***************************************************************************)
PassCompletes ==
    phase \in {"check", "acquire", "wait"} ~> phase \in {"loop", "stopped"}

(***************************************************************************)
(* Spec: Prune runs after all probes of the pass complete.  When wg.Wait() *)
(* returns no probe goroutine is running, so no Upsert of this pass can    *)
(* land after the Prune.                                                   *)
(***************************************************************************)
PruneAfterPass == [][ScanWait => Running = {}]_allVars

(***************************************************************************)
(* A port whose instance has gone for good loses its backend, while the    *)
(* scanner runs: the backend ages past staleAfter, and a later pass that   *)
(* finds the port dead prunes it.                                          *)
(***************************************************************************)
DownForgotten ==
    \A p \in Ports :
        <>[](server[p] = Down /\ ~cancelled) => <>[](byPort[p] = NoSlug)

(***************************************************************************)
(* An instance that keeps answering healthy for project x is registered    *)
(* for x on its port again and again (a failed /project/current can       *)
(* replace it by /unknown/port-<port> for a while).                        *)
(***************************************************************************)
Discovered ==
    \A p \in Ports, x \in ProjectPaths :
        <>[](server[p] = [healthy |-> TRUE, path |-> x] /\ ~cancelled) =>
            []<>(/\ LookupByPort(p) # NoBackend
                 /\ LookupByPort(p).path = x)
=============================================================================
