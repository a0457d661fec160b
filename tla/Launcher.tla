------------------------------ MODULE Launcher ------------------------------
(***************************************************************************)
(* Launcher.Launch of internal/launcher/launcher.go: for each directory    *)
(* argument, skip it unless it is a directory, find the next port from     *)
(* nextPort on that portInUse reports free, start `opencode serve --port`  *)
(* there, and advance nextPort.  Each iteration step is one action; the   *)
(* directories are model values, and ValidDirs those that os.Stat reports *)
(* as directories.  Ports taken by other programs are the environment:    *)
(* they can be taken at any moment, between a check and a start too.       *)
(***************************************************************************)
EXTENDS Naturals, Sequences

CONSTANTS
    PortStart,    \* Launcher.portStart
    PortEnd,      \* Launcher.portEnd
    Dirs,         \* the directory arguments
    ValidDirs,    \* the arguments os.Stat reports as directories
    OtherPorts,   \* ports another program may listen on
    MaxArgs       \* the length of the argument list

VARIABLES
    todo,         \* the arguments not yet handled
    nextPort,     \* the loop's nextPort
    procs,        \* l.procs, the started processes: [dir, port]
    listening,    \* indices of procs whose server has bound its port
    busy,         \* ports other programs listen on
    result        \* "running", "ok", or "error" (no free ports in range)

vars == <<todo, nextPort, procs, listening, busy, result>>

ASSUME LaunchAssumption ==
    /\ PortStart \in Nat /\ PortEnd \in Nat /\ PortStart <= PortEnd
    /\ ValidDirs \subseteq Dirs
    /\ OtherPorts \subseteq Nat
    /\ MaxArgs \in Nat

(* The range Launch is meant to allocate from.                             *)
PortRange == PortStart..PortEnd

(* The ports given to started processes.                                  *)
ProcPorts == {procs[i].port : i \in DOMAIN procs}

(* portInUse: something answers a TCP dial on the port.  A started         *)
(* process answers only once its server has bound the port.                *)
InUse == busy \cup {procs[i].port : i \in listening}

(* The argument lists of up to MaxArgs directories.                        *)
ArgLists == UNION {[1..n -> Dirs] : n \in 0..MaxArgs}

LInit ==
    /\ todo \in ArgLists
    /\ nextPort = PortStart
    /\ procs = <<>>
    /\ listening = {}
    /\ busy \in SUBSET OtherPorts
    /\ result = "running"

(* filepath.Abs or os.Stat fails, or the path is not a directory: skip.    *)
SkipDir ==
    /\ result = "running"
    /\ todo # <<>>
    /\ Head(todo) \notin ValidDirs
    /\ todo' = Tail(todo)
    /\ UNCHANGED <<nextPort, procs, listening, busy, result>>

(* Variant: the loop's bound tested before the increment is counted.       *)
NextPortEarlyLimit ==
    /\ result = "running"
    /\ todo # <<>>
    /\ Head(todo) \in ValidDirs
    /\ nextPort \in InUse
    /\ nextPort' = nextPort + 1
    /\ result' = IF nextPort + 1 >= PortEnd THEN "error" ELSE "running"
    /\ UNCHANGED <<todo, procs, listening, busy>>

(* `for portInUse(nextPort) { nextPort++; if nextPort > portEnd { return   *)
(* error } }`: one iteration.                                              *)
NextPort ==
    /\ result = "running"
    /\ todo # <<>>
    /\ Head(todo) \in ValidDirs
    /\ nextPort \in InUse
    /\ nextPort' = nextPort + 1
    /\ result' = IF nextPort + 1 > PortEnd THEN "error" ELSE "running"
    /\ UNCHANGED <<todo, procs, listening, busy>>

(* Variant: nextPort not advanced after a start.                           *)
StartKeepPort ==
    /\ result = "running"
    /\ todo # <<>>
    /\ Head(todo) \in ValidDirs
    /\ nextPort \notin InUse
    /\ procs' = Append(procs, [dir |-> Head(todo), port |-> nextPort])
    /\ todo' = Tail(todo)
    /\ UNCHANGED <<nextPort, listening, busy, result>>

(* The port is free: cmd.Start() succeeds, the process is recorded and     *)
(* nextPort advances ...                                                   *)
Start ==
    /\ result = "running"
    /\ todo # <<>>
    /\ Head(todo) \in ValidDirs
    /\ nextPort \notin InUse
    /\ procs' = Append(procs, [dir |-> Head(todo), port |-> nextPort])
    /\ nextPort' = nextPort + 1
    /\ todo' = Tail(todo)
    /\ UNCHANGED <<listening, busy, result>>

(* ... or cmd.Start() fails: log, and go on with the same nextPort.        *)
StartFail ==
    /\ result = "running"
    /\ todo # <<>>
    /\ Head(todo) \in ValidDirs
    /\ nextPort \notin InUse
    /\ todo' = Tail(todo)
    /\ UNCHANGED <<nextPort, procs, listening, busy, result>>

(* Every argument handled: Launch returns nil.                             *)
Finish ==
    /\ result = "running"
    /\ todo = <<>>
    /\ result' = "ok"
    /\ UNCHANGED <<todo, nextPort, procs, listening, busy>>

(* A started `opencode serve` binds its port, unless another program has   *)
(* taken it since the check.                                               *)
Listen(i) ==
    /\ i \notin listening
    /\ procs[i].port \notin busy
    /\ listening' = listening \cup {i}
    /\ UNCHANGED <<todo, nextPort, procs, busy, result>>

(* Another program starts listening on a free port.                        *)
Occupy(p) ==
    /\ p \notin InUse
    /\ busy' = busy \cup {p}
    /\ UNCHANGED <<todo, nextPort, procs, listening, result>>

LNext ==
    \/ SkipDir \/ NextPort \/ Start \/ StartFail \/ Finish
    \/ \E i \in DOMAIN procs : Listen(i)
    \/ \E p \in OtherPorts : Occupy(p)

LSpec == LInit /\ [][LNext]_vars

-----------------------------------------------------------------------------
(* The type invariant.                                                     *)
LTypeOK ==
    /\ todo \in Seq(Dirs)
    /\ nextPort \in Nat
    /\ procs \in Seq([dir : ValidDirs, port : Nat])
    /\ listening \subseteq DOMAIN procs
    /\ busy \subseteq OtherPorts
    /\ result \in {"running", "ok", "error"}

(***************************************************************************)
(* The comment at launcher.go:60, "Find next free port in the scan range": *)
(* every process Launch starts listens on a port of the range.             *)
(***************************************************************************)
LaunchedInRange == ProcPorts \subseteq PortRange

(***************************************************************************)
(* Launch gives up with "no free ports in range" only when every port of  *)
(* the range is taken, by another program or by a process it started.     *)
(***************************************************************************)
ErrorOnlyWhenFull == result = "error" => PortRange \subseteq busy \cup ProcPorts

(***************************************************************************)
(* No two processes Launch starts are given the same port.                 *)
(***************************************************************************)
DistinctPorts ==
    \A i, j \in DOMAIN procs : i # j => procs[i].port # procs[j].port
=============================================================================
