---------------------------- MODULE PortDirectory ----------------------------
(***************************************************************************)
(* What the registry promises to the callers that know a backend by its    *)
(* port (the scanner's Upsert and LookupByPort, /api/backends): a          *)
(* directory that names, for every port, at most one project and the age  *)
(* of its last sighting.  Slugs, the index and collisions are invisible    *)
(* here.  dir[q] is {} for a free port and a singleton otherwise.          *)
(*                                                                         *)
(* Registering a project on a port gives the port that project, fresh, and *)
(* may take the project off the other ports that listed it (it moved),    *)
(* and off no port that listed another project.  Expiry drops exactly the  *)
(* entries older than the threshold.  Time ages every entry.               *)
(***************************************************************************)
EXTENDS Naturals

CONSTANTS
    Ports,       \* ports projects are registered on
    Paths,       \* project paths
    StaleAfter   \* entries older than this many ticks expire

VARIABLE dir     \* port -> {} or {[path, age]}

MaxAge == StaleAfter + 1

DInit == dir = [q \in Ports |-> {}]

(* Project x is registered on port p; the ports in moved listed x.         *)
Register(p, x) ==
    \E moved \in SUBSET {q \in Ports \ {p} : \E e \in dir[q] : e.path = x} :
        dir' = [q \in Ports |->
                  IF q = p THEN {[path |-> x, age |-> 0]}
                  ELSE IF q \in moved THEN {} ELSE dir[q]]

Expire == dir' = [q \in Ports |-> {e \in dir[q] : e.age <= StaleAfter}]

Age ==
    dir' = [q \in Ports |->
              {[e EXCEPT !.age = IF @ < MaxAge THEN @ + 1 ELSE MaxAge] :
                 e \in dir[q]}]

DNext == (\E p \in Ports, x \in Paths : Register(p, x)) \/ Expire \/ Age

DSpec == DInit /\ [][DNext]_dir
=============================================================================
