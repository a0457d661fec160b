----------------------------- MODULE MCRegistry -----------------------------
(* Three ports and four projects, two of which share the slug "a" (folders *)
(* /home/u/a and /work/a), so that collisions, project changes on a port   *)
(* and port reassignments all happen, and one folder named "api", whose    *)
(* backend takes the control API's paths.                                  *)
EXTENDS Router, TLC

CONSTANTS a, b, api, homeA, workA, homeB, homeApi

MCPorts == {4096, 4097, 4098}
MCWords == {a, b, api}
MCPaths == {homeA, workA, homeB, homeApi}
MCSlugOf == homeA :> <<a>> @@ workA :> <<a>> @@ homeB :> <<b>> @@
            homeApi :> <<api>>
MCRests == {"/", "/backends", "/health", "/resolve", "/x"}

(* This instance has no folder named like a disambiguated slug.            *)
ASSUME SlugsUnambiguous
=============================================================================
