------------------------- MODULE MCRegistryCollision -------------------------
(* Three ports and three projects: /home/u/a and /work/a share the slug    *)
(* "a", and a third project lives in a folder named "a-4097", whose slug   *)
(* is the one Upsert gives /work/a after a collision on port 4097.         *)
EXTENDS Registry, TLC

CONSTANTS a, b, homeA, workA, folderA4097

MCPorts == {4096, 4097, 4098}
MCWords == {a, b}
MCPaths == {homeA, workA, folderA4097}
MCSlugOf == homeA :> <<a>> @@ workA :> <<a>> @@ folderA4097 :> <<a, 4097>>
=============================================================================
