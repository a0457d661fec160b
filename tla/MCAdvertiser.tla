---------------------------- MODULE MCAdvertiser ----------------------------
(* The advertiser over two ports and two projects with distinct slugs.     *)
EXTENDS Advertiser, TLC

CONSTANTS a, b, homeA, homeB

MCPorts == {4096, 4097}
MCWords == {a, b}
MCPaths == {homeA, homeB}
MCSlugOf == homeA :> <<a>> @@ homeB :> <<b>>
=============================================================================
