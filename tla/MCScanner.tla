----------------------------- MODULE MCScanner -----------------------------
(* The scanner over two ports, one project with slug "a", and the        *)
(* synthetic paths /unknown/port-4096 and /unknown/port-4097, whose    *)
(* slugs are "port-4096" and "port-4097".                                  *)
EXTENDS Scanner, Config, TLC

CONSTANTS a, port, homeA, unknown4096, unknown4097

MCWords == {a, port}
MCPaths == {homeA, unknown4096, unknown4097}
MCSlugOf == homeA :> <<a>> @@
            unknown4096 :> <<port, 4096>> @@ unknown4097 :> <<port, 4097>>
MCUnknownPath == 4096 :> unknown4096 @@ 4097 :> unknown4097

ASSUME SlugsUnambiguous

(* The scanner's parameters come from a config main accepts: the defaults *)
(* with -scan-start 4096 -scan-end 4097 and -scan-concurrency 2, or 0.     *)
MCFlags(concurrency) ==
    [Defaults([ok |-> TRUE, name |-> "u"]) EXCEPT !.scanPortStart = 4096,
                                                   !.scanPortEnd = 4097,
                                                   !.scanConcurrency = concurrency]

ASSUME Validate(MCFlags(2)) = "ok" /\ Validate(MCFlags(0)) = "ok"

MCPortStart == MCFlags(2).scanPortStart
MCPortEnd == MCFlags(2).scanPortEnd
MCPorts == MCPortStart..MCPortEnd
MCConcurrency == MCFlags(2).scanConcurrency
MCZeroConcurrency == MCFlags(0).scanConcurrency
=============================================================================
