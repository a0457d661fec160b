------------------------------- MODULE Config -------------------------------
(***************************************************************************)
(* internal/config/config.go: the defaults main starts from before the     *)
(* flags override them, and the checks of Validate, in their order.  A     *)
(* config is a record of the fields the rest of the program reads;         *)
(* durations are in milliseconds.  ListenAddr and MDNSServiceType are      *)
(* text no check or decision reads, and are left out.                      *)
(***************************************************************************)
EXTENDS Integers

Second == 1000

MaxPort == 65535

(* Defaults: user.Current() gives the username, "unknown" when it fails.   *)
Defaults(lookup) ==
    [listenPort      |-> 8080,
     username        |-> IF lookup.ok THEN lookup.name ELSE "unknown",
     scanPortStart   |-> 30000,
     scanPortEnd     |-> 31000,
     scanInterval    |-> 5 * Second,
     scanConcurrency |-> 20,
     probeTimeout    |-> 800,
     staleAfter      |-> 30 * Second,
     enableMDNS      |-> TRUE]

(***************************************************************************)
(* Validate: the first check that fails names the error; "ok" is nil.      *)
(* Nothing is checked of scanConcurrency, probeTimeout or staleAfter.      *)
(***************************************************************************)
Validate(c) ==
    IF c.listenPort < 1 \/ c.listenPort > MaxPort THEN "listen port"
    ELSE IF c.scanPortStart < 1 \/ c.scanPortStart > MaxPort THEN "scan start"
    ELSE IF c.scanPortEnd < c.scanPortStart THEN "scan end before start"
    ELSE IF c.scanPortEnd > MaxPort THEN "scan end"
    ELSE IF c.username = "" THEN "username"
    ELSE IF c.scanInterval < 1 * Second THEN "scan interval"
    ELSE "ok"
=============================================================================
