----------------------------- MODULE MCLauncher -----------------------------
(* Launch over a range of two ports, with two project directories and one *)
(* argument that is not a directory; another program may take either port *)
(* of the range or the one after it.                                       *)
EXTENDS Launcher, TLC

CONSTANTS d1, d2, notADir
=============================================================================
