----------------------------- MODULE MCCommandRun -----------------------------
(***************************************************************************)
(* An instance of CommandRun for TLC.                                      *)
(***************************************************************************)
EXTENDS CommandRun

Written == [s \in Stream |-> IF s = "stdout" THEN 2 ELSE 1]
=============================================================================
