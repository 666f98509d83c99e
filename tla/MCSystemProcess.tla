---------------------------- MODULE MCSystemProcess ----------------------------
(* SystemProcess with two command lines: enough to tell the one that runs     *)
(* from the one that was asked for last.                                      *)
EXTENDS SystemProcess
================================================================================
