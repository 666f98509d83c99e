---------------------------- MODULE MCVMConfigSet ----------------------------
(* One http server, an ssh server on the same host and so in the same folder, *)
(* another ssh server, and two names that serve as ids and as aliases and may *)
(* be exchanged for each other.                                               *)
EXTENDS VMConfigSet

CONSTANTS web1, host1, host2

MCWebs     == {web1}
MCHosts    == {host1, host2}
MCFileName == (web1 :> "one" @@ host1 :> "one" @@ host2 :> "two")
MCFolders  == <<"one", "two">>
MCStored   == {{[id |-> n, server |-> web1, alias |-> n, on |-> FALSE]} : n \in Names}
MCSymmetry == Permutations(Names)
==============================================================================
