------------------------------ MODULE MCDesktop ------------------------------
(* Two clients, one after the other, for TLC.                                 *)
EXTENDS Desktop, TLC

CONSTANTS c1, c2, left, right

MCClients  == {c1, c2}
MCButtons  == {left, right}
MCDims     == {<<1, 2>>, <<2, 2>>}
MCSymmetry == Permutations(MCClients) \cup Permutations(MCButtons)

(* Few messages on their way in all, and fewer events when both clients were  *)
(* started; nothing follows a release that was lost, after which less is      *)
(* promised.                                                                  *)
Few ==
    /\ ~user.lost
    /\ Len(signals) + Len(calls[c1]) + Len(calls[c2]) <= 2
    /\ (\A c \in Clients : client[c].stage # "none") => inputs <= 1
===============================================================================
