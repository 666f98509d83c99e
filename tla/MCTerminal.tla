------------------------------ MODULE MCTerminal ------------------------------
(* A screen of two columns and one to three rows, for TLC.                     *)
EXTENDS Terminal

MCSizes      == {<<2, 3>>, <<2, 1>>}
MCParamLists == {<<>>, <<2>>, <<2, 3>>, <<3, 1>>}
MCSgrLists   == {<<1, 38, 5, 8>>, <<31, 1024>>}
MCViewSteps  == {1, 2}
===============================================================================
