----------------------------- MODULE MCSshChannels -----------------------------
(* Two sessions of one user, and files that are missing, well ended, not      *)
(* ended, with the key in it, and larger than the buffer.                     *)
EXTENDS SshChannels

CONSTANTS s1, s2, k1, k2

MCSharers   == {s1, s2}
MCTalker    == s1
MCFound     == {NoDir, NoFile, <<k1, NL>>, <<k1>>, <<s1, NL>>, <<k1, NL, k2, NL>>}

(* Bound: while the channel is open the other session rests, whose steps      *)
(* share nothing with it.                                                     *)
OneAtATime == kind # "none" => share[s2] = NewSharer
================================================================================
