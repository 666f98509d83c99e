----------------------------- MODULE MCHttpRequest -----------------------------
(* HttpRequest on four calls: three that pass the entry checks, so that the   *)
(* queue grows behind an open, a finished and an aborted reply, and one that  *)
(* does not.  The server of one of them need not answer.                      *)
EXTENDS HttpRequest

CONSTANTS r1, r2, r3, bad

MCRequests == {r1, r2, r3, bad}
MCPosts == {r1, bad}
MCMalformed == {bad}
MCSilent == {r2}
================================================================================
