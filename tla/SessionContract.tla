---------------------------- MODULE SessionContract ----------------------------
(***************************************************************************)
(* What the owner of an SSH session may rely on, whatever the session does *)
(* inside (src/SshSession.h: state, running, channels, lastError and       *)
(* hostDisconnected).  SshSession is shown to keep this contract, and      *)
(* SshProcess is modelled over it.  A session is closed, coming (from the  *)
(* lookup to the sharing of the key), ready, failed, or closing.           *)
(***************************************************************************)
EXTENDS Naturals

VARIABLE con

(* running: what running() says.  error: lastError has a text, and            *)
(* lastErrorChanged was emitted.  notice: hostDisconnected is to come.        *)
(* chans: channels() is not zero.                                             *)
Fresh == [phase |-> "closed", running |-> FALSE, error |-> FALSE, notice |-> FALSE,
          chans |-> FALSE]

(* Each operator gives the contracts that may come after one of its name.     *)

(* connectToHost: from closed only, and an option may be refused. *)
Connect(c) ==
    IF c.phase # "closed" THEN {}
    ELSE LET idle == [c EXCEPT !.running = FALSE, !.notice = FALSE, !.chans = FALSE]
         IN  {idle, [idle EXCEPT !.phase = "coming", !.error = FALSE]}

(* On the way: questions to the user lower running, answers raise it again,   *)
(* and the sharing of the key has a channel and may tell an error.            *)
Advance(c) ==
    IF c.phase # "coming" THEN {}
    ELSE [phase : {"coming"}, running : BOOLEAN, error : {c.error, TRUE},
          notice : {c.notice}, chans : BOOLEAN]

(* A key that could not be added is told as an error, just before ready.      *)
GetReady(c) ==
    IF c.phase # "coming" THEN {}
    ELSE {[c EXCEPT !.phase = "ready", !.chans = FALSE, !.error = e] : e \in {c.error, TRUE}}

Serve(c) ==
    IF c.phase # "ready" THEN {}
    ELSE [phase : {"ready"}, running : {c.running}, error : {c.error, TRUE},
          notice : {c.notice}, chans : BOOLEAN]

(* A failure is never silent and leaves nothing open. *)
Fail(c) ==
    IF c.phase \notin {"coming", "ready", "closing"} THEN {}
    ELSE {[Fresh EXCEPT !.phase = "failed", !.error = TRUE]}

StartClosing(c) ==
    IF c.phase \notin {"coming", "ready", "failed"} THEN {}
    ELSE {[c EXCEPT !.phase = "closing", !.chans = FALSE]}

(* The answer of a lookup that was under way. *)
Revive(c) == IF c.phase # "closing" THEN {} ELSE {[c EXCEPT !.phase = "coming"]}

(* The owner is told of the end once, and after everything is released. *)
Close(c) == IF c.phase = "closed" THEN {} ELSE {[Fresh EXCEPT !.error = c.error, !.notice = TRUE]}
Tell(c)  == IF c.notice THEN {[c EXCEPT !.notice = FALSE]} ELSE {}

(* What the session does on its own, or with the user. *)
Change(c) ==
    Advance(c) \cup GetReady(c) \cup Serve(c) \cup Fail(c)
    \cup StartClosing(c) \cup Revive(c) \cup Close(c) \cup Tell(c)

Init == con = Fresh
Next == con' \in Connect(con) \cup Change(con)

(* On the way down the session always gets to its end, by itself. *)
Down == con.phase \in {"failed", "closing"} /\ con' \in Close(con)

Spec == Init /\ [][Next]_con /\ WF_con(Down)
================================================================================
