------------------------------ MODULE SshProcess ------------------------------
(***************************************************************************)
(* The runner of remote commands (src/SshProcess.cpp): one command at a    *)
(* time, on a session of its own that is made for it and deleted after it. *)
(* The members are the fields of the record sp, and the functions on it    *)
(* are the methods; what they emit is appended to told, for the objects    *)
(* connected to them.  The session is known by its contract only.  It is   *)
(* deleted by the event loop, so for a while it may be found doomed.       *)
(*                                                                         *)
(* An operator whose name ends in _f... is the operator of the same name   *)
(* with one plausible fault; the properties are shown to notice it.        *)
(***************************************************************************)
EXTENDS Integers, Sequences

CONSTANTS Hosts         \* the ssh servers

VARIABLE
    sp                  \* the members, the session, and what was emitted

Contracts == INSTANCE SessionContract WITH con <- sp.session.con

NoSession == [doomed |-> TRUE]
NoCommand == [op |-> "none"]

(* command, server, url: run_command, ssh_settings and ssh_url.  late: calls  *)
(* of onChannelClosed that are queued.  odd, a history of the present command:*)
(* what may leave the runner waiting for nothing.  Its session ended without  *)
(* an error ("silent"), connectToHost refused an option ("refused"), or start *)
(* found a session that was to be deleted ("reused").                         *)
Idle ==
    [running |-> FALSE, executing |-> FALSE, command |-> NoCommand, server |-> "none",
     url |-> "none", exit |-> -1, session |-> NoSession, late |-> 0,
     told |-> <<>>, odd |-> {}]

(* linked: its signals reach this object.  exec, host: the command its        *)
(* channel runs, and the server its settings name.                            *)
NewSession(host) ==
    [con |-> Contracts!Fresh, exec |-> NoCommand, host |-> host, linked |-> TRUE,
     doomed |-> FALSE]

HasSession(p) == p.session # NoSession
Linked(p)     == HasSession(p) /\ p.session.linked

Tell(p, signal) == [p EXCEPT !.told = Append(@, signal)]
Finished(p) == [signal |-> "finished", code |-> p.exit, command |-> p.command, url |-> p.url]

onChannelClosed(p) ==
    Tell([p EXCEPT !.session = IF HasSession(p)
                               THEN [@ EXCEPT !.linked = FALSE, !.doomed = TRUE] ELSE @,
                   !.executing = FALSE, !.running = FALSE],
         Finished(p))

cancel(p) ==
    IF HasSession(p) /\ p.session.con.running
    THEN Tell(onChannelClosed(p), [signal |-> "canceled"])
    ELSE p

setCommand_fUnguarded(p, cmd) == [p EXCEPT !.command = cmd]
setCommand(p, cmd) == IF p.running THEN p ELSE [p EXCEPT !.command = cmd]

setSettings(p, host) == IF host = p.server THEN p ELSE [cancel(p) EXCEPT !.server = host]

(* The two ways of going on: connectToHost may refuse an option, and does     *)
(* nothing if the session is not closed.                                      *)
Connected(p, host) ==
    LET s == p.session
        given == [s EXCEPT !.host = IF s.con.phase = "closed" THEN host ELSE @]
    IN  {[p EXCEPT !.exit = -1, !.url = host, !.running = TRUE,
                   !.session = [given EXCEPT !.con = con],
                   !.odd = (IF s.doomed THEN {"reused"} ELSE {})
                           \cup (IF con.phase = "closed" THEN {"refused"} ELSE {})] :
            con \in IF s.con.phase # "closed" THEN {s.con}
                    ELSE Contracts!Connect(s.con)}

start(p, host) ==
    LET q == setSettings(p, host)
    IN  IF p.running THEN {p}
        ELSE IF ~HasSession(q)
             THEN Connected([q EXCEPT !.session = NewSession(host)], host)
        ELSE IF q.session.con.chans THEN {q}
        ELSE Connected(q, host)

(* lastErrorChanged. *)
onLastErrorChanged_fRunsOn(p) == Tell(p, [signal |-> "execError"])
onLastErrorChanged(p) == Tell(onChannelClosed(p), [signal |-> "execError"])

(* stateChanged, to ready: createExec, unless the connection is gone again.   *)
onStateChanged(p) ==
    {p, [p EXCEPT !.session.exec = p.command, !.session.con.chans = TRUE]}

(* A change of the session, and what this object does about it.               *)
Changed(p, con) ==
    LET was == p.session.con
        q == [p EXCEPT !.session.con = con,
                       !.session.exec = IF con.chans THEN @ ELSE NoCommand,
                       !.session.doomed = @ \/ (was.notice /\ ~con.notice),
                       !.odd = @ \cup (IF con.phase = "closed" THEN {"silent"} ELSE {})]
    IN  IF ~p.session.linked THEN {q}
        ELSE IF con.error /\ ~was.error THEN {onLastErrorChanged(q)}
        ELSE IF con.phase = "ready" /\ was.phase # "ready" THEN onStateChanged(q)
        ELSE {q}

(* The channel: opened, its exit status, and closed by the other side, which  *)
(* leaves the channel listed and this object a call for later.  Its signals   *)
(* arrive as long as it exists, also after those of the session.              *)
Runs(p) == HasSession(p) /\ p.session.exec # NoCommand
onChannelOpened(p) == [p EXCEPT !.executing = TRUE]
exitStatusChanged(p, code) == [p EXCEPT !.exit = code]
channelClosed(p) == [p EXCEPT !.late = @ + 1, !.session.exec = NoCommand]

lateChannelClosed(p) == onChannelClosed([p EXCEPT !.late = @ - 1])

(* deleteLater. *)
deleteSession(p) == [p EXCEPT !.session = NoSession]

--------------------------------------------------------------------------------
(* The command that runs on the server is the one the runner names, and on    *)
(* the server it names, as long as it listens to that command.                *)
ExecRunsCommand ==
    (Linked(sp) /\ ~sp.session.doomed /\ sp.session.exec # NoCommand)
        => sp.session.exec = sp.command /\ sp.session.host = sp.url

(* While it says that a command runs it has a session that is on its way or   *)
(* ready and that it listens to: these are the only ways to be left without.  *)
RunningHasSession ==
    (sp.running /\ sp.odd = {})
        => Linked(sp) /\ ~sp.session.doomed /\ sp.session.con.phase \in {"coming", "ready", "closing"}
================================================================================
