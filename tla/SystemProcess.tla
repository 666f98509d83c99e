----------------------------- MODULE SystemProcess -----------------------------
(***************************************************************************)
(* The runner of local commands (src/SystemProcess.cpp) with the part of   *)
(* VMConfigSet.qml that hands it the cbsd command lines.  It mirrors the   *)
(* life of one QProcess, which it only learns about from signals, in       *)
(* process_state and now_running: the record status holds the two, and the *)
(* signal handlers are functions on it, so that an event of the process is *)
(* the composition of the handlers of the signals it emits, in order.      *)
(*                                                                         *)
(* An operator whose name ends in _f... is the operator of the same name   *)
(* with one plausible fault; the properties are shown to notice it.        *)
(***************************************************************************)
CONSTANTS
    Commands,       \* the command lines the user can ask for
    NoCommand       \* the empty command line

ASSUME CommandAssumption == NoCommand \notin Commands

VARIABLES
    status,         \* [state |-> process_state, running |-> now_running]
    run_canceled, run_command,
    start_later,    \* a start() put off by Qt.callLater
    proc,           \* external: the state of the QProcess
    exec,           \* external: the command line it was last started with
    report          \* history: the signals sent to the UI about that start

vars == <<status, run_canceled, run_command, start_later, proc, exec, report>>

States  == {"StateIdle", "StateStarting", "StateRunning", "StateFailed",
            "StateCrashed", "StateIOError", "StateUnknown"}
Reports == {"finished", "execError", "canceled"}
Idle    == [state |-> "StateIdle", running |-> FALSE]
Alive   == proc # "NotRunning"

(* The two fields are written apart, but each handler keeps them together.    *)
Status ==
    {s \in [state : States, running : BOOLEAN] :
        s.running <=> s.state \in {"StateStarting", "StateRunning"}}

TypeOK ==
    /\ status \in Status
    /\ run_canceled \in BOOLEAN
    /\ run_command \in Commands \cup {NoCommand}
    /\ start_later \in BOOLEAN
    /\ proc \in {"NotRunning", "Starting", "Running"}
    /\ exec \in Commands \cup {NoCommand}
    /\ Alive => exec # NoCommand
    /\ report \subseteq Reports

Init ==
    /\ status = Idle
    /\ run_canceled = FALSE
    /\ run_command = NoCommand
    /\ start_later = FALSE
    /\ proc = "NotRunning"
    /\ exec = NoCommand
    /\ report = {}

--------------------------------------------------------------------------------
(* The handlers of the signals of the QProcess. *)

onNotRunning(s) == IF s.state \in {"StateStarting", "StateRunning"} THEN Idle ELSE s

onStarting(s) ==
    IF s.state = "StateIdle" THEN [state |-> "StateStarting", running |-> TRUE] ELSE s

onRunning(s) ==
    IF s.state = "StateStarting" THEN [state |-> "StateRunning", running |-> TRUE] ELSE s

ErrorState(err) ==
    CASE err = "FailedToStart"                -> "StateFailed"
      [] err = "Crashed"                      -> "StateCrashed"
      [] err \in {"WriteError", "ReadError"} -> "StateIOError"
      [] OTHER                                -> "StateUnknown"

onErrorOccurred_fStaysBusy(s, err, canceled) ==
    IF canceled THEN Idle ELSE [s EXCEPT !.state = ErrorState(err)]
onErrorOccurred(s, err, canceled) ==
    IF canceled THEN Idle ELSE [state |-> ErrorState(err), running |-> FALSE]

(* What the UI hears: an error or the end of a run, unless it was cancelled. *)
Tell_fAlways(signal) == report' = report \cup {signal}
Tell(signal) == report' = IF run_canceled THEN report ELSE report \cup {signal}

--------------------------------------------------------------------------------
(* setCommand is refused while a command is known to be running.             *)
setCommand_fUnguarded(c) == run_command' = c
setCommand(c) == run_command' = IF status.running THEN run_command ELSE c

(* executeCbsd of VMConfigSet.qml: the start is put off to the next turn of  *)
(* the event loop, and several of them in one turn are one start.            *)
executeCbsd(c) ==
    /\ setCommand(c)
    /\ start_later' = TRUE
    /\ UNCHANGED <<status, run_canceled, proc, exec, report>>

(* The early returns of start(). *)
Startable == ~status.running /\ run_command # NoCommand /\ ~Alive

startRefused ==
    /\ start_later
    /\ start_later' = FALSE
    /\ UNCHANGED <<status, run_canceled, run_command, proc, exec, report>>

(* QProcess::start: the Starting signal arrives during the call, and so does *)
(* the failure to fork.                                                      *)
launch ==
    /\ exec' = run_command
    /\ run_canceled' = FALSE
    /\ \/ /\ proc' = "Starting"
          /\ status' = onStarting(status)
          /\ report' = {}
       \/ /\ proc' = "NotRunning"
          /\ status' = onErrorOccurred(onNotRunning(onStarting(status)), "FailedToStart", FALSE)
          /\ report' = {"execError"}

(* A start that passes the checks may still find no directory for its output *)
(* files; the ones that do not pass change nothing.                          *)
start ==
    \/ /\ start_later
       /\ Startable
       /\ start_later' = FALSE
       /\ launch
       /\ UNCHANGED run_command
    \/ startRefused

(* cancel(): kill and wait 250 ms, during which the process may end or not,  *)
(* and a starting one may get to run.  Killing it is not an error any more.  *)
Killed == {"NotRunning"} \cup (IF Alive THEN {proc, "Running"} ELSE {})

cancel_fAlwaysTells ==
    /\ run_canceled' = TRUE
    /\ proc' \in Killed
    /\ status' = Idle
    /\ report' = report \cup {"canceled"}
    /\ UNCHANGED <<run_command, start_later, exec>>
cancel ==
    /\ run_canceled' = TRUE
    /\ proc' \in Killed
    /\ IF Alive \/ status.running
       THEN status' = Idle /\ report' = report \cup {"canceled"}
       ELSE status' = [status EXCEPT !.state = "StateIdle"] /\ UNCHANGED report
    /\ UNCHANGED <<run_command, start_later, exec>>

--------------------------------------------------------------------------------
(* The events of the process. *)

procStarted ==
    /\ proc = "Starting"
    /\ proc' = "Running"
    /\ status' = onRunning(status)
    /\ UNCHANGED <<run_canceled, run_command, start_later, exec, report>>

procFailedToStart ==
    /\ proc = "Starting"
    /\ proc' = "NotRunning"
    /\ status' = onErrorOccurred(onNotRunning(status), "FailedToStart", run_canceled)
    /\ Tell("execError")
    /\ UNCHANGED <<run_canceled, run_command, start_later, exec>>

(* NotRunning, then finished(code, NormalExit), whose handler sets the state *)
(* to idle whatever it was.                                                  *)
onFinished_fRunningOnly ==
    IF status.state = "StateRunning" THEN status' = Idle /\ Tell("finished")
                                     ELSE UNCHANGED <<status, report>>
onFinished == status' = Idle /\ Tell("finished")

procExited ==
    /\ proc = "Running"
    /\ proc' = "NotRunning"
    /\ onFinished
    /\ UNCHANGED <<run_canceled, run_command, start_later, exec>>

(* NotRunning and Crashed come in this order from Qt 6 and in the other one  *)
(* from Qt 5; finished(code, CrashExit) is ignored by its handler.           *)
procCrashed ==
    /\ proc = "Running"
    /\ proc' = "NotRunning"
    /\ status' \in {onErrorOccurred(onNotRunning(status), "Crashed", run_canceled),
                    onNotRunning(onErrorOccurred(status, "Crashed", run_canceled))}
    /\ Tell("execError")
    /\ UNCHANGED <<run_canceled, run_command, start_later, exec>>

(* Something fails while the process lives on. *)
procError ==
    /\ proc = "Running"
    /\ \E err \in {"WriteError", "ReadError", "Timedout", "UnknownError"} :
           status' = onErrorOccurred(status, err, run_canceled)
    /\ Tell("execError")
    /\ UNCHANGED <<run_canceled, run_command, start_later, proc, exec>>

ProcessEnds == procFailedToStart \/ procExited \/ procCrashed

Next ==
    \/ \E c \in Commands : executeCbsd(c)
    \/ start
    \/ cancel
    \/ procStarted
    \/ ProcessEnds
    \/ procError

(* A process gets to run or fails to, and every command comes to an end.     *)
Spec == Init /\ [][Next]_vars /\ WF_vars(procStarted) /\ WF_vars(ProcessEnds)

--------------------------------------------------------------------------------
(* The busy flag, which gates setCommand and the UI, is never left up by a    *)
(* dead process, and while it is up the command shown is the one that runs.   *)
(* When a read or write error has taken it down before the process ended, the *)
(* name may change, and the output is then parsed by another one.             *)
BusyTellsTheTruth == status.running => Alive /\ exec = run_command

(* No start is reported both as finished and as cancelled: the output of a    *)
(* command whose cancellation was told is not parsed, and a command whose end *)
(* was told is not told to be cancelled by a later cancel().                  *)
FinishedOrCanceled == ~({"finished", "canceled"} \subseteq report)

(* Once cancel() has been reported nothing more is heard of that process, even *)
(* when it outlives the kill, until the next start (action property).         *)
SilentAfterCancel ==
    [][("canceled" \in report /\ "canceled" \in report') => report' = report]_vars

(* Every process that was started is reported on in the end, whatever state  *)
(* earlier failures left the mirror in, and the busy flag comes down after   *)
(* every start.                                                               *)
Reported == (Alive ~> report # {}) /\ (status.running ~> ~status.running)

--------------------------------------------------------------------------------
(* What the comments on enum State in SystemProcess.h say, and the code does  *)
(* not keep.                                                                  *)

(* StateFailed and StateCrashed are for a process that failed to start or     *)
(* crashed; the handlers leave them in place when another one is started.     *)
FailureMeansEnded == status.state \in {"StateFailed", "StateCrashed"} => ~Alive

(* StateIdle: "The process is not running".  cancel() sets it also when the   *)
(* kill was not followed by the death of the process within 250 ms.           *)
IdleMeansNotRunning == status.state = "StateIdle" => ~Alive
=============================================================================
