-------------------------- MODULE SystemProcessProofs --------------------------
(***************************************************************************)
(* What is proved of SystemProcess for every set of commands.  TypeOK is   *)
(* inductive by itself; the other invariants need Inv: a signal already    *)
(* sent to the UI, or a cancelled run, decides what the two status fields  *)
(* may be.                                                                 *)
(***************************************************************************)
EXTENDS SystemProcess, TLAPS

(* The handlers keep the status a status. *)
LEMMA IdleType == Idle \in Status
BY DEF Idle, Status, States

LEMMA HandlersType ==
    ASSUME NEW s \in Status, NEW err, NEW b \in BOOLEAN
    PROVE  /\ onNotRunning(s) \in Status
           /\ onStarting(s) \in Status
           /\ onRunning(s) \in Status
           /\ onErrorOccurred(s, err, b) \in Status
BY DEF Status, States, Idle, onNotRunning, onStarting, onRunning, onErrorOccurred, ErrorState

(* The types of the variables, for every set of commands. *)
THEOREM TypeCorrect == Spec => []TypeOK
<1>1. Init => TypeOK
  <2>1. Init => status \in Status
    BY IdleType DEF Init
  <2> QED BY <2>1 DEF Init, TypeOK, Alive, Status
<1>2. TypeOK /\ [Next]_vars => TypeOK'
  <2> SUFFICES ASSUME TypeOK, [Next]_vars PROVE TypeOK'
    OBVIOUS
  <2> USE DEF TypeOK, Alive, Reports
  <2>0. status \in Status
    BY DEF Status
  <2>1. ASSUME NEW c \in Commands, executeCbsd(c) PROVE TypeOK'
    BY <2>1 DEF executeCbsd, setCommand
  <2>2. CASE start
    <3>1. CASE startRefused
      BY <3>1 DEF startRefused
    <3>2. CASE Startable /\ launch /\ start_later' = FALSE /\ UNCHANGED run_command
      <4>1. status' \in Status
        BY <3>2, <2>0, HandlersType DEF launch
      <4> QED BY <3>2, <4>1 DEF launch, Startable, Status
    <3> QED BY <2>2, <3>1, <3>2 DEF start
  <2>3. CASE cancel
    <3>1. status' \in Status
      BY <2>3, <2>0, IdleType DEF cancel, Status, States
    <3>2. proc' \in {"NotRunning", "Starting", "Running"} /\ (Alive' => Alive)
      BY <2>3 DEF cancel, Killed
    <3> QED BY <2>3, <3>1, <3>2 DEF cancel, Status
  <2>4. CASE procStarted
    <3>1. status' \in Status
      BY <2>4, <2>0, HandlersType DEF procStarted
    <3> QED BY <2>4, <3>1 DEF procStarted, Status
  <2>5. CASE ProcessEnds
    <3>1. status' \in Status
      <4>1. CASE procFailedToStart
        BY <4>1, <2>0, HandlersType DEF procFailedToStart
      <4>2. CASE procExited
        BY <4>2, IdleType DEF procExited, onFinished
      <4>3. CASE procCrashed
        BY <4>3, <2>0, HandlersType DEF procCrashed
      <4> QED BY <2>5, <4>1, <4>2, <4>3 DEF ProcessEnds
    <3> QED BY <2>5, <3>1
            DEF ProcessEnds, procFailedToStart, procExited, procCrashed, onFinished, Tell, Status
  <2>6. CASE procError
    <3>1. status' \in Status
      BY <2>6, <2>0, HandlersType DEF procError
    <3> QED BY <2>6, <3>1 DEF procError, Tell, Status
  <2>7. CASE UNCHANGED vars
    BY <2>7 DEF vars
  <2> QED BY <2>1, <2>2, <2>3, <2>4, <2>5, <2>6, <2>7 DEF Next
<1> QED BY <1>1, <1>2, PTL DEF Spec

--------------------------------------------------------------------------------
(* Only a dead process is finished, and a reported cancellation is remembered *)
(* until the next start.                                                      *)
Inv ==
    /\ TypeOK
    /\ BusyTellsTheTruth
    /\ Alive => "finished" \notin report
    /\ "canceled" \in report => run_canceled
    /\ FinishedOrCanceled

Agree(s) == s.running <=> s.state \in {"StateStarting", "StateRunning"}

LEMMA HandlersAgree ==
    ASSUME NEW s \in Status, Agree(s),
           NEW err, NEW b \in BOOLEAN
    PROVE  /\ Agree(onNotRunning(s)) /\ ~onNotRunning(s).running
           /\ Agree(onStarting(s))
           /\ Agree(onRunning(s)) /\ (onRunning(s).running => s.running)
           /\ Agree(onErrorOccurred(s, err, b)) /\ ~onErrorOccurred(s, err, b).running
BY DEF Agree, Status, Idle, onNotRunning, onStarting, onRunning, onErrorOccurred, ErrorState

LEMMA InvInit == Init => Inv
<1> SUFFICES ASSUME Init PROVE Inv
  OBVIOUS
<1>1. TypeOK
  BY IdleType DEF Init, TypeOK, Alive, Status
<1> QED BY <1>1 DEF Init, Inv, Idle, BusyTellsTheTruth, FinishedOrCanceled, Alive

LEMMA InvStep == Inv /\ TypeOK' /\ [Next]_vars => Inv'
<1> SUFFICES ASSUME Inv, TypeOK', [Next]_vars PROVE Inv'
  OBVIOUS
<1> USE DEF Inv, Alive, BusyTellsTheTruth, FinishedOrCanceled
<1>0. status \in Status /\ Agree(status) /\ run_canceled \in BOOLEAN
  BY DEF TypeOK, Status, Agree
<1>1. ASSUME NEW c \in Commands, executeCbsd(c) PROVE Inv'
  BY <1>1 DEF executeCbsd, setCommand
<1>2. CASE start
  <2>1. CASE startRefused
    BY <2>1 DEF startRefused
  <2>2. CASE Startable /\ launch /\ UNCHANGED run_command
    <3>1. CASE proc' = "Starting" /\ status' = onStarting(status) /\ report' = {}
      <4>1. Agree(status')
        BY <3>1, <1>0, HandlersAgree
      <4> QED BY <2>2, <3>1, <4>1 DEF launch, Agree
    <3>2. CASE /\ proc' = "NotRunning" /\ report' = {"execError"}
               /\ status' = onErrorOccurred(onNotRunning(onStarting(status)), "FailedToStart", FALSE)
      <4>1. Agree(status') /\ ~status'.running
        BY <3>2, <1>0, HandlersAgree, HandlersType
      <4> QED BY <2>2, <3>2, <4>1 DEF launch, Agree
    <3> QED BY <2>2, <3>1, <3>2 DEF launch
  <2> QED BY <1>2, <2>1, <2>2 DEF start
<1>3. CASE cancel
  <2>1. Alive' => Alive
    BY <1>3 DEF cancel, Killed
  <2>2. Agree(status') /\ ~status'.running
    BY <1>3, <1>0 DEF cancel, Idle, Agree, Status
  <2> QED BY <1>3, <2>1, <2>2 DEF cancel, Agree
<1>4. CASE procStarted
  <2>1. Agree(status') /\ (status'.running => status.running)
    BY <1>4, <1>0, HandlersAgree DEF procStarted
  <2> QED BY <1>4, <2>1 DEF procStarted, Agree
<1>5. CASE procFailedToStart
  <2>1. Agree(status') /\ ~status'.running
    BY <1>5, <1>0, HandlersAgree, HandlersType DEF procFailedToStart
  <2> QED BY <1>5, <2>1 DEF procFailedToStart, Tell, Agree
<1>6. CASE procExited
  BY <1>6 DEF procExited, onFinished, Tell, Idle
<1>7. CASE procCrashed
  <2>1. Agree(status') /\ ~status'.running
    BY <1>7, <1>0, HandlersAgree, HandlersType DEF procCrashed
  <2> QED BY <1>7, <2>1 DEF procCrashed, Tell, Agree
<1>8. CASE procError
  <2>1. Agree(status') /\ ~status'.running
    BY <1>8, <1>0, HandlersAgree DEF procError
  <2> QED BY <1>8, <2>1 DEF procError, Tell, Agree
<1>9. CASE UNCHANGED vars
  BY <1>9 DEF vars
<1> QED BY <1>1, <1>2, <1>3, <1>4, <1>5, <1>6, <1>7, <1>8, <1>9 DEF Next, ProcessEnds

THEOREM Invariant == Spec => []Inv
<1>1. Spec => []TypeOK
  BY TypeCorrect
<1> QED BY <1>1, InvInit, InvStep, PTL DEF Spec

(* The busy flag never outlives the process, and names the command that runs. *)
THEOREM BusyHonest == Spec => []BusyTellsTheTruth
<1>1. Inv => BusyTellsTheTruth
  BY DEF Inv
<1> QED BY <1>1, Invariant, PTL

(* A start is reported finished or cancelled, never both. *)
THEOREM NeverBoth == Spec => []FinishedOrCanceled
<1>1. Inv => FinishedOrCanceled
  BY DEF Inv
<1> QED BY <1>1, Invariant, PTL

(* Nothing is heard of a cancelled start until the next one. *)
THEOREM CancelSilences == Spec => SilentAfterCancel
<1>1. Inv /\ [Next]_vars
        => [("canceled" \in report /\ "canceled" \in report') => report' = report]_vars
  <2> SUFFICES ASSUME Inv, [Next]_vars, "canceled" \in report, "canceled" \in report'
               PROVE  report' = report
    OBVIOUS
  <2>1. run_canceled
    BY DEF Inv
  <2>2. CASE start
    <3>1. launch => report' \in {{}, {"execError"}}
      BY DEF launch
    <3> QED BY <2>2, <3>1 DEF start, startRefused
  <2>3. CASE cancel
    BY <2>3 DEF cancel
  <2>4. CASE ProcessEnds \/ procError
    BY <2>1, <2>4 DEF ProcessEnds, procFailedToStart, procExited, procCrashed, procError,
                      onFinished, Tell
  <2> QED BY <2>2, <2>3, <2>4 DEF Next, vars, executeCbsd, procStarted
<1> QED BY <1>1, Invariant, PTL DEF Spec, SilentAfterCancel
=============================================================================
