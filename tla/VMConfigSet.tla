------------------------------ MODULE VMConfigSet ------------------------------
(***************************************************************************)
(* The machines the program knows (src/qml/VMConfigSet.qml): the map of    *)
(* their configurations, kept in one file per server, the current one, and *)
(* its progress.  Commands go to http servers through RestApiSet.qml and   *)
(* the queue of HttpRequest, and to ssh servers through SshProcess.  The   *)
(* answers come when they come, while the user goes on.                    *)
(*                                                                         *)
(* An operator whose name ends in _f... is the operator of the same name   *)
(* with one plausible fault; the properties are shown to notice it.        *)
(***************************************************************************)
EXTENDS SshProcess, SequencesExt

CONSTANTS
    Webs,           \* the http servers
    fileName,       \* of a server: its folder; scheme, user and port are dropped
    Folders,        \* in the order the cluster timer goes through them
    Names,          \* of machines: the ids a server gives, the aliases a user gives
    Stored,         \* the maps that may be found on the disk at the start
    MaxAsks,        \* bound: requests and choices of the user and the cluster timer
    MaxLate         \* bound: channels that closed and are not handled yet

ASSUME ServerAssumption ==
    /\ Webs \cap Hosts = {}
    /\ DOMAIN fileName = Webs \cup Hosts
    /\ Folders \in Seq(Range(fileName)) /\ Range(Folders) = Range(fileName)
ASSUME BoundAssumption  == MaxAsks \in Nat /\ MaxLate \in Nat

VARIABLES
    vm,             \* map, current, progress, the call of createVm that is put off,
                    \* the machine that the dialog before a removal names, and the
                    \* keys that have an entry without a server in their file
    web,            \* requests to http servers that wait for their answers
    gone,           \* history: machines the user removed
    asks            \* how many requests and choices there were

vars == <<sp, vm, web, gone, asks>>

Servers == Webs \cup Hosts
NoId == "none"
Template == "vmTemplate"
ASSUME NamesAssumption == Names \cap {NoId, Template} = {}

(* A machine that is not created yet has no id, and the alias the user gave.  *)
(* Its power is known from answers.                                           *)
Machines ==
    [id : Names \cup {NoId}, server : Servers, alias : Names \cup (Names \X Range(fileName)),
     on : BOOLEAN]
ASSUME StoredAssumption ==
    \A map \in Stored : map \subseteq {m \in Machines : m.id = NoId => m.alias \in Names}
NoMachine == [alias |-> <<>>]
NoKey     == <<>>

objectKey(m) == <<IF m.id = NoId THEN Template ELSE m.id, fileName[m.server]>>
isValid(v)   == v.current # NoMachine
isCreated(v) == isValid(v) /\ v.current.id # NoId
IsCurrent(v, key) == isValid(v) /\ objectKey(v.current) = key
At(v, key)   == {m \in v.map : objectKey(m) = key}
Put(map, m)  == {n \in map : objectKey(n) # objectKey(m)} \cup {m}

--------------------------------------------------------------------------------
(* The current machine.                                                       *)

(* Any first one, if the key is unknown; one with the same alias is left.     *)
setCurrent(v, key) ==
    IF At(v, key) # {}
    THEN {IF m.alias = v.current.alias THEN v ELSE [v EXCEPT !.current = m] : m \in At(v, key)}
    ELSE IF v.map # {} THEN {[v EXCEPT !.current = m] : m \in v.map}
    ELSE {[v EXCEPT !.current = NoMachine]}

updateCurrent(v, m) == [v EXCEPT !.map = Put(@, m), !.current = m]

isUniqueAlias(v, name) ==
    \A m \in v.map : m.id # NoId => m.alias \notin {name, <<name, fileName[m.server]>>}

--------------------------------------------------------------------------------
(* The answers.                                                               *)

(* list: ids and power.  An empty list is ignored, so is a template.  A known *)
(* machine keeps its alias and its server.                                    *)
Merged(v, s, item) ==
    LET key == <<item[1], fileName[s]>>
    IN  IF At(v, key) # {}
        THEN [(CHOOSE m \in At(v, key) : TRUE) EXCEPT !.on = item[2]]
        ELSE [id |-> item[1], server |-> s, on |-> item[2], alias |-> key]

WithList(v, s, list) ==
    LET Here(m) == fileName[m.server] = fileName[s]
    IN  [v EXCEPT !.map = {m \in @ : Here(m) => m.id = NoId} \cup {Merged(v, s, item) : item \in list},
                  !.bare = {key \in @ : key[2] # fileName[s]}]
FirstOf(u, s) ==
    UNION {setCurrent(u, objectKey(m)) : m \in {n \in u.map : fileName[n.server] = fileName[s]}}

parseCluster_fKeepsCurrent(v, s, list) ==
    LET u == WithList(v, s, list)
    IN  IF list = {} THEN {v}
        ELSE IF v.map = {} /\ ~isValid(v) THEN FirstOf(u, s)
        ELSE {u}
parseCluster_fAlwaysFirst(v, s, list) ==
    LET u == WithList(v, s, list)
        listed == {m \in u.map : fileName[m.server] = fileName[s] /\ IsCurrent(v, objectKey(m))}
    IN  IF list = {} THEN {v}
        ELSE IF listed # {} THEN {[u EXCEPT !.current = m] : m \in listed}
        ELSE FirstOf(u, s)
parseCluster(v, s, list) ==
    LET u == WithList(v, s, list)
        listed == {m \in u.map : fileName[m.server] = fileName[s] /\ IsCurrent(v, objectKey(m))}
    IN  IF list = {} THEN {v}
        ELSE IF listed # {} THEN {[u EXCEPT !.current = m] : m \in listed}
        ELSE IF v.map = {} THEN FirstOf(u, s)
        ELSE {u}

(* External: a server creates no machine that it has listed, and none with    *)
(* the id of the one that is shown.  Servers that share a folder are one host *)
(* reached in two ways, and count as one here.                                *)
NewIds(v, s) ==
    {id \in Names \cup {NoId} :
        \A m \in v.map \cup ({v.current} \ {NoMachine}), n \in At(v, <<Template, fileName[s]>>) :
            fileName[m.server] = fileName[s] => m.id # (IF id = NoId THEN n.alias ELSE id)}

(* The template of that server, if any, becomes a machine: with the id of the *)
(* answer, or else with its alias for an id.  A dialog that names it goes on  *)
(* naming it.                                                                 *)
parseCreate(v, s, id) ==
    LET key == <<Template, fileName[s]>>
        Created(m) == [m EXCEPT !.id = IF id # NoId THEN id ELSE m.alias]
        u(m) == [v EXCEPT !.map = Put(@ \ {m}, Created(m)),
                          !.bare = @ \ {objectKey(Created(m))},
                          !.asked = IF @ = objectKey(m) THEN objectKey(Created(m)) ELSE @]
    IN  IF At(v, key) = {} THEN {v}
        ELSE {IF IsCurrent(v, key)
              THEN [u(m) EXCEPT !.current = Created(m), !.progress = IF id # NoId THEN 0 ELSE -1]
              ELSE u(m) : m \in At(v, key)}

(* The answer about a machine that is not known any more is written into its  *)
(* file as it is.  It names no server, so it is passed over when the map is   *)
(* read again: the machine is not made known, but its key stays in the file.  *)
parseStatus(v, s, name, status) ==
    LET key == <<name, fileName[s]>>
        Told(m) == IF status = "over" THEN m ELSE [m EXCEPT !.on = (status = "on")]
    IN  IF ~(isCreated(v) /\ IsCurrent(v, key)) THEN v
        ELSE IF status = "pending" THEN [v EXCEPT !.progress = 1]
        ELSE [v EXCEPT !.map = {IF objectKey(m) = key THEN Told(m) ELSE m : m \in @},
                       !.bare = IF At(v, key) = {} THEN @ \cup {key} ELSE @,
                       !.current = Told(@),
                       !.progress = -1]

parseStartStop_fStored(v, s, name) ==
    IF IsCurrent(v, <<name, fileName[s]>>) THEN [v EXCEPT !.progress = 0]
    ELSE [v EXCEPT !.map = Put(@, [id |-> name, server |-> s, on |-> FALSE, alias |-> name])]
parseStartStop(v, s, name) ==
    IF isCreated(v) /\ IsCurrent(v, <<name, fileName[s]>>) THEN [v EXCEPT !.progress = 0] ELSE v

(* Only the current machine's power matters, so a list has one for all.       *)
Lists == {ids \X {on} : ids \in SUBSET Names, on \in BOOLEAN}

(* What the output of a command that exited with 0 means. *)
parseCbsdOutput(v, command, url) ==
    CASE command.op = "cluster" -> UNION {parseCluster(v, url, list) : list \in Lists}
      [] command.op = "create"  -> {[u EXCEPT !.progress = -1] :
                                       u \in UNION {parseCreate(v, url, id) : id \in NewIds(v, url) \cap {NoId}}}
      [] OTHER                  -> {[v EXCEPT !.progress = -1]}

onSignal(v, e) ==
    CASE e.signal = "canceled" -> {[v EXCEPT !.progress = -1]}
      [] e.signal = "finished" /\ e.code = 0 -> parseCbsdOutput(v, e.command, e.url)
      [] OTHER -> {v}
onSignals(v, told) ==
    LET handled[i \in 0..Len(told)] ==
            IF i = 0 THEN {v} ELSE UNION {onSignal(u, told[i]) : u \in handled[i - 1]}
    IN  handled[Len(told)]

--------------------------------------------------------------------------------
(* Sending.                                                                   *)

Command(op, s, name) == [op |-> op, server |-> s, name |-> name]

(* What was emitted has been handled when the event is over. *)
Quiet(p) == [p EXCEPT !.told = <<>>]

(* executeSsh: cancel, set the command, start, in one go. *)
executeSsh(p, s, command) == start(setCommand(cancel(p), command), s)

(* getList, for each folder, of the server that the user named last of those  *)
(* with that folder; all in one go.                                           *)
getList(q, s) ==
    LET command == Command("cluster", s, NoId)
    IN  IF s \in Hosts THEN {[q EXCEPT !.sp = p] : p \in executeSsh(q.sp, s, command)}
        ELSE {[q EXCEPT !.web = Append(@, command)]}
GetOne(q, folder) == UNION {getList(q, s) : s \in {t \in Servers : fileName[t] = folder}}
GetLists ==
    LET asked[i \in 0..Len(Folders)] ==
            IF i = 0 THEN {[sp |-> sp, web |-> web]}
            ELSE UNION {GetOne(q, Folders[i]) : q \in asked[i - 1]}
    IN  asked[Len(Folders)]

isBusy == web # <<>> \/ sp.running

--------------------------------------------------------------------------------
Init ==
    /\ sp = Idle
    /\ \E map \in Stored : \E m \in IF map = {} THEN {NoMachine} ELSE map :
          vm = [map |-> map, current |-> m, progress |-> -1, create |-> NoMachine,
                asked |-> NoKey, bare |-> {}]
    /\ web = <<>>
    /\ gone = {}
    /\ asks = 0

(* Only these answers make a machine known.                                   *)
Announces(e) ==
    e.signal = "finished" /\ e.code = 0 /\ e.command.op \in {"cluster", "create"}
Known(v) == {objectKey(m) : m \in v.map}

(* The runner becomes p, and the signals it emitted are handled.  lost: the   *)
(* machines that the user removed just before.                                *)
Run(p, v, lost) ==
    /\ sp' = Quiet(p)
    /\ vm' \in onSignals(v, p.told)
    /\ gone' = (gone \cup lost) \ (IF \E i \in DOMAIN p.told : Announces(p.told[i])
                                  THEN Known(vm') ELSE {})

(* A request to a server, of either kind. *)
Send(v, command, lost) ==
    \/ /\ command.server \in Webs
       /\ web' = IF command.op # "create" /\ command.name = NoId THEN web
                 ELSE Append(web, command)
       /\ vm' = v
       /\ gone' = gone \cup lost
       /\ UNCHANGED sp
    \/ /\ command.server \in Hosts
       /\ \E p \in executeSsh(sp, command.server, command) : Run(p, v, lost)
       /\ UNCHANGED web

--------------------------------------------------------------------------------
(* The user.  A dialog that asks something takes the input of the pages.      *)
Ask == asks < MaxAsks /\ asks' = asks + 1
AtPages == vm.asked = NoKey

(* A new machine is described, and created a moment later. *)
defineMachine(s, name) ==
    /\ AtPages /\ ~isBusy /\ Ask
    /\ isUniqueAlias(vm, name)
    /\ LET m == [id |-> NoId, server |-> s, alias |-> name, on |-> FALSE]
       IN  /\ vm' = [updateCurrent(vm, m) EXCEPT !.create = m]
           /\ gone' = gone \ {objectKey(m)}
    /\ UNCHANGED <<sp, web>>

(* The progress of a creation by ssh is shown at once. *)
createVm ==
    /\ vm.create # NoMachine
    /\ LET m == vm.create
           v == [vm EXCEPT !.create = NoMachine]
       IN  IF isCreated(vm) THEN vm' = v /\ UNCHANGED <<sp, web, gone>>
           ELSE Send(IF m.server \in Hosts THEN [v EXCEPT !.progress = 0] ELSE v,
                     Command("create", m.server, m.alias), {})
    /\ UNCHANGED asks

choose(m) ==
    /\ AtPages /\ Ask
    /\ vm' \in setCurrent(vm, objectKey(m))
    /\ UNCHANGED <<sp, web, gone>>

startStopVm ==
    /\ AtPages /\ Ask
    /\ isCreated(vm)
    /\ Send(vm, Command(IF vm.current.on THEN "stop" ELSE "start",
                        vm.current.server, vm.current.id), {})

(* "Do you want to remove %1?" names the current machine. *)
askRemove ==
    /\ AtPages /\ Ask
    /\ isValid(vm)
    /\ vm' = [vm EXCEPT !.asked = objectKey(vm.current)]
    /\ UNCHANGED <<sp, web, gone>>

(* Another dialog may take the place of this one. *)
keep == ~AtPages /\ vm' = [vm EXCEPT !.asked = NoKey] /\ UNCHANGED <<sp, web, gone, asks>>

(* The machine is forgotten before its server is told to destroy it.  With a  *)
(* bare key the file has no server to tell.                                   *)
removeVm ==
    /\ ~AtPages
    /\ isValid(vm)
    /\ LET key == objectKey(vm.current)
           v == [vm EXCEPT !.map = @ \ At(vm, key), !.bare = @ \ {key}, !.asked = NoKey]
       IN  IF At(vm, key) = {} /\ key \notin vm.bare THEN vm' = v /\ UNCHANGED <<sp, web, gone>>
           ELSE \E u \in setCurrent(v, NoKey) :
                    IF At(vm, key) = {} THEN vm' = u /\ UNCHANGED <<sp, web, gone>>
                    ELSE \E m \in At(vm, key) :
                             Send(u, Command("destroy", m.server, m.id), {key})
    /\ UNCHANGED asks

drawerOpened ==
    /\ AtPages /\ vm.progress >= 0
    /\ vm' = [vm EXCEPT !.progress = -1]
    /\ UNCHANGED <<sp, web, gone, asks>>

webCancel ==
    /\ AtPages /\ web # <<>> /\ web' = <<>>
    /\ vm' = [vm EXCEPT !.progress = -1]
    /\ UNCHANGED <<sp, gone, asks>>

(* With the escape key, or by closing the dialog of the progress. *)
sshCancel ==
    /\ AtPages /\ sp.running
    /\ Run(cancel(sp), vm, {})
    /\ UNCHANGED <<web, asks>>

--------------------------------------------------------------------------------
(* The timers, and what the commands print. *)
clusterTimer ==
    /\ Ask
    /\ ~isBusy /\ vm.progress < 0
    /\ \E q \in GetLists : web' = q.web /\ Run(q.sp, vm, {})

(* Bound: one request for the status waits at a time.                         *)
statusTimer ==
    /\ \A i \in DOMAIN web : web[i].op # "status"
    /\ vm.progress >= 0 /\ isCreated(vm) /\ vm.current.server \in Webs
    /\ web' = Append(web, Command("status", vm.current.server, vm.current.id))
    /\ UNCHANGED <<sp, vm, gone, asks>>

(* Its dialog takes the place of any other. *)
showProgress ==
    /\ vm.progress = 0 /\ sp.executing
    /\ vm' = [vm EXCEPT !.progress = 1, !.asked = NoKey]
    /\ UNCHANGED <<sp, web, gone, asks>>

--------------------------------------------------------------------------------
(* External: the http servers, and the queue in front of them, which is       *)
(* modelled in HttpRequest: answers come in the order of the requests.        *)
onResponse(command) ==
    LET s == command.server
    IN  CASE command.op = "cluster" -> UNION {parseCluster(vm, s, list) : list \in Lists}
          [] command.op = "create"  -> UNION {parseCreate(vm, s, id) : id \in NewIds(vm, s)}
          [] command.op = "status"  -> {parseStatus(vm, s, command.name, status) :
                                           status \in {"pending", "over", "on", "off"}}
          [] command.op \in {"start", "stop"} -> {parseStartStop(vm, s, command.name)}
          [] command.op = "destroy" -> {vm}

webAnswers ==
    /\ web # <<>> /\ web' = Tail(web)
    /\ vm' \in onResponse(Head(web))
    /\ gone' = gone \ (IF Head(web).op \in {"cluster", "create"} THEN Known(vm') ELSE {})
    /\ UNCHANGED <<sp, asks>>

webFails == web # <<>> /\ web' = Tail(web) /\ UNCHANGED <<sp, vm, gone, asks>>

(* External: the session goes on within its contract, and the channel of the  *)
(* command within the protocol.                                               *)
sessionChanges ==
    /\ HasSession(sp)
    /\ \E con \in Contracts!Change(sp.session.con) :
          \E p \in Changed(sp, con) : Run(p, vm, {})
    /\ UNCHANGED <<web, asks>>

commandRuns ==
    /\ Runs(sp)
    /\ \E p \in {onChannelOpened(sp), exitStatusChanged(sp, 0), exitStatusChanged(sp, 1)}
                \cup (IF sp.late < MaxLate THEN {channelClosed(sp)} ELSE {}) : Run(p, vm, {})
    /\ UNCHANGED <<web, asks>>

commandOver ==
    /\ sp.late > 0
    /\ Run(lateChannelClosed(sp), vm, {})
    /\ UNCHANGED <<web, asks>>

sessionFreed ==
    /\ HasSession(sp) /\ sp.session.doomed
    /\ Run(deleteSession(sp), vm, {})
    /\ UNCHANGED <<web, asks>>

--------------------------------------------------------------------------------
Next ==
    \/ \E s \in Servers, name \in Names : defineMachine(s, name)
    \/ createVm
    \/ \E m \in vm.map : choose(m)
    \/ startStopVm \/ askRemove \/ keep \/ removeVm
    \/ drawerOpened \/ webCancel \/ sshCancel
    \/ clusterTimer \/ statusTimer \/ showProgress
    \/ webAnswers \/ webFails
    \/ sessionChanges \/ commandRuns \/ commandOver \/ sessionFreed

Spec == Init /\ [][Next]_vars

--------------------------------------------------------------------------------
(* The current machine is shown, started and stopped as it is stored: none of *)
(* the answers and choices leaves an old copy of a machine that is known.     *)
CurrentIsStored ==
    (isValid(vm) /\ At(vm, objectKey(vm.current)) # {}) => vm.current \in vm.map

(* A removed machine stays away until its server lists or creates it again,   *)
(* whatever answers about it are still to come.                               *)
RemovedStaysRemoved == gone \cap Known(vm) = {}

(* "Do you want to remove %1?" (src/src/qml/AppMainPage.qml) is answered for  *)
(* the current machine, which is still the one the question named, whatever   *)
(* answers came while it was shown; it may have got its id meanwhile.         *)
AskedIsCurrent ==
    vm.asked # NoKey => isValid(vm) /\ objectKey(vm.current) = vm.asked
================================================================================
