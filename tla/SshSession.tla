------------------------------ MODULE SshSession ------------------------------
(***************************************************************************)
(* The SSH session (src/SshSession.cpp): look the host up, connect, check  *)
(* the server, authenticate, share the public key if asked to, serve       *)
(* channels, and close.  One timer, later_timer, holds the next step: a    *)
(* call put off replaces the one before it.  The members are the fields of *)
(* the record ss; setState and cleanUp are functions on it, because the    *)
(* handlers nest them.  A library call that answers SSH_AGAIN is tried     *)
(* again and changes nothing here.                                         *)
(*                                                                         *)
(* An operator whose name ends in _f... is the operator of the same name   *)
(* with one plausible fault; the properties are shown to notice it.        *)
(***************************************************************************)
EXTENDS Naturals, FiniteSets

CONSTANTS
    Shells,         \* the channels a session can be asked for: by createShell,
    Tunnels,        \* by onNewConnection, for a connection to the tunnel,
    Execs           \* and by createExec and createPort

ASSUME ChannelAssumption ==
    /\ IsFiniteSet(Shells) /\ IsFiniteSet(Tunnels) /\ IsFiniteSet(Execs)
    /\ Shells \cap Tunnels = {} /\ Shells \cap Execs = {} /\ Tunnels \cap Execs = {}

VARIABLES
    ss,             \* the members of the session, and the dialog it waits for
    link,           \* external: the TCP connection, as libssh has it
    sockets,        \* local sockets of the tunnel's connections
    freed_used      \* history: a channel was used after it was freed

vars == <<ss, link, sockets, freed_used>>

Channels == Shells \cup Tunnels \cup Execs
Wired    == Shells \cup Tunnels     \* channelClosed reaches onChannelClosed

States ==
    {"Closed", "Lookup", "Connecting", "ServerCheck", "UserAuth", "Established",
     "Ready", "Error", "Denied", "Timeout", "Closing"}
Failures == {"Error", "Denied", "Timeout"}

(* The function setState puts off on entry to a state. *)
EntryCall == [st \in States |->
    CASE st = "Lookup"      -> "lookupHost"
      [] st = "Connecting"  -> "libConnect"
      [] st = "ServerCheck" -> "libServerPublickey"
      [] st = "UserAuth"    -> "libUserAuthNone"
      [] st = "Established" -> "sendPublicKey"
      [] st = "Ready"       -> "none"
      [] st = "Closed"      -> "emitHostDisconnected"
      [] OTHER              -> "cancel"]

Calls == {EntryCall[st] : st \in States} \cup
         {"libSetBlocking", "libUserAuthTryPublickey", "libUserAuthPublickey",
          "libUserAuthKbdint", "libUserAuthPassword"}

Methods == {"publickey", "interactive", "password"}

(* A channel is not in channel_list, not open yet, open in libssh but not     *)
(* announced by channelOpened (or never to be), announced, failed to open, or *)
(* closed by the other side.                                                  *)
Phases == {"none", "new", "opening", "stuck", "open", "failed", "dead"}

Session ==
    [state : States, later : Calls, timer : BOOLEAN, lookup : BOOLEAN,
     notifiers : {"none", "off", "on"}, blocking : BOOLEAN,
     known : {"None", "Ok", "Unknown"}, auth : SUBSET Methods, password : BOOLEAN,
     share : BOOLEAN, ftp : {"none", "working", "over"}, error : BOOLEAN,
     running : BOOLEAN, channels : [Channels -> Phases], open : Nat,
     tunnel : BOOLEAN, asked : {"none", "host", "auth"}]

TypeOK ==
    /\ ss \in Session
    /\ link \in {"none", "connecting", "connected", "lost"}
    /\ sockets \subseteq Tunnels
    /\ freed_used \in BOOLEAN

NoChannels == [c \in Channels |-> "none"]

Init ==
    /\ ss = [state |-> "Closed", later |-> "none", timer |-> FALSE, lookup |-> FALSE,
             notifiers |-> "none", blocking |-> TRUE,
             known |-> "None", auth |-> {}, password |-> FALSE,
             share |-> FALSE, ftp |-> "none", error |-> FALSE,
             running |-> FALSE, channels |-> NoChannels, open |-> 0,
             tunnel |-> FALSE, asked |-> "none"]
    /\ link = "none"
    /\ sockets = {}
    /\ freed_used = FALSE

--------------------------------------------------------------------------------
(* cleanUp, setState and what they call.                                      *)

callLater(s, f) == [s EXCEPT !.later = f]

(* setSocketNotifiers(false) if they are enabled: disabled ones are left as   *)
(* they are.                                                                  *)
Unnotified(s) == IF s.notifiers = "on" THEN [s EXCEPT !.notifiers = "none"] ELSE s

closeChannels(s) == [s EXCEPT !.channels = NoChannels, !.ftp = "none"]

cleanUp_fStaysRunning(s) ==
    Unnotified(closeChannels(
        [s EXCEPT !.lookup = FALSE, !.timer = FALSE, !.later = "none",
                  !.known = "None", !.auth = {}]))
cleanUp(s) ==
    Unnotified(closeChannels(
        [s EXCEPT !.lookup = FALSE, !.timer = FALSE, !.later = "none",
                  !.known = "None", !.auth = {}, !.running = FALSE]))

(* The end of setState for every state on the way down. *)
Shut_fKeepsTunnel(s, prev) ==
    Unnotified(IF prev \in {"Established", "Ready"}
               THEN closeChannels([s EXCEPT !.open = 0]) ELSE s)
Shut(s, prev) ==
    LET t == [s EXCEPT !.tunnel = FALSE]
    IN  Unnotified(IF prev \in {"Established", "Ready"}
                   THEN closeChannels([t EXCEPT !.open = 0]) ELSE t)

Enter(s, st) ==
    CASE st \in Failures     -> Shut(cleanUp([s EXCEPT !.error = TRUE]), s.state)
      [] st = "Closed"       -> Shut(cleanUp(s), s.state)
      [] st = "Closing"      -> Shut(s, s.state)
      [] st = "Connecting"   -> [s EXCEPT !.blocking = FALSE]
      [] OTHER               -> s

setState_fCleansLast(s, st) ==
    IF st = s.state THEN s
    ELSE [Enter(s, st) EXCEPT !.state = st, !.timer = (st = "Connecting"),
              !.later = IF st \in Failures THEN "none" ELSE EntryCall[st]]
setState_fNoTimer(s, st) ==
    IF st = s.state THEN s
    ELSE [Enter(s, st) EXCEPT !.state = st, !.timer = FALSE, !.later = EntryCall[st]]
setState(s, st) ==
    IF st = s.state THEN s
    ELSE [Enter(s, st) EXCEPT !.state = st, !.timer = (st = "Connecting"),
                              !.later = EntryCall[st]]

disconnectFromHost(s) ==
    IF s.state \in {"Closing", "Closed"} THEN s ELSE setState(s, "Closing")

--------------------------------------------------------------------------------
(* The calls of the owner: a page, or SshProcess.                             *)

(* An option the library refuses ends the call after cleanUp.  The address    *)
(* needs a lookup unless it is numeric.  Its dialogs are modal.               *)
connectToHost ==
    /\ ss.state = "Closed"
    /\ ss.asked = "none"
    /\ LET s == cleanUp(ss)
       IN  \/ ss' = s
           \/ \E p \in BOOLEAN, st \in {"Lookup", "Connecting"} :
                 ss' = setState([s EXCEPT !.share = FALSE, !.error = FALSE, !.password = p], st)
    /\ UNCHANGED <<link, sockets, freed_used>>

Disconnect ==
    /\ ss' = disconnectFromHost(ss)
    /\ UNCHANGED <<link, sockets, freed_used>>

(* cancel(), from a dialog that is rejected or from later_timer. *)
cancel_fNoDisconnect ==
    /\ ss' = [setState(ss, "Closed") EXCEPT !.asked = "none"]
    /\ UNCHANGED <<link, sockets, freed_used>>
cancel ==
    /\ ss' = [setState(ss, "Closed") EXCEPT !.asked = "none"]
    /\ link' = "none"
    /\ UNCHANGED <<sockets, freed_used>>

reject == ss.asked # "none" /\ cancel

(* One dialog of the program replaces another, or its close button is used:   *)
(* neither accepts nor rejects it.                                            *)
dialogLost ==
    /\ ss.asked # "none"
    /\ ss' = [ss EXCEPT !.asked = "none"]
    /\ UNCHANGED <<link, sockets, freed_used>>

--------------------------------------------------------------------------------
(* Lookup and connection.                                                     *)

Later(f) == ss.later = f
Fired == callLater(ss, "none")

lookupHost ==
    /\ Later("lookupHost")
    /\ ss' = [Fired EXCEPT !.lookup = TRUE]
    /\ UNCHANGED <<link, sockets, freed_used>>

(* The answer finds the session in whatever state it is by then. *)
lookedUp ==
    /\ ss.lookup
    /\ LET s == [ss EXCEPT !.lookup = FALSE]
       IN  ss' \in {setState(s, "Error"), setState(s, "Connecting")}
    /\ UNCHANGED <<link, sockets, freed_used>>

connectTimeout ==
    /\ ss.timer
    /\ ss' = setState([ss EXCEPT !.timer = FALSE], "Timeout")
    /\ UNCHANGED <<link, sockets, freed_used>>

(* ssh_connect with the answer SSH_AGAIN: only without blocking.  The         *)
(* notifiers are made on the first call, which may fail.                      *)
libConnectAgain ==
    /\ ~ss.blocking
    /\ link # "lost"
    /\ link' \in IF link = "connected" THEN {"connected"} ELSE {"connecting", "connected"}
    /\ \/ ss' = [ss EXCEPT !.notifiers = "on", !.running = TRUE]
       \/ ss.notifiers # "on" /\ ss' = setState(Fired, "Error")

(* ssh_connect with the answer SSH_OK: the handshake takes several messages,  *)
(* and the first of them turned blocking on (libSetBlocking).                 *)
libConnectOk ==
    /\ ss.blocking
    /\ link = "connected"
    /\ ss' = setState([Fired EXCEPT !.notifiers = "on", !.running = TRUE], "ServerCheck")
    /\ UNCHANGED link

Fails == ss' = setState(Fired, "Error") /\ link' \in {link, "none"}

libConnect ==
    /\ Later("libConnect")
    /\ libConnectAgain \/ libConnectOk \/ Fails
    /\ UNCHANGED <<sockets, freed_used>>

libSetBlocking ==
    /\ Later("libSetBlocking")
    /\ ss' = IF link = "none" THEN setState(Fired, "Error")
                              ELSE [callLater(ss, "libConnect") EXCEPT !.blocking = TRUE]
    /\ UNCHANGED <<link, sockets, freed_used>>

(* libEventCallback runs inside ssh_event_dopoll. *)
libEventCallback_fAlways(s) == callLater(s, "libSetBlocking")
libEventCallback(s) == IF s.blocking THEN s ELSE callLater(s, "libSetBlocking")

onSocketActivated ==
    /\ ss.notifiers = "on"
    /\ \/ /\ link = "none"
          /\ ss' = setState([ss EXCEPT !.notifiers = "none"], "Closed")
          /\ UNCHANGED link
       \/ /\ link \in {"connecting", "lost"}
          /\ ss' = setState([ss EXCEPT !.notifiers = "off"], "Error")
          /\ link' = "none"
       \/ /\ link \in {"connecting", "connected"}
          /\ link' = "connected"
          /\ ss' \in {ss, libEventCallback(ss)}
    /\ UNCHANGED <<sockets, freed_used>>

(* external: Qt disables the notifiers of a descriptor that is closed, as the *)
(* library does by itself when a write fails.                                 *)
notifiersDisabled ==
    /\ ss.notifiers = "on" /\ link = "none"
    /\ ss' = [ss EXCEPT !.notifiers = "off"]
    /\ UNCHANGED <<link, sockets, freed_used>>

--------------------------------------------------------------------------------
(* The check of the server.                                                   *)

(* The dialog opens on knownHostChanged, so only when the value changes. *)
Known_fUnchangedPasses(s, kh) ==
    LET t == [s EXCEPT !.known = kh]
    IN  IF kh = "Ok" \/ kh = s.known THEN setState(t, "UserAuth")
        ELSE [t EXCEPT !.running = FALSE, !.asked = "host"]
Known(s, kh) ==
    LET t == [s EXCEPT !.known = kh]
    IN  IF kh = "Ok" THEN setState(t, "UserAuth")
        ELSE [t EXCEPT !.running = FALSE, !.asked = IF kh = s.known THEN @ ELSE "host"]
libServerKnown(s) == {setState(s, "Error")} \cup {Known(s, kh) : kh \in {"Ok", "Unknown"}}

libServerPublickey ==
    /\ Later("libServerPublickey")
    /\ ss' \in libServerKnown(Fired)
    /\ UNCHANGED <<link, sockets, freed_used>>

(* The dialog is accepted, whatever the session does by then. *)
Checking == ss.state = "ServerCheck"

writeKnownHost ==
    /\ ss.asked = "host"
    /\ LET s == [ss EXCEPT !.asked = "none"]
       IN  ss' \in IF Checking THEN libServerKnown(s) ELSE {s}
    /\ UNCHANGED <<link, sockets, freed_used>>

--------------------------------------------------------------------------------
(* Authentication: none, then the methods the server listed, one by one.      *)

iterateUserAuth_fNoAsk(s) ==
    CASE "publickey" \in s.auth   -> callLater(s, "libUserAuthTryPublickey")
      [] "interactive" \in s.auth /\ "publickey" \notin s.auth -> callLater(s, "libUserAuthKbdint")
      [] s.auth = {"password"}    -> IF s.password THEN callLater(s, "libUserAuthPassword") ELSE s
      [] OTHER                    -> setState(s, "Denied")
iterateUserAuth(s) ==
    CASE "publickey" \in s.auth ->
            callLater(s, "libUserAuthTryPublickey")
      [] "interactive" \in s.auth /\ "publickey" \notin s.auth ->
            callLater(s, "libUserAuthKbdint")
      [] s.auth = {"password"} ->
            IF s.password THEN callLater(s, "libUserAuthPassword")
                          ELSE [s EXCEPT !.running = FALSE, !.asked = "auth"]
      [] s.auth = {} ->
            setState(s, "Denied")

Without(s, m) == iterateUserAuth([s EXCEPT !.auth = @ \ {m}])

(* What one try of a method comes to: authenticated, refused, or an error. *)
Tried(s, m) == {setState(s, "Established"), Without(s, m), setState(s, "Error")}

libUserAuthNone ==
    /\ Later("libUserAuthNone")
    /\ ss' \in {setState(Fired, "Established"), setState(Fired, "Error")}
               \cup {iterateUserAuth([Fired EXCEPT !.auth = m]) : m \in SUBSET Methods}

libUserAuthTryPublickey ==
    /\ Later("libUserAuthTryPublickey")
    /\ ss' \in {callLater(ss, "libUserAuthPublickey"), Without(Fired, "publickey"),
                setState(Fired, "Error")}

libUserAuthPublickey ==
    /\ Later("libUserAuthPublickey")
    /\ ss' \in Tried(Fired, "publickey")

libUserAuthKbdint ==
    /\ Later("libUserAuthKbdint")
    /\ ss' \in Tried(Fired, "interactive")
               \cup {[Fired EXCEPT !.running = FALSE, !.asked = "auth"]}

libUserAuthPassword ==
    /\ Later("libUserAuthPassword")
    /\ ss' \in IF ss.password THEN Tried(Fired, "password") ELSE {setState(Fired, "Denied")}

UserAuth ==
    /\ \/ libUserAuthNone
       \/ libUserAuthTryPublickey
       \/ libUserAuthPublickey
       \/ libUserAuthKbdint
       \/ libUserAuthPassword
    /\ UNCHANGED <<link, sockets, freed_used>>

(* The prompts dialog is accepted: it first sets shareKey from its check box. *)
(* It may hand over no answers at all.                                        *)
Answered(s) ==
    {setState(s, "Denied")} \cup
    CASE "interactive" \in s.auth ->
            {setState(s, "Error"), [callLater(s, "libUserAuthKbdint") EXCEPT !.running = TRUE]}
      [] "password" \in s.auth /\ "interactive" \notin s.auth ->
            {[callLater(s, "libUserAuthPassword") EXCEPT !.running = TRUE, !.password = p] :
                p \in BOOLEAN}
      [] OTHER -> {}

giveAnswers ==
    /\ ss.asked = "auth"
    /\ \E share \in BOOLEAN :
          LET s == [ss EXCEPT !.asked = "none", !.share = share]
          IN  ss' \in IF ss.state = "UserAuth" /\ link # "none" THEN Answered(s) ELSE {s}
    /\ UNCHANGED <<link, sockets, freed_used>>

--------------------------------------------------------------------------------
(* Sharing the public key through SFTP.                                       *)

sendPublicKey ==
    /\ Later("sendPublicKey")
    /\ ss' \in IF link = "none" THEN {Fired}
               ELSE IF ~ss.share THEN {setState(Fired, "Ready")}
               ELSE {setState(Fired, "Error"), [Fired EXCEPT !.ftp = "working"]}
    /\ UNCHANGED <<link, sockets, freed_used>>

(* The file could be read: the key is bad, is there already, or is added.     *)
(* When adding it fails the error is told, and the session gets ready all the *)
(* same.                                                                      *)
onPullDone ==
    /\ ss.ftp = "working"
    /\ ss' \in {setState(ss, "Error"), [ss EXCEPT !.ftp = "over"]}
               \cup {setState([ss EXCEPT !.ftp = "none", !.share = FALSE, !.error = e], "Ready") :
                         e \in {ss.error, TRUE}}
    /\ UNCHANGED <<link, sockets, freed_used>>

(* An SFTP call fails: the channel tells an error and does nothing more. *)
ftpFails ==
    /\ ss.ftp = "working"
    /\ ss' = [ss EXCEPT !.ftp = "over", !.error = TRUE]
    /\ UNCHANGED <<link, sockets, freed_used>>

--------------------------------------------------------------------------------
(* Channels and the tunnel.                                                   *)

IsReady == ss.state = "Ready" /\ link # "none"
IsOpen(s, c) == s.channels[c] \in {"opening", "stuck", "open"}
Listed(s) == {c \in Channels : s.channels[c] # "none"}
setChannel(s, c, ph) == [s EXCEPT !.channels[c] = ph]

setOpenChannels(s) == [s EXCEPT !.open = Cardinality({c \in Channels : IsOpen(s, c)})]

(* createShell, createExec and createPort. *)
createChannel(c) ==
    /\ c \in Shells \cup Execs
    /\ IsReady
    /\ ss.channels[c] = "none"
    /\ ss' = setChannel(ss, c, "new")
    /\ UNCHANGED <<link, sockets, freed_used>>

tunnel ==
    /\ IsReady
    /\ ss' = [ss EXCEPT !.tunnel = TRUE]
    /\ UNCHANGED <<link, sockets, freed_used>>

onNewConnection(c) ==
    /\ c \in Tunnels
    /\ ss.tunnel /\ IsReady
    /\ ss.channels[c] = "none" /\ c \notin sockets
    /\ ss' = setChannel(ss, c, "new")
    /\ sockets' = sockets \cup {c}
    /\ UNCHANGED <<link, freed_used>>

(* libOpenSession is followed by the requests of a shell or of a command;     *)
(* libOpenForward opens and announces at once.                                *)
channelOpens_fNotCounted(c) ==
    /\ ss.channels[c] = "new"
    /\ ss' = setChannel(ss, c, IF c \in Tunnels THEN "open" ELSE "opening")
    /\ UNCHANGED <<link, sockets, freed_used>>
channelOpens(c) ==
    /\ ss.channels[c] = "new"
    /\ ss' = IF c \in Tunnels THEN setOpenChannels(setChannel(ss, c, "open"))
                              ELSE setChannel(ss, c, "opening")
    /\ UNCHANGED <<link, sockets, freed_used>>

channelOpened(c) ==
    /\ ss.channels[c] = "opening"
    /\ ss' = LET s == setChannel(ss, c, "open")
             IN  IF c \in Wired THEN setOpenChannels(s) ELSE s
    /\ UNCHANGED <<link, sockets, freed_used>>

channelFails(c) ==
    /\ ss.channels[c] \in {"new", "opening"}
    /\ ss' = [setChannel(ss, c, IF ss.channels[c] = "new" THEN "failed" ELSE "stuck")
                 EXCEPT !.error = TRUE]
    /\ UNCHANGED <<link, sockets, freed_used>>

(* A write on a dead connection fails, and the library closes the socket. *)
writeFails(c) ==
    /\ link = "lost" /\ IsOpen(ss, c)
    /\ ss' = [ss EXCEPT !.error = TRUE]
    /\ link' = "none"
    /\ UNCHANGED <<sockets, freed_used>>

(* The other side closes the channel; channelClosed deletes the local socket  *)
(* and is queued for onChannelClosed.                                         *)
closeReceived(c) ==
    /\ link = "connected" /\ IsOpen(ss, c)
    /\ ss' = setChannel(ss, c, "dead")
    /\ sockets' = sockets \ {c}
    /\ UNCHANGED <<link, freed_used>>

Drop_fCountsDown(s, c) ==
    LET t == [setChannel(s, c, "none") EXCEPT !.open = @ - 1]
    IN  IF t.open = 0 THEN disconnectFromHost(t) ELSE t
Drop(s, c) ==
    LET t == setOpenChannels(setChannel(s, c, "none"))
    IN  IF t.open = 0 THEN disconnectFromHost(t) ELSE t

onChannelClosed(c) ==
    /\ c \in Wired
    /\ ss.channels[c] = "dead"
    /\ ss' = Drop(ss, c)
    /\ UNCHANGED <<link, sockets, freed_used>>

(* abortChannel, on an error of the local socket.  closeChannel takes the     *)
(* channel from channel_list, which alone owns it, and it is used after that. *)
(* One that is not in the list is refused, but not when the list is empty.    *)
socketError(c) ==
    /\ c \in sockets
    /\ sockets' = sockets \ {c}
    /\ IF c \in Listed(ss) \/ (Listed(ss) = {} /\ ss.ftp = "none")
       THEN ss' = Drop(ss, c) /\ freed_used' = TRUE
       ELSE UNCHANGED <<ss, freed_used>>
    /\ UNCHANGED link

--------------------------------------------------------------------------------
laterCancel == Later("cancel") /\ cancel

emitHostDisconnected ==
    /\ Later("emitHostDisconnected")
    /\ ss' = Fired
    /\ UNCHANGED <<link, sockets, freed_used>>

(* The calls of later_timer but ssh_connect without blocking: libssh has a    *)
(* timeout for each of them.                                                  *)
Step ==
    \/ lookupHost
    \/ libSetBlocking
    \/ ss.blocking /\ libConnect
    \/ libServerPublickey
    \/ UserAuth
    \/ sendPublicKey
    \/ laterCancel
    \/ emitHostDisconnected

linkLost ==
    /\ link \in {"connecting", "connected"}
    /\ link' = "lost"
    /\ UNCHANGED <<ss, sockets, freed_used>>

Owner == connectToHost \/ Disconnect \/ reject \/ dialogLost \/ writeKnownHost \/ giveAnswers

Channel(c) ==
    \/ createChannel(c)
    \/ onNewConnection(c)
    \/ channelOpens(c)
    \/ channelOpened(c)
    \/ channelFails(c)
    \/ writeFails(c)
    \/ closeReceived(c)
    \/ onChannelClosed(c)
    \/ socketError(c)

Next ==
    \/ Owner
    \/ Step
    \/ ~ss.blocking /\ libConnect
    \/ lookedUp
    \/ connectTimeout
    \/ onSocketActivated
    \/ notifiersDisabled
    \/ onPullDone
    \/ ftpFails
    \/ tunnel
    \/ \E c \in Channels : Channel(c)
    \/ linkLost

(* Timers fire, a lookup is answered, and the notifiers tell of a socket that *)
(* died as long as its descriptor is open.                                    *)
Spec ==
    /\ Init /\ [][Next]_vars
    /\ WF_vars(Step)
    /\ WF_vars(lookedUp)
    /\ WF_vars(connectTimeout)
    /\ WF_vars(link = "lost" /\ onSocketActivated)

--------------------------------------------------------------------------------
(* A call put off belongs to the state the session is in: with one timer for  *)
(* all of them, no step of an earlier state is ever taken in a later one.     *)
CallsOf(st) ==
    {"none", EntryCall[st]} \cup
    (CASE st = "Connecting" -> {"libSetBlocking"}
       [] st = "UserAuth"   -> {"libUserAuthTryPublickey", "libUserAuthPublickey",
                                "libUserAuthKbdint", "libUserAuthPassword"}
       [] OTHER             -> {})

PendingBelongs == ss.later \in CallsOf(ss.state)

(* No authentication, and no service, with a server whose key has not been    *)
(* found good, whatever dialogs were answered, lost or rejected.              *)
CheckedBeforeAuth == ss.state \in {"UserAuth", "Established", "Ready"} => ss.known = "Ok"

(* Channels, their count and the listening tunnel never outlive the session   *)
(* they were opened in, on every way down.                                    *)
ServicesNeedSession ==
    /\ (Listed(ss) # {} \/ ss.open # 0 \/ ss.tunnel) => ss.state = "Ready"
    /\ ss.ftp # "none" => ss.state = "Established"

(* A closed session holds no connection and no notifier of one.               *)
ClosedMeansReleased == ss.state = "Closed" => link = "none" /\ ss.notifiers # "on"

(* A session on its way waits for a timer, the resolver, or SFTP, or says     *)
(* that it is not running; but when SFTP ends without adding the key it       *)
(* stays Established for good.                                                *)
NeverWaitsForNothing ==
    (ss.state \notin {"Closed", "Ready"} /\ ss.later = "none")
        => \/ ss.lookup
           \/ ss.ftp # "none"
           \/ ss.state \in {"ServerCheck", "UserAuth"} /\ ~ss.running

(* A channel that announced itself and still is open is counted: the session  *)
(* is not closed under it when another one ends.                              *)
OpenAreCounted ==
    Cardinality({c \in Wired : ss.channels[c] = "open"}) <= ss.open

(* However long the server takes, connecting comes to an end.                 *)
ConnectingEnds == ss.state = "Connecting" ~> ss.state # "Connecting"

(* After a failure the session closes by itself and can be used again.        *)
FailuresClose == ss.state \in Failures ~> ss.state = "Closed"

(* A lost connection is noticed in every state, and the session closes.  The  *)
(* exception: a channel writes to it first, the library closes the descriptor *)
(* and the session stays Ready, with no connection, until its owner ends it.  *)
Unnoticed == ss.state = "Ready" /\ link = "none"

(* The session as its owner sees it keeps the contract: no failure is silent, *)
(* what failed or closed has nothing open and does not say it runs, only a    *)
(* session on its way gets ready, and every way down ends closed.             *)
PhaseOf(st) ==
    CASE st = "Closed"   -> "closed"
      [] st = "Ready"    -> "ready"
      [] st \in Failures -> "failed"
      [] st = "Closing"  -> "closing"
      [] OTHER           -> "coming"

Seen == [phase   |-> PhaseOf(ss.state),
         running |-> ss.running,
         error   |-> ss.error,
         notice  |-> ss.later = "emitHostDisconnected",
         chans   |-> Listed(ss) # {} \/ ss.ftp # "none"]

Owned == INSTANCE SessionContract WITH con <- Seen
ContractKept == Owned!Spec

--------------------------------------------------------------------------------
(* What comments and messages of the code say, and the code does not keep.    *)

(* StateClosing: "Disconnecting".  The answer of a lookup that was under way  *)
(* moves the session on to connecting instead.                                *)
ClosingCloses == [][ss.state = "Closing" => ss'.state \in {"Closing", "Closed"}]_vars

(* askQuestions "requre giveAnswers()".  A dialog can go without an answer.   *)
QuestionsKept ==
    (ss.state = "UserAuth" /\ ss.later = "none") => ss.asked = "auth"

(* closeChannel(channel) is for one that "is already closed by the remote     *)
(* side" and frees it; abortChannel, with a channel that is open, goes on to  *)
(* use it.                                                                    *)
FreedNeverUsed == ~freed_used
=============================================================================
