---------------------------- MODULE SshSessionProofs ---------------------------
(***************************************************************************)
(* Theorems about the SSH session, for any sets of channels.  The handlers *)
(* of the session nest setState and cleanUp, so the invariant is stated    *)
(* for a session record (Sound), and two lemmas say what setState needs    *)
(* and makes of a record on the way down (GoDown) and on the way up        *)
(* (GoUp).  Each handler is then the proof that it hands setState what the *)
(* lemma asks for.                                                         *)
(***************************************************************************)
EXTENDS SshSession, FiniteSetTheorems, TLAPS

Down == Failures \cup {"Closed", "Closing"}
Up   == {"Lookup", "Connecting", "ServerCheck", "UserAuth", "Established", "Ready"}

(* The channels a session serves, counts and tunnels belong to a ready one,   *)
(* and the SFTP channel to an established one.                                *)
Serves(s) ==
    /\ ((\E c \in Channels : s.channels[c] # "none") \/ s.open # 0 \/ s.tunnel)
            => s.state = "Ready"
    /\ s.ftp # "none" => s.state = "Established"

ServesNothing(s) ==
    /\ \A c \in Channels : s.channels[c] = "none"
    /\ s.open = 0 /\ ~s.tunnel /\ s.ftp = "none"

(* What a session without a call put off waits for; and SFTP has not started  *)
(* while the call that starts it is put off.                                  *)
Waits(s) ==
    /\ (s.state \notin {"Closed", "Ready"} /\ s.later = "none")
           => \/ s.lookup
              \/ s.ftp # "none"
              \/ s.state \in {"ServerCheck", "UserAuth"} /\ ~s.running
    /\ s.later = "sendPublicKey" => s.ftp = "none"

Counted(s) == Cardinality({c \in Wired : s.channels[c] = "open"}) <= s.open

(* The notifiers of a connection that is not blocking are those of a session  *)
(* that connects, and a closed one has none.                                  *)
Notified(s) ==
    /\ (s.notifiers = "on" /\ ~s.blocking) => s.state = "Connecting"
    /\ s.state = "Closed" => s.notifiers # "on"

Trusted == {"UserAuth", "Established", "Ready"}

Sound(s) ==
    /\ s \in Session
    /\ s.later \in CallsOf(s.state)
    /\ s.state \in Trusted => s.known = "Ok"
    /\ Serves(s)
    /\ s.lookup => s.state \in {"Lookup", "Closing"}
    /\ Notified(s)
    /\ Waits(s)
    /\ Counted(s)

Linked ==
    /\ ss.state = "Closed" => link = "none"
    /\ ss.state \in {"ServerCheck", "UserAuth", "Established"} => link # "none"

Inv == TypeOK /\ Sound(ss) /\ Linked

--------------------------------------------------------------------------------
(* The table of the calls put off. *)

LEMMA EntryCalls ==
    /\ EntryCall["Lookup"] = "lookupHost"
    /\ EntryCall["Connecting"] = "libConnect"
    /\ EntryCall["ServerCheck"] = "libServerPublickey"
    /\ EntryCall["UserAuth"] = "libUserAuthNone"
    /\ EntryCall["Established"] = "sendPublicKey"
    /\ EntryCall["Ready"] = "none"
    /\ EntryCall["Closed"] = "emitHostDisconnected"
    /\ \A st \in Failures \cup {"Closing"} : EntryCall[st] = "cancel"
BY DEF EntryCall, States, Failures

LEMMA EntryCallType == \A st \in States : EntryCall[st] \in Calls /\ EntryCall[st] \in CallsOf(st)
BY DEF Calls, CallsOf

(* A call put off tells the state. *)
LEMMA CallTellsState ==
    ASSUME NEW st \in States, NEW f \in CallsOf(st)
    PROVE  /\ f = "lookupHost" => st = "Lookup"
           /\ f \in {"libConnect", "libSetBlocking"} => st = "Connecting"
           /\ f = "libServerPublickey" => st = "ServerCheck"
           /\ f \in {"libUserAuthNone", "libUserAuthTryPublickey", "libUserAuthPublickey",
                     "libUserAuthKbdint", "libUserAuthPassword"} => st = "UserAuth"
           /\ f = "sendPublicKey" => st = "Established"
           /\ f = "cancel" => st \in Failures \cup {"Closing"}
           /\ f = "emitHostDisconnected" => st = "Closed"
<1>1. CASE st = "Connecting"
  BY <1>1, EntryCalls DEF CallsOf
<1>2. CASE st = "UserAuth"
  BY <1>2, EntryCalls DEF CallsOf
<1>3. CASE st \notin {"Connecting", "UserAuth"}
  <2>1. f \in {"none", EntryCall[st]}
    BY <1>3 DEF CallsOf
  <2> QED BY <2>1, <1>3, EntryCalls DEF States, Failures
<1> QED BY <1>1, <1>2, <1>3

LEMMA NoneIsACall == "none" \in Calls /\ \A st \in States : "none" \in CallsOf(st)
BY EntryCalls DEF Calls, CallsOf, States

--------------------------------------------------------------------------------
(* What cleanUp and setState make of a session. *)

LEMMA FiniteChannels == IsFiniteSet(Channels) /\ Wired \subseteq Channels
BY ChannelAssumption, FS_Union DEF Channels, Wired

LEMMA UnnotifiedType ==
    ASSUME NEW s \in Session
    PROVE  /\ Unnotified(s) \in Session
           /\ Unnotified(s).notifiers # "on"
           /\ \A f \in {"state", "later", "timer", "lookup", "blocking", "known", "auth",
                        "password", "share", "ftp", "error", "running", "channels", "open",
                        "tunnel", "asked"} : Unnotified(s)[f] = s[f]
BY DEF Unnotified, Session

LEMMA CloseChannelsType ==
    ASSUME NEW s \in Session
    PROVE  /\ closeChannels(s) \in Session
           /\ closeChannels(s).channels = NoChannels
           /\ closeChannels(s).ftp = "none"
           /\ \A f \in {"state", "later", "timer", "lookup", "blocking", "known", "auth",
                        "password", "share", "error", "running", "open", "notifiers",
                        "tunnel", "asked"} : closeChannels(s)[f] = s[f]
BY DEF closeChannels, Session, NoChannels, Phases

LEMMA CleanUpType ==
    ASSUME NEW s \in Session
    PROVE  LET t == cleanUp(s) IN
           /\ t \in Session
           /\ t.later = "none" /\ ~t.lookup /\ ~t.running
           /\ t.channels = NoChannels /\ t.ftp = "none"
           /\ t.notifiers # "on"
           /\ \A f \in {"state", "blocking", "open", "tunnel", "asked"} : t[f] = s[f]
<1> DEFINE r == [s EXCEPT !.lookup = FALSE, !.timer = FALSE, !.later = "none",
                          !.known = "None", !.auth = {}, !.running = FALSE]
           u == closeChannels(r)
<1>1. r \in Session
  BY NoneIsACall DEF Session
<1>2. /\ r.later = "none" /\ ~r.lookup /\ ~r.running
      /\ \A f \in {"state", "blocking", "open", "tunnel", "asked"} : r[f] = s[f]
  BY DEF Session
<1>3. /\ u \in Session
      /\ u.channels = NoChannels /\ u.ftp = "none"
      /\ \A f \in {"later", "lookup", "running", "state", "blocking", "open", "tunnel", "asked"} :
            u[f] = r[f]
  BY <1>1, CloseChannelsType
<1> HIDE DEF r, u
<1>4. /\ Unnotified(u) \in Session
      /\ Unnotified(u).notifiers # "on"
      /\ \A f \in {"later", "lookup", "running", "state", "blocking", "open", "tunnel", "asked",
                   "channels", "ftp"} : Unnotified(u)[f] = u[f]
  BY <1>3, UnnotifiedType
<1>5. cleanUp(s) = Unnotified(u)
  BY DEF cleanUp, u, r
<1> QED BY <1>2, <1>3, <1>4, <1>5

(* The end of setState on the way down leaves no service. *)
LEMMA ShutType ==
    ASSUME NEW s \in Session, NEW prev \in States,
           prev \notin {"Established", "Ready"} =>
               s.channels = NoChannels /\ s.open = 0 /\ s.ftp = "none"
    PROVE  LET t == Shut(s, prev) IN
           /\ t \in Session
           /\ t.channels = NoChannels /\ t.open = 0 /\ ~t.tunnel /\ t.ftp = "none"
           /\ t.notifiers # "on"
           /\ \A f \in {"lookup"} : t[f] = s[f]
<1> DEFINE r == [s EXCEPT !.tunnel = FALSE]
           z == [r EXCEPT !.open = 0]
           u == IF prev \in {"Established", "Ready"} THEN closeChannels(z) ELSE r
<1>1. r \in Session /\ ~r.tunnel /\ r.lookup = s.lookup
      /\ r.channels = s.channels /\ r.open = s.open /\ r.ftp = s.ftp
  BY DEF Session
<1> HIDE DEF r
<1>2. z \in Session /\ z.open = 0 /\ ~z.tunnel /\ z.lookup = s.lookup
  BY <1>1 DEF Session
<1> HIDE DEF z
<1>3. u \in Session /\ u.channels = NoChannels /\ u.open = 0 /\ ~u.tunnel /\ u.ftp = "none"
      /\ u.lookup = s.lookup
  <2>1. CASE prev \in {"Established", "Ready"}
    BY <1>2, <2>1, CloseChannelsType
  <2>2. CASE prev \notin {"Established", "Ready"}
    BY <1>1, <2>2
  <2> QED BY <2>1, <2>2
<1> HIDE DEF u
<1>4. Shut(s, prev) = Unnotified(u)
  BY DEF Shut, u, z, r
<1> QED BY <1>3, <1>4, UnnotifiedType

LEMMA DownStates == Down \subseteq States /\ Up \subseteq States /\ Up \cap Down = {}
                    /\ States = Up \cup Down
BY DEF Down, Up, States, Failures

LEMMA CountedNothing ==
    ASSUME NEW s, s.channels = NoChannels, s.open = 0
    PROVE  Counted(s)
<1>1. {c \in Wired : s.channels[c] = "open"} = {}
  BY FiniteChannels DEF NoChannels
<1> QED BY <1>1, FS_EmptySet DEF Counted

LEMMA EnterDownType ==
    ASSUME NEW s \in Session, Serves(s), NEW st \in Down
    PROVE  LET t == Enter(s, st) IN
           /\ t \in Session
           /\ t.channels = NoChannels /\ t.open = 0 /\ ~t.tunnel /\ t.ftp = "none"
           /\ t.notifiers # "on"
           /\ st # "Closing" => ~t.lookup
<1>1. s.state \in States /\ s.channels \in [Channels -> Phases]
  BY DEF Session
<1>2. s.state \notin {"Established", "Ready"} =>
          s.channels = NoChannels /\ s.open = 0 /\ s.ftp = "none"
  BY <1>1 DEF Serves, NoChannels
<1>3. CASE st \in Failures
  <2> DEFINE e == [s EXCEPT !.error = TRUE]
             u == cleanUp(e)
  <2>1. e \in Session /\ e.state = s.state /\ e.open = s.open
    BY DEF Session
  <2> HIDE DEF e
  <2>2. /\ u \in Session /\ ~u.lookup /\ u.channels = NoChannels /\ u.ftp = "none"
        /\ u.open = s.open
    BY <2>1, CleanUpType
  <2> HIDE DEF u
  <2>3. st \notin {"Closed", "Closing", "Connecting"}
    BY <1>3 DEF Failures
  <2>4. Enter(s, st) = Shut(cleanUp([s EXCEPT !.error = TRUE]), s.state)
    BY <1>3, <2>3 DEF Enter
  <2>5. Enter(s, st) = Shut(u, s.state)
    BY <2>4 DEF u, e
  <2> QED BY <1>1, <1>2, <2>2, <2>5, ShutType
<1>4. CASE st = "Closed"
  <2> DEFINE u == cleanUp(s)
  <2>2. /\ u \in Session /\ ~u.lookup /\ u.channels = NoChannels /\ u.ftp = "none"
        /\ u.open = s.open
    BY CleanUpType
  <2> HIDE DEF u
  <2>3. Enter(s, st) = Shut(u, s.state)
    BY <1>4 DEF Enter, u, Failures
  <2> QED BY <1>1, <1>2, <2>2, <2>3, ShutType
<1>5. CASE st = "Closing"
  <2>1. Enter(s, st) = Shut(s, s.state)
    BY <1>5 DEF Enter, Failures
  <2> QED BY <1>1, <1>2, <1>5, <2>1, ShutType
<1> QED BY <1>3, <1>4, <1>5 DEF Down

(* On the way down setState makes a sound session of any one whose services   *)
(* are those of its state.                                                    *)
LEMMA GoDown ==
    ASSUME NEW s \in Session, Serves(s), NEW st \in Down, st # s.state
    PROVE  /\ Sound(setState(s, st))
           /\ setState(s, st).state = st
<1> DEFINE e == Enter(s, st)
           t == setState(s, st)
<1>1. /\ e \in Session
      /\ e.channels = NoChannels /\ e.open = 0 /\ ~e.tunnel /\ e.ftp = "none"
      /\ e.notifiers # "on"
      /\ st # "Closing" => ~e.lookup
  BY EnterDownType
<1>2. t = [e EXCEPT !.state = st, !.timer = (st = "Connecting"), !.later = EntryCall[st]]
  BY DEF setState
<1>3. st \in States /\ EntryCall[st] \in Calls /\ EntryCall[st] \in CallsOf(st)
  BY DownStates, EntryCallType
<1> HIDE DEF e, t
<1>4. /\ t \in Session
      /\ t.state = st /\ t.later = EntryCall[st]
      /\ t.channels = NoChannels /\ t.open = 0 /\ ~t.tunnel /\ t.ftp = "none"
      /\ t.notifiers # "on"
      /\ st # "Closing" => ~t.lookup
  BY <1>1, <1>2, <1>3 DEF Session
<1>5. EntryCall[st] # "none" /\ st \notin Trusted
  BY EntryCalls DEF Down, Failures, Trusted
<1>6. Serves(t)
  BY <1>4 DEF Serves, NoChannels
<1>7. Counted(t)
  BY <1>4, CountedNothing
<1>8. Notified(t) /\ Waits(t)
  BY <1>4, <1>5 DEF Notified, Waits
<1>9. t.lookup => t.state \in {"Lookup", "Closing"}
  BY <1>4
<1>10. Sound(t)
  BY <1>3, <1>4, <1>5, <1>6, <1>7, <1>8, <1>9 DEF Sound
<1> QED BY <1>4, <1>10 DEF t

(* On the way up it needs more: nothing to serve, nothing to look up any      *)
(* more, and a server that was found good.                                    *)
LEMMA GoUp ==
    ASSUME NEW s \in Session, NEW st \in Up, st # s.state, ServesNothing(s), ~s.lookup,
           st \in Trusted => s.known = "Ok",
           st # "Connecting" => (s.notifiers = "on" => s.blocking)
    PROVE  /\ Sound(setState(s, st))
           /\ setState(s, st).state = st
<1> DEFINE e == Enter(s, st)
           t == setState(s, st)
<1>1. st \notin Failures \cup {"Closed", "Closing"} /\ st \in States
  BY DownStates DEF Down
<1>2. e = IF st = "Connecting" THEN [s EXCEPT !.blocking = FALSE] ELSE s
  BY <1>1 DEF Enter
<1>3. /\ e \in Session
      /\ e.channels = s.channels /\ e.open = s.open /\ e.tunnel = s.tunnel /\ e.ftp = s.ftp
      /\ e.lookup = s.lookup /\ e.known = s.known
      /\ st # "Connecting" => (e.notifiers = "on" => e.blocking)
  <2>1. CASE st = "Connecting"
    BY <1>2, <2>1 DEF Session
  <2>2. CASE st # "Connecting"
    BY <1>2, <2>2
  <2> QED BY <2>1, <2>2
<1>4. t = [e EXCEPT !.state = st, !.timer = (st = "Connecting"), !.later = EntryCall[st]]
  BY DEF setState
<1>5. EntryCall[st] \in Calls /\ EntryCall[st] \in CallsOf(st)
  BY <1>1, EntryCallType
<1> HIDE DEF e, t
<1>6. /\ t \in Session
      /\ t.state = st /\ t.later = EntryCall[st]
      /\ t.channels = s.channels /\ t.open = s.open /\ t.tunnel = s.tunnel /\ t.ftp = s.ftp
      /\ t.lookup = s.lookup /\ t.known = s.known
      /\ st # "Connecting" => (t.notifiers = "on" => t.blocking)
  BY <1>1, <1>3, <1>4, <1>5 DEF Session
<1>7. s.channels \in [Channels -> Phases]
  BY DEF Session
<1>8. t.channels = NoChannels /\ t.open = 0
  BY <1>6, <1>7 DEF ServesNothing, NoChannels
<1>9. Serves(t)
  BY <1>6 DEF Serves, ServesNothing
<1>10. Counted(t)
  BY <1>8, CountedNothing
<1>11. Notified(t) /\ Waits(t)
  BY <1>1, <1>6, EntryCalls DEF Notified, Waits, Up, ServesNothing
<1> QED BY <1>5, <1>6, <1>9, <1>10, <1>11 DEF Sound, t

--------------------------------------------------------------------------------
(* The functions that the handlers share. *)

(* What the invariant says of a session does not depend on its other fields.  *)
LEMMA Aside ==
    ASSUME NEW s, Sound(s), NEW t \in Session,
           \A f \in {"state", "later", "known", "channels", "open", "tunnel", "ftp", "lookup",
                     "notifiers", "blocking", "running"} : t[f] = s[f]
    PROVE  Sound(t)
<1>1. /\ t.state = s.state /\ t.later = s.later /\ t.known = s.known
      /\ t.channels = s.channels /\ t.open = s.open /\ t.tunnel = s.tunnel /\ t.ftp = s.ftp
      /\ t.lookup = s.lookup /\ t.notifiers = s.notifiers /\ t.blocking = s.blocking
      /\ t.running = s.running
  OBVIOUS
<1>2. Counted(t)
  BY <1>1 DEF Sound, Counted
<1> QED BY <1>1, <1>2 DEF Sound, Serves, Notified, Waits

LEMMA Idle ==
    ASSUME NEW s, Sound(s), s.state \notin {"Established", "Ready"}
    PROVE  ServesNothing(s)
<1>1. s.open = 0 /\ ~s.tunnel /\ s.ftp = "none" /\ s.channels \in [Channels -> Phases]
  BY DEF Sound, Serves, Session
<1>2. \A c \in Channels : s.channels[c] = "none"
  BY DEF Sound, Serves
<1> QED BY <1>1, <1>2 DEF ServesNothing

LEMMA ServesNothingServes == ASSUME NEW s, ServesNothing(s) PROVE Serves(s)
BY DEF ServesNothing, Serves

(* A call put off that suits the state, once the timer has fired. *)
LEMMA PutOff ==
    ASSUME NEW s \in Session, NEW f \in CallsOf(s.state), f # "none" \/ s.lookup,
           f \in Calls, f = "sendPublicKey" => s.ftp = "none",
           s.state \in Trusted => s.known = "Ok", Serves(s),
           s.lookup => s.state \in {"Lookup", "Closing"}, Notified(s), Counted(s)
    PROVE  Sound(callLater(s, f)) /\ callLater(s, f).state = s.state
<1> DEFINE t == callLater(s, f)
<1>1. /\ t \in Session /\ t.later = f
      /\ t.state = s.state /\ t.known = s.known
      /\ t.channels = s.channels /\ t.open = s.open /\ t.tunnel = s.tunnel /\ t.ftp = s.ftp
      /\ t.lookup = s.lookup /\ t.notifiers = s.notifiers /\ t.blocking = s.blocking
  BY DEF callLater, Session
<1> HIDE DEF t
<1>2. Counted(t)
  BY <1>1 DEF Counted
<1>3. Waits(t)
  BY <1>1 DEF Waits
<1>4. Serves(t) /\ Notified(t)
  BY <1>1 DEF Serves, Notified
<1>5. Sound(t)
  BY <1>1, <1>2, <1>3, <1>4 DEF Sound
<1> QED BY <1>1, <1>5 DEF t

(* A session in the middle of its authentication. *)
Authenticates(s) ==
    /\ s \in Session
    /\ s.state = "UserAuth" /\ s.known = "Ok"
    /\ ServesNothing(s) /\ ~s.lookup /\ Notified(s)

LEMMA AuthCalls ==
    \A f \in {"libUserAuthTryPublickey", "libUserAuthPublickey", "libUserAuthKbdint",
              "libUserAuthPassword"} : f \in Calls /\ f \in CallsOf("UserAuth") /\ f # "none"
BY DEF Calls, CallsOf

LEMMA NothingCounted == ASSUME NEW s \in Session, ServesNothing(s) PROVE Counted(s)
<1>1. s.channels \in [Channels -> Phases]
  BY DEF Session
<1>2. s.channels = NoChannels /\ s.open = 0
  BY <1>1 DEF ServesNothing, NoChannels
<1> QED BY <1>2, CountedNothing

LEMMA AuthPutOff ==
    ASSUME NEW s, Authenticates(s),
           NEW f \in {"libUserAuthTryPublickey", "libUserAuthPublickey", "libUserAuthKbdint",
                      "libUserAuthPassword"}
    PROVE  Sound(callLater(s, f)) /\ callLater(s, f).state = "UserAuth"
BY PutOff, AuthCalls, NothingCounted, ServesNothingServes DEF Authenticates

LEMMA AuthFails ==
    ASSUME NEW s, Authenticates(s), NEW st \in {"Error", "Denied"}
    PROVE  Sound(setState(s, st)) /\ setState(s, st).state = st
BY GoDown, ServesNothingServes DEF Authenticates, Down, Failures

LEMMA AuthSucceeds ==
    ASSUME NEW s, Authenticates(s)
    PROVE  Sound(setState(s, "Established")) /\ setState(s, "Established").state = "Established"
BY GoUp DEF Authenticates, Up, Notified

(* The session that asks the user. *)
LEMMA AuthAsks ==
    ASSUME NEW s, Authenticates(s), s.later = "none"
    PROVE  LET t == [s EXCEPT !.running = FALSE, !.asked = "auth"]
           IN  Sound(t) /\ t.state = "UserAuth"
<1> DEFINE t == [s EXCEPT !.running = FALSE, !.asked = "auth"]
<1>1. /\ t \in Session /\ ~t.running /\ t.later = "none"
      /\ t.state = "UserAuth" /\ t.known = "Ok"
      /\ t.channels = s.channels /\ t.open = s.open /\ t.tunnel = s.tunnel /\ t.ftp = s.ftp
      /\ t.lookup = s.lookup /\ t.notifiers = s.notifiers /\ t.blocking = s.blocking
  BY DEF Session, Authenticates
<1> HIDE DEF t
<1>2. ServesNothing(t) /\ Notified(t)
  BY <1>1 DEF Authenticates, ServesNothing, Notified
<1>3. Counted(t) /\ Serves(t)
  BY <1>1, <1>2, NothingCounted, ServesNothingServes
<1>4. "none" \in CallsOf(t.state)
  BY <1>1, NoneIsACall DEF States
<1>5. Sound(t)
  BY <1>1, <1>2, <1>3, <1>4 DEF Sound, Waits, Authenticates
<1> QED BY <1>1, <1>5 DEF t

LEMMA IterateAuth ==
    ASSUME NEW s, Authenticates(s), s.later = "none"
    PROVE  /\ Sound(iterateUserAuth(s))
           /\ iterateUserAuth(s).state \in {"UserAuth", "Denied"}
<1>1. s.auth \in SUBSET Methods
  BY DEF Authenticates, Session
<1>2. CASE "publickey" \in s.auth
  <2>1. iterateUserAuth(s) = callLater(s, "libUserAuthTryPublickey")
    BY <1>2 DEF iterateUserAuth
  <2> QED BY <2>1, AuthPutOff
<1>3. CASE "publickey" \notin s.auth /\ "interactive" \in s.auth
  <2>1. iterateUserAuth(s) = callLater(s, "libUserAuthKbdint")
    BY <1>3 DEF iterateUserAuth
  <2> QED BY <2>1, AuthPutOff
<1>4. CASE s.auth = {"password"}
  <2>1. CASE s.password
    <3>1. iterateUserAuth(s) = callLater(s, "libUserAuthPassword")
      BY <1>4, <2>1 DEF iterateUserAuth
    <3> QED BY <3>1, AuthPutOff
  <2>2. CASE ~s.password
    <3>1. iterateUserAuth(s) = [s EXCEPT !.running = FALSE, !.asked = "auth"]
      BY <1>4, <2>2 DEF iterateUserAuth
    <3> QED BY <3>1, AuthAsks
  <2> QED BY <2>1, <2>2
<1>5. CASE s.auth = {}
  <2>1. iterateUserAuth(s) = setState(s, "Denied")
    BY <1>5 DEF iterateUserAuth
  <2> QED BY <2>1, AuthFails
<1> QED BY <1>1, <1>2, <1>3, <1>4, <1>5 DEF Methods

--------------------------------------------------------------------------------
(* The functions on channels. *)

LEMMA SetChannelType ==
    ASSUME NEW s \in Session, NEW c \in Channels, NEW ph \in Phases
    PROVE  LET t == setChannel(s, c, ph) IN
           /\ t \in Session
           /\ t.channels = [s.channels EXCEPT ![c] = ph]
           /\ \A f \in {"state", "later", "known", "open", "tunnel", "ftp", "lookup",
                        "notifiers", "blocking", "running"} : t[f] = s[f]
BY DEF setChannel, Session

LEMMA SetOpenChannelsType ==
    ASSUME NEW s \in Session
    PROVE  LET t == setOpenChannels(s) IN
           /\ t \in Session
           /\ t.open = Cardinality({c \in Channels : IsOpen(s, c)})
           /\ \A f \in {"state", "later", "known", "channels", "tunnel", "ftp", "lookup",
                        "notifiers", "blocking", "running"} : t[f] = s[f]
           /\ Counted(t)
<1> DEFINE n == Cardinality({c \in Channels : IsOpen(s, c)})
           t == setOpenChannels(s)
<1>1. IsFiniteSet({c \in Channels : IsOpen(s, c)})
  BY FiniteChannels, FS_Subset
<1>2. n \in Nat
  BY <1>1, FS_CardinalityType
<1>3. t = [s EXCEPT !.open = n]
  BY DEF setOpenChannels
<1> HIDE DEF n, t
<1>4. /\ t \in Session /\ t.open = n
      /\ \A f \in {"state", "later", "known", "channels", "tunnel", "ftp", "lookup",
                   "notifiers", "blocking", "running"} : t[f] = s[f]
  BY <1>2, <1>3 DEF Session
<1>5. t.channels = s.channels
  BY <1>4
<1>6. {c \in Wired : t.channels[c] = "open"} \subseteq {c \in Channels : IsOpen(s, c)}
  BY <1>5, FiniteChannels DEF IsOpen
<1>7. Cardinality({c \in Wired : t.channels[c] = "open"}) <= n
  BY <1>1, <1>6, FS_Subset DEF n
<1>8. Counted(t)
  BY <1>4, <1>7 DEF Counted
<1> QED BY <1>4, <1>8 DEF t, n

(* In a ready session only the count of the channels matters. *)
LEMMA ReadyAside ==
    ASSUME NEW s, Sound(s), s.state = "Ready", NEW t \in Session, Counted(t),
           \A f \in {"state", "later", "known", "ftp", "lookup", "notifiers", "blocking"} :
               t[f] = s[f]
    PROVE  Sound(t)
<1>1. /\ t.state = "Ready" /\ t.later = s.later /\ t.known = s.known /\ t.ftp = s.ftp
      /\ t.lookup = s.lookup /\ t.notifiers = s.notifiers /\ t.blocking = s.blocking
  OBVIOUS
<1> QED BY <1>1 DEF Sound, Serves, Notified, Waits

LEMMA Disconnects ==
    ASSUME NEW s, Sound(s)
    PROVE  /\ Sound(disconnectFromHost(s))
           /\ disconnectFromHost(s).state \in {s.state, "Closing"}
           /\ s.state = "Closed" => disconnectFromHost(s).state = "Closed"
<1>1. CASE s.state \in {"Closing", "Closed"}
  BY <1>1 DEF disconnectFromHost
<1>2. CASE s.state \notin {"Closing", "Closed"}
  <2>1. disconnectFromHost(s) = setState(s, "Closing")
    BY <1>2 DEF disconnectFromHost
  <2>2. s \in Session /\ Serves(s) /\ "Closing" \in Down
    BY DEF Sound, Down
  <2> QED BY <1>2, <2>1, <2>2, GoDown
<1> QED BY <1>1, <1>2

LEMMA DropSound ==
    ASSUME NEW s, Sound(s), NEW c \in Channels, s.state = "Ready" \/ ServesNothing(s)
    PROVE  /\ Sound(Drop(s, c))
           /\ Drop(s, c).state \in {s.state, "Closing"}
           /\ s.state = "Closed" => Drop(s, c).state = "Closed"
<1> DEFINE r == setChannel(s, c, "none")
           t == setOpenChannels(r)
<1>1. s \in Session /\ "none" \in Phases
  BY DEF Sound, Phases
<1>2. /\ r \in Session /\ r.channels = [s.channels EXCEPT ![c] = "none"]
      /\ \A f \in {"state", "later", "known", "open", "tunnel", "ftp", "lookup",
                   "notifiers", "blocking", "running"} : r[f] = s[f]
  BY <1>1, SetChannelType
<1> HIDE DEF r
<1>3. /\ t \in Session /\ t.channels = r.channels /\ Counted(t)
      /\ t.open = Cardinality({x \in Channels : IsOpen(r, x)})
      /\ \A f \in {"state", "later", "known", "tunnel", "ftp", "lookup",
                   "notifiers", "blocking", "running"} : t[f] = r[f]
  BY <1>2, SetOpenChannelsType
<1> HIDE DEF t
<1>4. \A f \in {"state", "later", "known", "tunnel", "ftp", "lookup",
                "notifiers", "blocking", "running"} : t[f] = s[f]
  BY <1>2, <1>3
<1>5. t.state = s.state
  BY <1>4
<1>6. Sound(t)
  <2>1. CASE s.state = "Ready"
    BY <2>1, <1>3, <1>4, ReadyAside
  <2>2. CASE ServesNothing(s)
    <3>1. s.channels \in [Channels -> Phases]
      BY <1>1 DEF Session
    <3>2. t.channels = s.channels
      BY <2>2, <3>1, <1>2, <1>3 DEF ServesNothing
    <3>3. {x \in Channels : IsOpen(r, x)} = {}
      BY <2>2, <3>2, <1>3 DEF ServesNothing, IsOpen
    <3>4. t.open = s.open
      BY <2>2, <3>3, <1>3, FS_EmptySet DEF ServesNothing
    <3> QED BY <3>2, <3>4, <1>3, <1>4, Aside
  <2> QED BY <2>1, <2>2
<1>7. Drop(s, c) = IF t.open = 0 THEN disconnectFromHost(t) ELSE t
  BY DEF Drop, t, r
<1>8. CASE t.open = 0
  BY <1>5, <1>6, <1>7, <1>8, Disconnects
<1>9. CASE t.open # 0
  BY <1>5, <1>6, <1>7, <1>9
<1> QED BY <1>8, <1>9

--------------------------------------------------------------------------------
(* The steps: what each handler makes of a sound session. *)

LEMMA FiredFacts ==
    ASSUME Sound(ss)
    PROVE  /\ Fired \in Session /\ Fired.later = "none"
           /\ \A f \in {"state", "known", "channels", "open", "tunnel", "ftp", "lookup",
                        "notifiers", "blocking", "running", "auth", "password", "share"} :
                  Fired[f] = ss[f]
           /\ Serves(Fired) /\ Notified(Fired) /\ Counted(Fired)
           /\ ServesNothing(ss) => ServesNothing(Fired)
<1>1. /\ Fired \in Session /\ Fired.later = "none"
      /\ \A f \in {"state", "known", "channels", "open", "tunnel", "ftp", "lookup",
                   "notifiers", "blocking", "running", "auth", "password", "share"} :
             Fired[f] = ss[f]
  BY NoneIsACall DEF Sound, Fired, callLater, Session
<1>2. /\ Fired.state = ss.state /\ Fired.channels = ss.channels /\ Fired.open = ss.open
      /\ Fired.tunnel = ss.tunnel /\ Fired.ftp = ss.ftp
      /\ Fired.notifiers = ss.notifiers /\ Fired.blocking = ss.blocking
  BY <1>1
<1>3. Counted(Fired)
  BY <1>2 DEF Sound, Counted
<1> QED BY <1>1, <1>2, <1>3 DEF Sound, Serves, Notified, ServesNothing

(* A step that leaves the connection alone. *)
LEMMA SameLink ==
    ASSUME Inv, Sound(ss'), UNCHANGED link, sockets' \subseteq Tunnels, freed_used' \in BOOLEAN,
           ss'.state = "Closed" => ss.state = "Closed" \/ link = "none",
           ss'.state \in {"ServerCheck", "UserAuth", "Established"} => link # "none"
    PROVE  Inv'
BY DEF Inv, TypeOK, Sound, Linked

LEMMA AnyLink ==
    ASSUME Inv, Sound(ss'), link' \in {"none", "connecting", "connected", "lost"},
           UNCHANGED <<sockets, freed_used>>,
           ss'.state = "Closed" => link' = "none",
           ss'.state \in {"ServerCheck", "UserAuth", "Established"} => link' # "none"
    PROVE  Inv'
BY DEF Inv, TypeOK, Sound, Linked

LEMMA Constant ==
    ASSUME Inv PROVE /\ Sound(ss) /\ ss \in Session /\ ss.state \in States /\ Serves(ss)
                     /\ link \in {"none", "connecting", "connected", "lost"}
                     /\ sockets \subseteq Tunnels /\ freed_used \in BOOLEAN
                     /\ ss.state = "Closed" => link = "none"
                     /\ ss.state \in {"ServerCheck", "UserAuth", "Established"} => link # "none"
BY DEF Inv, TypeOK, Sound, Session, Linked

LEMMA Connects == ASSUME Inv, connectToHost PROVE Inv'
<1> DEFINE s == cleanUp(ss)
           t(p) == [s EXCEPT !.share = FALSE, !.error = FALSE, !.password = p]
<1>1. ss.state = "Closed" /\ Sound(ss) /\ ss \in Session
  BY Constant DEF connectToHost
<1>2. ServesNothing(ss)
  BY <1>1, Idle
<1>3. /\ s \in Session /\ s.later = "none" /\ ~s.lookup
      /\ s.channels = NoChannels /\ s.ftp = "none" /\ s.notifiers # "on"
      /\ s.state = "Closed" /\ s.open = 0 /\ ~s.tunnel
  BY <1>1, <1>2, CleanUpType DEF ServesNothing
<1>4. ss' = s \/ \E p \in BOOLEAN, st \in {"Lookup", "Connecting"} : ss' = setState(t(p), st)
  BY DEF connectToHost
<1>5. UNCHANGED <<link, sockets, freed_used>>
  BY DEF connectToHost
<1> HIDE DEF s
<1>6. CASE ss' = s
  <2>1. Counted(s)
    BY <1>3, CountedNothing
  <2>2. Sound(s)
    BY <1>3, <2>1, NoneIsACall DEF Sound, Serves, Notified, Waits, NoChannels, States, Trusted
  <2> QED BY <1>1, <1>3, <1>5, <1>6, <2>2, SameLink, Constant
<1>7. ASSUME NEW p \in BOOLEAN, NEW st \in {"Lookup", "Connecting"}, ss' = setState(t(p), st)
      PROVE  Inv'
  <2>1. /\ t(p) \in Session /\ ~t(p).lookup /\ t(p).state = "Closed" /\ t(p).notifiers # "on"
        /\ t(p).channels = NoChannels /\ t(p).ftp = "none" /\ t(p).open = 0 /\ ~t(p).tunnel
    BY <1>3 DEF Session
  <2> HIDE DEF t
  <2>2. ServesNothing(t(p))
    BY <2>1 DEF ServesNothing, NoChannels
  <2>3. Sound(ss') /\ ss'.state = st
    BY <1>7, <2>1, <2>2, GoUp DEF Up, Trusted
  <2> QED BY <1>5, <2>3, SameLink, Constant
<1> QED BY <1>4, <1>6, <1>7

LEMMA DisconnectKeeps == ASSUME Inv, Disconnect PROVE Inv'
<1>1. Sound(ss') /\ ss'.state \in {ss.state, "Closing"}
  BY Constant, Disconnects DEF Disconnect
<1> QED BY <1>1, Constant, SameLink DEF Disconnect

LEMMA CancelKeeps == ASSUME Inv, cancel PROVE Inv'
<1> DEFINE s == setState(ss, "Closed")
           t == [s EXCEPT !.asked = "none"]
<1>1. Sound(s) /\ s.state = "Closed"
  <2>1. CASE ss.state = "Closed"
    BY <2>1, Constant DEF setState
  <2>2. CASE ss.state # "Closed"
    BY <2>2, Constant, GoDown DEF Down
  <2> QED BY <2>1, <2>2
<1> HIDE DEF s
<1>2. t \in Session /\ \A f \in {"state", "later", "known", "channels", "open", "tunnel", "ftp",
                     "lookup", "notifiers", "blocking", "running"} : t[f] = s[f]
  BY <1>1 DEF Sound, Session
<1>3. ss' = t /\ link' = "none" /\ UNCHANGED <<sockets, freed_used>>
  BY DEF cancel, s
<1> HIDE DEF t
<1>4. Sound(t) /\ t.state = "Closed"
  BY <1>1, <1>2, Aside
<1> QED BY <1>3, <1>4, AnyLink

(* A dialog that goes without an answer. *)
LEMMA Dismissed ==
    ASSUME Inv
    PROVE  LET t == [ss EXCEPT !.asked = "none"]
           IN  Sound(t) /\ \A f \in {"state", "later", "known", "channels", "open", "tunnel",
                     "ftp", "lookup", "notifiers", "blocking", "running", "auth"} : t[f] = ss[f]
<1> DEFINE t == [ss EXCEPT !.asked = "none"]
<1>1. t \in Session /\ \A f \in {"state", "later", "known", "channels", "open", "tunnel", "ftp",
                     "lookup", "notifiers", "blocking", "running", "auth"} : t[f] = ss[f]
  BY Constant DEF Session
<1> HIDE DEF t
<1>2. Sound(t)
  BY <1>1, Constant, Aside
<1> QED BY <1>1, <1>2 DEF t

LEMMA DialogLostKeeps == ASSUME Inv, dialogLost PROVE Inv'
<1>1. Sound(ss') /\ ss'.state = ss.state
  BY Dismissed DEF dialogLost
<1> QED BY <1>1, Constant, SameLink DEF dialogLost

(* The failures a call put off ends in: the session is not in that state yet. *)
LEMMA FiredFails ==
    ASSUME Inv, ss.later \notin {"none", "cancel", "emitHostDisconnected"},
           NEW st \in Failures
    PROVE  Sound(setState(Fired, st)) /\ setState(Fired, st).state = st
<1>1. ss.state \notin Failures
  <2>1. ss.later \in CallsOf(ss.state)
    BY Constant DEF Sound
  <2>2. CASE ss.state \in Failures
    BY <2>1, <2>2, EntryCalls DEF CallsOf, Failures
  <2> QED BY <2>2
<1>2. Fired \in Session /\ Serves(Fired) /\ Fired.state = ss.state
  BY FiredFacts, Constant
<1> QED BY <1>1, <1>2, GoDown DEF Down

LEMMA LookupHostKeeps == ASSUME Inv, lookupHost PROVE Inv'
<1> DEFINE t == [Fired EXCEPT !.lookup = TRUE]
<1>1. ss.state = "Lookup" /\ Sound(ss)
  BY Constant, CallTellsState DEF lookupHost, Later, Sound
<1>2. ServesNothing(Fired)
  BY <1>1, Idle, FiredFacts
<1>3. /\ t \in Session /\ t.lookup /\ t.later = "none"
      /\ \A f \in {"state", "known", "channels", "open", "tunnel", "ftp", "notifiers",
                   "blocking"} : t[f] = Fired[f]
  BY <1>1, FiredFacts DEF Session
<1>4. ss' = t /\ UNCHANGED <<link, sockets, freed_used>>
  BY DEF lookupHost
<1> HIDE DEF t
<1>5. t.state = "Lookup" /\ Notified(t) /\ ServesNothing(t)
  BY <1>1, <1>2, <1>3, FiredFacts DEF Notified, ServesNothing
<1>6. Counted(t) /\ Serves(t)
  BY <1>3, <1>5, NothingCounted, ServesNothingServes
<1>7. Sound(t)
  BY <1>3, <1>5, <1>6, NoneIsACall DEF Sound, Waits, Trusted, States
<1> QED BY <1>1, <1>4, <1>5, <1>7, SameLink, Constant

LEMMA LookedUpKeeps == ASSUME Inv, lookedUp PROVE Inv'
<1> DEFINE t == [ss EXCEPT !.lookup = FALSE]
<1>1. ss.state \in {"Lookup", "Closing"} /\ Sound(ss)
  BY Constant DEF lookedUp, Sound
<1>2. ServesNothing(ss)
  BY <1>1, Idle
<1>3. /\ t \in Session /\ ~t.lookup
      /\ \A f \in {"state", "known", "channels", "open", "tunnel", "ftp", "notifiers",
                   "blocking"} : t[f] = ss[f]
  BY Constant DEF Session
<1>4. ss' \in {setState(t, "Error"), setState(t, "Connecting")}
  BY DEF lookedUp
<1> HIDE DEF t
<1>5. ServesNothing(t) /\ Serves(t)
  BY <1>2, <1>3, ServesNothingServes DEF ServesNothing
<1>6. CASE ss' = setState(t, "Error")
  <2>1. Sound(ss') /\ ss'.state = "Error"
    BY <1>1, <1>3, <1>5, <1>6, GoDown DEF Down, Failures
  <2> QED BY <2>1, SameLink, Constant DEF lookedUp
<1>7. CASE ss' = setState(t, "Connecting")
  <2>1. Sound(ss') /\ ss'.state = "Connecting"
    BY <1>1, <1>3, <1>5, <1>7, GoUp DEF Up, Trusted
  <2> QED BY <2>1, SameLink, Constant DEF lookedUp
<1> QED BY <1>4, <1>6, <1>7

LEMMA ConnectTimeoutKeeps == ASSUME Inv, connectTimeout PROVE Inv'
<1> DEFINE t == [ss EXCEPT !.timer = FALSE]
<1>1. t \in Session /\ \A f \in {"state", "later", "known", "channels", "open", "tunnel", "ftp",
                     "lookup", "notifiers", "blocking", "running"} : t[f] = ss[f]
  BY Constant DEF Session
<1>2. ss' = setState(t, "Timeout") /\ UNCHANGED <<link, sockets, freed_used>>
  BY DEF connectTimeout
<1> HIDE DEF t
<1>3. Sound(t)
  BY <1>1, Constant, Aside
<1>4. Sound(ss') /\ ss'.state = "Timeout"
  <2>1. CASE t.state = "Timeout"
    BY <1>2, <1>3, <2>1 DEF setState
  <2>2. CASE t.state # "Timeout"
    BY <1>2, <1>3, <2>2, GoDown DEF Sound, Down, Failures
  <2> QED BY <2>1, <2>2
<1> QED BY <1>2, <1>4, SameLink, Constant

(* A session that connects, with the notifiers that ssh_connect made. *)
LEMMA LibConnectKeeps == ASSUME Inv, libConnect PROVE Inv'
<1>1. ss.state = "Connecting" /\ Sound(ss) /\ ss.later = "libConnect"
  BY Constant, CallTellsState DEF libConnect, Later, Sound
<1>2. ServesNothing(ss) /\ ServesNothing(Fired) /\ ~ss.lookup
  BY <1>1, Idle, FiredFacts DEF Sound
<1>3. UNCHANGED <<sockets, freed_used>>
  BY DEF libConnect
<1>4. ASSUME ss' = setState(Fired, "Error"), link' \in {"none", "connecting", "connected", "lost"}
      PROVE  Inv'
  <2>1. Sound(ss') /\ ss'.state = "Error"
    BY <1>1, <1>4, FiredFails DEF Failures
  <2> QED BY <1>3, <1>4, <2>1, AnyLink
<1>5. ASSUME ss' = [ss EXCEPT !.notifiers = "on", !.running = TRUE],
             link' \in {"connecting", "connected"}
      PROVE  Inv'
  <2>1. /\ ss' \in Session /\ ss'.later = ss.later
        /\ \A f \in {"state", "known", "channels", "open", "tunnel", "ftp", "lookup"} :
              ss'[f] = ss[f]
    BY <1>5, Constant DEF Session
  <2>2. ss'.state = "Connecting"
    BY <1>1, <2>1
  <2>3. ServesNothing(ss') /\ Counted(ss') /\ Serves(ss')
    <3>1. ServesNothing(ss')
      BY <1>2, <2>1 DEF ServesNothing
    <3> QED BY <2>1, <3>1, NothingCounted, ServesNothingServes
  <2>4. Sound(ss')
    BY <1>1, <1>2, <2>1, <2>2, <2>3 DEF Sound, Notified, Waits, Trusted
  <2> QED BY <1>3, <1>5, <2>2, <2>4, AnyLink
<1>6. CASE libConnectAgain
  BY <1>4, <1>5, <1>6 DEF libConnectAgain
<1>7. CASE libConnectOk
  <2> DEFINE t == [Fired EXCEPT !.notifiers = "on", !.running = TRUE]
  <2>1. /\ t \in Session /\ t.blocking
        /\ \A f \in {"state", "known", "channels", "open", "tunnel", "ftp", "lookup"} :
              t[f] = ss[f]
    BY <1>1, <1>7, FiredFacts DEF Session, libConnectOk
  <2>2. ss' = setState(t, "ServerCheck") /\ link = "connected" /\ UNCHANGED link
    BY <1>7 DEF libConnectOk
  <2> HIDE DEF t
  <2>3. ServesNothing(t)
    BY <1>2, <2>1 DEF ServesNothing
  <2>4. Sound(ss') /\ ss'.state = "ServerCheck"
    BY <1>1, <1>2, <2>1, <2>2, <2>3, GoUp DEF Up, Trusted
  <2> QED BY <1>3, <2>2, <2>4, AnyLink
<1>8. CASE Fails
  BY <1>4, <1>8, Constant DEF Fails
<1> QED BY <1>6, <1>7, <1>8 DEF libConnect

LEMMA LibSetBlockingKeeps == ASSUME Inv, libSetBlocking PROVE Inv'
<1>1. ss.state = "Connecting" /\ Sound(ss) /\ ss.later = "libSetBlocking"
  BY Constant, CallTellsState DEF libSetBlocking, Later, Sound
<1>2. ServesNothing(ss) /\ ~ss.lookup
  BY <1>1, Idle DEF Sound
<1>3. UNCHANGED <<link, sockets, freed_used>>
  BY DEF libSetBlocking
<1>4. CASE link = "none"
  <2>1. ss' = setState(Fired, "Error")
    BY <1>4 DEF libSetBlocking
  <2>2. Sound(ss') /\ ss'.state = "Error"
    BY <1>1, <2>1, FiredFails DEF Failures
  <2> QED BY <1>3, <2>2, SameLink, Constant
<1>5. CASE link # "none"
  <2>1. ss' = [ss EXCEPT !.later = "libConnect", !.blocking = TRUE]
    BY <1>5 DEF libSetBlocking, callLater
  <2>2. "libConnect" \in Calls /\ "libConnect" \in CallsOf("Connecting")
    BY EntryCalls, EntryCallType DEF States
  <2>3. /\ ss' \in Session /\ ss'.later = "libConnect" /\ ss'.blocking
        /\ \A f \in {"state", "known", "channels", "open", "tunnel", "ftp", "lookup"} :
              ss'[f] = ss[f]
    BY <2>1, <2>2, Constant DEF Session
  <2>4. ServesNothing(ss') /\ ss'.state = "Connecting"
    BY <1>1, <1>2, <2>3 DEF ServesNothing
  <2>5. Counted(ss') /\ Serves(ss')
    BY <2>3, <2>4, NothingCounted, ServesNothingServes
  <2>6. Sound(ss')
    BY <1>1, <1>2, <2>2, <2>3, <2>4, <2>5 DEF Sound, Notified, Waits, Trusted
  <2> QED BY <1>3, <2>4, <2>6, SameLink, Constant
<1> QED BY <1>4, <1>5

LEMMA OnSocketActivatedKeeps == ASSUME Inv, onSocketActivated PROVE Inv'
<1>1. ss.notifiers = "on" /\ ss.state # "Closed" /\ Sound(ss)
      /\ UNCHANGED <<sockets, freed_used>>
  BY Constant DEF onSocketActivated, Sound, Notified
<1>2. ASSUME NEW n \in {"none", "off"}
      PROVE  LET t == [ss EXCEPT !.notifiers = n] IN Sound(t) /\ t.state = ss.state
  <2> DEFINE t == [ss EXCEPT !.notifiers = n]
  <2>1. /\ t \in Session /\ t.notifiers # "on"
        /\ \A f \in {"state", "later", "known", "channels", "open", "tunnel", "ftp", "lookup",
                     "blocking", "running"} : t[f] = ss[f]
    BY Constant DEF Session
  <2> HIDE DEF t
  <2>2. Counted(t)
    BY <1>1, <2>1 DEF Sound, Counted
  <2>3. Serves(t) /\ Waits(t) /\ Notified(t)
    BY <1>1, <2>1 DEF Sound, Serves, Waits, Notified
  <2>4. Sound(t)
    BY <1>1, <2>1, <2>2, <2>3 DEF Sound
  <2> QED BY <2>1, <2>4 DEF t
<1>3. CASE link = "none" /\ ss' = setState([ss EXCEPT !.notifiers = "none"], "Closed")
           /\ UNCHANGED link
  <2>1. Sound(ss') /\ ss'.state = "Closed"
    BY <1>1, <1>2, <1>3, GoDown DEF Sound, Down
  <2> QED BY <1>1, <1>3, <2>1, SameLink, Constant
<1>4. CASE ss' = setState([ss EXCEPT !.notifiers = "off"], "Error") /\ link' = "none"
  <2> DEFINE t == [ss EXCEPT !.notifiers = "off"]
  <2>1. Sound(t) /\ t.state = ss.state /\ ss' = setState(t, "Error")
    BY <1>2, <1>4
  <2> HIDE DEF t
  <2>2. Sound(ss') /\ ss'.state = "Error"
    <3>1. CASE t.state = "Error"
      BY <2>1, <3>1 DEF setState
    <3>2. CASE t.state # "Error"
      BY <2>1, <3>2, GoDown DEF Sound, Down, Failures
    <3> QED BY <3>1, <3>2
  <2> QED BY <1>1, <1>4, <2>2, AnyLink
<1>5. CASE link' = "connected" /\ ss' \in {ss, libEventCallback(ss)}
  <2>1. Sound(ss') /\ ss'.state = ss.state
    <3>1. CASE ss' = ss
      BY <1>1, <3>1
    <3>2. CASE ss.blocking
      BY <1>1, <1>5, <3>2 DEF libEventCallback
    <3>3. CASE ~ss.blocking /\ ss' # ss
      <4>1. ss' = callLater(ss, "libSetBlocking")
        BY <1>5, <3>3 DEF libEventCallback
      <4>2. ss.state = "Connecting"
        BY <1>1, <3>3 DEF Sound, Notified
      <4>3. "libSetBlocking" \in Calls /\ "libSetBlocking" \in CallsOf("Connecting")
        BY DEF Calls, CallsOf
      <4> QED BY <1>1, <4>1, <4>2, <4>3, PutOff DEF Sound
    <3> QED BY <3>1, <3>2, <3>3
  <2> QED BY <1>1, <1>5, <2>1, AnyLink
<1> QED BY <1>3, <1>4, <1>5 DEF onSocketActivated

(* The check of the server, from the timer or from the dialog. *)
Checks(s) ==
    /\ s \in Session
    /\ s.state = "ServerCheck" /\ s.later \in {"none", "libServerPublickey"}
    /\ ServesNothing(s) /\ ~s.lookup /\ Notified(s)

LEMMA KnownSound ==
    ASSUME NEW s, Checks(s), NEW t \in libServerKnown(s)
    PROVE  Sound(t) /\ t.state \in {"Error", "UserAuth", "ServerCheck"}
<1>1. s \in Session /\ Serves(s) /\ ServesNothing(s) /\ ~s.lookup /\ s.state = "ServerCheck"
      /\ (s.notifiers = "on" => s.blocking) /\ s.later \in CallsOf(s.state)
      /\ s.later # "sendPublicKey"
  BY ServesNothingServes, EntryCalls DEF Checks, Notified, CallsOf
<1>2. CASE t = setState(s, "Error")
  BY <1>1, <1>2, GoDown DEF Down, Failures
<1>3. ASSUME NEW kh \in {"Ok", "Unknown"}, t = Known(s, kh)
      PROVE  Sound(t) /\ t.state \in {"Error", "UserAuth", "ServerCheck"}
  <2> DEFINE r == [s EXCEPT !.known = kh]
  <2>1. r \in Session /\ r.known = kh
        /\ \A f \in {"state", "later", "channels", "open", "tunnel", "ftp", "lookup",
                     "notifiers", "blocking", "running", "asked"} : r[f] = s[f]
    BY <1>1 DEF Session
  <2>2. Known(s, kh) = IF kh = "Ok" THEN setState(r, "UserAuth")
            ELSE [r EXCEPT !.running = FALSE, !.asked = IF kh = s.known THEN @ ELSE "host"]
    BY DEF Known
  <2> HIDE DEF r
  <2>3. ServesNothing(r)
    BY <1>1, <2>1 DEF ServesNothing
  <2>4. CASE kh = "Ok"
    <3>1. t = setState(r, "UserAuth")
      BY <1>3, <2>2, <2>4
    <3> QED BY <1>1, <2>1, <2>3, <2>4, <3>1, GoUp DEF Up
  <2>5. CASE kh # "Ok"
    <3>1. t = [r EXCEPT !.running = FALSE, !.asked = IF kh = s.known THEN r.asked ELSE "host"]
      BY <1>3, <2>2, <2>5
    <3>2. /\ t \in Session /\ ~t.running
          /\ \A f \in {"state", "later", "channels", "open", "tunnel", "ftp", "lookup",
                       "notifiers", "blocking"} : t[f] = s[f]
      BY <2>1, <3>1 DEF Session
    <3>3. t.state = "ServerCheck" /\ t.later = s.later
      BY <1>1, <3>2
    <3>4. ServesNothing(t)
      BY <1>1, <3>2 DEF ServesNothing
    <3>5. Counted(t) /\ Serves(t)
      BY <3>2, <3>4, NothingCounted, ServesNothingServes
    <3>6. Notified(t) /\ Waits(t) /\ ~t.lookup
      BY <1>1, <3>2, <3>3 DEF Notified, Waits
    <3>7. Sound(t)
      BY <1>1, <3>2, <3>3, <3>5, <3>6 DEF Sound, Trusted
    <3> QED BY <3>3, <3>7
  <2> QED BY <2>4, <2>5
<1> QED BY <1>2, <1>3 DEF libServerKnown

LEMMA LibServerPublickeyKeeps == ASSUME Inv, libServerPublickey PROVE Inv'
<1>1. ss.state = "ServerCheck" /\ Sound(ss) /\ ss.later = "libServerPublickey" /\ link # "none"
  BY Constant, CallTellsState DEF libServerPublickey, Later, Sound
<1>2. ServesNothing(Fired) /\ Fired.state = "ServerCheck"
  BY <1>1, Idle, FiredFacts
<1>3. Checks(Fired)
  BY <1>1, <1>2, FiredFacts DEF Checks, Sound
<1>4. Sound(ss') /\ ss'.state \in {"Error", "UserAuth", "ServerCheck"}
  BY <1>3, KnownSound DEF libServerPublickey
<1> QED BY <1>1, <1>4, SameLink, Constant DEF libServerPublickey

LEMMA WriteKnownHostKeeps == ASSUME Inv, writeKnownHost PROVE Inv'
<1> DEFINE t == [ss EXCEPT !.asked = "none"]
<1>1. Sound(t) /\ \A f \in {"state", "later", "known", "channels", "open", "tunnel",
                "ftp", "lookup", "notifiers", "blocking", "running", "auth"} : t[f] = ss[f]
  BY Dismissed
<1>2. ss' \in (IF Checking THEN libServerKnown(t) ELSE {t})
      /\ UNCHANGED <<link, sockets, freed_used>>
  BY DEF writeKnownHost
<1> HIDE DEF t
<1>3. CASE Checking
  <2>1. t.state = "ServerCheck" /\ ss.state = "ServerCheck"
    BY <1>1, <1>3 DEF Checking
  <2>2. ServesNothing(t)
    BY <1>1, <2>1, Idle
  <2>3. t.later \in {"none", "libServerPublickey"}
    BY <1>1, <2>1, EntryCalls DEF Sound, CallsOf
  <2>4. Checks(t)
    BY <1>1, <2>1, <2>2, <2>3 DEF Checks, Sound
  <2>5. Sound(ss') /\ ss'.state \in {"Error", "UserAuth", "ServerCheck"}
    BY <1>2, <1>3, <2>4, KnownSound
  <2> QED BY <1>2, <2>1, <2>5, SameLink, Constant
<1>4. CASE ~Checking
  <2>1. Sound(ss') /\ ss'.state = ss.state
    BY <1>1, <1>2, <1>4
  <2> QED BY <1>2, <2>1, SameLink, Constant
<1> QED BY <1>3, <1>4

LEMMA FiredAuthenticates ==
    ASSUME Inv, ss.state = "UserAuth"
    PROVE  Authenticates(ss) /\ Authenticates(Fired) /\ Fired.later = "none"
<1>1. Sound(ss) /\ ServesNothing(ss)
  BY Constant, Idle
<1>2. Authenticates(ss)
  BY <1>1 DEF Authenticates, Sound, Trusted
<1> QED BY <1>1, <1>2, FiredFacts DEF Authenticates

LEMMA AuthWithout ==
    ASSUME NEW s, Authenticates(s), s.later = "none", NEW a \in SUBSET Methods
    PROVE  LET t == [s EXCEPT !.auth = a] IN Authenticates(t) /\ t.later = "none"
<1> DEFINE t == [s EXCEPT !.auth = a]
<1>1. /\ t \in Session /\ t.later = "none"
      /\ \A f \in {"state", "known", "channels", "open", "tunnel", "ftp", "lookup",
                   "notifiers", "blocking"} : t[f] = s[f]
  BY DEF Session, Authenticates
<1> HIDE DEF t
<1>2. ServesNothing(t) /\ Notified(t)
  BY <1>1 DEF Authenticates, ServesNothing, Notified
<1>3. Authenticates(t)
  BY <1>1, <1>2 DEF Authenticates
<1> QED BY <1>1, <1>3 DEF t

LEMMA WithoutSound ==
    ASSUME NEW s, Authenticates(s), s.later = "none", NEW m
    PROVE  Sound(Without(s, m)) /\ Without(s, m).state \in {"UserAuth", "Denied"}
<1>1. s.auth \ {m} \in SUBSET Methods
  BY DEF Authenticates, Session
<1> QED BY <1>1, AuthWithout, IterateAuth DEF Without

LEMMA TriedSound ==
    ASSUME NEW s, Authenticates(s), s.later = "none", NEW m, NEW t \in Tried(s, m)
    PROVE  Sound(t) /\ t.state \in {"UserAuth", "Denied", "Established", "Error"}
BY WithoutSound, AuthSucceeds, AuthFails DEF Tried

LEMMA UserAuthKeeps == ASSUME Inv, UserAuth PROVE Inv'
<1>1. ss.state = "UserAuth"
  <2>1. ss.later \in {"libUserAuthNone", "libUserAuthTryPublickey", "libUserAuthPublickey",
                      "libUserAuthKbdint", "libUserAuthPassword"}
    BY DEF UserAuth, Later, libUserAuthNone, libUserAuthTryPublickey, libUserAuthPublickey,
           libUserAuthKbdint, libUserAuthPassword
  <2> QED BY <2>1, Constant, CallTellsState DEF Sound
<1>2. Authenticates(ss) /\ Authenticates(Fired) /\ Fired.later = "none"
  BY <1>1, FiredAuthenticates
<1>3. link # "none" /\ UNCHANGED <<link, sockets, freed_used>>
  BY <1>1, Constant DEF UserAuth
<1>4. Sound(ss') /\ ss'.state \in {"UserAuth", "Denied", "Established", "Error"}
  <2>1. CASE libUserAuthNone
    <3>1. ASSUME NEW m \in SUBSET Methods
          PROVE  LET t == iterateUserAuth([Fired EXCEPT !.auth = m])
                 IN  Sound(t) /\ t.state \in {"UserAuth", "Denied"}
      BY <1>2, AuthWithout, IterateAuth
    <3> QED BY <1>2, <2>1, <3>1, AuthSucceeds, AuthFails DEF libUserAuthNone
  <2>2. CASE libUserAuthTryPublickey
    BY <1>2, <2>2, AuthPutOff, WithoutSound, AuthFails DEF libUserAuthTryPublickey
  <2>3. CASE libUserAuthPublickey
    BY <1>2, <2>3, TriedSound DEF libUserAuthPublickey
  <2>4. CASE libUserAuthKbdint
    BY <1>2, <2>4, TriedSound, AuthAsks DEF libUserAuthKbdint
  <2>5. CASE libUserAuthPassword
    BY <1>2, <2>5, TriedSound, AuthFails DEF libUserAuthPassword
  <2> QED BY <2>1, <2>2, <2>3, <2>4, <2>5 DEF UserAuth
<1> QED BY <1>3, <1>4, SameLink, Constant

(* The answers put a method off again, or find none left to try. *)
LEMMA AuthAnswers ==
    ASSUME NEW s, Authenticates(s), NEW p \in BOOLEAN,
           NEW f \in {"libUserAuthKbdint", "libUserAuthPassword"}
    PROVE  LET t == [callLater(s, f) EXCEPT !.running = TRUE, !.password = p]
           IN  Sound(t) /\ t.state = "UserAuth"
<1> DEFINE t == [callLater(s, f) EXCEPT !.running = TRUE, !.password = p]
<1>1. f \in Calls /\ f \in CallsOf("UserAuth") /\ f \notin {"none", "sendPublicKey"}
  BY AuthCalls
<1>2. /\ t \in Session /\ t.later = f
      /\ \A x \in {"state", "known", "channels", "open", "tunnel", "ftp", "lookup",
                   "notifiers", "blocking"} : t[x] = s[x]
  BY <1>1 DEF Authenticates, callLater, Session
<1> HIDE DEF t
<1>3. t.state = "UserAuth" /\ ServesNothing(t) /\ Notified(t)
  BY <1>2 DEF Authenticates, ServesNothing, Notified
<1>4. Counted(t) /\ Serves(t)
  BY <1>2, <1>3, NothingCounted, ServesNothingServes
<1>5. Sound(t)
  BY <1>1, <1>2, <1>3, <1>4 DEF Sound, Waits, Authenticates
<1> QED BY <1>3, <1>5 DEF t

LEMMA GiveAnswersKeeps == ASSUME Inv, giveAnswers PROVE Inv'
<1>1. PICK share \in BOOLEAN :
         LET s == [ss EXCEPT !.asked = "none", !.share = share]
         IN  ss' \in IF ss.state = "UserAuth" /\ link # "none" THEN Answered(s) ELSE {s}
  BY DEF giveAnswers
<1> DEFINE s == [ss EXCEPT !.asked = "none", !.share = share]
<1>2. s \in Session /\ \A f \in {"state", "later", "known", "channels", "open", "tunnel", "ftp",
                     "lookup", "notifiers", "blocking", "running", "password"} : s[f] = ss[f]
  BY Constant DEF Session
<1>3. ss' \in (IF ss.state = "UserAuth" /\ link # "none" THEN Answered(s) ELSE {s})
      /\ UNCHANGED <<link, sockets, freed_used>>
  BY <1>1 DEF giveAnswers
<1> HIDE DEF s
<1>4. Sound(s)
  BY <1>2, Constant, Aside
<1>5. CASE ss.state = "UserAuth" /\ link # "none"
  <2>1. Authenticates(s)
    <3>1. s.state = "UserAuth"
      BY <1>2, <1>5
    <3> QED BY <1>4, <3>1, Idle DEF Authenticates, Sound, Trusted
  <2>2. ss' \in Answered(s)
    BY <1>3, <1>5
  <2>3. Sound(ss') /\ ss'.state \in {"UserAuth", "Error", "Denied"}
    <3>0. CASE ss' = setState(s, "Denied")
      BY <2>1, <3>0, AuthFails
    <3>1. CASE "interactive" \in s.auth /\ ss' # setState(s, "Denied")
      <4> DEFINE t == [callLater(s, "libUserAuthKbdint") EXCEPT !.running = TRUE]
                 u == [callLater(s, "libUserAuthKbdint")
                          EXCEPT !.running = TRUE, !.password = s.password]
      <4>1. ss' \in {setState(s, "Error"), t}
        BY <2>2, <3>1 DEF Answered
      <4>2. t = u
        BY <1>2 DEF callLater, Session
      <4>3. s.password \in BOOLEAN
        BY <1>2 DEF Session
      <4>4. Sound(u) /\ u.state = "UserAuth"
        <5> HIDE DEF u
        <5>1. \A p \in BOOLEAN, f \in {"libUserAuthKbdint", "libUserAuthPassword"} :
                 LET v == [callLater(s, f) EXCEPT !.running = TRUE, !.password = p]
                 IN  Sound(v) /\ v.state = "UserAuth"
          BY <2>1, AuthAnswers
        <5> QED BY <4>3, <5>1 DEF u
      <4> QED BY <2>1, <4>1, <4>2, <4>4, AuthFails
    <3>2. CASE /\ "password" \in s.auth /\ "interactive" \notin s.auth
               /\ ss' # setState(s, "Denied")
      <4>1. ss' \in {[callLater(s, "libUserAuthPassword")
                         EXCEPT !.running = TRUE, !.password = p] : p \in BOOLEAN}
        BY <2>2, <3>2 DEF Answered
      <4>2. ASSUME NEW p \in BOOLEAN,
                   ss' = [callLater(s, "libUserAuthPassword")
                            EXCEPT !.running = TRUE, !.password = p]
            PROVE  Sound(ss') /\ ss'.state = "UserAuth"
        BY <2>1, <4>2, AuthAnswers
      <4> QED BY <4>1, <4>2
    <3>3. CASE "password" \notin s.auth /\ "interactive" \notin s.auth
      BY <2>2, <3>0, <3>3 DEF Answered
    <3> QED BY <3>0, <3>1, <3>2, <3>3
  <2> QED BY <1>3, <1>5, <2>3, SameLink, Constant
<1>6. CASE ~(ss.state = "UserAuth" /\ link # "none")
  <2>1. Sound(ss') /\ ss'.state = ss.state
    BY <1>2, <1>3, <1>4, <1>6
  <2> QED BY <1>3, <2>1, SameLink, Constant
<1> QED BY <1>5, <1>6

LEMMA SendPublicKeyKeeps == ASSUME Inv, sendPublicKey PROVE Inv'
<1>1. /\ ss.state = "Established" /\ Sound(ss) /\ ss.later = "sendPublicKey"
      /\ link # "none" /\ ss.ftp = "none" /\ ss.known = "Ok" /\ ~ss.lookup
  BY Constant, CallTellsState DEF sendPublicKey, Later, Sound, Waits, Trusted
<1>2. ServesNothing(ss) /\ ServesNothing(Fired)
  <2>1. ss.open = 0 /\ ~ss.tunnel /\ ss.channels \in [Channels -> Phases]
        /\ \A c \in Channels : ss.channels[c] = "none"
    BY <1>1 DEF Sound, Serves, Session
  <2> QED BY <1>1, <2>1, FiredFacts DEF ServesNothing
<1>3. UNCHANGED <<link, sockets, freed_used>>
  BY DEF sendPublicKey
<1>4. CASE ss' = setState(Fired, "Ready")
  <2>1. Sound(ss') /\ ss'.state = "Ready"
    BY <1>1, <1>2, <1>4, FiredFacts, GoUp DEF Up, Notified
  <2> QED BY <1>3, <2>1, SameLink, Constant
<1>5. CASE ss' = setState(Fired, "Error")
  <2>1. Sound(ss') /\ ss'.state = "Error"
    BY <1>1, <1>5, FiredFails DEF Failures
  <2> QED BY <1>3, <2>1, SameLink, Constant
<1>6. CASE ss' = [Fired EXCEPT !.ftp = "working"]
  <2>1. /\ ss' \in Session /\ ss'.ftp = "working" /\ ss'.later = "none"
        /\ \A f \in {"state", "known", "channels", "open", "tunnel", "lookup",
                     "notifiers", "blocking"} : ss'[f] = ss[f]
    BY <1>1, <1>6, FiredFacts DEF Session
  <2>2. ss'.state = "Established"
    BY <1>1, <2>1
  <2>3. Serves(ss') /\ Notified(ss') /\ Waits(ss') /\ Counted(ss')
    <3>1. Counted(ss')
      BY <1>1, <2>1 DEF Sound, Counted
    <3>2. Serves(ss')
      BY <1>2, <2>1, <2>2 DEF Serves, ServesNothing
    <3>3. Notified(ss') /\ Waits(ss')
      BY <1>1, <2>1, <2>2 DEF Sound, Notified, Waits
    <3> QED BY <3>1, <3>2, <3>3
  <2>4. "none" \in CallsOf(ss'.state)
    BY <2>2, NoneIsACall DEF States
  <2>5. Sound(ss')
    BY <1>1, <2>1, <2>3, <2>4 DEF Sound
  <2> QED BY <1>1, <1>3, <2>2, <2>5, SameLink, Constant
<1> QED BY <1>1, <1>4, <1>5, <1>6 DEF sendPublicKey

(* While SFTP works nothing is put off. *)
LEMMA SftpAlone ==
    ASSUME Inv, ss.ftp = "working"
    PROVE  /\ ss.state = "Established" /\ ss.later = "none" /\ ss.known = "Ok" /\ ~ss.lookup
           /\ ss.open = 0 /\ ~ss.tunnel /\ \A c \in Channels : ss.channels[c] = "none"
<1>1. ss.state = "Established" /\ Sound(ss)
  BY Constant DEF Serves
<1>2. ss.later \in {"none", "sendPublicKey"}
  BY <1>1, EntryCalls DEF Sound, CallsOf
<1>3. ss.later = "none"
  BY <1>1, <1>2 DEF Sound, Waits
<1>4. ss.open \in Nat /\ ss.tunnel \in BOOLEAN
  BY <1>1 DEF Sound, Session
<1> QED BY <1>1, <1>3, <1>4 DEF Sound, Serves, Trusted

(* SFTP ends, for good or for ill, and the session stays as it is. *)
LEMMA SftpOver ==
    ASSUME Inv, ss.ftp = "working", NEW t \in Session, t.ftp = "over",
           \A f \in {"state", "later", "known", "channels", "open", "tunnel", "lookup",
                     "notifiers", "blocking"} : t[f] = ss[f]
    PROVE  Sound(t) /\ t.state = "Established"
<1>1. t.state = "Established" /\ t.later = "none"
  BY SftpAlone
<1>2. Counted(t)
  BY Constant DEF Sound, Counted
<1>3. Serves(t) /\ Notified(t) /\ Waits(t)
  BY <1>1, SftpAlone, Constant DEF Sound, Serves, Notified, Waits
<1>4. Sound(t)
  BY <1>1, <1>2, <1>3, SftpAlone, Constant DEF Sound
<1> QED BY <1>1, <1>4

LEMMA NotifiersDisabledKeeps == ASSUME Inv, notifiersDisabled PROVE Inv'
<1>1. /\ Sound(ss) /\ UNCHANGED <<link, sockets, freed_used>> /\ ss' \in Session
      /\ ss'.notifiers = "off"
      /\ \A f \in {"state", "later", "known", "channels", "open", "tunnel", "ftp", "lookup",
                   "running"} : ss'[f] = ss[f]
  BY Constant DEF notifiersDisabled, Session
<1>2. /\ ss'.state = ss.state /\ ss'.later = ss.later /\ ss'.known = ss.known
      /\ ss'.channels = ss.channels /\ ss'.open = ss.open /\ ss'.tunnel = ss.tunnel
      /\ ss'.ftp = ss.ftp /\ ss'.lookup = ss.lookup /\ ss'.running = ss.running
  BY <1>1
<1>3. Sound(ss')
  <2>1. Serves(ss') /\ Waits(ss') /\ Counted(ss')
    BY <1>1, <1>2 DEF Sound, Serves, Waits, Counted
  <2> QED BY <1>1, <1>2, <2>1 DEF Sound, Notified
<1> QED BY <1>1, <1>2, <1>3, SameLink, Constant

LEMMA OnPullDoneKeeps == ASSUME Inv, onPullDone PROVE Inv'
<1>1. /\ ss.ftp = "working" /\ UNCHANGED <<link, sockets, freed_used>> /\ Sound(ss)
      /\ ss.state = "Established" /\ link # "none"
  BY Constant, SftpAlone DEF onPullDone
<1>2. CASE ss' = setState(ss, "Error")
  <2>1. Sound(ss') /\ ss'.state = "Error"
    BY <1>1, <1>2, GoDown, Constant DEF Down, Failures
  <2> QED BY <1>1, <2>1, SameLink, Constant
<1>3. CASE ss' = [ss EXCEPT !.ftp = "over"]
  <2>1. /\ ss' \in Session /\ ss'.ftp = "over"
        /\ \A f \in {"state", "later", "known", "channels", "open", "tunnel", "lookup",
                     "notifiers", "blocking"} : ss'[f] = ss[f]
    BY <1>3, Constant DEF Session
  <2>2. Sound(ss') /\ ss'.state = "Established"
    BY <1>1, <2>1, SftpOver
  <2> QED BY <1>1, <2>2, SameLink, Constant
<1>4. ASSUME NEW e \in {ss.error, TRUE},
             ss' = setState([ss EXCEPT !.ftp = "none", !.share = FALSE, !.error = e], "Ready")
      PROVE  Inv'
  <2> DEFINE t == [ss EXCEPT !.ftp = "none", !.share = FALSE, !.error = e]
  <2>1. /\ t \in Session /\ t.ftp = "none"
        /\ \A f \in {"state", "later", "known", "channels", "open", "tunnel", "lookup",
                     "notifiers", "blocking"} : t[f] = ss[f]
    BY Constant DEF Session
  <2> HIDE DEF t
  <2>2. ServesNothing(t) /\ ~t.lookup /\ t.known = "Ok" /\ t.state = "Established"
    BY <1>1, <2>1, SftpAlone DEF ServesNothing
  <2>3. t.notifiers = "on" => t.blocking
    BY <1>1, <2>1 DEF Sound, Notified
  <2>4. Sound(ss') /\ ss'.state = "Ready"
    BY <1>4, <2>1, <2>2, <2>3, GoUp DEF t, Up
  <2> QED BY <1>1, <2>4, SameLink, Constant
<1> QED BY <1>2, <1>3, <1>4 DEF onPullDone

LEMMA FtpFailsKeeps == ASSUME Inv, ftpFails PROVE Inv'
<1>1. ss.ftp = "working" /\ UNCHANGED <<link, sockets, freed_used>>
  BY DEF ftpFails
<1>2. /\ ss' \in Session /\ ss'.ftp = "over"
      /\ \A f \in {"state", "later", "known", "channels", "open", "tunnel", "lookup",
                   "notifiers", "blocking"} : ss'[f] = ss[f]
  BY Constant DEF ftpFails, Session
<1>3. Sound(ss') /\ ss'.state = "Established"
  BY <1>1, <1>2, SftpOver
<1> QED BY <1>1, <1>3, SftpAlone, SameLink, Constant

(* Channels: a channel in channel_list belongs to a ready session. *)
LEMMA ListedIsReady ==
    ASSUME Inv, NEW c \in Channels, ss.channels[c] # "none"
    PROVE  Sound(ss) /\ ss.state = "Ready"
BY Constant DEF Serves

(* A change of the phase of one channel that announces no wired one. *)
LEMMA SetChannelSound ==
    ASSUME NEW s, Sound(s), s.state = "Ready", NEW c \in Channels, NEW ph \in Phases,
           ph = "open" => c \notin Wired
    PROVE  Sound(setChannel(s, c, ph)) /\ setChannel(s, c, ph).state = "Ready"
<1> DEFINE t == setChannel(s, c, ph)
           B == {x \in Wired : s.channels[x] = "open"}
           A == {x \in Wired : t.channels[x] = "open"}
<1>1. s \in Session /\ s.channels \in [Channels -> Phases] /\ s.open \in Nat
  BY DEF Sound, Session
<1>2. /\ t \in Session
      /\ t.channels = [s.channels EXCEPT ![c] = ph]
      /\ \A f \in {"state", "later", "known", "open", "tunnel", "ftp", "lookup",
                   "notifiers", "blocking", "running"} : t[f] = s[f]
  BY <1>1, SetChannelType
<1> HIDE DEF t
<1>3. A \subseteq B
  BY <1>1, <1>2, FiniteChannels
<1>4. IsFiniteSet(B)
  BY FiniteChannels, FS_Subset
<1>5. Cardinality(A) <= Cardinality(B) /\ IsFiniteSet(A)
  BY <1>3, <1>4, FS_Subset
<1>6. Cardinality(A) \in Nat /\ Cardinality(B) \in Nat
  BY <1>4, <1>5, FS_CardinalityType
<1>7. Cardinality(B) <= s.open
  BY DEF Sound, Counted
<1>8. Counted(t)
  <2> HIDE DEF B
  <2> QED BY <1>1, <1>2, <1>5, <1>6, <1>7 DEF Counted
<1>9. Sound(t) /\ t.state = "Ready"
  BY <1>2, <1>8, ReadyAside
<1> QED BY <1>9 DEF t

(* The same, counted again. *)
LEMMA SetOpenSound ==
    ASSUME NEW s, Sound(s), s.state = "Ready", NEW c \in Channels, NEW ph \in Phases
    PROVE  LET t == setOpenChannels(setChannel(s, c, ph)) IN Sound(t) /\ t.state = "Ready"
<1> DEFINE r == setChannel(s, c, ph)
           t == setOpenChannels(r)
<1>1. s \in Session
  BY DEF Sound
<1>2. /\ r \in Session
      /\ r.state = s.state /\ r.later = s.later /\ r.known = s.known /\ r.tunnel = s.tunnel
      /\ r.ftp = s.ftp /\ r.lookup = s.lookup /\ r.notifiers = s.notifiers
      /\ r.blocking = s.blocking /\ r.running = s.running
  BY <1>1, SetChannelType
<1> HIDE DEF r
<1>3. /\ t \in Session /\ Counted(t)
      /\ t.state = r.state /\ t.later = r.later /\ t.known = r.known /\ t.tunnel = r.tunnel
      /\ t.ftp = r.ftp /\ t.lookup = r.lookup /\ t.notifiers = r.notifiers
      /\ t.blocking = r.blocking /\ t.running = r.running
  BY <1>2, SetOpenChannelsType
<1> HIDE DEF t
<1>4. \A f \in {"state", "later", "known", "tunnel", "ftp", "lookup",
                "notifiers", "blocking", "running"} : t[f] = s[f]
  BY <1>2, <1>3
<1>5. Sound(t) /\ t.state = "Ready"
  BY <1>3, <1>4, ReadyAside
<1> QED BY <1>5 DEF t, r

LEMMA TellsError ==
    ASSUME NEW s, Sound(s)
    PROVE  LET t == [s EXCEPT !.error = TRUE] IN Sound(t) /\ t.state = s.state
<1> DEFINE t == [s EXCEPT !.error = TRUE]
<1>1. t \in Session /\ \A f \in {"state", "later", "known", "channels", "open", "tunnel", "ftp",
                     "lookup", "notifiers", "blocking", "running"} : t[f] = s[f]
  BY DEF Sound, Session
<1> HIDE DEF t
<1>2. Sound(t)
  BY <1>1, Aside
<1> QED BY <1>1, <1>2 DEF t

LEMMA PhaseNames ==
    {"none", "new", "opening", "stuck", "open", "failed", "dead"} = Phases
BY DEF Phases

LEMMA CreateChannelKeeps == ASSUME Inv, NEW c \in Channels, createChannel(c) PROVE Inv'
<1>1. ss.state = "Ready" /\ Sound(ss) /\ UNCHANGED <<link, sockets, freed_used>>
      /\ ss' = setChannel(ss, c, "new")
  BY Constant DEF createChannel, IsReady
<1>2. Sound(ss') /\ ss'.state = "Ready"
  BY <1>1, SetChannelSound, PhaseNames
<1> QED BY <1>1, <1>2, SameLink, Constant

LEMMA TunnelKeeps == ASSUME Inv, tunnel PROVE Inv'
<1>1. ss.state = "Ready" /\ Sound(ss) /\ UNCHANGED <<link, sockets, freed_used>>
  BY Constant DEF tunnel, IsReady
<1>2. /\ ss' \in Session /\ ss'.channels = ss.channels /\ ss'.open = ss.open
      /\ \A f \in {"state", "later", "known", "ftp", "lookup", "notifiers", "blocking"} :
             ss'[f] = ss[f]
  BY Constant DEF tunnel, Session
<1>3. Counted(ss')
  BY <1>1, <1>2 DEF Sound, Counted
<1>4. Sound(ss') /\ ss'.state = "Ready"
  BY <1>1, <1>2, <1>3, ReadyAside
<1> QED BY <1>1, <1>4, SameLink, Constant

LEMMA OnNewConnectionKeeps == ASSUME Inv, NEW c \in Channels, onNewConnection(c) PROVE Inv'
<1>1. ss.state = "Ready" /\ Sound(ss) /\ UNCHANGED <<link, freed_used>>
      /\ ss' = setChannel(ss, c, "new") /\ sockets' \subseteq Tunnels
  BY Constant DEF onNewConnection, IsReady
<1>2. Sound(ss') /\ ss'.state = "Ready"
  BY <1>1, SetChannelSound, PhaseNames
<1> QED BY <1>1, <1>2, SameLink, Constant

LEMMA ChannelOpensKeeps == ASSUME Inv, NEW c \in Channels, channelOpens(c) PROVE Inv'
<1>1. ss.state = "Ready" /\ Sound(ss) /\ UNCHANGED <<link, sockets, freed_used>>
  BY ListedIsReady DEF channelOpens
<1>2. Sound(ss') /\ ss'.state = "Ready"
  BY <1>1, SetChannelSound, SetOpenSound, PhaseNames DEF channelOpens
<1> QED BY <1>1, <1>2, SameLink, Constant

LEMMA ChannelOpenedKeeps == ASSUME Inv, NEW c \in Channels, channelOpened(c) PROVE Inv'
<1>1. ss.state = "Ready" /\ Sound(ss) /\ UNCHANGED <<link, sockets, freed_used>>
  BY ListedIsReady DEF channelOpened
<1>2. Sound(ss') /\ ss'.state = "Ready"
  BY <1>1, SetChannelSound, SetOpenSound, PhaseNames DEF channelOpened
<1> QED BY <1>1, <1>2, SameLink, Constant

LEMMA ChannelFailsKeeps == ASSUME Inv, NEW c \in Channels, channelFails(c) PROVE Inv'
<1>1. ss.state = "Ready" /\ Sound(ss) /\ UNCHANGED <<link, sockets, freed_used>>
  BY ListedIsReady DEF channelFails
<1> DEFINE ph == IF ss.channels[c] = "new" THEN "failed" ELSE "stuck"
<1>2. ph \in Phases /\ ph # "open"
  BY DEF Phases
<1>3. ss' = [setChannel(ss, c, ph) EXCEPT !.error = TRUE]
  BY DEF channelFails
<1> HIDE DEF ph
<1>4. Sound(setChannel(ss, c, ph)) /\ setChannel(ss, c, ph).state = "Ready"
  BY <1>1, <1>2, SetChannelSound
<1>5. Sound(ss') /\ ss'.state = "Ready"
  BY <1>3, <1>4, TellsError
<1> QED BY <1>1, <1>5, SameLink, Constant

LEMMA WriteFailsKeeps == ASSUME Inv, NEW c \in Channels, writeFails(c) PROVE Inv'
<1>1. ss.state = "Ready" /\ Sound(ss) /\ UNCHANGED <<sockets, freed_used>> /\ link' = "none"
      /\ ss' = [ss EXCEPT !.error = TRUE]
  BY ListedIsReady DEF writeFails, IsOpen
<1>2. Sound(ss') /\ ss'.state = "Ready"
  BY <1>1, TellsError
<1> QED BY <1>1, <1>2, AnyLink

LEMMA CloseReceivedKeeps == ASSUME Inv, NEW c \in Channels, closeReceived(c) PROVE Inv'
<1>1. ss.state = "Ready" /\ Sound(ss) /\ UNCHANGED <<link, freed_used>>
      /\ ss' = setChannel(ss, c, "dead") /\ sockets' \subseteq Tunnels
  BY ListedIsReady, Constant DEF closeReceived, IsOpen
<1>2. Sound(ss') /\ ss'.state = "Ready"
  BY <1>1, SetChannelSound, PhaseNames
<1> QED BY <1>1, <1>2, SameLink, Constant

LEMMA OnChannelClosedKeeps == ASSUME Inv, NEW c \in Channels, onChannelClosed(c) PROVE Inv'
<1>1. ss.state = "Ready" /\ Sound(ss) /\ UNCHANGED <<link, sockets, freed_used>>
      /\ ss' = Drop(ss, c)
  BY ListedIsReady DEF onChannelClosed
<1>2. Sound(ss') /\ ss'.state \in {"Ready", "Closing"}
  BY <1>1, DropSound
<1> QED BY <1>1, <1>2, SameLink, Constant

LEMMA SocketErrorKeeps == ASSUME Inv, NEW c \in Channels, socketError(c) PROVE Inv'
<1>1. UNCHANGED link /\ sockets' \subseteq Tunnels /\ freed_used' \in BOOLEAN /\ Sound(ss)
  BY Constant DEF socketError
<1>2. CASE ss' = ss
  <2>1. Sound(ss') /\ ss'.state = ss.state
    BY <1>1, <1>2
  <2> QED BY <1>1, <2>1, SameLink, Constant
<1>3. CASE ss' = Drop(ss, c) /\ (ss.state = "Ready" \/ ServesNothing(ss))
  <2>1. Sound(ss') /\ ss'.state \in {ss.state, "Closing"}
    BY <1>1, <1>3, DropSound
  <2> QED BY <1>1, <2>1, SameLink, Constant
<1>4. CASE Listed(ss) = {} /\ ss.ftp = "none"
  <2>1. ss.state = "Ready" \/ ServesNothing(ss)
    <3>1. \A d \in Channels : ss.channels[d] = "none"
      BY <1>4 DEF Listed
    <3>2. ss.open \in Nat /\ ss.tunnel \in BOOLEAN
      BY <1>1 DEF Sound, Session
    <3> QED BY <1>4, <3>1, <3>2, Constant DEF ServesNothing, Serves
  <2> QED BY <1>3, <1>4, <2>1 DEF socketError
<1>5. CASE c \in Listed(ss)
  <2>1. ss.state = "Ready"
    BY <1>5, ListedIsReady DEF Listed
  <2> QED BY <1>3, <1>5, <2>1 DEF socketError
<1>6. CASE ~(c \in Listed(ss) \/ (Listed(ss) = {} /\ ss.ftp = "none"))
  BY <1>2, <1>6 DEF socketError
<1> QED BY <1>4, <1>5, <1>6

LEMMA EmitHostDisconnectedKeeps == ASSUME Inv, emitHostDisconnected PROVE Inv'
<1>1. ss.state = "Closed" /\ Sound(ss) /\ ss' = Fired /\ UNCHANGED <<link, sockets, freed_used>>
  BY Constant, CallTellsState DEF emitHostDisconnected, Later, Sound
<1>2. /\ ss' \in Session /\ ss'.later = "none" /\ ss'.state = "Closed" /\ ~ss'.lookup
      /\ Serves(ss') /\ Notified(ss') /\ Counted(ss')
  BY <1>1, FiredFacts DEF Sound
<1>3. Sound(ss')
  BY <1>2, NoneIsACall DEF Sound, Waits, Trusted, States
<1> QED BY <1>1, <1>2, <1>3, SameLink, Constant

LEMMA LinkLostKeeps == ASSUME Inv, linkLost PROVE Inv'
<1>1. Sound(ss) /\ ss' = ss /\ link' = "lost" /\ UNCHANGED <<sockets, freed_used>>
      /\ ss.state # "Closed"
  BY Constant DEF linkLost
<1> QED BY <1>1, AnyLink

LEMMA StutterKeeps == ASSUME Inv, UNCHANGED vars PROVE Inv'
<1>1. Sound(ss) /\ ss' = ss /\ UNCHANGED <<link, sockets, freed_used>>
  BY Constant DEF vars
<1> QED BY <1>1, SameLink, Constant

--------------------------------------------------------------------------------
(* The invariant. *)

LEMMA InvInit == Init => Inv
<1> SUFFICES ASSUME Init PROVE Inv
  OBVIOUS
<1>1. /\ ss.state = "Closed" /\ ss.later = "none" /\ ~ss.timer /\ ~ss.lookup
      /\ ss.notifiers = "none" /\ ss.channels = NoChannels /\ ss.open = 0 /\ ~ss.tunnel
      /\ ss.ftp = "none" /\ link = "none" /\ sockets = {} /\ freed_used = FALSE
  BY DEF Init
<1>2. ss \in Session
  <2>1. NoChannels \in [Channels -> Phases]
    BY DEF NoChannels, Phases
  <2> QED BY <2>1, NoneIsACall DEF Init, Session, States
<1>3. Counted(ss)
  BY <1>1, CountedNothing
<1>4. Sound(ss)
  BY <1>1, <1>2, <1>3, NoneIsACall
  DEF Sound, Serves, Notified, Waits, NoChannels, States, Trusted
<1> QED BY <1>1, <1>2, <1>4 DEF Inv, TypeOK, Linked

LEMMA StepKeeps == ASSUME Inv, Step PROVE Inv'
BY LookupHostKeeps, LibSetBlockingKeeps, LibConnectKeeps, LibServerPublickeyKeeps, UserAuthKeeps,
   SendPublicKeyKeeps, CancelKeeps, EmitHostDisconnectedKeeps DEF Step, laterCancel

LEMMA OwnerKeeps == ASSUME Inv, Owner PROVE Inv'
BY Connects, DisconnectKeeps, CancelKeeps, DialogLostKeeps, WriteKnownHostKeeps, GiveAnswersKeeps
DEF Owner, reject

LEMMA ChannelKeeps == ASSUME Inv, NEW c \in Channels, Channel(c) PROVE Inv'
BY CreateChannelKeeps, OnNewConnectionKeeps, ChannelOpensKeeps, ChannelOpenedKeeps,
   ChannelFailsKeeps, WriteFailsKeeps, CloseReceivedKeeps, OnChannelClosedKeeps, SocketErrorKeeps
DEF Channel

LEMMA InvStep == Inv /\ [Next]_vars => Inv'
<1> SUFFICES ASSUME Inv, [Next]_vars PROVE Inv'
  OBVIOUS
<1>1. CASE Owner
  BY <1>1, OwnerKeeps
<1>2. CASE Step
  BY <1>2, StepKeeps
<1>3. CASE \E c \in Channels : Channel(c)
  BY <1>3, ChannelKeeps
<1>4. CASE UNCHANGED vars
  BY <1>4, StutterKeeps
<1> QED
  BY <1>1, <1>2, <1>3, <1>4, LibConnectKeeps, LookedUpKeeps, ConnectTimeoutKeeps,
     OnSocketActivatedKeeps, NotifiersDisabledKeeps, OnPullDoneKeeps, FtpFailsKeeps, TunnelKeeps,
     LinkLostKeeps DEF Next

(* The session, its channels and its connection stay sound through every      *)
(* handler of SshSession.cpp, in whatever order the event loop runs them.     *)
THEOREM Invariant == Spec => []Inv
<1>1. Init => Inv
  BY InvInit
<1>2. Inv /\ [Next]_vars => Inv'
  BY InvStep
<1> QED BY <1>1, <1>2, PTL DEF Spec

(* The members of the session keep their types.                               *)
THEOREM TypeCorrect == Spec => []TypeOK
<1>1. Inv => TypeOK
  BY DEF Inv
<1> QED BY <1>1, Invariant, PTL

(* The call in later_timer is one of the state the session is in: setState    *)
(* and the handlers never leave a step of an earlier state to be taken later. *)
THEOREM PendingCallBelongs == Spec => []PendingBelongs
<1>1. Inv => PendingBelongs
  BY DEF Inv, Sound, PendingBelongs
<1> QED BY <1>1, Invariant, PTL

(* Nobody is authenticated to, and nothing is served by, a server whose key   *)
(* was not found good by libServerKnown in this connection.                   *)
THEOREM ServerCheckedFirst == Spec => []CheckedBeforeAuth
<1>1. Inv => CheckedBeforeAuth
  BY DEF Inv, Sound, Trusted, CheckedBeforeAuth
<1> QED BY <1>1, Invariant, PTL

(* setState ends every service of a session on every way down.                *)
THEOREM ServicesEndWithSession == Spec => []ServicesNeedSession
<1>1. Inv => ServicesNeedSession
  BY DEF Inv, Sound, Serves, Listed, ServicesNeedSession
<1> QED BY <1>1, Invariant, PTL

(* cancel and onSocketActivated leave a closed session without a connection.  *)
THEOREM ClosedReleasesAll == Spec => []ClosedMeansReleased
<1>1. Inv => ClosedMeansReleased
  BY DEF Inv, Sound, Notified, Linked, ClosedMeansReleased
<1> QED BY <1>1, Invariant, PTL

(* A handler that puts no call off leaves something else to wait for.         *)
THEOREM AlwaysWaitsForSomething == Spec => []NeverWaitsForNothing
<1>1. Inv => NeverWaitsForNothing
  BY DEF Inv, Sound, Waits, NeverWaitsForNothing
<1> QED BY <1>1, Invariant, PTL

(* setOpenChannels counts every channel that announced itself and is open.    *)
THEOREM AnnouncedAreCounted == Spec => []OpenAreCounted
<1>1. Inv => OpenAreCounted
  BY DEF Inv, Sound, Counted, OpenAreCounted
<1> QED BY <1>1, Invariant, PTL

--------------------------------------------------------------------------------
(***************************************************************************)
(* The refinement of SessionContract, step by step.  View is Seen of a     *)
(* session record, Follows the steps of the contract as a relation on what *)
(* is seen; each handler is shown to keep Settled and to do such a step    *)
(* (Moves).                                                                *)
(***************************************************************************)
View(s) == [phase   |-> PhaseOf(s.state),
            running |-> s.running,
            error   |-> s.error,
            notice  |-> s.later = "emitHostDisconnected",
            chans   |-> (\E c \in Channels : s.channels[c] # "none") \/ s.ftp # "none"]

LEMMA SeenIsView == Seen = View(ss)
<1>1. (Listed(ss) # {}) <=> \E c \in Channels : ss.channels[c] # "none"
  BY DEF Listed
<1>2. (Listed(ss) # {} \/ ss.ftp # "none") <=> ((\E c \in Channels : ss.channels[c] # "none") \/ ss.ftp # "none")
  BY <1>1
<1> QED BY <1>2, Zenon DEF Seen, View

Follows(c, d) == d \in Owned!Connect(c) \cup Owned!Change(c) \cup {c}

Contracts == [phase : {"closed", "coming", "ready", "failed", "closing"}, running : BOOLEAN,
              error : BOOLEAN, notice : BOOLEAN, chans : BOOLEAN]

LEMMA GoesOn ==
    ASSUME NEW c \in Contracts, NEW d \in Contracts, c.phase = "coming", d.phase = "coming",
           c.notice = d.notice, c.error => d.error
    PROVE  Follows(c, d)
<1>1. d.error \in {c.error, TRUE}
  BY DEF Contracts
<1>2. d \in Owned!Advance(c)
  BY <1>1 DEF Owned!Advance, Contracts
<1> QED BY <1>2 DEF Follows, Owned!Change

LEMMA GetsReady ==
    ASSUME NEW c \in Contracts, NEW d \in Contracts, c.phase = "coming", d.phase = "ready",
           c.notice = d.notice, c.error => d.error, c.running = d.running, ~d.chans
    PROVE  Follows(c, d)
<1>1. d = [c EXCEPT !.phase = "ready", !.chans = FALSE, !.error = d.error]
  BY DEF Contracts
<1>2. d.error \in {c.error, TRUE}
  BY DEF Contracts
<1>3. d \in Owned!GetReady(c)
  BY <1>1, <1>2 DEF Owned!GetReady
<1> QED BY <1>3 DEF Follows, Owned!Change

LEMMA ServesOn ==
    ASSUME NEW c \in Contracts, NEW d \in Contracts, c.phase = "ready", d.phase = "ready",
           c.notice = d.notice, c.error => d.error, c.running = d.running
    PROVE  Follows(c, d)
<1>1. d.error \in {c.error, TRUE}
  BY DEF Contracts
<1>2. d \in Owned!Serve(c)
  BY <1>1 DEF Owned!Serve, Contracts
<1> QED BY <1>2 DEF Follows, Owned!Change

LEMMA FreshFields ==
    /\ Owned!Fresh \in Contracts /\ Owned!Fresh.phase = "closed"
    /\ ~Owned!Fresh.running /\ ~Owned!Fresh.error /\ ~Owned!Fresh.notice /\ ~Owned!Fresh.chans
BY DEF Owned!Fresh, Contracts

LEMMA FailsLoudly ==
    ASSUME NEW c \in Contracts, NEW d \in Contracts,
           c.phase \in {"coming", "ready", "closing"}, d.phase = "failed",
           d.error, ~d.running, ~d.notice, ~d.chans
    PROVE  Follows(c, d)
<1>1. d = [Owned!Fresh EXCEPT !.phase = "failed", !.error = TRUE]
  BY FreshFields DEF Contracts
<1>2. d \in Owned!Fail(c)
  BY <1>1 DEF Owned!Fail
<1> QED BY <1>2 DEF Follows, Owned!Change

LEMMA StartsClosing ==
    ASSUME NEW c \in Contracts, NEW d \in Contracts,
           c.phase \in {"coming", "ready", "failed"}, d.phase = "closing",
           d.error = c.error, d.running = c.running, d.notice = c.notice, ~d.chans
    PROVE  Follows(c, d)
<1>1. d = [c EXCEPT !.phase = "closing", !.chans = FALSE]
  BY DEF Contracts
<1>2. d \in Owned!StartClosing(c)
  BY <1>1 DEF Owned!StartClosing
<1> QED BY <1>2 DEF Follows, Owned!Change

LEMMA ComesBack ==
    ASSUME NEW c \in Contracts, NEW d \in Contracts, c.phase = "closing", d.phase = "coming",
           d.error = c.error, d.running = c.running, d.notice = c.notice, d.chans = c.chans
    PROVE  Follows(c, d)
<1>1. d = [c EXCEPT !.phase = "coming"]
  BY DEF Contracts
<1>2. d \in Owned!Revive(c)
  BY <1>1 DEF Owned!Revive
<1> QED BY <1>2 DEF Follows, Owned!Change

LEMMA EndsOnce ==
    ASSUME NEW c \in Contracts, NEW d \in Contracts, c.phase # "closed", d.phase = "closed",
           d.error = c.error, ~d.running, d.notice, ~d.chans
    PROVE  Follows(c, d)
<1>1. d = [Owned!Fresh EXCEPT !.error = c.error, !.notice = TRUE]
  BY FreshFields DEF Contracts
<1>2. d \in Owned!Close(c)
  BY <1>1 DEF Owned!Close
<1> QED BY <1>2 DEF Follows, Owned!Change

LEMMA TellsEnd ==
    ASSUME NEW c \in Contracts, NEW d \in Contracts, c.notice, ~d.notice,
           d.phase = c.phase, d.error = c.error, d.running = c.running, d.chans = c.chans
    PROVE  Follows(c, d)
<1>1. d = [c EXCEPT !.notice = FALSE]
  BY DEF Contracts
<1>2. d \in Owned!Tell(c)
  BY <1>1 DEF Owned!Tell
<1> QED BY <1>2 DEF Follows, Owned!Change

LEMMA StartsOver ==
    ASSUME NEW c \in Contracts, NEW d \in Contracts, c.phase = "closed",
           ~d.notice, ~d.running, ~d.chans,
           \/ d.phase = "closed" /\ d.error = c.error
           \/ d.phase = "coming" /\ ~d.error
    PROVE  Follows(c, d)
<1> DEFINE idle == [c EXCEPT !.running = FALSE, !.notice = FALSE, !.chans = FALSE]
<1>1. d = idle \/ d = [idle EXCEPT !.phase = "coming", !.error = FALSE]
  BY DEF Contracts
<1>2. d \in Owned!Connect(c)
  BY <1>1 DEF Owned!Connect
<1> QED BY <1>2 DEF Follows

LEMMA Same ==
    ASSUME NEW c \in Contracts, NEW d \in Contracts, d.phase = c.phase, d.notice = c.notice,
           d.error = c.error, d.running = c.running, d.chans = c.chans
    PROVE  Follows(c, d)
BY DEF Contracts, Follows

(* What the owner is told of a state: a failed session has told it, a closed  *)
(* one has done with it, and the timer only runs while connecting.            *)
Settled(s) ==
    /\ s.timer => s.state = "Connecting"
    /\ s.state \in Down => s.notifiers # "on"
    /\ s.state \in Failures => s.error /\ ~s.running
    /\ s.state = "Closed" => ~s.running

Coming == Up \ {"Ready"}

LEMMA PhaseFacts ==
    ASSUME NEW st \in States
    PROVE  /\ PhaseOf(st) \in {"closed", "coming", "ready", "failed", "closing"}
           /\ PhaseOf(st) = "closed" <=> st = "Closed"
           /\ PhaseOf(st) = "ready" <=> st = "Ready"
           /\ PhaseOf(st) = "failed" <=> st \in Failures
           /\ PhaseOf(st) = "closing" <=> st = "Closing"
           /\ PhaseOf(st) = "coming" <=> st \in Coming
BY DEF PhaseOf, States, Failures, Coming, Up

LEMMA ViewFacts ==
    ASSUME NEW s, Sound(s)
    PROVE  /\ s \in Session /\ s.state \in States
           /\ View(s) \in Contracts
           /\ View(s).phase = PhaseOf(s.state) /\ View(s).running = s.running
           /\ View(s).error = s.error
           /\ View(s).notice <=> s.later = "emitHostDisconnected"
           /\ View(s).notice => s.state = "Closed"
           /\ View(s).chans <=> (\E c \in Channels : s.channels[c] # "none") \/ s.ftp # "none"
           /\ View(s).chans => s.state \in {"Established", "Ready"}
<1>1. s \in Session /\ s.state \in States /\ s.running \in BOOLEAN /\ s.error \in BOOLEAN
  BY DEF Sound, Session
<1>2. s.later = "emitHostDisconnected" => s.state = "Closed"
  BY <1>1, CallTellsState DEF Sound
<1>3. ((\E c \in Channels : s.channels[c] # "none") \/ s.ftp # "none")
          => s.state \in {"Established", "Ready"}
  BY DEF Sound, Serves
<1>4. PhaseOf(s.state) \in {"closed", "coming", "ready", "failed", "closing"}
  BY <1>1, PhaseFacts
<1> DEFINE n == (s.later = "emitHostDisconnected")
           o == (\E c \in Channels : s.channels[c] # "none") \/ s.ftp # "none"
<1>5. View(s) = [phase |-> PhaseOf(s.state), running |-> s.running, error |-> s.error,
                 notice |-> n, chans |-> o]
  BY DEF View
<1>6. n \in BOOLEAN /\ o \in BOOLEAN
  BY Zenon
<1>7. (n => s.state = "Closed") /\ (o => s.state \in {"Established", "Ready"})
      /\ (n <=> s.later = "emitHostDisconnected")
      /\ (o <=> ((\E c \in Channels : s.channels[c] # "none") \/ s.ftp # "none"))
  BY <1>2, <1>3
<1> HIDE DEF n, o
<1>8. View(s) \in Contracts
  BY <1>1, <1>4, <1>5, <1>6 DEF Contracts
<1> QED BY <1>1, <1>5, <1>6, <1>7, <1>8

LEMMA OnOrFails ==
    ASSUME NEW s, NEW t, Sound(s), Sound(t), s.state \in Coming, t.state \in Coming \cup Failures,
           Settled(t), t.state \in Coming => (s.error => t.error)
    PROVE  Follows(View(s), View(t))
<1>1. s.state # "Closed" /\ t.state # "Closed" /\ (t.state \in Failures => t.state \notin {"Established", "Ready"})
  BY DEF Coming, Up, Failures
<1>2. CASE t.state \in Coming
  BY <1>1, <1>2, ViewFacts, PhaseFacts, GoesOn DEF Contracts
<1>3. CASE t.state \in Failures
  BY <1>1, <1>3, ViewFacts, PhaseFacts, FailsLoudly DEF Settled
<1> QED BY <1>2, <1>3

LEMMA FailsSeen ==
    ASSUME NEW s, NEW t, Sound(s), Sound(t), s.state \notin Failures \cup {"Closed"},
           t.state \in Failures, Settled(t)
    PROVE  Follows(View(s), View(t))
<1>1. t.state \notin {"Closed", "Established", "Ready"} /\ s.state \in Coming \cup {"Ready", "Closing"}
  BY ViewFacts DEF Coming, Up, Failures, States
<1> QED BY <1>1, ViewFacts, PhaseFacts, FailsLoudly DEF Settled

LEMMA Readies ==
    ASSUME NEW s, NEW t, Sound(s), Sound(t), s.state \in Coming, t.state = "Ready",
           s.error => t.error, t.running = s.running, ~View(t).chans
    PROVE  Follows(View(s), View(t))
<1>1. s.state # "Closed" /\ t.state # "Closed"
  BY DEF Coming, Up
<1> QED BY <1>1, ViewFacts, PhaseFacts, GetsReady DEF Contracts

LEMMA StaysReady ==
    ASSUME NEW s, NEW t, Sound(s), Sound(t), s.state = "Ready", t.state = "Ready",
           s.error => t.error, t.running = s.running
    PROVE  Follows(View(s), View(t))
BY ViewFacts, PhaseFacts, ServesOn DEF Contracts

LEMMA Leaves ==
    ASSUME NEW s, NEW t, Sound(s), Sound(t), s.state \notin {"Closed", "Closing"},
           t.state = "Closing", t.error = s.error, t.running = s.running
    PROVE  Follows(View(s), View(t))
<1>1. s.state \in Coming \cup Failures \cup {"Ready"}
  BY ViewFacts DEF Coming, Up, Failures, States
<1> QED BY <1>1, ViewFacts, PhaseFacts, StartsClosing DEF Contracts

LEMMA Closes ==
    ASSUME NEW s, NEW t, Sound(s), Sound(t), s.state # "Closed", t.state = "Closed",
           t.error = s.error, ~t.running, t.later = "emitHostDisconnected"
    PROVE  Follows(View(s), View(t))
BY ViewFacts, PhaseFacts, EndsOnce

LEMMA Revives ==
    ASSUME NEW s, NEW t, Sound(s), Sound(t), s.state = "Closing", t.state = "Connecting",
           t.error = s.error, t.running = s.running
    PROVE  Follows(View(s), View(t))
<1>1. "Connecting" \in Coming
  BY DEF Coming, Up
<1> QED BY <1>1, ViewFacts, PhaseFacts, ComesBack DEF Contracts

LEMMA Unseen ==
    ASSUME NEW s, NEW t, Sound(s), Sound(t), t.state = s.state, t.error = s.error,
           t.running = s.running, t.channels = s.channels, t.ftp = s.ftp,
           t.later = "emitHostDisconnected" <=> s.later = "emitHostDisconnected"
    PROVE  Follows(View(s), View(t))
<1>1. View(t).chans = View(s).chans /\ View(t).notice = View(s).notice
  BY ViewFacts DEF Contracts
<1> QED BY <1>1, ViewFacts, Same

(* What setState does to what the owner sees. *)
LEMMA CleanUpTells ==
    ASSUME NEW s \in Session
    PROVE  /\ cleanUp(s) \in Session /\ cleanUp(s).error = s.error
           /\ ~cleanUp(s).running /\ ~cleanUp(s).timer
<1> DEFINE r == [s EXCEPT !.lookup = FALSE, !.timer = FALSE, !.later = "none",
                          !.known = "None", !.auth = {}, !.running = FALSE]
<1>1. r \in Session /\ r.error = s.error /\ ~r.timer
  BY NoneIsACall DEF Session
<1>2. cleanUp(s) = Unnotified(closeChannels(r))
  BY DEF cleanUp
<1> HIDE DEF r
<1>3. /\ closeChannels(r) \in Session
      /\ closeChannels(r).error = r.error /\ closeChannels(r).timer = r.timer
  BY <1>1, CloseChannelsType
<1>4. /\ Unnotified(closeChannels(r)).error = closeChannels(r).error
      /\ Unnotified(closeChannels(r)).timer = closeChannels(r).timer
  BY <1>3, UnnotifiedType
<1> QED BY <1>1, <1>2, <1>3, <1>4, CleanUpType

LEMMA ShutTells ==
    ASSUME NEW s \in Session, NEW prev
    PROVE  LET t == Shut(s, prev) IN
           t \in Session /\ t.error = s.error /\ t.running = s.running /\ t.notifiers # "on"
<1> DEFINE r == [s EXCEPT !.tunnel = FALSE]
           z == [r EXCEPT !.open = 0]
           u == IF prev \in {"Established", "Ready"} THEN closeChannels(z) ELSE r
<1>1. /\ r \in Session /\ r.error = s.error /\ r.running = s.running
      /\ z \in Session /\ z.error = s.error /\ z.running = s.running
  BY DEF Session
<1>2. Shut(s, prev) = Unnotified(u)
  BY DEF Shut
<1> HIDE DEF r, z
<1>3. u \in Session /\ u.error = s.error /\ u.running = s.running
  BY <1>1, CloseChannelsType
<1> HIDE DEF u
<1>4. Unnotified(u) \in Session /\ Unnotified(u).error = u.error /\ Unnotified(u).running = u.running
      /\ Unnotified(u).notifiers # "on"
  BY <1>3, UnnotifiedType
<1> QED BY <1>2, <1>3, <1>4

LEMMA DownSettled ==
    ASSUME NEW s \in Session, NEW st \in Down, st # s.state
    PROVE  LET t == setState(s, st) IN
           /\ Settled(t)
           /\ t.state = st /\ t.later = EntryCall[st]
           /\ st \notin Failures => t.error = s.error
           /\ st = "Closing" => t.running = s.running
           /\ st = "Closed" => ~t.running
<1> DEFINE e == Enter(s, st)
           t == setState(s, st)
           m == [s EXCEPT !.error = TRUE]
<1>1. /\ e \in Session /\ e.notifiers # "on"
      /\ st \notin Failures => e.error = s.error
      /\ st \in Failures => e.error
      /\ st = "Closing" => e.running = s.running
      /\ st # "Closing" => ~e.running
  <2>1. CASE st \in Failures
    <3>1. st \notin {"Closed", "Closing", "Connecting"}
      BY <2>1 DEF Failures
    <3>2. e = Shut(cleanUp(m), s.state)
      BY <2>1, <3>1 DEF Enter
    <3>3. m \in Session /\ m.error
      BY DEF Session
    <3> HIDE DEF e, m
    <3> QED BY <2>1, <3>1, <3>2, <3>3, CleanUpTells, ShutTells
  <2>2. CASE st = "Closed"
    <3>1. e = Shut(cleanUp(s), s.state) /\ st \notin Failures
      BY <2>2 DEF Enter, Failures
    <3> HIDE DEF e
    <3> QED BY <2>2, <3>1, CleanUpTells, ShutTells
  <2>3. CASE st = "Closing"
    <3>1. e = Shut(s, s.state) /\ st \notin Failures
      BY <2>3 DEF Enter, Failures
    <3> HIDE DEF e
    <3> QED BY <2>3, <3>1, ShutTells
  <2> QED BY <2>1, <2>2, <2>3 DEF Down
<1>2. t = [e EXCEPT !.state = st, !.timer = (st = "Connecting"), !.later = EntryCall[st]]
  BY DEF setState
<1>3. st \in States /\ EntryCall[st] \in Calls /\ st # "Connecting"
  BY DownStates, EntryCallType DEF Down, Failures
<1> HIDE DEF e, t
<1>4. /\ t.state = st /\ t.later = EntryCall[st] /\ t.timer = FALSE
      /\ t.notifiers = e.notifiers /\ t.error = e.error /\ t.running = e.running
  BY <1>1, <1>2, <1>3 DEF Session
<1>5. "Closing" \notin Failures /\ "Closed" \notin Failures
  BY DEF Failures
<1>6. Settled(t)
  BY <1>1, <1>4, <1>5 DEF Settled
<1> QED BY <1>1, <1>4, <1>5, <1>6 DEF t

LEMMA UpSettled ==
    ASSUME NEW s \in Session, NEW st \in Up, st # s.state
    PROVE  LET t == setState(s, st) IN
           /\ Settled(t)
           /\ t.state = st
           /\ t.error = s.error /\ t.running = s.running
           /\ t.channels = s.channels /\ t.ftp = s.ftp
<1> DEFINE e == Enter(s, st)
           t == setState(s, st)
<1>1. st \notin Failures \cup {"Closed", "Closing"} /\ st \in States /\ st \notin Down
  BY DownStates DEF Down
<1>2. e = IF st = "Connecting" THEN [s EXCEPT !.blocking = FALSE] ELSE s
  BY <1>1 DEF Enter
<1>3. /\ e \in Session /\ e.channels = s.channels /\ e.ftp = s.ftp
      /\ e.error = s.error /\ e.running = s.running
  BY <1>2 DEF Session
<1>4. t = [e EXCEPT !.state = st, !.timer = (st = "Connecting"), !.later = EntryCall[st]]
  BY DEF setState
<1>5. EntryCall[st] \in Calls
  BY <1>1, EntryCallType
<1> HIDE DEF e, t
<1>6. /\ t.state = st /\ t.timer = (st = "Connecting")
      /\ t.channels = s.channels /\ t.ftp = s.ftp
      /\ t.error = s.error /\ t.running = s.running
  BY <1>1, <1>3, <1>4, <1>5 DEF Session
<1> QED BY <1>1, <1>6 DEF Settled, Down, t

--------------------------------------------------------------------------------
(* What each handler does to what the owner sees. *)
Moves == Settled(ss') /\ Follows(View(ss), View(ss'))

LEMMA Quiet ==
    ASSUME Inv, Inv', Settled(ss),
           \A f \in {"state", "later", "channels", "ftp", "error", "running", "timer",
                     "notifiers"} : ss'[f] = ss[f]
    PROVE  Moves
<1>1. /\ ss'.state = ss.state /\ ss'.later = ss.later /\ ss'.channels = ss.channels
      /\ ss'.ftp = ss.ftp /\ ss'.error = ss.error /\ ss'.running = ss.running
      /\ ss'.timer = ss.timer /\ ss'.notifiers = ss.notifiers
  OBVIOUS
<1>2. Settled(ss')
  BY <1>1 DEF Settled
<1> QED BY <1>1, <1>2, Unseen DEF Moves, Inv

LEMMA UpNotDown == Coming \cap Down = {} /\ "Ready" \notin Down /\ Failures \subseteq Down
                   /\ {"Closed", "Closing"} \subseteq Down /\ "Ready" \notin Coming
                   /\ Coming \subseteq States /\ {"Closed", "Closing"} \cap Failures = {}
BY DEF Coming, Up, Down, Failures, States

LEMMA ComingStep ==
    ASSUME Inv, Inv', Settled(ss), ss.state \in Coming, ss'.state = ss.state,
           ss'.timer = ss.timer, ss.error => ss'.error
    PROVE  Moves
<1>1. Settled(ss')
  BY UpNotDown DEF Settled
<1> QED BY <1>1, OnOrFails DEF Moves, Inv

LEMMA ReadyStep ==
    ASSUME Inv, Inv', Settled(ss), ss.state = "Ready", ss'.state = "Ready",
           ss'.timer = ss.timer, ss.error => ss'.error, ss'.running = ss.running
    PROVE  Moves
<1>1. Settled(ss')
  BY UpNotDown DEF Settled
<1> QED BY <1>1, StaysReady DEF Moves, Inv

(* setState on the way, of a record that tells the owner no more than ss.     *)
LEMMA ComingSets ==
    ASSUME Inv, Inv', ss.state \in Coming, NEW s \in Session, s.state = ss.state,
           ss.error => s.error, NEW st \in Coming \cup Failures, st # ss.state,
           ss' = setState(s, st)
    PROVE  Moves
<1>1. CASE st \in Failures
  <2>1. Settled(ss') /\ ss'.state = st
    BY <1>1, UpNotDown, DownSettled
  <2> QED BY <1>1, <2>1, OnOrFails, UpNotDown DEF Moves, Inv
<1>2. CASE st \in Coming
  <2>1. Settled(ss') /\ ss'.state = st /\ ss'.error = s.error
    BY <1>2, UpSettled DEF Coming
  <2> QED BY <1>2, <2>1, OnOrFails DEF Moves, Inv
<1> QED BY <1>1, <1>2

LEMMA ConnectMoves == ASSUME Inv, Inv', Settled(ss), connectToHost PROVE Moves
<1> DEFINE s == cleanUp(ss)
           t(p) == [s EXCEPT !.share = FALSE, !.error = FALSE, !.password = p]
<1>1. ss.state = "Closed" /\ Sound(ss) /\ ss \in Session /\ Sound(ss')
  BY Constant DEF connectToHost, Inv
<1>2. ss' = s \/ \E p \in BOOLEAN, st \in {"Lookup", "Connecting"} : ss' = setState(t(p), st)
  BY DEF connectToHost
<1>3. /\ s \in Session /\ s.error = ss.error /\ ~s.running /\ ~s.timer /\ s.later = "none"
      /\ s.state = "Closed" /\ s.channels = NoChannels /\ s.ftp = "none" /\ s.notifiers # "on"
  BY <1>1, CleanUpTells, CleanUpType
<1>4. View(ss).phase = "closed" /\ View(ss).error = ss.error
  BY <1>1, ViewFacts, PhaseFacts
<1> HIDE DEF s
<1>5. CASE ss' = s
  <2>1. Settled(ss')
    BY <1>3, <1>5, UpNotDown DEF Settled
  <2>2. View(ss').phase = "closed" /\ ~View(ss').notice /\ ~View(ss').running
        /\ ~View(ss').chans /\ View(ss').error = ss.error
    BY <1>1, <1>3, <1>5, ViewFacts, PhaseFacts
  <2> QED BY <1>1, <1>4, <2>1, <2>2, StartsOver, ViewFacts DEF Moves
<1>6. ASSUME NEW p \in BOOLEAN, NEW st \in {"Lookup", "Connecting"}, ss' = setState(t(p), st)
      PROVE  Moves
  <2>1. t(p) \in Session /\ t(p).state = "Closed" /\ ~t(p).error /\ ~t(p).running
    BY <1>3 DEF Session
  <2>2. st \in Up /\ st \in Coming /\ st \notin {"Closed", "Established", "Ready"}
    BY DEF Up, Coming
  <2> HIDE DEF t
  <2>3. Settled(ss') /\ ss'.state = st /\ ~ss'.error /\ ~ss'.running
    BY <1>6, <2>1, <2>2, UpSettled
  <2>4. View(ss').phase = "coming" /\ ~View(ss').notice /\ ~View(ss').running
        /\ ~View(ss').chans /\ ~View(ss').error
    BY <1>1, <2>2, <2>3, ViewFacts, PhaseFacts
  <2> QED BY <1>1, <1>4, <2>3, <2>4, StartsOver, ViewFacts DEF Moves
<1> QED BY <1>2, <1>5, <1>6

LEMMA DisconnectMoves == ASSUME Inv, Inv', Settled(ss), Disconnect PROVE Moves
<1>1. Sound(ss) /\ ss \in Session /\ Sound(ss') /\ ss' = disconnectFromHost(ss)
  BY Constant DEF Inv, Disconnect
<1>2. CASE ss.state \in {"Closing", "Closed"}
  BY <1>1, <1>2, Quiet DEF disconnectFromHost
<1>3. CASE ss.state \notin {"Closing", "Closed"}
  <2>1. ss' = setState(ss, "Closing")
    BY <1>1, <1>3 DEF disconnectFromHost
  <2>2. Settled(ss') /\ ss'.state = "Closing" /\ ss'.error = ss.error /\ ss'.running = ss.running
    BY <1>1, <1>3, <2>1, DownSettled, UpNotDown
  <2> QED BY <1>1, <1>3, <2>2, Leaves DEF Moves
<1> QED BY <1>2, <1>3

LEMMA CancelMoves == ASSUME Inv, Inv', Settled(ss), cancel PROVE Moves
<1> DEFINE s == setState(ss, "Closed")
<1>1. Sound(ss) /\ ss \in Session /\ Sound(ss') /\ ss' = [s EXCEPT !.asked = "none"]
  BY Constant DEF Inv, cancel
<1>2. CASE ss.state = "Closed"
  <2>1. s = ss
    BY <1>2 DEF setState
  <2> QED BY <1>1, <2>1, Quiet DEF Session
<1>3. CASE ss.state # "Closed"
  <2>1. /\ Settled(s) /\ s.state = "Closed" /\ s.error = ss.error /\ ~s.running
        /\ s.later = "emitHostDisconnected"
    BY <1>1, <1>3, DownSettled, UpNotDown, EntryCalls
  <2>2. s \in Session
    BY <1>1, <1>3, GoDown, UpNotDown DEF Sound
  <2> HIDE DEF s
  <2>3. /\ ss'.state = s.state /\ ss'.error = s.error /\ ss'.running = s.running
        /\ ss'.later = s.later /\ ss'.timer = s.timer /\ ss'.notifiers = s.notifiers
    BY <1>1, <2>2 DEF Session
  <2>4. Settled(ss')
    BY <2>1, <2>3 DEF Settled
  <2> QED BY <1>1, <1>3, <2>1, <2>3, <2>4, Closes DEF Moves
<1> QED BY <1>2, <1>3

LEMMA DialogLostMoves == ASSUME Inv, Inv', Settled(ss), dialogLost PROVE Moves
<1>1. \A f \in {"state", "later", "channels", "ftp", "error", "running", "timer",
                "notifiers"} : ss'[f] = ss[f]
  BY Constant DEF dialogLost, Session
<1> QED BY <1>1, Quiet

LEMMA FiredTells ==
    ASSUME Inv
    PROVE  /\ Fired \in Session
           /\ \A f \in {"state", "channels", "ftp", "error", "running", "timer", "notifiers"} :
                 Fired[f] = ss[f]
BY Constant, NoneIsACall DEF Fired, callLater, Session

LEMMA LookupHostMoves == ASSUME Inv, Inv', Settled(ss), lookupHost PROVE Moves
<1>1. ss.state = "Lookup" /\ "Lookup" \in Coming
  BY Constant, CallTellsState DEF lookupHost, Later, Sound, Coming, Up
<1>2. ss'.state = ss.state /\ ss'.timer = ss.timer /\ ss'.error = ss.error
  BY FiredTells DEF lookupHost, Session
<1> QED BY <1>1, <1>2, ComingStep

LEMMA LookedUpMoves == ASSUME Inv, Inv', Settled(ss), lookedUp PROVE Moves
<1> DEFINE t == [ss EXCEPT !.lookup = FALSE]
<1>1. ss.state \in {"Lookup", "Closing"} /\ Sound(ss) /\ Sound(ss')
  BY Constant DEF lookedUp, Sound, Inv
<1>2. /\ t \in Session /\ t.state = ss.state /\ t.error = ss.error /\ t.running = ss.running
  BY Constant DEF Session
<1>3. ss' \in {setState(t, "Error"), setState(t, "Connecting")}
  BY DEF lookedUp
<1>4. /\ {"Lookup", "Connecting"} \subseteq Coming \cap Up /\ "Error" \in Failures
      /\ ss.state \notin Failures \cup {"Closed", "Connecting", "Error"}
  BY <1>1 DEF Coming, Up, Failures
<1> HIDE DEF t
<1>5. CASE ss' = setState(t, "Error")
  <2>1. Settled(ss') /\ ss'.state = "Error"
    BY <1>2, <1>4, <1>5, DownSettled, UpNotDown
  <2> QED BY <1>1, <1>4, <2>1, FailsSeen DEF Moves
<1>6. CASE ss' = setState(t, "Connecting")
  <2>1. /\ Settled(ss') /\ ss'.state = "Connecting"
        /\ ss'.error = ss.error /\ ss'.running = ss.running
    BY <1>2, <1>4, <1>6, UpSettled
  <2> QED BY <1>1, <1>4, <2>1, Revives, OnOrFails DEF Moves
<1> QED BY <1>3, <1>5, <1>6

LEMMA ConnectTimeoutMoves == ASSUME Inv, Inv', Settled(ss), connectTimeout PROVE Moves
<1> DEFINE t == [ss EXCEPT !.timer = FALSE]
<1>1. ss.state = "Connecting" /\ ss' = setState(t, "Timeout")
  BY DEF connectTimeout, Settled
<1>2. t \in Session /\ t.state = ss.state /\ t.error = ss.error
  BY Constant DEF Session
<1>3. "Connecting" \in Coming /\ "Timeout" \in Failures
  BY DEF Coming, Up, Failures
<1> HIDE DEF t
<1> QED BY <1>1, <1>2, <1>3, ComingSets

LEMMA LibConnectMoves == ASSUME Inv, Inv', Settled(ss), libConnect PROVE Moves
<1>1. ss.state = "Connecting" /\ "Connecting" \in Coming /\ "Error" \in Failures
      /\ "ServerCheck" \in Coming
  BY Constant, CallTellsState DEF libConnect, Later, Sound, Coming, Up, Failures
<1>2. CASE ss' = setState(Fired, "Error")
  BY <1>1, <1>2, FiredTells, ComingSets
<1>3. CASE ss' = [ss EXCEPT !.notifiers = "on", !.running = TRUE]
  <2>1. ss'.state = ss.state /\ ss'.timer = ss.timer /\ ss'.error = ss.error
    BY <1>3, Constant DEF Session
  <2> QED BY <1>1, <2>1, ComingStep
<1>4. CASE libConnectOk
  <2> DEFINE t == [Fired EXCEPT !.notifiers = "on", !.running = TRUE]
  <2>1. t \in Session /\ t.state = ss.state /\ t.error = ss.error
    BY FiredTells DEF Session
  <2>2. ss' = setState(t, "ServerCheck")
    BY <1>4 DEF libConnectOk
  <2> HIDE DEF t
  <2> QED BY <1>1, <2>1, <2>2, ComingSets
<1> QED BY <1>2, <1>3, <1>4 DEF libConnect, libConnectAgain, Fails

LEMMA LibSetBlockingMoves == ASSUME Inv, Inv', Settled(ss), libSetBlocking PROVE Moves
<1>1. ss.state = "Connecting" /\ "Connecting" \in Coming /\ "Error" \in Failures
  BY Constant, CallTellsState DEF libSetBlocking, Later, Sound, Coming, Up, Failures
<1>2. CASE ss' = setState(Fired, "Error")
  BY <1>1, <1>2, FiredTells, ComingSets
<1>3. CASE ss' = [callLater(ss, "libConnect") EXCEPT !.blocking = TRUE]
  <2>1. ss'.state = ss.state /\ ss'.timer = ss.timer /\ ss'.error = ss.error
    BY <1>3, Constant DEF Session, callLater
  <2> QED BY <1>1, <2>1, ComingStep
<1> QED BY <1>2, <1>3 DEF libSetBlocking

LEMMA OnSocketActivatedMoves == ASSUME Inv, Inv', Settled(ss), onSocketActivated PROVE Moves
<1>1. /\ Sound(ss) /\ Sound(ss') /\ ss \in Session /\ ss.state \in States
      /\ ss.notifiers = "on" /\ ss.state \notin Down
  BY Constant DEF onSocketActivated, Settled, Inv
<1>2. ASSUME NEW n \in {"none", "off"}
      PROVE  LET t == [ss EXCEPT !.notifiers = n]
             IN  t \in Session /\ t.state = ss.state /\ t.error = ss.error
  BY <1>1 DEF Session
<1>3. CASE ss' = setState([ss EXCEPT !.notifiers = "none"], "Closed")
  <2> DEFINE t == [ss EXCEPT !.notifiers = "none"]
  <2>1. t \in Session /\ t.state = ss.state /\ t.error = ss.error /\ ss' = setState(t, "Closed")
    BY <1>2, <1>3
  <2> HIDE DEF t
  <2>2. /\ Settled(ss') /\ ss'.state = "Closed" /\ ss'.error = ss.error /\ ~ss'.running
        /\ ss'.later = "emitHostDisconnected"
    BY <1>1, <2>1, DownSettled, UpNotDown, EntryCalls
  <2> QED BY <1>1, <2>2, Closes, UpNotDown DEF Moves
<1>4. CASE ss' = setState([ss EXCEPT !.notifiers = "off"], "Error")
  <2> DEFINE t == [ss EXCEPT !.notifiers = "off"]
  <2>1. t \in Session /\ t.state = ss.state /\ t.error = ss.error /\ ss' = setState(t, "Error")
    BY <1>2, <1>4
  <2> HIDE DEF t
  <2>2. "Error" \in Failures /\ ss.state # "Error"
    BY <1>1, UpNotDown DEF Failures
  <2>3. Settled(ss') /\ ss'.state = "Error"
    BY <2>1, <2>2, DownSettled, UpNotDown
  <2> QED BY <1>1, <2>2, <2>3, FailsSeen, UpNotDown DEF Moves
<1>5. CASE ss' = ss
  BY <1>5, Quiet
<1>6. CASE ss' = callLater(ss, "libSetBlocking") /\ ~ss.blocking
  <2>1. ss.state = "Connecting" /\ "Connecting" \in Coming
    BY <1>1, <1>6 DEF Sound, Notified, Coming, Up
  <2>2. ss'.state = ss.state /\ ss'.timer = ss.timer /\ ss'.error = ss.error
    BY <1>1, <1>6 DEF Session, callLater
  <2> QED BY <2>1, <2>2, ComingStep
<1> QED BY <1>3, <1>4, <1>5, <1>6 DEF onSocketActivated, libEventCallback

(* The check of the server, from the timer or from the dialog. *)
LEMMA KnownMoves ==
    ASSUME Inv, Inv', ss.state = "ServerCheck", Settled(ss), NEW s \in Session,
           s.state = ss.state, s.error = ss.error, s.timer = ss.timer, ss' \in libServerKnown(s)
    PROVE  Moves
<1>1. "ServerCheck" \in Coming /\ "Error" \in Failures /\ "UserAuth" \in Coming
  BY DEF Coming, Up, Failures
<1>2. CASE ss' = setState(s, "Error")
  BY <1>1, <1>2, ComingSets
<1>3. ASSUME NEW kh \in {"Ok", "Unknown"}, ss' = Known(s, kh)
      PROVE  Moves
  <2> DEFINE r == [s EXCEPT !.known = kh]
  <2>1. r \in Session /\ r.state = ss.state /\ r.error = ss.error /\ r.timer = ss.timer
    BY DEF Session
  <2>2. Known(s, kh) = IF kh = "Ok" THEN setState(r, "UserAuth")
            ELSE [r EXCEPT !.running = FALSE, !.asked = IF kh = s.known THEN @ ELSE "host"]
    BY DEF Known
  <2> HIDE DEF r
  <2>3. CASE kh = "Ok"
    BY <1>1, <1>3, <2>1, <2>2, <2>3, ComingSets
  <2>4. CASE kh # "Ok"
    <3>1. ss' = [r EXCEPT !.running = FALSE, !.asked = IF kh = s.known THEN r.asked ELSE "host"]
      BY <1>3, <2>2, <2>4
    <3>2. ss'.state = ss.state /\ ss'.timer = ss.timer /\ ss'.error = ss.error
      BY <2>1, <3>1 DEF Session
    <3> QED BY <1>1, <3>2, ComingStep
  <2> QED BY <2>3, <2>4
<1> QED BY <1>2, <1>3 DEF libServerKnown

LEMMA LibServerPublickeyMoves == ASSUME Inv, Inv', Settled(ss), libServerPublickey PROVE Moves
<1>1. ss.state = "ServerCheck"
  BY Constant, CallTellsState DEF libServerPublickey, Later, Sound
<1> QED BY <1>1, FiredTells, KnownMoves DEF libServerPublickey

LEMMA WriteKnownHostMoves == ASSUME Inv, Inv', Settled(ss), writeKnownHost PROVE Moves
<1> DEFINE t == [ss EXCEPT !.asked = "none"]
<1>1. t \in Session /\ \A f \in {"state", "later", "channels", "ftp", "error", "running", "timer",
                "notifiers"} : t[f] = ss[f]
  BY Constant DEF Session
<1>2. ss' \in (IF Checking THEN libServerKnown(t) ELSE {t})
  BY DEF writeKnownHost
<1> HIDE DEF t
<1>3. CASE Checking
  BY <1>1, <1>2, <1>3, KnownMoves DEF Checking
<1>4. CASE ~Checking
  BY <1>1, <1>2, <1>4, Quiet
<1> QED BY <1>3, <1>4

(* The methods of the authentication, one after the other. *)
Tries(s) == s \in Session /\ s.state = "UserAuth" /\ s.error = ss.error /\ s.timer = ss.timer

LEMMA TryStates == "UserAuth" \in Coming /\ "Established" \in Coming
                   /\ {"Error", "Denied"} \subseteq Failures
BY DEF Coming, Up, Failures

LEMMA TryPutOff ==
    ASSUME Inv, Inv', Settled(ss), ss.state = "UserAuth", NEW s, Tries(s), NEW f \in Calls,
           ss' = callLater(s, f)
    PROVE  Moves
<1>1. ss'.state = ss.state /\ ss'.timer = ss.timer /\ ss'.error = ss.error
  BY DEF Tries, callLater, Session
<1> QED BY <1>1, TryStates, ComingStep

LEMMA TryAsks ==
    ASSUME Inv, Inv', Settled(ss), ss.state = "UserAuth", NEW s, Tries(s),
           ss' = [s EXCEPT !.running = FALSE, !.asked = "auth"]
    PROVE  Moves
<1>1. ss'.state = ss.state /\ ss'.timer = ss.timer /\ ss'.error = ss.error
  BY DEF Tries, Session
<1> QED BY <1>1, TryStates, ComingStep

LEMMA TrySets ==
    ASSUME Inv, Inv', Settled(ss), ss.state = "UserAuth", NEW s, Tries(s),
           NEW st \in {"Established", "Error", "Denied"}, ss' = setState(s, st)
    PROVE  Moves
BY TryStates, ComingSets DEF Tries

LEMMA TryNext ==
    ASSUME Inv, Inv', Settled(ss), ss.state = "UserAuth", NEW s, Tries(s),
           ss' = iterateUserAuth(s)
    PROVE  Moves
<1>1. s.auth \in SUBSET Methods
  BY DEF Tries, Session
<1>2. CASE "publickey" \in s.auth
  <2>1. ss' = callLater(s, "libUserAuthTryPublickey")
    BY <1>2 DEF iterateUserAuth
  <2> QED BY <2>1, TryPutOff, AuthCalls
<1>3. CASE "publickey" \notin s.auth /\ "interactive" \in s.auth
  <2>1. ss' = callLater(s, "libUserAuthKbdint")
    BY <1>3 DEF iterateUserAuth
  <2> QED BY <2>1, TryPutOff, AuthCalls
<1>4. CASE s.auth = {"password"}
  <2>1. ss' = IF s.password THEN callLater(s, "libUserAuthPassword")
              ELSE [s EXCEPT !.running = FALSE, !.asked = "auth"]
    BY <1>4 DEF iterateUserAuth
  <2> QED BY <2>1, TryPutOff, TryAsks, AuthCalls
<1>5. CASE s.auth = {}
  <2>1. ss' = setState(s, "Denied")
    BY <1>5 DEF iterateUserAuth
  <2> QED BY <2>1, TrySets
<1> QED BY <1>1, <1>2, <1>3, <1>4, <1>5 DEF Methods

LEMMA TryWithout ==
    ASSUME Inv, Inv', Settled(ss), ss.state = "UserAuth", NEW s, Tries(s),
           NEW a \in SUBSET Methods, ss' = iterateUserAuth([s EXCEPT !.auth = a])
    PROVE  Moves
<1> DEFINE t == [s EXCEPT !.auth = a]
<1>1. Tries(t)
  BY DEF Tries, Session
<1> HIDE DEF t
<1>2. ss' = iterateUserAuth(t)
  BY DEF t
<1> QED BY <1>1, <1>2, TryNext

LEMMA TriedMoves ==
    ASSUME Inv, Inv', Settled(ss), ss.state = "UserAuth", NEW s, Tries(s), NEW m,
           ss' \in Tried(s, m)
    PROVE  Moves
<1>1. s.auth \ {m} \in SUBSET Methods
  BY DEF Tries, Session
<1>2. CASE ss' = Without(s, m)
  BY <1>1, <1>2, TryWithout DEF Without
<1> QED BY <1>2, TrySets DEF Tried

LEMMA UserAuthMoves == ASSUME Inv, Inv', Settled(ss), UserAuth PROVE Moves
<1>1. ss.state = "UserAuth"
  <2>1. ss.later \in {"libUserAuthNone", "libUserAuthTryPublickey", "libUserAuthPublickey",
                      "libUserAuthKbdint", "libUserAuthPassword"}
    BY DEF UserAuth, Later, libUserAuthNone, libUserAuthTryPublickey, libUserAuthPublickey,
           libUserAuthKbdint, libUserAuthPassword
  <2> QED BY <2>1, Constant, CallTellsState DEF Sound
<1>2. Tries(ss) /\ Tries(Fired) /\ ss \in Session
  BY <1>1, FiredTells, Constant DEF Tries
<1>3. CASE libUserAuthNone
  <2>1. ASSUME NEW m \in SUBSET Methods, ss' = iterateUserAuth([Fired EXCEPT !.auth = m])
        PROVE  Moves
    BY <1>1, <1>2, <2>1, TryWithout
  <2> QED BY <1>1, <1>2, <1>3, <2>1, TrySets DEF libUserAuthNone
<1>4. CASE libUserAuthTryPublickey
  <2>1. CASE ss' = Without(Fired, "publickey")
    <3>1. Fired.auth \ {"publickey"} \in SUBSET Methods
      BY <1>2 DEF Tries, Session
    <3> QED BY <1>1, <1>2, <2>1, <3>1, TryWithout DEF Without
  <2> QED BY <1>1, <1>2, <1>4, <2>1, TryPutOff, TrySets, AuthCalls DEF libUserAuthTryPublickey
<1>5. CASE libUserAuthPublickey
  BY <1>1, <1>2, <1>5, TriedMoves DEF libUserAuthPublickey
<1>6. CASE libUserAuthKbdint
  BY <1>1, <1>2, <1>6, TriedMoves, TryAsks DEF libUserAuthKbdint
<1>7. CASE libUserAuthPassword
  BY <1>1, <1>2, <1>7, TriedMoves, TrySets DEF libUserAuthPassword
<1> QED BY <1>3, <1>4, <1>5, <1>6, <1>7 DEF UserAuth

LEMMA GiveAnswersMoves == ASSUME Inv, Inv', Settled(ss), giveAnswers PROVE Moves
<1>1. PICK share \in BOOLEAN :
         LET s == [ss EXCEPT !.asked = "none", !.share = share]
         IN  ss' \in IF ss.state = "UserAuth" /\ link # "none" THEN Answered(s) ELSE {s}
  BY DEF giveAnswers
<1> DEFINE s == [ss EXCEPT !.asked = "none", !.share = share]
<1>2. s \in Session /\ \A f \in {"state", "later", "channels", "ftp", "error", "running", "timer",
                "notifiers"} : s[f] = ss[f]
  BY Constant DEF Session
<1>3. ss' \in (IF ss.state = "UserAuth" /\ link # "none" THEN Answered(s) ELSE {s})
  BY <1>1
<1> HIDE DEF s
<1>4. CASE ss.state = "UserAuth" /\ link # "none"
  <2>1. Tries(s) /\ ss' \in Answered(s)
    BY <1>2, <1>3, <1>4 DEF Tries
  <2>2. ASSUME NEW f \in Calls, NEW p \in BOOLEAN,
               ss' = [callLater(s, f) EXCEPT !.running = TRUE, !.password = p]
        PROVE  Moves
    <3>1. ss'.state = ss.state /\ ss'.timer = ss.timer /\ ss'.error = ss.error
      BY <1>2, <2>2 DEF callLater, Session
    <3> QED BY <1>4, <3>1, TryStates, ComingStep
  <2>3. CASE ss' = [callLater(s, "libUserAuthKbdint") EXCEPT !.running = TRUE]
    <3>1. ss'.state = ss.state /\ ss'.timer = ss.timer /\ ss'.error = ss.error
      BY <1>2, <2>3, AuthCalls DEF callLater, Session
    <3> QED BY <1>4, <3>1, TryStates, ComingStep
  <2>4. CASE ss' \in {setState(s, "Error"), setState(s, "Denied")}
    BY <1>4, <2>1, <2>4, TrySets
  <2> QED BY <2>1, <2>2, <2>3, <2>4, AuthCalls DEF Answered
<1>5. CASE ~(ss.state = "UserAuth" /\ link # "none")
  BY <1>2, <1>3, <1>5, Quiet
<1> QED BY <1>4, <1>5

(* The sharing of the key. *)
LEMMA SendPublicKeyMoves == ASSUME Inv, Inv', Settled(ss), sendPublicKey PROVE Moves
<1>1. /\ ss.state = "Established" /\ Sound(ss) /\ Sound(ss') /\ ss.ftp = "none"
      /\ "Established" \in Coming /\ "Error" \in Failures
      /\ \A c \in Channels : ss.channels[c] = "none"
  BY Constant, CallTellsState
  DEF sendPublicKey, Later, Sound, Inv, Waits, Serves, Coming, Up, Failures
<1>2. CASE ss' = Fired
  <2>1. ss'.state = ss.state /\ ss'.timer = ss.timer /\ ss'.error = ss.error
    BY <1>2, FiredTells
  <2> QED BY <1>1, <2>1, ComingStep
<1>3. CASE ss' = setState(Fired, "Ready")
  <2>1. /\ Settled(ss') /\ ss'.state = "Ready" /\ ss'.error = ss.error
        /\ ss'.running = ss.running /\ ss'.channels = ss.channels /\ ss'.ftp = ss.ftp
    BY <1>1, <1>3, FiredTells, UpSettled DEF Up
  <2>2. ~View(ss').chans
    BY <1>1, <2>1, ViewFacts
  <2> QED BY <1>1, <2>1, <2>2, Readies DEF Moves
<1>4. CASE ss' = setState(Fired, "Error")
  BY <1>1, <1>4, FiredTells, ComingSets
<1>5. CASE ss' = [Fired EXCEPT !.ftp = "working"]
  <2>1. ss'.state = ss.state /\ ss'.timer = ss.timer /\ ss'.error = ss.error
    BY <1>5, FiredTells DEF Session
  <2> QED BY <1>1, <2>1, ComingStep
<1> QED BY <1>2, <1>3, <1>4, <1>5 DEF sendPublicKey

LEMMA NotifiersDisabledMoves == ASSUME Inv, Inv', Settled(ss), notifiersDisabled PROVE Moves
<1>1. /\ ss'.state = ss.state /\ ss'.later = ss.later /\ ss'.channels = ss.channels
      /\ ss'.ftp = ss.ftp /\ ss'.error = ss.error /\ ss'.running = ss.running
      /\ ss'.timer = ss.timer /\ ss'.notifiers = "off"
  BY Constant DEF notifiersDisabled, Session
<1>2. Settled(ss')
  BY <1>1 DEF Settled
<1>3. View(ss') = View(ss)
  BY <1>1 DEF View
<1> QED BY <1>2, <1>3 DEF Moves, Follows

LEMMA OnPullDoneMoves == ASSUME Inv, Inv', Settled(ss), onPullDone PROVE Moves
<1>1. /\ ss.state = "Established" /\ Sound(ss) /\ Sound(ss') /\ ss \in Session
      /\ "Established" \in Coming /\ "Error" \in Failures
      /\ \A c \in Channels : ss.channels[c] = "none"
  BY Constant, SftpAlone DEF onPullDone, Inv, Coming, Up, Failures
<1>2. CASE ss' = setState(ss, "Error")
  BY <1>1, <1>2, ComingSets
<1>3. CASE ss' = [ss EXCEPT !.ftp = "over"]
  <2>1. ss'.state = ss.state /\ ss'.timer = ss.timer /\ ss'.error = ss.error
    BY <1>1, <1>3 DEF Session
  <2> QED BY <1>1, <2>1, ComingStep
<1>4. ASSUME NEW e \in {ss.error, TRUE},
             ss' = setState([ss EXCEPT !.ftp = "none", !.share = FALSE, !.error = e], "Ready")
      PROVE  Moves
  <2> DEFINE t == [ss EXCEPT !.ftp = "none", !.share = FALSE, !.error = e]
  <2>1. /\ t \in Session /\ t.state = ss.state /\ t.error = e /\ t.running = ss.running
        /\ t.channels = ss.channels /\ t.ftp = "none"
    BY <1>1 DEF Session
  <2> HIDE DEF t
  <2>2. ss' = setState(t, "Ready")
    BY <1>4 DEF t
  <2>3. /\ Settled(ss') /\ ss'.state = "Ready" /\ ss'.error = e
        /\ ss'.running = ss.running /\ ss'.channels = ss.channels /\ ss'.ftp = "none"
    BY <1>1, <2>1, <2>2, UpSettled DEF Up
  <2>4. ~View(ss').chans
    BY <1>1, <2>3, ViewFacts
  <2> QED BY <1>1, <2>3, <2>4, Readies DEF Moves
<1> QED BY <1>2, <1>3, <1>4 DEF onPullDone

LEMMA FtpFailsMoves == ASSUME Inv, Inv', Settled(ss), ftpFails PROVE Moves
<1>1. ss.state = "Established" /\ "Established" \in Coming
  BY SftpAlone DEF ftpFails, Coming, Up
<1>2. ss'.state = ss.state /\ ss'.timer = ss.timer /\ ss'.error
  BY Constant DEF ftpFails, Session
<1> QED BY <1>1, <1>2, ComingStep

(* The channels of a session that is ready. *)
LEMMA SetChannelTells ==
    ASSUME NEW s \in Session, NEW c \in Channels, NEW ph \in Phases
    PROVE  LET t == setChannel(s, c, ph) IN
           /\ t \in Session /\ t.channels = [s.channels EXCEPT ![c] = ph]
           /\ \A f \in {"state", "later", "ftp", "error", "running", "timer", "notifiers"} :
                 t[f] = s[f]
BY DEF setChannel, Session

LEMMA SetOpenTells ==
    ASSUME NEW s \in Session
    PROVE  LET t == setOpenChannels(s) IN
           /\ t \in Session
           /\ \A f \in {"state", "later", "channels", "ftp", "error", "running", "timer",
                        "notifiers"} : t[f] = s[f]
<1> DEFINE n == Cardinality({c \in Channels : IsOpen(s, c)})
<1>1. n \in Nat
  BY FiniteChannels, FS_Subset, FS_CardinalityType
<1>2. setOpenChannels(s) = [s EXCEPT !.open = n]
  BY DEF setOpenChannels
<1> HIDE DEF n
<1> QED BY <1>1, <1>2 DEF Session

LEMMA DropMoves ==
    ASSUME Inv, Inv', Settled(ss), NEW c \in Channels, ss' = Drop(ss, c),
           ss.state = "Ready" \/ ServesNothing(ss)
    PROVE  Moves
<1> DEFINE r == setChannel(ss, c, "none")
           t == setOpenChannels(r)
<1>1. ss \in Session /\ Sound(ss) /\ Sound(ss') /\ "none" \in Phases /\ ss.state \in States
      /\ ss.channels \in [Channels -> Phases]
  BY Constant DEF Inv, Phases, Session
<1>2. /\ r \in Session /\ r.channels = [ss.channels EXCEPT ![c] = "none"]
      /\ \A f \in {"state", "later", "ftp", "error", "running", "timer", "notifiers"} : r[f] = ss[f]
  BY <1>1, SetChannelTells
<1> HIDE DEF r
<1>3. /\ t \in Session
      /\ \A f \in {"state", "later", "channels", "ftp", "error", "running", "timer",
                   "notifiers"} : t[f] = r[f]
  BY <1>2, SetOpenTells
<1>4. ss' = IF t.open = 0 THEN disconnectFromHost(t) ELSE t
  BY DEF Drop, t, r
<1> HIDE DEF t
<1>5. /\ t.state = ss.state /\ t.later = ss.later /\ t.ftp = ss.ftp /\ t.error = ss.error
      /\ t.running = ss.running /\ t.timer = ss.timer /\ t.notifiers = ss.notifiers
      /\ t.channels = [ss.channels EXCEPT ![c] = "none"]
  BY <1>2, <1>3
<1>6. CASE ss' = t
  <2>1. CASE ss.state = "Ready"
    BY <1>5, <1>6, <2>1, ReadyStep
  <2>2. CASE ServesNothing(ss)
    <3>1. t.channels = ss.channels
      BY <1>1, <1>5, <2>2 DEF ServesNothing
    <3> QED BY <1>5, <1>6, <3>1, Quiet
  <2> QED BY <2>1, <2>2
<1>7. CASE ss' # t
  <2>1. ss' = setState(t, "Closing") /\ ss.state \notin {"Closing", "Closed"}
    BY <1>4, <1>5, <1>7 DEF disconnectFromHost
  <2>2. Settled(ss') /\ ss'.state = "Closing" /\ ss'.error = ss.error /\ ss'.running = ss.running
    BY <1>3, <1>5, <2>1, DownSettled, UpNotDown
  <2> QED BY <1>1, <2>1, <2>2, Leaves DEF Moves
<1> QED BY <1>6, <1>7

LEMMA ReadySets ==
    ASSUME Inv, Inv', Settled(ss), ss.state = "Ready", NEW c \in Channels, NEW ph \in Phases,
           \/ ss' = setChannel(ss, c, ph)
           \/ ss' = setOpenChannels(setChannel(ss, c, ph))
           \/ ss' = [setChannel(ss, c, ph) EXCEPT !.error = TRUE]
    PROVE  Moves
<1> DEFINE t == setChannel(ss, c, ph)
<1>0. /\ t \in Session
      /\ \A f \in {"state", "later", "ftp", "error", "running", "timer", "notifiers"} : t[f] = ss[f]
  <2>1. ss \in Session
    BY Constant
  <2> QED BY <2>1, SetChannelTells
<1> HIDE DEF t
<1>1. /\ t \in Session /\ t.state = "Ready" /\ t.timer = ss.timer /\ t.error = ss.error
      /\ t.running = ss.running
  BY <1>0
<1>2. /\ ss'.state = "Ready" /\ ss'.timer = ss.timer /\ ss'.running = ss.running
      /\ ss.error => ss'.error
  <2>1. CASE ss' = t
    BY <1>1, <2>1
  <2>2. CASE ss' = setOpenChannels(t)
    BY <1>1, <2>2, SetOpenTells
  <2>3. CASE ss' = [t EXCEPT !.error = TRUE]
    BY <1>1, <2>3 DEF Session
  <2> QED BY <2>1, <2>2, <2>3 DEF t
<1> QED BY <1>2, ReadyStep

LEMMA ChannelMoves == ASSUME Inv, Inv', Settled(ss), NEW c \in Channels, Channel(c) PROVE Moves
<1>1. CASE createChannel(c)
  BY <1>1, PhaseNames, ReadySets DEF createChannel, IsReady
<1>2. CASE onNewConnection(c)
  BY <1>2, PhaseNames, ReadySets DEF onNewConnection, IsReady
<1>3. CASE channelOpens(c)
  <2>1. ss.state = "Ready"
    BY <1>3, ListedIsReady DEF channelOpens
  <2> QED BY <1>3, <2>1, PhaseNames, ReadySets DEF channelOpens
<1>4. CASE channelOpened(c)
  <2>1. ss.state = "Ready"
    BY <1>4, ListedIsReady DEF channelOpened
  <2> QED BY <1>4, <2>1, PhaseNames, ReadySets DEF channelOpened
<1>5. CASE channelFails(c)
  <2>1. ss.state = "Ready"
    BY <1>5, ListedIsReady DEF channelFails
  <2> QED BY <1>5, <2>1, PhaseNames, ReadySets DEF channelFails
<1>6. CASE writeFails(c)
  <2>1. ss.state = "Ready" /\ ss' = [ss EXCEPT !.error = TRUE]
    BY <1>6, ListedIsReady DEF writeFails, IsOpen
  <2>2. ss'.state = "Ready" /\ ss'.timer = ss.timer /\ ss'.running = ss.running /\ ss'.error
    BY <2>1, Constant DEF Session
  <2> QED BY <2>1, <2>2, ReadyStep
<1>7. CASE closeReceived(c)
  <2>1. ss.state = "Ready"
    BY <1>7, ListedIsReady DEF closeReceived, IsOpen
  <2> QED BY <1>7, <2>1, PhaseNames, ReadySets DEF closeReceived
<1>8. CASE onChannelClosed(c)
  <2>1. ss.state = "Ready"
    BY <1>8, ListedIsReady DEF onChannelClosed
  <2> QED BY <1>8, <2>1, DropMoves DEF onChannelClosed
<1>9. CASE socketError(c)
  <2>1. CASE ss' = ss
    BY <2>1, Quiet
  <2>2. CASE Listed(ss) = {} /\ ss.ftp = "none" /\ ss' = Drop(ss, c)
    <3>1. \A d \in Channels : ss.channels[d] = "none"
      BY <2>2 DEF Listed
    <3>2. ss.open \in Nat /\ ss.tunnel \in BOOLEAN
      BY Constant DEF Session
    <3>3. ss.state = "Ready" \/ ServesNothing(ss)
      BY <2>2, <3>1, <3>2, Constant DEF ServesNothing, Serves
    <3> QED BY <2>2, <3>3, DropMoves
  <2>3. CASE c \in Listed(ss) /\ ss' = Drop(ss, c)
    BY <2>3, ListedIsReady, DropMoves DEF Listed
  <2> QED BY <1>9, <2>1, <2>2, <2>3 DEF socketError
<1> QED BY <1>1, <1>2, <1>3, <1>4, <1>5, <1>6, <1>7, <1>8, <1>9 DEF Channel

LEMMA TunnelMoves == ASSUME Inv, Inv', Settled(ss), tunnel PROVE Moves
<1>1. ss.state = "Ready"
  BY DEF tunnel, IsReady
<1>2. ss'.state = "Ready" /\ ss'.timer = ss.timer /\ ss'.running = ss.running /\ ss'.error = ss.error
  BY <1>1, Constant DEF tunnel, Session
<1> QED BY <1>1, <1>2, ReadyStep

(* The owner is told of the end. *)
LEMMA EmitHostDisconnectedMoves == ASSUME Inv, Inv', Settled(ss), emitHostDisconnected PROVE Moves
<1>1. ss.later = "emitHostDisconnected" /\ ss' = Fired /\ Sound(ss) /\ Sound(ss')
  BY DEF emitHostDisconnected, Later, Inv
<1>2. /\ ss'.state = ss.state /\ ss'.channels = ss.channels /\ ss'.ftp = ss.ftp
      /\ ss'.error = ss.error /\ ss'.running = ss.running /\ ss'.timer = ss.timer
      /\ ss'.notifiers = ss.notifiers /\ ss'.later = "none"
  BY <1>1, FiredTells, FiredFacts
<1>3. Settled(ss')
  BY <1>2 DEF Settled
<1>4. View(ss').chans = View(ss).chans
  BY <1>1, <1>2, ViewFacts DEF Contracts
<1> QED BY <1>1, <1>2, <1>3, <1>4, ViewFacts, TellsEnd DEF Moves

LEMMA SettledInit == Init => Settled(ss)
BY DEF Init, Settled, Failures, Down

LEMMA NextMoves == ASSUME Inv, Inv', Settled(ss), [Next]_vars PROVE Moves
<1>1. CASE Owner
  BY <1>1, ConnectMoves, DisconnectMoves, CancelMoves, DialogLostMoves, WriteKnownHostMoves,
     GiveAnswersMoves DEF Owner, reject
<1>2. CASE Step
  BY <1>2, LookupHostMoves, LibSetBlockingMoves, LibConnectMoves, LibServerPublickeyMoves,
     UserAuthMoves, SendPublicKeyMoves, CancelMoves, EmitHostDisconnectedMoves DEF Step, laterCancel
<1>3. CASE \E c \in Channels : Channel(c)
  BY <1>3, ChannelMoves
<1>4. CASE linkLost \/ UNCHANGED vars
  BY <1>4, Quiet DEF linkLost, vars
<1> QED
  BY <1>1, <1>2, <1>3, <1>4, LibConnectMoves, LookedUpMoves, ConnectTimeoutMoves,
     OnSocketActivatedMoves, NotifiersDisabledMoves, OnPullDoneMoves, FtpFailsMoves, TunnelMoves DEF Next

LEMMA SettledInvariant == Spec => [](Inv /\ Settled(ss))
<1>1. Inv /\ Inv' /\ Settled(ss) /\ [Next]_vars => Settled(ss)'
  BY NextMoves DEF Moves
<1> QED BY <1>1, SettledInit, Invariant, PTL DEF Spec

(* A session starts as the contract says. *)
LEMMA ContractInit == Init => Owned!Init
<1> SUFFICES ASSUME Init PROVE Owned!Init
  OBVIOUS
<1>1. Sound(ss) /\ ss.state = "Closed" /\ ~ss.running /\ ~ss.error /\ ss.later = "none"
  BY InvInit DEF Inv, Init
<1>2. /\ View(ss) \in Contracts /\ View(ss).phase = "closed" /\ ~View(ss).running
      /\ ~View(ss).error /\ ~View(ss).notice /\ ~View(ss).chans
  BY <1>1, ViewFacts, PhaseFacts
<1>3. View(ss) = Owned!Fresh
  BY <1>2, FreshFields DEF Contracts
<1> QED BY <1>3, SeenIsView DEF Owned!Init

(* Each step of a session is one that its contract allows, or is not seen.    *)
LEMMA ContractStep == Inv /\ Inv' /\ Settled(ss) /\ [Next]_vars => [Owned!Next]_Seen
<1> SUFFICES ASSUME Inv, Inv', Settled(ss), [Next]_vars PROVE [Owned!Next]_Seen
  OBVIOUS
<1>1. Follows(View(ss), View(ss'))
  BY NextMoves DEF Moves
<1>2. Seen = View(ss)
  BY SeenIsView
<1>3. (Seen = View(ss))'
  BY SeenIsView, PTL
<1>4. Seen' = View(ss')
  BY <1>3
<1> QED BY <1>1, <1>2, <1>4 DEF Follows, Owned!Next

(* Whatever handlers of SshSession.cpp run, and in whatever order, the owner  *)
(* of a session sees a behaviour of the abstract one: a failure is told, the  *)
(* end is told once and with nothing left open, only a session on its way     *)
(* gets ready.  That the end comes is left to fairness, and to TLC.           *)
THEOREM KeepsContract == Spec => Owned!Init /\ [][Owned!Next]_Seen
<1> QED BY ContractInit, ContractStep, SettledInvariant, PTL DEF Spec
================================================================================
