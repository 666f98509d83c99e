--------------------------- MODULE VMConfigSetProofs ---------------------------
(***************************************************************************)
(* The manager of the machines and the runner of its commands, for any     *)
(* servers, any names, any machines found on the disk, any number of       *)
(* requests and any order of the answers.  The argument has three parts:   *)
(* the runner listens to a session only while it runs the command of that  *)
(* session (Runner); every function on the map and the current machine     *)
(* keeps the current one stored and the one that was asked about current   *)
(* (Orderly); and only lists and creations make machines known, so a       *)
(* machine of gone is known again only when one of them arrives.           *)
(***************************************************************************)
EXTENDS VMConfigSet, WellFoundedInduction, TLAPS

Phases == {"closed", "coming", "ready", "failed", "closing"}
ContractSet   == [phase : Phases, running : BOOLEAN, error : BOOLEAN, notice : BOOLEAN, chans : BOOLEAN]

RunnerFields  == {"running", "executing", "command", "server", "url", "exit", "session",
                  "late", "told", "odd"}
SessionFields == {"con", "exec", "host", "linked", "doomed"}

IsList(s) == s \in Seq(Range(s))

SessionShape(s) ==
    /\ DOMAIN s = SessionFields
    /\ s.con \in ContractSet /\ (s.con.notice => s.con.phase = "closed")
    /\ s.linked \in BOOLEAN /\ s.doomed \in BOOLEAN

(* The inductive part about the runner: a session that it listens to runs its *)
(* command, has told no error and is there until the runner stops.            *)
Runner(p) ==
    /\ DOMAIN p = RunnerFields
    /\ p.running \in BOOLEAN
    /\ IsList(p.told)
    /\ HasSession(p) =>
          /\ SessionShape(p.session)
          /\ ~p.session.linked => p.session.doomed
          /\ p.session.linked =>
                /\ p.running
                /\ ~p.session.con.error
                /\ p.session.host = p.url
                /\ p.session.exec \in {NoCommand, p.command}
    /\ (p.running /\ p.odd = {}) =>
          /\ Linked(p) /\ ~p.session.doomed
          /\ p.session.con.phase \in {"coming", "ready", "closing"}

MachineFields == {"id", "server", "alias", "on"}
ManagerFields == {"map", "current", "progress", "create", "asked", "bare"}

Machine(m) ==
    /\ DOMAIN m = MachineFields
    /\ m.id \in Names \cup {NoId}
    /\ m.id = NoId => m.alias \in Names

(* The inductive part about the machines: Sound in the middle of a removal,   *)
(* and Orderly otherwise.                                                     *)
Sound(v) ==
    /\ DOMAIN v = ManagerFields
    /\ \A m \in v.map : Machine(m)
    /\ isValid(v) => Machine(v.current)
    /\ v.create # NoMachine => Machine(v.create) /\ v.create.id = NoId
    /\ (isValid(v) /\ At(v, objectKey(v.current)) # {}) => v.current \in v.map
    /\ v.asked # NoKey => isValid(v) /\ objectKey(v.current) = v.asked
Orderly(v) == Sound(v) /\ (v.map = {} => ~isValid(v))

Ops      == {"cluster", "create", "status", "start", "stop", "destroy"}
Requests == [op : Ops, server : Webs, name : Names \cup {NoId}]

IInv ==
    /\ Runner(sp) /\ sp.told = <<>>
    /\ Orderly(vm)
    /\ web \in Seq(Requests)
    /\ RemovedStaysRemoved

--------------------------------------------------------------------------------
(* The session, by its contract.                                              *)

LEMMA ConnectGives ==
    ASSUME NEW c \in ContractSet, NEW d \in Contracts!Connect(c)
    PROVE  /\ d \in ContractSet /\ ~d.notice /\ d.phase \in {"closed", "coming"}
           /\ ~c.error => ~d.error
BY DEF ContractSet, Phases, Contracts!Connect

LEMMA ChangeGives ==
    ASSUME NEW c \in ContractSet, c.notice => c.phase = "closed", NEW d \in Contracts!Change(c)
    PROVE  /\ d \in ContractSet
           /\ d.notice => d.phase = "closed"
           /\ c.phase \in {"coming", "ready", "closing"} =>
                 ~c.notice /\ (d.phase = "failed" => d.error)
           /\ (c.phase \in {"coming", "ready", "closing"} /\ d.phase # "closed") => ~d.notice
<1> DEFINE P == /\ d \in ContractSet
                /\ d.notice => d.phase = "closed"
                /\ (c.phase # "failed" /\ d.phase = "failed") => d.error
<1>1. CASE d \in Contracts!Advance(c)
  BY <1>1 DEF ContractSet, Phases, Contracts!Advance
<1>2. CASE d \in Contracts!GetReady(c)
  <2>1. PICK e \in {c.error, TRUE} :
           d = [c EXCEPT !.phase = "ready", !.chans = FALSE, !.error = e]
    BY <1>2 DEF Contracts!GetReady
  <2>2. c.phase = "coming"
    BY <1>2 DEF Contracts!GetReady
  <2> QED BY <2>1, <2>2 DEF ContractSet, Phases
<1>3. CASE d \in Contracts!Serve(c)
  BY <1>3 DEF ContractSet, Phases, Contracts!Serve
<1>4. CASE d \in Contracts!Fail(c)
  BY <1>4 DEF ContractSet, Phases, Contracts!Fail, Contracts!Fresh
<1>5. CASE d \in Contracts!StartClosing(c)
  BY <1>5 DEF ContractSet, Phases, Contracts!StartClosing
<1>6. CASE d \in Contracts!Revive(c)
  BY <1>6 DEF ContractSet, Phases, Contracts!Revive
<1>7. CASE d \in Contracts!Close(c)
  BY <1>7 DEF ContractSet, Phases, Contracts!Close, Contracts!Fresh
<1>8. CASE d \in Contracts!Tell(c)
  BY <1>8 DEF ContractSet, Phases, Contracts!Tell
<1> QED BY <1>1, <1>2, <1>3, <1>4, <1>5, <1>6, <1>7, <1>8 DEF Contracts!Change

--------------------------------------------------------------------------------
(* The runner.                                                                *)

LEMMA Appended ==
    ASSUME NEW s, NEW e, IsList(s)
    PROVE  /\ IsList(Append(s, e)) /\ Len(Append(s, e)) = Len(s) + 1
           /\ Len(s) \in Nat /\ DOMAIN s = 1 .. Len(s)
<1> DEFINE R == Range(s) \cup {e}
           u == Append(s, e)
<1>1. s \in Seq(R)
  <2>1. Range(s) \subseteq R
    OBVIOUS
  <2>2. s \in [1 .. Len(s) -> Range(s)] /\ Len(s) \in Nat
    BY DEF IsList
  <2>3. s \in [1 .. Len(s) -> R]
    BY <2>1, <2>2
  <2> QED BY <2>2, <2>3
<1>2. u \in Seq(R) /\ Len(u) = Len(s) + 1
  BY <1>1
<1> HIDE DEF u, R
<1>3. u \in [1 .. Len(u) -> R] /\ Len(u) \in Nat
  BY <1>2
<1>4. \A i \in 1 .. Len(u) : u[i] \in Range(u)
  BY <1>3 DEF Range
<1>5. u \in Seq(Range(u))
  BY <1>3, <1>4
<1>6. s \in [1 .. Len(s) -> Range(s)] /\ Len(s) \in Nat
  BY DEF IsList
<1> QED BY <1>2, <1>5, <1>6 DEF u, IsList

(* What is known of a runner in the middle of a call. *)
Loose(p) ==
    /\ DOMAIN p = RunnerFields /\ p.running \in BOOLEAN /\ IsList(p.told)
    /\ HasSession(p) => SessionShape(p.session)

LEMMA RunnerIsLoose == ASSUME NEW p, Runner(p) PROVE Loose(p)
BY DEF Runner, Loose

LEMMA SessionIsNone ==
    /\ \A s : DOMAIN s = SessionFields => s # NoSession
    /\ ~ SessionShape(NoSession)
<1>1. DOMAIN NoSession = {"doomed"}
  BY DEF NoSession
<1>2. "con" \in SessionFields
  BY DEF SessionFields
<1> QED BY <1>1, <1>2 DEF SessionShape

LEMMA TellKeeps ==
    ASSUME NEW p, NEW e, Loose(p)
    PROVE  /\ DOMAIN Tell(p, e) = RunnerFields
           /\ Tell(p, e).told = Append(p.told, e)
           /\ \A f \in RunnerFields \ {"told"} : Tell(p, e)[f] = p[f]
           /\ Loose(Tell(p, e))
           /\ Runner(p) => Runner(Tell(p, e))
<1> DEFINE q == Tell(p, e)
<1>1. /\ DOMAIN q = RunnerFields /\ q.told = Append(p.told, e)
      /\ \A f \in RunnerFields \ {"told"} : q[f] = p[f]
  BY DEF Tell, Loose, RunnerFields
<1>2. IsList(q.told)
  BY <1>1, Appended DEF Loose
<1> HIDE DEF q
<1>3. /\ q.running = p.running /\ q.command = p.command /\ q.url = p.url
      /\ q.session = p.session /\ q.odd = p.odd
  BY <1>1 DEF RunnerFields
<1>4. Loose(q)
  BY <1>1, <1>2, <1>3 DEF Loose, HasSession
<1>5. Runner(p) => Runner(q)
  BY <1>1, <1>2, <1>3 DEF Runner, HasSession, Linked
<1> QED BY <1>1, <1>4, <1>5 DEF q

(* Whatever it did before, a runner whose channel is closed listens to no     *)
(* session.                                                                   *)
LEMMA ClosedKeeps ==
    ASSUME NEW p, Loose(p)
    PROVE  LET q == onChannelClosed(p) IN
           /\ Runner(q) /\ ~q.running /\ (HasSession(q) <=> HasSession(p))
           /\ HasSession(p) => q.session.con = p.session.con
<1> DEFINE s == IF HasSession(p) THEN [p.session EXCEPT !.linked = FALSE, !.doomed = TRUE]
                                 ELSE p.session
           r == [p EXCEPT !.session = s, !.executing = FALSE, !.running = FALSE]
           q == onChannelClosed(p)
<1>1. HasSession(p) => /\ SessionShape(s) /\ ~s.linked /\ s.doomed /\ s.con = p.session.con
                       /\ s # NoSession
  <2> SUFFICES ASSUME HasSession(p)
               PROVE  /\ SessionShape(s) /\ ~s.linked /\ s.doomed /\ s.con = p.session.con
                      /\ s # NoSession
    OBVIOUS
  <2>1. SessionShape(p.session)
    BY DEF Loose
  <2>2. DOMAIN s = SessionFields /\ s.linked = FALSE /\ s.doomed = TRUE /\ s.con = p.session.con
    BY <2>1 DEF SessionShape, SessionFields
  <2> HIDE DEF s
  <2> QED BY <2>1, <2>2, SessionIsNone DEF SessionShape
<1>2. ~HasSession(p) => s = NoSession
  BY DEF HasSession
<1> HIDE DEF s
<1>3. DOMAIN r = RunnerFields /\ r.session = s /\ r.running = FALSE /\ r.told = p.told
  BY DEF Loose, RunnerFields
<1>4. q = Tell(r, Finished(r)) \/ q = Tell(r, Finished(p))
  BY DEF onChannelClosed, r, s
<1> HIDE DEF r, q
<1>5. Runner(r) /\ Loose(r)
  BY <1>1, <1>2, <1>3 DEF Runner, Loose, HasSession, Linked
<1>6. Runner(q) /\ q.session = r.session /\ q.running = r.running
  BY <1>4, <1>5, TellKeeps DEF RunnerFields
<1>7. HasSession(q) <=> HasSession(p)
  BY <1>1, <1>2, <1>3, <1>6 DEF HasSession
<1> QED BY <1>1, <1>3, <1>6, <1>7 DEF q

LEMMA CancelKeeps ==
    ASSUME NEW p, Runner(p)
    PROVE  /\ Runner(cancel(p))
           /\ ~p.running => ~cancel(p).running
<1> DEFINE q == onChannelClosed(p)
           e == [signal |-> "canceled"]
<1>1. Loose(p) /\ Runner(q) /\ ~q.running
  BY RunnerIsLoose, ClosedKeeps
<1> HIDE DEF q, e
<1>2. Loose(q)
  BY <1>1, RunnerIsLoose
<1>3. Runner(Tell(q, e)) /\ Tell(q, e).running = q.running
  BY <1>1, <1>2, TellKeeps DEF RunnerFields
<1>4. cancel(p) \in {p, Tell(q, e)}
  BY DEF cancel, q, e
<1> QED BY <1>1, <1>3, <1>4

LEMMA SetCommandKeeps ==
    ASSUME NEW p, NEW command, Runner(p)
    PROVE  /\ Runner(setCommand(p, command))
           /\ ~p.running => ~setCommand(p, command).running
<1> DEFINE q == [p EXCEPT !.command = command]
<1>1. CASE p.running
  BY <1>1 DEF setCommand
<1>2. CASE ~p.running
  <2>1. /\ DOMAIN q = RunnerFields /\ q.running = p.running /\ q.session = p.session
        /\ q.told = p.told /\ q.odd = p.odd
    BY DEF Runner, RunnerFields
  <2>2. setCommand(p, command) = q
    BY <1>2 DEF setCommand
  <2> HIDE DEF q
  <2>3. HasSession(q) <=> HasSession(p)
    BY <2>1 DEF HasSession
  <2>4. Runner(q)
    BY <1>2, <2>1, <2>3 DEF Runner
  <2> QED BY <1>2, <2>1, <2>2, <2>4
<1> QED BY <1>1, <1>2

LEMMA SetSettingsKeeps ==
    ASSUME NEW p, NEW host, Runner(p), ~p.running
    PROVE  Runner(setSettings(p, host)) /\ ~setSettings(p, host).running
<1> DEFINE c == cancel(p)
           q == [c EXCEPT !.server = host]
<1>1. Runner(c) /\ ~c.running
  BY CancelKeeps
<1>2. setSettings(p, host) \in {p, q}
  BY DEF setSettings
<1> HIDE DEF c
<1>3. /\ DOMAIN q = RunnerFields /\ q.running = c.running /\ q.session = c.session
      /\ q.told = c.told /\ q.odd = c.odd
  BY <1>1 DEF Runner, RunnerFields
<1> HIDE DEF q
<1>4. HasSession(q) <=> HasSession(c)
  BY <1>3 DEF HasSession
<1>5. Runner(q)
  BY <1>1, <1>3, <1>4 DEF Runner
<1> QED BY <1>1, <1>2, <1>3, <1>5

(* A runner that did not run connects a new session, or takes an old one that *)
(* is to be deleted.                                                          *)
LEMMA ConnectedKeeps ==
    ASSUME NEW p, NEW host, NEW q \in Connected(p, host),
           Loose(p), HasSession(p), p.session.linked => p.session = NewSession(host),
           ~p.session.linked => p.session.doomed
    PROVE  Runner(q)
<1> DEFINE s == p.session
           given == [s EXCEPT !.host = IF s.con.phase = "closed" THEN host ELSE @]
           Next1(con) == [given EXCEPT !.con = con]
           Odd(con) == (IF s.doomed THEN {"reused"} ELSE {})
                       \cup (IF con.phase = "closed" THEN {"refused"} ELSE {})
           Result(con) == [p EXCEPT !.exit = -1, !.url = host, !.running = TRUE,
                              !.session = Next1(con), !.odd = Odd(con)]
<1>1. PICK con \in (IF s.con.phase # "closed" THEN {s.con} ELSE Contracts!Connect(s.con)) :
         q = Result(con)
  BY DEF Connected
<1> DEFINE n == Next1(con)
           odd == Odd(con)
<1>2. SessionShape(s)
  BY DEF Loose
<1>3. /\ con \in ContractSet /\ (con.notice => con.phase = "closed")
      /\ s.con.phase # "closed" => con = s.con
      /\ s.con.phase = "closed" => con.phase \in {"closed", "coming"} /\ (~s.con.error => ~con.error)
  <2>1. CASE s.con.phase # "closed"
    BY <1>1, <1>2, <2>1 DEF SessionShape
  <2>2. CASE s.con.phase = "closed"
    BY <1>1, <1>2, <2>2, ConnectGives DEF SessionShape
  <2> QED BY <2>1, <2>2
<1>4. /\ DOMAIN n = SessionFields /\ n.con = con /\ n.linked = s.linked /\ n.doomed = s.doomed
      /\ n.exec = s.exec /\ n.host = (IF s.con.phase = "closed" THEN host ELSE s.host)
  BY <1>2 DEF SessionShape, SessionFields
<1>5. s.linked => /\ s.con.phase = "closed" /\ ~s.con.error /\ s.exec = NoCommand /\ ~s.doomed
  BY DEF NewSession, Contracts!Fresh
<1>6. odd = {} => ~s.doomed /\ con.phase # "closed"
  OBVIOUS
<1> HIDE DEF Next1, Odd
<1>7. /\ DOMAIN q = RunnerFields /\ q.url = host /\ q.running = TRUE /\ q.session = n
      /\ q.odd = odd /\ q.told = p.told /\ q.command = p.command
  BY <1>1 DEF Loose, RunnerFields
<1> HIDE DEF s, n, odd
<1>8. SessionShape(n) /\ n # NoSession
  BY <1>2, <1>3, <1>4, SessionIsNone DEF SessionShape
<1>9. HasSession(q) /\ q.session = n /\ (Linked(q) <=> s.linked)
  BY <1>4, <1>7, <1>8 DEF HasSession, Linked
<1>10. ~s.linked => s.doomed
  BY DEF s
<1>11. s.linked \in BOOLEAN /\ s.doomed \in BOOLEAN /\ IsList(q.told)
  BY <1>2, <1>7 DEF SessionShape, Loose
<1>12. (q.running /\ q.odd = {}) => /\ Linked(q) /\ ~q.session.doomed
                                    /\ q.session.con.phase \in {"coming", "ready", "closing"}
  BY <1>3, <1>4, <1>5, <1>6, <1>7, <1>9, <1>10, <1>11
<1>13. n.linked => ~n.con.error /\ n.host = q.url /\ n.exec = NoCommand
  BY <1>3, <1>4, <1>5, <1>7
<1> QED BY <1>4, <1>7, <1>8, <1>9, <1>10, <1>11, <1>12, <1>13 DEF Runner

LEMMA StartKeeps ==
    ASSUME NEW p, NEW host, NEW r \in start(p, host), Runner(p)
    PROVE  Runner(r)
<1> DEFINE q == setSettings(p, host)
           n == [q EXCEPT !.session = NewSession(host)]
<1>1. CASE p.running
  BY <1>1 DEF start
<1>2. CASE ~p.running
  <2>1. Runner(q) /\ ~q.running
    BY <1>2, SetSettingsKeeps
  <2>2. \/ ~HasSession(q) /\ r \in Connected(n, host)
        \/ r = q
        \/ HasSession(q) /\ r \in Connected(q, host)
    BY <1>2 DEF start
  <2> HIDE DEF q
  <2>3. Loose(q)
    BY <2>1, RunnerIsLoose
  <2>4. CASE ~HasSession(q) /\ r \in Connected(n, host)
    <3> DEFINE s == NewSession(host)
    <3>1. SessionShape(s) /\ s.linked = TRUE
      BY DEF NewSession, SessionShape, SessionFields, ContractSet, Phases, Contracts!Fresh
    <3>2. DOMAIN n = RunnerFields /\ n.session = s /\ n.running = q.running /\ n.told = q.told
      BY <2>3 DEF Loose, RunnerFields
    <3>3. s = NewSession(host)
      OBVIOUS
    <3> HIDE DEF n, s
    <3>4. Loose(n) /\ HasSession(n)
      BY <2>3, <3>1, <3>2, SessionIsNone DEF Loose, HasSession
    <3> QED BY <2>4, <3>1, <3>2, <3>3, <3>4, ConnectedKeeps
  <2>5. CASE HasSession(q) /\ r \in Connected(q, host)
    <3>1. ~q.session.linked /\ q.session.doomed
      BY <2>1, <2>5 DEF Runner, SessionShape
    <3> QED BY <2>3, <2>5, <3>1, ConnectedKeeps
  <2> QED BY <2>1, <2>2, <2>4, <2>5
<1> QED BY <1>1, <1>2

LEMMA ExecuteSshKeeps ==
    ASSUME NEW p, NEW s, NEW command, NEW q \in executeSsh(p, s, command), Runner(p)
    PROVE  Runner(q)
<1>1. Runner(setCommand(cancel(p), command))
  BY CancelKeeps, SetCommandKeeps
<1> QED BY <1>1, StartKeeps DEF executeSsh

LEMMA ErrorKeeps ==
    ASSUME NEW p, Loose(p)
    PROVE  Runner(onLastErrorChanged(p))
<1> DEFINE q == onChannelClosed(p)
<1>1. Runner(q)
  BY ClosedKeeps
<1>2. Loose(q)
  BY <1>1, RunnerIsLoose
<1> HIDE DEF q
<1> QED BY <1>1, <1>2, TellKeeps DEF onLastErrorChanged, q

(* Another session record, and what was odd, in the runner.                   *)
LEMMA WithSession ==
    ASSUME NEW p, NEW s, NEW odd, Loose(p), SessionShape(s)
    PROVE  LET q == [p EXCEPT !.session = s, !.odd = odd] IN
           /\ DOMAIN q = RunnerFields /\ q.session = s /\ q.odd = odd
           /\ q.running = p.running /\ q.command = p.command /\ q.url = p.url
           /\ q.told = p.told /\ HasSession(q) /\ Loose(q)
<1> DEFINE q == [p EXCEPT !.session = s, !.odd = odd]
<1>1. /\ DOMAIN q = RunnerFields /\ q.session = s /\ q.odd = odd /\ q.running = p.running
      /\ q.command = p.command /\ q.url = p.url /\ q.told = p.told
  BY DEF Loose, RunnerFields
<1> HIDE DEF q
<1> QED BY <1>1, SessionIsNone DEF Loose, HasSession, q

(* The session changes, and the runner hears of it if it listens.             *)
LEMMA ChangedKeeps ==
    ASSUME NEW p, Runner(p), HasSession(p), NEW con \in Contracts!Change(p.session.con),
           NEW r \in Changed(p, con)
    PROVE  Runner(r)
<1> DEFINE was == p.session.con
           s == [p.session EXCEPT !.con = con, !.exec = IF con.chans THEN @ ELSE NoCommand,
                                  !.doomed = @ \/ (was.notice /\ ~con.notice)]
           odd == p.odd \cup (IF con.phase = "closed" THEN {"silent"} ELSE {})
           q == [p EXCEPT !.session = s, !.odd = odd]
<1>1. SessionShape(p.session) /\ Loose(p)
  BY RunnerIsLoose DEF Runner
<1>2. /\ con \in ContractSet /\ (con.notice => con.phase = "closed")
      /\ was.phase \in {"coming", "ready", "closing"} =>
            ~was.notice /\ (con.phase = "failed" => con.error)
  BY <1>1, ChangeGives DEF SessionShape
<1>3. /\ DOMAIN s = SessionFields /\ s.con = con /\ s.linked = p.session.linked
      /\ s.host = p.session.host /\ s.exec \in {p.session.exec, NoCommand}
      /\ s.doomed = (p.session.doomed \/ (was.notice /\ ~con.notice))
  BY <1>1 DEF SessionShape, SessionFields
<1>4. \/ ~p.session.linked /\ r = q
      \/ p.session.linked /\ con.error /\ ~was.error /\ r = onLastErrorChanged(q)
      \/ p.session.linked /\ ~(con.error /\ ~was.error) /\ r = q
      \/ p.session.linked /\ ~(con.error /\ ~was.error) /\ r \in onStateChanged(q)
  <2> DEFINE w == [p EXCEPT !.session.con = con,
                            !.session.exec = IF con.chans THEN @ ELSE NoCommand,
                            !.session.doomed = @ \/ (was.notice /\ ~con.notice),
                            !.odd = odd]
  <2>1. w = q
    BY <1>1 DEF Loose, RunnerFields, SessionShape, SessionFields
  <2>2. w = [p EXCEPT !.session.con = con,
                      !.session.exec = IF con.chans THEN @ ELSE NoCommand,
                      !.session.doomed = @ \/ (was.notice /\ ~con.notice),
                      !.odd = @ \cup (IF con.phase = "closed" THEN {"silent"} ELSE {})]
    BY <1>1 DEF Loose, RunnerFields, odd
  <2> HIDE DEF q, odd
  <2>3. Changed(p, con) =
           IF ~p.session.linked THEN {w}
           ELSE IF con.error /\ ~was.error THEN {onLastErrorChanged(w)}
           ELSE IF con.phase = "ready" /\ was.phase # "ready" THEN onStateChanged(w)
           ELSE {w}
    BY <2>2 DEF Changed
  <2> HIDE DEF w, was
  <2> QED BY <1>1, <2>1, <2>3 DEF SessionShape
<1> HIDE DEF s
<1>5. SessionShape(s)
  BY <1>1, <1>2, <1>3 DEF SessionShape
<1> HIDE DEF odd
<1>6. /\ DOMAIN q = RunnerFields /\ q.session = s /\ q.odd = odd
      /\ q.running = p.running /\ q.command = p.command /\ q.url = p.url
      /\ q.told = p.told /\ HasSession(q) /\ Loose(q)
  BY <1>1, <1>5, WithSession
<1> HIDE DEF q, was
<1>7. ASSUME ~(p.session.linked /\ con.error /\ ~was.error) PROVE Runner(q)
  <2>1. p.session.linked => ~was.error /\ ~con.error
    BY <1>7 DEF Runner, was
  <2>2. ~s.linked => s.doomed
    BY <1>3 DEF Runner
  <2>3. s.linked => /\ q.running /\ ~s.con.error /\ s.host = q.url
                    /\ s.exec \in {NoCommand, q.command}
    BY <1>3, <1>6, <2>1 DEF Runner
  <2>4. (q.running /\ q.odd = {}) => /\ Linked(q) /\ ~s.doomed
                                     /\ s.con.phase \in {"coming", "ready", "closing"}
    <3> SUFFICES ASSUME q.running, q.odd = {}
                 PROVE  /\ Linked(q) /\ ~s.doomed
                        /\ s.con.phase \in {"coming", "ready", "closing"}
      OBVIOUS
    <3>1. p.running /\ p.odd = {} /\ con.phase # "closed"
      BY <1>6 DEF odd
    <3>2. p.session.linked /\ ~p.session.doomed /\ was.phase \in {"coming", "ready", "closing"}
      BY <3>1 DEF Runner, Linked, was
    <3>3. con.phase # "failed"
      BY <1>2, <2>1, <3>2
    <3>4. con.phase \in Phases
      BY <1>2 DEF ContractSet
    <3>5. s.con.phase \in {"coming", "ready", "closing"}
      BY <1>3, <3>1, <3>3, <3>4 DEF Phases
    <3> QED BY <1>2, <1>3, <1>6, <3>2, <3>5 DEF Linked
  <2> QED BY <1>5, <1>6, <2>2, <2>3, <2>4 DEF Runner, Loose
<1>8. CASE r = q /\ ~(p.session.linked /\ con.error /\ ~was.error)
  BY <1>7, <1>8
<1>9. CASE r = onLastErrorChanged(q)
  BY <1>6, <1>9, ErrorKeeps
<1>10. CASE r \in onStateChanged(q) /\ ~(p.session.linked /\ con.error /\ ~was.error)
           /\ p.session.linked
  <2> DEFINE c == [s.con EXCEPT !.chans = TRUE]
             n == [s EXCEPT !.exec = q.command, !.con = c]
             o == [q EXCEPT !.session = n, !.odd = q.odd]
  <2>1. Runner(q)
    BY <1>7, <1>10
  <2>2. r = q \/ r = o
    <3>1. [q EXCEPT !.session.exec = q.command, !.session.con.chans = TRUE] = o
      BY <1>5, <1>6 DEF RunnerFields, SessionShape, SessionFields
    <3> QED BY <1>10, <3>1 DEF onStateChanged
  <2>3. /\ c \in ContractSet /\ (c.notice => c.phase = "closed")
        /\ c.error = s.con.error /\ c.phase = s.con.phase
    BY <1>5 DEF SessionShape, ContractSet
  <2> HIDE DEF c
  <2>4. /\ DOMAIN n = SessionFields /\ n.con = c /\ n.exec = q.command /\ n.linked = s.linked
        /\ n.doomed = s.doomed /\ n.host = s.host
    BY <1>5 DEF SessionShape, SessionFields
  <2> HIDE DEF n
  <2>5. SessionShape(n)
    BY <1>5, <2>3, <2>4 DEF SessionShape
  <2>6. /\ DOMAIN o = RunnerFields /\ o.session = n /\ o.odd = q.odd
        /\ o.running = q.running /\ o.command = q.command /\ o.url = q.url
        /\ o.told = q.told /\ HasSession(o) /\ Loose(o)
    BY <1>6, <2>5, WithSession
  <2> HIDE DEF o
  <2>7. Runner(o)
    BY <1>6, <2>1, <2>3, <2>4, <2>5, <2>6 DEF Runner, Linked, Loose
  <2> QED BY <2>1, <2>2, <2>7
<1> QED BY <1>4, <1>8, <1>9, <1>10

LEMMA ChannelKeeps ==
    ASSUME NEW p, Runner(p), NEW code
    PROVE  /\ Runner(onChannelOpened(p)) /\ Runner(exitStatusChanged(p, code))
           /\ HasSession(p) => Runner(channelClosed(p))
           /\ Runner(lateChannelClosed(p))
           /\ HasSession(p) /\ p.session.doomed => Runner(deleteSession(p))
           /\ Runner(Quiet(p)) /\ Quiet(p).told = <<>>
<1>1. Loose(p)
  BY RunnerIsLoose
<1>2. ASSUME NEW q, DOMAIN q = RunnerFields, q.running = p.running, q.session = p.session,
             q.odd = p.odd, q.command = p.command, q.url = p.url, IsList(q.told)
      PROVE  Runner(q)
  BY <1>2 DEF Runner, HasSession, Linked
<1>3. Runner(onChannelOpened(p))
  <2> DEFINE q == onChannelOpened(p)
  <2>1. /\ DOMAIN q = RunnerFields /\ q.running = p.running /\ q.session = p.session
        /\ q.odd = p.odd /\ q.command = p.command /\ q.url = p.url /\ q.told = p.told
    BY <1>1 DEF Loose, RunnerFields, onChannelOpened
  <2> HIDE DEF q
  <2>2. Runner(q)
    BY <1>1, <1>2, <2>1 DEF Loose
  <2> QED BY <2>2 DEF q
<1>4. Runner(exitStatusChanged(p, code))
  <2> DEFINE q == exitStatusChanged(p, code)
  <2>1. /\ DOMAIN q = RunnerFields /\ q.running = p.running /\ q.session = p.session
        /\ q.odd = p.odd /\ q.command = p.command /\ q.url = p.url /\ q.told = p.told
    BY <1>1 DEF Loose, RunnerFields, exitStatusChanged
  <2> HIDE DEF q
  <2>2. Runner(q)
    BY <1>1, <1>2, <2>1 DEF Loose
  <2> QED BY <2>2 DEF q
<1>5. Runner(Quiet(p)) /\ Quiet(p).told = <<>>
  <2> DEFINE q == Quiet(p)
  <2>1. /\ DOMAIN q = RunnerFields /\ q.running = p.running /\ q.session = p.session
        /\ q.odd = p.odd /\ q.command = p.command /\ q.url = p.url /\ q.told = <<>>
    BY <1>1 DEF Loose, RunnerFields, Quiet
  <2> HIDE DEF q
  <2>2. IsList(<<>>)
    BY DEF IsList, Range
  <2>3. Runner(q)
    BY <1>2, <2>1, <2>2
  <2> QED BY <2>1, <2>3 DEF q
<1>6. ASSUME HasSession(p) PROVE Runner(channelClosed(p))
  <2> DEFINE s == [p.session EXCEPT !.exec = NoCommand]
             q == [p EXCEPT !.late = p.late + 1, !.session = s]
  <2>1. SessionShape(p.session)
    BY <1>6 DEF Runner
  <2>2. /\ DOMAIN s = SessionFields /\ s.con = p.session.con /\ s.exec = NoCommand
        /\ s.linked = p.session.linked /\ s.doomed = p.session.doomed
        /\ s.host = p.session.host
    BY <2>1 DEF SessionShape, SessionFields
  <2>3. channelClosed(p) = q
    BY <1>1 DEF channelClosed, Loose, RunnerFields
  <2> HIDE DEF s
  <2>4. /\ DOMAIN q = RunnerFields /\ q.running = p.running /\ q.session = s
        /\ q.odd = p.odd /\ q.command = p.command /\ q.url = p.url /\ q.told = p.told
    BY <1>1 DEF Loose, RunnerFields
  <2> HIDE DEF q
  <2>5. SessionShape(s) /\ HasSession(q)
    BY <2>1, <2>2, <2>4, SessionIsNone DEF SessionShape, HasSession
  <2>6. Runner(q)
    BY <1>6, <2>2, <2>4, <2>5 DEF Runner, Linked
  <2> QED BY <2>3, <2>6
<1>7. Runner(lateChannelClosed(p))
  <2> DEFINE q == [p EXCEPT !.late = p.late - 1]
  <2>1. DOMAIN q = RunnerFields /\ q.running = p.running /\ q.session = p.session /\ q.told = p.told
    BY <1>1 DEF Loose, RunnerFields
  <2>2. lateChannelClosed(p) = onChannelClosed(q)
    BY <1>1 DEF lateChannelClosed, Loose, RunnerFields
  <2> HIDE DEF q
  <2>3. Loose(q)
    BY <1>1, <2>1 DEF Loose, HasSession
  <2> QED BY <2>2, <2>3, ClosedKeeps
<1>8. ASSUME HasSession(p), p.session.doomed PROVE Runner(deleteSession(p))
  <2> DEFINE q == deleteSession(p)
  <2>1. /\ DOMAIN q = RunnerFields /\ q.running = p.running /\ q.session = NoSession
        /\ q.odd = p.odd /\ q.told = p.told
    BY <1>1 DEF Loose, RunnerFields, deleteSession
  <2> HIDE DEF q
  <2>2. ~(p.running /\ p.odd = {})
    BY <1>8 DEF Runner
  <2>3. Runner(q)
    BY <1>1, <2>1, <2>2 DEF Runner, Loose, HasSession
  <2> QED BY <2>3 DEF q
<1> QED BY <1>3, <1>4, <1>5, <1>6, <1>7, <1>8

--------------------------------------------------------------------------------
(* The machines.                                                              *)

LEMMA MachineIsOne == \A m : Machine(m) => m # NoMachine
<1>1. DOMAIN NoMachine = {"alias"} /\ "id" \in MachineFields
  BY DEF NoMachine, MachineFields
<1> QED BY <1>1 DEF Machine

LEMMA KeyParts ==
    ASSUME NEW m, NEW n, Machine(m), Machine(n), objectKey(m) = objectKey(n)
    PROVE  m.id = n.id /\ fileName[m.server] = fileName[n.server]
BY NamesAssumption DEF Machine, objectKey

LEMMA CurrentKeeps ==
    ASSUME NEW v, NEW m, Sound(v), m \in v.map,
           v.asked = NoKey \/ objectKey(m) = v.asked
    PROVE  LET u == [v EXCEPT !.current = m] IN
           Orderly(u) /\ u.map = v.map /\ u.asked = v.asked
<1> DEFINE u == [v EXCEPT !.current = m]
<1>1. /\ DOMAIN u = ManagerFields /\ u.map = v.map /\ u.current = m
      /\ u.create = v.create /\ u.asked = v.asked
  BY DEF Sound, ManagerFields
<1> HIDE DEF u
<1>2. Machine(m) /\ m # NoMachine
  BY MachineIsOne DEF Sound
<1>3. isValid(u) /\ Sound(u)
  BY <1>1, <1>2 DEF Sound, isValid
<1> QED BY <1>1, <1>3 DEF Orderly, u

LEMMA SetCurrentKeeps ==
    ASSUME NEW v, NEW key, NEW u \in setCurrent(v, key), Sound(v), v.asked = NoKey
    PROVE  Orderly(u) /\ u.map = v.map
<1>1. CASE At(v, key) # {}
  <2>1. PICK m \in At(v, key) :
           u = IF m.alias = v.current.alias THEN v ELSE [v EXCEPT !.current = m]
    BY <1>1 DEF setCurrent
  <2>2. m \in v.map
    BY DEF At
  <2>3. Orderly([v EXCEPT !.current = m]) /\ [v EXCEPT !.current = m].map = v.map
    BY <2>2, CurrentKeeps
  <2>4. Orderly(v)
    BY <2>2 DEF Orderly
  <2> QED BY <2>1, <2>3, <2>4
<1>2. CASE At(v, key) = {} /\ v.map # {}
  <2>1. PICK m \in v.map : u = [v EXCEPT !.current = m]
    BY <1>2 DEF setCurrent
  <2> QED BY <2>1, CurrentKeeps
<1>3. CASE At(v, key) = {} /\ v.map = {}
  <2>1. u = [v EXCEPT !.current = NoMachine]
    BY <1>3 DEF setCurrent
  <2>2. /\ DOMAIN u = ManagerFields /\ u.map = v.map /\ u.current = NoMachine
        /\ u.create = v.create /\ u.asked = v.asked
    BY <2>1 DEF Sound, ManagerFields
  <2> QED BY <2>2 DEF Sound, Orderly, isValid
<1> QED BY <1>1, <1>2, <1>3

(* The map with a list of the server in it.                                   *)
LEMMA MergedIsMachine ==
    ASSUME NEW v, NEW s, NEW item, item[1] \in Names, Sound(v)
    PROVE  Machine(Merged(v, s, item)) /\ fileName[Merged(v, s, item).server] = fileName[s]
<1> DEFINE key == <<item[1], fileName[s]>>
           old == CHOOSE m \in At(v, key) : TRUE
<1>1. CASE At(v, key) # {}
  <2>1. old \in v.map /\ objectKey(old) = key
    BY <1>1 DEF At
  <2>2. Machine(old) /\ fileName[old.server] = fileName[s]
    BY <2>1 DEF Sound, objectKey
  <2>3. Merged(v, s, item) = [old EXCEPT !.on = item[2]]
    BY <1>1 DEF Merged
  <2> HIDE DEF old
  <2> QED BY <2>2, <2>3 DEF Machine, MachineFields
<1>2. CASE At(v, key) = {}
  BY <1>2, NamesAssumption DEF Merged, Machine, MachineFields
<1> QED BY <1>1, <1>2

LEMMA ListGives ==
    ASSUME NEW v, NEW s, NEW list \in Lists, list # {}, Sound(v)
    PROVE  LET w == WithList(v, s, list) IN
           /\ DOMAIN w = ManagerFields /\ w.current = v.current /\ w.create = v.create
           /\ w.asked = v.asked
           /\ w.map # {} /\ \A m \in w.map : Machine(m)
           /\ \A m : fileName[m.server] # fileName[s] => (m \in w.map <=> m \in v.map)
<1> DEFINE merged == {Merged(v, s, item) : item \in list}
           map == {m \in v.map : fileName[m.server] = fileName[s] => m.id = NoId} \cup merged
           w == WithList(v, s, list)
<1>1. w = [v EXCEPT !.map = map, !.bare = {key \in v.bare : key[2] # fileName[s]}]
  BY DEF WithList, Sound, ManagerFields
<1>2. \A item \in list : item[1] \in Names
  BY DEF Lists
<1>3. \A m \in merged : Machine(m) /\ fileName[m.server] = fileName[s]
  BY <1>2, MergedIsMachine
<1>4. merged # {}
  OBVIOUS
<1> HIDE DEF merged, w
<1>5. map # {} /\ \A m \in map : Machine(m)
  BY <1>3, <1>4 DEF Sound
<1>6. \A m : fileName[m.server] # fileName[s] => (m \in map <=> m \in v.map)
  BY <1>3
<1> HIDE DEF map
<1>7. /\ DOMAIN w = ManagerFields /\ w.current = v.current /\ w.create = v.create
      /\ w.asked = v.asked /\ w.map = map
  BY <1>1 DEF Sound, ManagerFields
<1> QED BY <1>5, <1>6, <1>7 DEF w

LEMMA ClusterKeeps ==
    ASSUME NEW v, NEW s, NEW list \in Lists, NEW u \in parseCluster(v, s, list), Orderly(v)
    PROVE  Orderly(u)
<1> DEFINE w == WithList(v, s, list)
           listed == {m \in w.map : fileName[m.server] = fileName[s] /\ IsCurrent(v, objectKey(m))}
<1>1. CASE list = {}
  BY <1>1 DEF parseCluster
<1>2. CASE list # {}
  <2> HIDE DEF w
  <2>1. /\ DOMAIN w = ManagerFields /\ w.current = v.current /\ w.create = v.create
        /\ w.asked = v.asked
        /\ w.map # {} /\ \A m \in w.map : Machine(m)
        /\ \A m : fileName[m.server] # fileName[s] => (m \in w.map <=> m \in v.map)
    BY <1>2, ListGives DEF Orderly, w
  <2>2. \/ listed # {} /\ u \in {[w EXCEPT !.current = m] : m \in listed}
        \/ listed = {} /\ v.map = {} /\ u \in FirstOf(w, s)
        \/ listed = {} /\ u = w
    BY <1>2 DEF parseCluster, w
  <2>3. CASE listed # {} /\ u \in {[w EXCEPT !.current = m] : m \in listed}
    <3>1. PICK m \in listed : u = [w EXCEPT !.current = m]
      BY <2>3
    <3>2. m \in w.map /\ isValid(v) /\ objectKey(v.current) = objectKey(m)
      BY DEF IsCurrent
    <3>3. /\ DOMAIN u = ManagerFields /\ u.current = m /\ u.create = w.create
          /\ u.asked = w.asked /\ u.map = w.map
      BY <2>1, <3>1 DEF ManagerFields
    <3>4. Machine(m) /\ m # NoMachine
      BY <2>1, <3>2, MachineIsOne
    <3> QED BY <2>1, <3>2, <3>3, <3>4 DEF Orderly, Sound, isValid
  <2>4. CASE listed = {} /\ v.map = {} /\ u \in FirstOf(w, s)
    <3>1. ~isValid(w) /\ w.asked = NoKey
      BY <2>1, <2>4 DEF Orderly, Sound, isValid
    <3>2. Sound(w)
      BY <2>1, <3>1 DEF Orderly, Sound
    <3>3. PICK m : u \in setCurrent(w, objectKey(m))
      BY <2>4 DEF FirstOf
    <3> QED BY <3>1, <3>2, <3>3, SetCurrentKeeps
  <2>5. CASE listed = {} /\ u = w
    <3>1. ASSUME isValid(w), At(w, objectKey(w.current)) # {} PROVE w.current \in w.map
      <4> DEFINE c == v.current
      <4>1. PICK n \in w.map : objectKey(n) = objectKey(c)
        BY <2>1, <3>1 DEF At
      <4>2. isValid(v) /\ Machine(c) /\ Machine(n)
        BY <2>1, <3>1 DEF Orderly, Sound, isValid
      <4>3. fileName[n.server] = fileName[c.server]
        BY <4>1, <4>2, KeyParts
      <4>4. fileName[n.server] # fileName[s]
        BY <2>5, <4>1, <4>2 DEF IsCurrent
      <4>5. n \in v.map
        BY <2>1, <4>4
      <4>6. c \in v.map
        BY <4>1, <4>2, <4>5 DEF Orderly, Sound, At
      <4> QED BY <2>1, <4>3, <4>4, <4>6
    <3>2. isValid(w) <=> isValid(v)
      BY <2>1 DEF isValid
    <3>3. Sound(w)
      BY <2>1, <3>1, <3>2 DEF Orderly, Sound
    <3> QED BY <2>1, <2>5, <3>3 DEF Orderly
  <2> QED BY <2>2, <2>3, <2>4, <2>5
<1> QED BY <1>1, <1>2

LEMMA ProgressKeeps ==
    ASSUME NEW v, NEW n, Orderly(v)
    PROVE  LET u == [v EXCEPT !.progress = n] IN
           Orderly(u) /\ u.map = v.map /\ u.current = v.current /\ u.asked = v.asked
                      /\ u.create = v.create
<1> DEFINE u == [v EXCEPT !.progress = n]
<1>1. /\ DOMAIN u = ManagerFields /\ u.map = v.map /\ u.current = v.current
      /\ u.create = v.create /\ u.asked = v.asked
  BY DEF Orderly, Sound, ManagerFields
<1> HIDE DEF u
<1> QED BY <1>1 DEF Orderly, Sound, isValid, At, u

(* A template becomes a machine.                                              *)
LEMMA CreateKeeps ==
    ASSUME NEW v, NEW s, NEW id \in NewIds(v, s), NEW u \in parseCreate(v, s, id), Orderly(v)
    PROVE  Orderly(u)
<1>1. CASE At(v, <<Template, fileName[s]>>) = {}
  BY <1>1 DEF parseCreate
<1>2. CASE At(v, <<Template, fileName[s]>>) # {}
  <2> DEFINE Created(n) == [n EXCEPT !.id = IF id # NoId THEN id ELSE n.alias]
             U(n) == [v EXCEPT !.map = Put(@ \ {n}, Created(n)),
                        !.bare = @ \ {objectKey(Created(n))},
                        !.asked = IF @ = objectKey(n) THEN objectKey(Created(n)) ELSE @]
             T(n) == [U(n) EXCEPT !.current = Created(n), !.progress = IF id # NoId THEN 0 ELSE -1]
  <2>1. PICK m \in At(v, <<Template, fileName[s]>>) :
           u = IF IsCurrent(v, <<Template, fileName[s]>>) THEN T(m) ELSE U(m)
    BY <1>2 DEF parseCreate
  <2> DEFINE k == Created(m)
             map == Put(v.map \ {m}, k)
             asked == IF v.asked = objectKey(m) THEN objectKey(k) ELSE v.asked
             c == v.current
  <2>2. m \in v.map /\ Machine(m) /\ objectKey(m) = <<Template, fileName[s]>>
    BY DEF At, Orderly, Sound
  <2>3. fileName[m.server] = fileName[s] /\ m.id = NoId /\ m.alias \in Names
    BY <2>2, NamesAssumption DEF objectKey, Machine
  <2>4. id \in Names \cup {NoId}
    BY DEF NewIds
  <2>5. /\ DOMAIN k = MachineFields /\ k.id = (IF id # NoId THEN id ELSE m.alias) /\ fileName[k.server] = fileName[s]
        /\ k.id \in Names /\ k.id # NoId
    BY <2>2, <2>3, <2>4, NamesAssumption DEF Machine, MachineFields
  <2>6. /\ DOMAIN U(m) = ManagerFields /\ U(m).map = map /\ U(m).current = c
        /\ U(m).create = v.create /\ U(m).asked = asked
    BY DEF Orderly, Sound, ManagerFields
  <2> HIDE DEF U
  <2>7. /\ DOMAIN T(m) = ManagerFields /\ T(m).map = map /\ T(m).current = k
        /\ T(m).create = v.create /\ T(m).asked = asked
    BY <2>6 DEF ManagerFields
  <2> HIDE DEF T, asked, Created
  <2>8. Machine(k) /\ k # NoMachine
    BY <2>5, MachineIsOne DEF Machine
  <2>9. map = {n \in v.map \ {m} : objectKey(n) # objectKey(k)} \cup {k}
    BY DEF Put
  <2> HIDE DEF map, k
  <2>10. k \in map /\ map # {} /\ \A n \in map : Machine(n)
    BY <2>8, <2>9 DEF Orderly, Sound
  <2>11. NoKey # objectKey(m)
    <3>1. Len(NoKey) = 0 /\ Len(<<Template, fileName[s]>>) = 2
      BY DEF NoKey
    <3> QED BY <2>2, <3>1
  <2>12. CASE IsCurrent(v, <<Template, fileName[s]>>)
    <3>1. u = T(m)
      BY <2>1, <2>12
    <3>2. isValid(v) /\ objectKey(c) = objectKey(m)
      BY <2>2, <2>12 DEF IsCurrent
    <3>3. asked # NoKey => asked = objectKey(k)
      BY <2>11, <3>2 DEF asked, Orderly, Sound
    <3>4. isValid(u) /\ u.current \in u.map
      BY <2>7, <2>8, <2>10, <3>1 DEF isValid
    <3>5. Sound(u)
      BY <2>7, <2>8, <2>10, <3>1, <3>3, <3>4 DEF Orderly, Sound
    <3> QED BY <2>7, <2>10, <3>1, <3>5 DEF Orderly
  <2>13. CASE ~IsCurrent(v, <<Template, fileName[s]>>)
    <3>1. u = U(m)
      BY <2>1, <2>13
    <3>2. isValid(u) <=> isValid(v)
      BY <2>6, <3>1 DEF isValid
    <3>3. isValid(v) => objectKey(c) # objectKey(m)
      BY <2>2, <2>13 DEF IsCurrent
    <3>4. asked = v.asked
      BY <2>11, <3>3 DEF asked, Orderly, Sound
    <3>5. isValid(v) => objectKey(c) # objectKey(k)
      <4> SUFFICES ASSUME isValid(v), objectKey(c) = objectKey(k) PROVE FALSE
        OBVIOUS
      <4>1. c.id = k.id /\ fileName[c.server] = fileName[s]
        BY <2>5, <2>8, KeyParts DEF Orderly, Sound
      <4>2. c \in v.map \cup ({v.current} \ {NoMachine})
        BY DEF isValid
      <4>3. c.id # (IF id = NoId THEN m.alias ELSE id)
        BY <4>1, <4>2 DEF NewIds
      <4> QED BY <2>5, <4>1, <4>3
    <3>6. ASSUME isValid(u), At(u, objectKey(u.current)) # {} PROVE u.current \in u.map
      <4>1. isValid(v) /\ u.current = c /\ u.map = map
        BY <2>6, <3>1, <3>2, <3>6
      <4>2. PICK n \in map : objectKey(n) = objectKey(c)
        BY <3>6, <4>1 DEF At
      <4>3. n \in v.map
        BY <2>9, <3>5, <4>1, <4>2
      <4>4. c \in v.map
        BY <4>1, <4>2, <4>3 DEF At, Orderly, Sound
      <4>5. c # m /\ objectKey(c) # objectKey(k)
        BY <3>3, <3>5, <4>1
      <4> QED BY <2>9, <4>1, <4>4, <4>5
    <3>7. Sound(u)
      BY <2>6, <2>10, <3>1, <3>2, <3>4, <3>6 DEF Orderly, Sound
    <3> QED BY <2>6, <2>10, <3>1, <3>7 DEF Orderly
  <2> QED BY <2>12, <2>13
<1> QED BY <1>1, <1>2

(* The power of a machine.                                                    *)
LEMMA StatusKeeps ==
    ASSUME NEW v, NEW s, NEW name, NEW status, Orderly(v)
    PROVE  LET u == parseStatus(v, s, name, status) IN Orderly(u) /\ Known(u) = Known(v)
<1> DEFINE u == parseStatus(v, s, name, status)
           K == <<name, fileName[s]>>
           bare == IF At(v, K) = {} THEN v.bare \cup {K} ELSE v.bare
           Told(m) == IF status = "over" THEN m ELSE [m EXCEPT !.on = (status = "on")]
           map == {IF objectKey(m) = K THEN Told(m) ELSE m : m \in v.map}
           w == [v EXCEPT !.map = map, !.bare = bare, !.current = Told(v.current), !.progress = -1]
<1>1. \/ u = v
      \/ u = [v EXCEPT !.progress = 1]
      \/ isValid(v) /\ objectKey(v.current) = K /\ u = w
  BY DEF parseStatus, IsCurrent, Orderly, Sound, ManagerFields
<1>2. CASE u = [v EXCEPT !.progress = 1]
  BY <1>2, ProgressKeeps DEF Known
<1>3. CASE isValid(v) /\ objectKey(v.current) = K /\ u = w
  <2>1. \A m : Machine(m) => Machine(Told(m)) /\ objectKey(Told(m)) = objectKey(m)
    BY DEF Machine, MachineFields, objectKey
  <2> HIDE DEF Told
  <2>2. \A m \in v.map : Machine(m)
    BY DEF Orderly, Sound
  <2>3. /\ \A n \in map : Machine(n) /\ \E m \in v.map : objectKey(m) = objectKey(n)
        /\ \A m \in v.map : \E n \in map : objectKey(m) = objectKey(n)
        /\ \A m \in v.map : objectKey(m) = K => Told(m) \in map
        /\ map = {} <=> v.map = {}
    BY <2>1, <2>2
  <2> HIDE DEF map
  <2>4. /\ DOMAIN w = ManagerFields /\ w.map = map /\ w.current = Told(v.current)
        /\ w.create = v.create /\ w.asked = v.asked
    BY DEF Orderly, Sound, ManagerFields
  <2> HIDE DEF w
  <2>5. /\ Machine(v.current) /\ Machine(w.current) /\ objectKey(w.current) = K
        /\ w.current # NoMachine
    BY <1>3, <2>1, <2>4, MachineIsOne DEF Orderly, Sound
  <2>6. ASSUME At(w, objectKey(w.current)) # {} PROVE w.current \in w.map
    <3>1. PICK n \in map : objectKey(n) = K
      BY <2>4, <2>5, <2>6 DEF At
    <3>2. At(v, objectKey(v.current)) # {}
      BY <1>3, <2>3, <3>1 DEF At
    <3> QED BY <1>3, <2>3, <2>4, <3>2 DEF Orderly, Sound
  <2>7. isValid(w) /\ isValid(v)
    BY <1>3, <2>5 DEF isValid
  <2>8. Orderly(w)
    BY <1>3, <2>3, <2>4, <2>5, <2>6, <2>7 DEF Orderly, Sound
  <2>9. Known(w) = Known(v)
    BY <2>3, <2>4 DEF Known
  <2> QED BY <1>3, <2>8, <2>9
<1> QED BY <1>1, <1>2, <1>3

(* A signal of the runner: only a list or a creation changes the map.         *)
LEMMA SignalKeeps ==
    ASSUME NEW v, NEW e, NEW u \in onSignal(v, e), Orderly(v)
    PROVE  Orderly(u) /\ (~Announces(e) => u.map = v.map)
<1>1. \/ u = [v EXCEPT !.progress = -1]
      \/ /\ e.signal = "finished" /\ e.code = 0
         /\ u \in parseCbsdOutput(v, e.command, e.url)
      \/ u = v
  BY DEF onSignal
<1>2. CASE e.signal = "finished" /\ e.code = 0 /\ u \in parseCbsdOutput(v, e.command, e.url)
  <2>1. CASE e.command.op = "cluster"
    <3>1. PICK list \in Lists : u \in parseCluster(v, e.url, list)
      BY <1>2, <2>1 DEF parseCbsdOutput
    <3> QED BY <1>2, <2>1, <3>1, ClusterKeeps DEF Announces
  <2>2. CASE e.command.op = "create"
    <3>1. PICK w \in UNION {parseCreate(v, e.url, id) : id \in NewIds(v, e.url) \cap {NoId}} :
             u = [w EXCEPT !.progress = -1]
      BY <1>2, <2>2 DEF parseCbsdOutput
    <3>2. PICK id \in NewIds(v, e.url) : w \in parseCreate(v, e.url, id)
      BY <3>1
    <3>3. Orderly(w)
      BY <3>2, CreateKeeps
    <3> QED BY <1>2, <2>2, <3>1, <3>3, ProgressKeeps DEF Announces
  <2>3. CASE e.command.op \notin {"cluster", "create"}
    <3>1. u = [v EXCEPT !.progress = -1]
      BY <1>2, <2>3 DEF parseCbsdOutput
    <3> QED BY <3>1, ProgressKeeps
  <2> QED BY <2>1, <2>2, <2>3
<1> QED BY <1>1, <1>2, ProgressKeeps

(* The answer of a web server.                                                *)
LEMMA ResponseKeeps ==
    ASSUME NEW command \in Requests, NEW u \in onResponse(command), Orderly(vm)
    PROVE  Orderly(u) /\ (command.op \notin {"cluster", "create"} => Known(u) = Known(vm))
<1> DEFINE s == command.server
<1>1. CASE command.op = "cluster"
  <2>1. PICK list \in Lists : u \in parseCluster(vm, s, list)
    BY <1>1 DEF onResponse
  <2> QED BY <1>1, <2>1, ClusterKeeps
<1>2. CASE command.op = "create"
  <2>1. PICK id \in NewIds(vm, s) : u \in parseCreate(vm, s, id)
    BY <1>2 DEF onResponse
  <2> QED BY <1>2, <2>1, CreateKeeps
<1>3. CASE command.op = "status"
  <2>1. PICK status : u = parseStatus(vm, s, command.name, status)
    BY <1>3 DEF onResponse
  <2> QED BY <2>1, StatusKeeps
<1>4. CASE command.op \in {"start", "stop"}
  <2>1. u \in {vm, [vm EXCEPT !.progress = 0]}
    BY <1>4 DEF onResponse, parseStartStop
  <2>2. Orderly([vm EXCEPT !.progress = 0]) /\ [vm EXCEPT !.progress = 0].map = vm.map
    BY ProgressKeeps
  <2>3. Orderly(u) /\ u.map = vm.map
    BY <2>1, <2>2
  <2> QED BY <2>3 DEF Known
<1>5. CASE command.op = "destroy"
  <2>1. u = vm
    BY <1>5 DEF onResponse
  <2> QED BY <2>1
<1>6. command.op \in Ops
  BY DEF Requests
<1> QED BY <1>1, <1>2, <1>3, <1>4, <1>5, <1>6 DEF Ops

--------------------------------------------------------------------------------
(* The signals of one event are handled one after the other, and the servers  *)
(* are asked one after the other: both by recursive functions, whose values   *)
(* are found by their least exception.                                        *)

LEMMA Minimal ==
    ASSUME NEW R, IsWellFoundedOn(R, Nat), NEW S, S \subseteq Nat, S # {}
    PROVE  \E m \in S : \A k \in S : ~(<<k, m>> \in R)
BY WFMin

LEMMA LeastOf ==
    ASSUME NEW R, IsWellFoundedOn(R, Nat), \A i, k \in Nat : i < k => <<i, k>> \in R,
           NEW S, S \subseteq Nat, S # {}
    PROVE  \E m \in S : \A k \in S : m <= k
<1>1. PICK m \in S : \A k \in S : ~(<<k, m>> \in R)
  BY Minimal
<1>2. ASSUME NEW k \in S PROVE m <= k
  <2>1. ~(k < m)
    BY <1>1
  <2> QED BY <2>1
<1> QED BY <1>2

LEMMA Least ==
    ASSUME NEW S, S \subseteq Nat, S # {}
    PROVE  \E m \in S : \A k \in S : m <= k
<1> DEFINE R == OpToRel(<, Nat)
<1>1. IsWellFoundedOn(R, Nat)
  BY NatLessThanWellFounded
<1>2. \A i, k \in Nat : i < k => <<i, k>> \in R
  BY DEF OpToRel
<1> HIDE DEF R
<1> QED BY <1>1, <1>2, LeastOf

(* The sets of states after the first i signals.                              *)
Handles(h, n, v, told) ==
    h = [i \in 0..n |-> IF i = 0 THEN {v} ELSE UNION {onSignal(u, told[i]) : u \in h[i - 1]}]

LEMMA SignalsHandled ==
    ASSUME NEW v, NEW told, Len(told) \in Nat
    PROVE  \E h : Handles(h, Len(told), v, told) /\ onSignals(v, told) = h[Len(told)]
<1> DEFINE S == {m \in Nat : ~ \E h : Handles(h, m, v, told)}
<1>1. ASSUME S # {} PROVE FALSE
  <2>1. PICK m \in S : \A k \in S : m <= k
    BY <1>1, Least
  <2>2. CASE m = 0
    <3> DEFINE h == [i \in 0..0 |-> {v}]
    <3>1. Handles(h, 0, v, told)
      BY DEF Handles
    <3> QED BY <2>1, <2>2, <3>1
  <2>3. CASE m # 0
    <3>1. m - 1 \in Nat /\ m - 1 \notin S
      BY <2>1, <2>3
    <3>2. PICK g : Handles(g, m - 1, v, told)
      BY <3>1
    <3> DEFINE Last1 == UNION {onSignal(u, told[m]) : u \in g[m - 1]}
               h == [i \in 0..m |-> IF i = m THEN Last1 ELSE g[i]]
    <3>3. \A i \in 0..m : i # m => i \in 0..(m - 1)
      OBVIOUS
    <3>4. \A i \in 0..m : i # 0 => i - 1 \in 0..m /\ i - 1 # m
      OBVIOUS
    <3>5. ASSUME NEW i \in 0..m
          PROVE  h[i] = IF i = 0 THEN {v} ELSE UNION {onSignal(u, told[i]) : u \in h[i - 1]}
      <4>1. CASE i = m
        <5>1. h[i - 1] = g[m - 1] /\ h[i] = Last1
          BY <3>4, <4>1, <2>3
        <5> HIDE DEF h
        <5> QED BY <4>1, <5>1, <2>3
      <4>2. CASE i # m
        <5>1. h[i] = g[i]
          BY <4>2
        <5>2. g[i] = IF i = 0 THEN {v} ELSE UNION {onSignal(u, told[i]) : u \in g[i - 1]}
          BY <3>2, <3>3, <4>2 DEF Handles
        <5>3. i # 0 => h[i - 1] = g[i - 1]
          BY <3>4
        <5> HIDE DEF h
        <5> QED BY <5>1, <5>2, <5>3
      <4> QED BY <4>1, <4>2
    <3>6. h = [i \in 0..m |-> h[i]]
      OBVIOUS
    <3> HIDE DEF h
    <3>7. Handles(h, m, v, told)
      BY <3>5, <3>6 DEF Handles
    <3> QED BY <2>1, <3>7
  <2> QED BY <2>2, <2>3
<1> DEFINE n == Len(told)
           f == CHOOSE h : Handles(h, n, v, told)
<1>2. \E h : Handles(h, n, v, told)
  BY <1>1
<1>3. Handles(f, n, v, told)
  BY <1>2
<1>4. onSignals(v, told) = f[n]
  BY DEF onSignals, Handles
<1> QED BY <1>3, <1>4

LEMMA SignalsKeep ==
    ASSUME NEW v, NEW told, IsList(told), NEW u \in onSignals(v, told), Orderly(v)
    PROVE  /\ Orderly(u)
           /\ (\A i \in DOMAIN told : ~Announces(told[i])) => u.map = v.map
<1> DEFINE n == Len(told)
<1>1. n \in Nat /\ DOMAIN told = 1 .. n
  BY Appended
<1>2. PICK h : Handles(h, n, v, told) /\ onSignals(v, told) = h[n]
  BY <1>1, SignalsHandled
<1> HIDE DEF n
<1> DEFINE Kept(w) == /\ Orderly(w)
                      /\ (\A i \in DOMAIN told : ~Announces(told[i])) => w.map = v.map
           S == {i \in 0..n : ~ \A w \in h[i] : Kept(w)}
<1>3. ASSUME S # {} PROVE FALSE
  <2>1. PICK m \in S : \A k \in S : m <= k
    <3>1. S \subseteq Nat
      BY <1>1
    <3> HIDE DEF S
    <3> QED BY <1>3, <3>1, Least
  <2>2. PICK w \in h[m] : ~Kept(w)
    BY <2>1
  <2>3. CASE m = 0
    <3>1. h[m] = {v}
      BY <1>2, <2>1, <2>3 DEF Handles
    <3> QED BY <2>2, <3>1
  <2>4. CASE m # 0
    <3>1. m \in 1 .. n /\ m - 1 \in 0 .. n /\ m - 1 \notin S
      BY <1>1, <2>1, <2>4
    <3>2. h[m] = UNION {onSignal(r, told[m]) : r \in h[m - 1]}
      BY <1>2, <2>4, <3>1 DEF Handles
    <3>3. PICK r \in h[m - 1] : w \in onSignal(r, told[m])
      BY <2>2, <3>2
    <3>4. Kept(r)
      BY <3>1, <3>3
    <3>5. Orderly(w) /\ (~Announces(told[m]) => w.map = r.map)
      BY <3>3, <3>4, SignalKeeps
    <3> QED BY <1>1, <2>2, <3>1, <3>4, <3>5
  <2> QED BY <2>3, <2>4
<1>4. n \in 0 .. n /\ u \in h[n]
  BY <1>1, <1>2
<1>5. Kept(u)
  BY <1>3, <1>4
<1> QED BY <1>5

(* The same for the folders.                                                  *)
Start == [sp |-> sp, web |-> web]
Asks(h, n) ==
    h = [i \in 0..n |-> IF i = 0 THEN {Start} ELSE UNION {GetOne(q, Folders[i]) : q \in h[i - 1]}]

LEMMA ServersAsked == \E h : Asks(h, Len(Folders)) /\ GetLists = h[Len(Folders)]
<1> DEFINE S == {m \in Nat : ~ \E h : Asks(h, m)}
<1>1. ASSUME S # {} PROVE FALSE
  <2>1. PICK m \in S : \A k \in S : m <= k
    BY <1>1, Least
  <2>2. CASE m = 0
    <3> DEFINE h == [i \in 0..0 |-> {Start}]
    <3>1. Asks(h, 0)
      BY DEF Asks
    <3> QED BY <2>1, <2>2, <3>1
  <2>3. CASE m # 0
    <3>1. m - 1 \in Nat /\ m - 1 \notin S
      BY <2>1, <2>3
    <3>2. PICK g : Asks(g, m - 1)
      BY <3>1
    <3> DEFINE Last1 == UNION {GetOne(q, Folders[m]) : q \in g[m - 1]}
               h == [i \in 0..m |-> IF i = m THEN Last1 ELSE g[i]]
    <3>3. \A i \in 0..m : i # m => i \in 0..(m - 1)
      OBVIOUS
    <3>4. \A i \in 0..m : i # 0 => i - 1 \in 0..m /\ i - 1 # m
      OBVIOUS
    <3>5. ASSUME NEW i \in 0..m
          PROVE  h[i] = IF i = 0 THEN {Start} ELSE UNION {GetOne(q, Folders[i]) : q \in h[i - 1]}
      <4>1. CASE i = m
        <5>1. h[i - 1] = g[m - 1] /\ h[i] = Last1
          BY <3>4, <4>1, <2>3
        <5> HIDE DEF h
        <5> QED BY <4>1, <5>1, <2>3
      <4>2. CASE i # m
        <5>1. h[i] = g[i]
          BY <4>2
        <5>2. g[i] = IF i = 0 THEN {Start} ELSE UNION {GetOne(q, Folders[i]) : q \in g[i - 1]}
          BY <3>2, <3>3, <4>2 DEF Asks
        <5>3. i # 0 => h[i - 1] = g[i - 1]
          BY <3>4
        <5> HIDE DEF h
        <5> QED BY <5>1, <5>2, <5>3
      <4> QED BY <4>1, <4>2
    <3>6. h = [i \in 0..m |-> h[i]]
      OBVIOUS
    <3> HIDE DEF h
    <3>7. Asks(h, m)
      BY <3>5, <3>6 DEF Asks
    <3> QED BY <2>1, <3>7
  <2> QED BY <2>2, <2>3
<1> DEFINE n == Len(Folders)
           f == CHOOSE h : Asks(h, n)
<1>2. n \in Nat
  BY ServerAssumption
<1>3. \E h : Asks(h, n)
  BY <1>1, <1>2
<1>4. Asks(f, n)
  BY <1>3
<1>5. GetLists = f[n]
  BY DEF GetLists, Asks, Start
<1> QED BY <1>4, <1>5

LEMMA RequestIsOne ==
    ASSUME NEW op \in Ops, NEW s \in Webs, NEW name \in Names \cup {NoId}
    PROVE  Command(op, s, name) \in Requests
BY DEF Command, Requests

LEMMA GetListsKeep ==
    ASSUME NEW r \in GetLists, Runner(sp), web \in Seq(Requests)
    PROVE  Runner(r.sp) /\ r.web \in Seq(Requests)
<1> DEFINE n == Len(Folders)
           Kept(w) == DOMAIN w = {"sp", "web"} /\ Runner(w.sp) /\ w.web \in Seq(Requests)
<1>1. n \in Nat
  BY ServerAssumption
<1>2. PICK h : Asks(h, n) /\ GetLists = h[n]
  BY ServersAsked
<1> HIDE DEF n
<1>3. ASSUME NEW q, Kept(q), NEW s \in Webs \cup Hosts, NEW w \in getList(q, s)
      PROVE  Kept(w)
  <2> DEFINE command == Command("cluster", s, NoId)
  <2>1. CASE s \in Hosts
    <3>1. PICK p \in executeSsh(q.sp, s, command) : w = [q EXCEPT !.sp = p]
      BY <2>1 DEF getList
    <3>2. Runner(p)
      BY <1>3, <3>1, ExecuteSshKeeps
    <3>3. DOMAIN w = {"sp", "web"} /\ w.sp = p /\ w.web = q.web
      BY <1>3, <3>1
    <3> QED BY <1>3, <3>2, <3>3
  <2>2. CASE s \notin Hosts
    <3>1. w = [q EXCEPT !.web = Append(q.web, command)]
      BY <2>2 DEF getList
    <3>2. command \in Requests
      BY <2>2, RequestIsOne DEF Ops
    <3> HIDE DEF command
    <3>3. DOMAIN w = {"sp", "web"} /\ w.sp = q.sp /\ w.web = Append(q.web, command)
      BY <1>3, <3>1
    <3> QED BY <1>3, <3>2, <3>3
  <2> QED BY <2>1, <2>2
<1> DEFINE S == {i \in 0..n : ~ \A w \in h[i] : Kept(w)}
<1>4. ASSUME S # {} PROVE FALSE
  <2>1. PICK m \in S : \A k \in S : m <= k
    <3>1. S \subseteq Nat
      BY <1>1
    <3> HIDE DEF S
    <3> QED BY <1>4, <3>1, Least
  <2>2. PICK w \in h[m] : ~Kept(w)
    BY <2>1
  <2>3. CASE m = 0
    <3>1. h[m] = {Start}
      BY <1>2, <2>1, <2>3 DEF Asks
    <3>2. Kept(Start)
      BY DEF Start
    <3> QED BY <2>2, <3>1, <3>2
  <2>4. CASE m # 0
    <3>1. m \in 1 .. n /\ m - 1 \in 0 .. n /\ m - 1 \notin S
      BY <1>1, <2>1, <2>4
    <3>2. h[m] = UNION {GetOne(q, Folders[m]) : q \in h[m - 1]}
      BY <1>2, <2>4, <3>1 DEF Asks
    <3>3. PICK q \in h[m - 1] : w \in GetOne(q, Folders[m])
      BY <2>2, <3>2
    <3>4. PICK s \in Servers : w \in getList(q, s)
      BY <3>3 DEF GetOne
    <3>5. Kept(q) /\ s \in Webs \cup Hosts
      BY <1>1, <3>1, <3>3 DEF Servers
    <3> HIDE DEF Kept
    <3> QED BY <1>3, <2>2, <3>4, <3>5
  <2> QED BY <2>3, <2>4
<1>5. n \in 0 .. n /\ r \in h[n]
  BY <1>1, <1>2
<1>6. Kept(r)
  BY <1>4, <1>5
<1> QED BY <1>6

--------------------------------------------------------------------------------
(* The actions.                                                               *)

(* The runner becomes p, after the user removed the machines of lost.         *)
LEMMA RunKeeps ==
    ASSUME IInv, NEW p, NEW v, NEW lost, Run(p, v, lost), Runner(p), Orderly(v),
           Known(v) \subseteq Known(vm) \ lost, web' \in Seq(Requests)
    PROVE  IInv'
<1> DEFINE Said == \E i \in DOMAIN p.told : Announces(p.told[i])
<1>1. /\ sp' = Quiet(p) /\ vm' \in onSignals(v, p.told)
      /\ gone' = (gone \cup lost) \ (IF Said THEN Known(vm') ELSE {})
  BY DEF Run
<1>2. Runner(sp') /\ sp'.told = <<>>
  BY <1>1, ChannelKeeps
<1>3. IsList(p.told)
  BY DEF Runner
<1>4. Orderly(vm') /\ (~Said => vm'.map = v.map)
  BY <1>1, <1>3, SignalsKeep
<1> HIDE DEF Said
<1>5. ~Said => Known(vm') = Known(v)
  BY <1>4 DEF Known
<1>6. gone \cap Known(vm) = {}
  BY DEF IInv, RemovedStaysRemoved
<1>7. gone' \cap Known(vm') = {}
  BY <1>1, <1>5, <1>6
<1>8. RemovedStaysRemoved' <=> gone' \cap Known(vm') = {}
  BY DEF RemovedStaysRemoved, Known
<1>9. Runner(sp)' <=> Runner(sp')
  BY DEF Runner, HasSession, Linked, SessionShape, IsList
<1>10. Orderly(vm)' <=> Orderly(vm')
  BY DEF Orderly, Sound, isValid, At, Machine, objectKey
<1> QED BY <1>2, <1>4, <1>7, <1>8, <1>9, <1>10 DEF IInv

(* The runner stays as it is.                                                 *)
LEMMA MachinesKeep ==
    ASSUME IInv, NEW v, vm' = v, UNCHANGED sp, Orderly(v), web' \in Seq(Requests),
           gone' \cap Known(v) = {}
    PROVE  IInv'
<1>1. RemovedStaysRemoved' <=> gone' \cap Known(vm') = {}
  BY DEF RemovedStaysRemoved, Known
<1>2. Runner(sp)' <=> Runner(sp')
  BY DEF Runner, HasSession, Linked, SessionShape, IsList
<1>3. Orderly(vm)' <=> Orderly(vm')
  BY DEF Orderly, Sound, isValid, At, Machine, objectKey
<1> QED BY <1>1, <1>2, <1>3 DEF IInv

LEMMA SendKeeps ==
    ASSUME IInv, NEW v, NEW op \in Ops, NEW s, NEW name \in Names \cup {NoId}, NEW lost,
           Send(v, Command(op, s, name), lost), Orderly(v), Known(v) \subseteq Known(vm) \ lost
    PROVE  IInv'
<1> DEFINE command == Command(op, s, name)
<1>1. command.server = s /\ command.op = op /\ command.name = name
  BY DEF Command
<1>2. s \in Webs => command \in Requests
  BY RequestIsOne
<1> HIDE DEF command
<1>3. CASE /\ s \in Webs /\ web' \in {web, Append(web, command)}
           /\ vm' = v /\ gone' = gone \cup lost /\ UNCHANGED sp
  <2>1. web' \in Seq(Requests)
    BY <1>2, <1>3 DEF IInv
  <2>2. gone' \cap Known(v) = {}
    BY <1>3 DEF IInv, RemovedStaysRemoved
  <2> QED BY <1>3, <2>1, <2>2, MachinesKeep
<1>4. CASE \E p \in executeSsh(sp, s, command) : Run(p, v, lost) /\ UNCHANGED web
  <2>1. PICK p \in executeSsh(sp, s, command) : Run(p, v, lost) /\ UNCHANGED web
    BY <1>4
  <2>2. Runner(p)
    BY ExecuteSshKeeps DEF IInv
  <2>3. web' \in Seq(Requests)
    BY <2>1 DEF IInv
  <2> QED BY <2>1, <2>2, <2>3, RunKeeps
<1> QED BY <1>1, <1>3, <1>4 DEF Send, command

(* Nothing else than the progress, the creation put off and the dialog.       *)
LEMMA SameKeeps ==
    ASSUME NEW v, NEW u, Orderly(v), DOMAIN u = ManagerFields, u.map = v.map,
           u.current = v.current, u.create \in {v.create, NoMachine},
           u.asked \in {v.asked, NoKey}
    PROVE  Orderly(u) /\ Known(u) = Known(v)
<1>1. isValid(u) <=> isValid(v)
  BY DEF isValid
<1>2. \A key : At(u, key) = At(v, key)
  BY DEF At
<1>3. Sound(u)
  BY <1>1, <1>2 DEF Orderly, Sound
<1> QED BY <1>1, <1>3 DEF Orderly, Known

LEMMA DefineKeeps ==
    ASSUME IInv, NEW s \in Servers, NEW name \in Names, defineMachine(s, name)
    PROVE  IInv'
<1> DEFINE m == [id |-> NoId, server |-> s, alias |-> name, on |-> FALSE]
           map == Put(vm.map, m)
           u == [updateCurrent(vm, m) EXCEPT !.create = m]
<1>1. Orderly(vm) /\ vm.asked = NoKey /\ vm' = u /\ gone' = gone \ {objectKey(m)} /\ UNCHANGED <<sp, web>>
  BY DEF defineMachine, AtPages, IInv
<1>2. DOMAIN m = MachineFields /\ m.id = NoId /\ m.alias = name
  BY DEF MachineFields
<1> HIDE DEF m
<1>3. Machine(m) /\ m # NoMachine
  BY <1>2, MachineIsOne DEF Machine
<1>4. m \in map /\ \A n \in map : n = m \/ n \in vm.map
  BY DEF Put
<1> HIDE DEF map
<1>5. /\ DOMAIN u = ManagerFields /\ u.map = map /\ u.current = m /\ u.create = m
      /\ u.asked = vm.asked
  BY <1>1 DEF updateCurrent, Orderly, Sound, ManagerFields, map
<1> HIDE DEF u
<1>6. Orderly(u)
  BY <1>1, <1>2, <1>3, <1>4, <1>5 DEF Orderly, Sound, isValid
<1>7. Known(u) \subseteq Known(vm) \cup {objectKey(m)}
  BY <1>4, <1>5 DEF Known
<1>8. gone' \cap Known(u) = {}
  BY <1>1, <1>7 DEF IInv, RemovedStaysRemoved
<1>9. web' \in Seq(Requests)
  BY <1>1 DEF IInv
<1> QED BY <1>1, <1>6, <1>8, <1>9, MachinesKeep

LEMMA CreateVmKeeps == ASSUME IInv, createVm PROVE IInv'
<1> DEFINE m == vm.create
           v == [vm EXCEPT !.create = NoMachine]
           w == IF m.server \in Hosts THEN [v EXCEPT !.progress = 0] ELSE v
<1>1. Orderly(vm) /\ web \in Seq(Requests) /\ gone \cap Known(vm) = {}
  BY DEF IInv, RemovedStaysRemoved
<1>2. /\ DOMAIN v = ManagerFields /\ v.map = vm.map /\ v.current = vm.current
      /\ v.create = NoMachine /\ v.asked = vm.asked
  BY <1>1 DEF Orderly, Sound, ManagerFields
<1>3. /\ DOMAIN w = ManagerFields /\ w.map = vm.map /\ w.current = vm.current
      /\ w.create = NoMachine /\ w.asked = vm.asked
  BY <1>1 DEF Orderly, Sound, ManagerFields
<1>4. \/ vm' = v /\ UNCHANGED <<sp, web, gone>>
      \/ Send(w, Command("create", m.server, m.alias), {})
  BY DEF createVm
<1>5. m.alias \in Names
  BY <1>1 DEF createVm, Orderly, Sound, Machine
<1> HIDE DEF v, w, m
<1>6. Orderly(v) /\ Known(v) = Known(vm) /\ Orderly(w) /\ Known(w) = Known(vm)
  BY <1>1, <1>2, <1>3, SameKeeps
<1>7. CASE vm' = v /\ UNCHANGED <<sp, web, gone>>
  BY <1>1, <1>6, <1>7, MachinesKeep
<1>8. CASE Send(w, Command("create", m.server, m.alias), {})
  <2>1. "create" \in Ops /\ m.alias \in Names \cup {NoId} /\ Known(w) \subseteq Known(vm) \ {}
    BY <1>5, <1>6 DEF Ops
  <2> QED BY <1>6, <1>8, <2>1, SendKeeps
<1> QED BY <1>4, <1>7, <1>8

LEMMA ChooseKeeps ==
    ASSUME IInv, NEW m, choose(m)
    PROVE  IInv'
<1>1. /\ Sound(vm) /\ vm.asked = NoKey /\ vm' \in setCurrent(vm, objectKey(m))
      /\ UNCHANGED <<sp, web, gone>>
  BY DEF choose, AtPages, IInv, Orderly
<1>2. Orderly(vm') /\ vm'.map = vm.map
  BY <1>1, SetCurrentKeeps
<1>3. gone' \cap Known(vm') = {} /\ web' \in Seq(Requests)
  BY <1>1, <1>2 DEF IInv, RemovedStaysRemoved, Known
<1> QED BY <1>1, <1>2, <1>3, MachinesKeep

LEMMA StartStopKeeps == ASSUME IInv, startStopVm PROVE IInv'
<1> DEFINE c == vm.current
           op == IF c.on THEN "stop" ELSE "start"
<1>1. Orderly(vm) /\ Known(vm) \subseteq Known(vm) \ {}
  BY DEF IInv
<1>2. c.id \in Names \cup {NoId}
  BY <1>1 DEF startStopVm, isCreated, Orderly, Sound, Machine
<1>3. op \in Ops /\ Send(vm, Command(op, c.server, c.id), {})
  BY DEF startStopVm, Ops
<1> HIDE DEF op
<1> QED BY <1>1, <1>2, <1>3, SendKeeps

LEMMA AskRemoveKeeps == ASSUME IInv, askRemove PROVE IInv'
<1> DEFINE u == [vm EXCEPT !.asked = objectKey(vm.current)]
<1>1. Orderly(vm) /\ isValid(vm) /\ vm' = u /\ UNCHANGED <<sp, web, gone>>
  BY DEF askRemove, IInv
<1>2. /\ DOMAIN u = ManagerFields /\ u.map = vm.map /\ u.current = vm.current
      /\ u.create = vm.create /\ u.asked = objectKey(vm.current)
  BY <1>1 DEF Orderly, Sound, ManagerFields
<1> HIDE DEF u
<1>3. isValid(u) /\ \A key : At(u, key) = At(vm, key)
  BY <1>1, <1>2 DEF isValid, At
<1>4. Orderly(u)
  BY <1>1, <1>2, <1>3 DEF Orderly, Sound
<1>5. gone' \cap Known(u) = {} /\ web' \in Seq(Requests)
  BY <1>1, <1>2 DEF IInv, RemovedStaysRemoved, Known
<1> QED BY <1>1, <1>4, <1>5, MachinesKeep

(* The dialogs, and the progress: they change nothing else.                   *)
LEMMA DialogsKeep ==
    ASSUME IInv, keep \/ drawerOpened \/ webCancel \/ showProgress
    PROVE  IInv'
<1>1. Orderly(vm) /\ web \in Seq(Requests) /\ gone \cap Known(vm) = {}
  BY DEF IInv, RemovedStaysRemoved
<1>2. DOMAIN vm = ManagerFields
  BY <1>1 DEF Orderly, Sound
<1>3. /\ DOMAIN vm' = ManagerFields /\ vm'.map = vm.map /\ vm'.current = vm.current
      /\ vm'.create = vm.create /\ vm'.asked \in {vm.asked, NoKey}
  BY <1>2 DEF keep, drawerOpened, webCancel, showProgress, ManagerFields
<1>4. UNCHANGED <<sp, gone>> /\ web' \in {web, <<>>}
  BY DEF keep, drawerOpened, webCancel, showProgress
<1>5. Orderly(vm') /\ Known(vm') = Known(vm)
  BY <1>1, <1>3, SameKeeps
<1>6. web' \in Seq(Requests)
  <2>1. <<>> \in Seq(Requests)
    OBVIOUS
  <2>2. web' = web \/ web' = <<>>
    BY <1>4
  <2>3. CASE web' = web
    BY <1>1, <2>3
  <2>4. CASE web' = <<>>
    BY <2>1, <2>4
  <2> QED BY <2>2, <2>3, <2>4
<1>7. gone' \cap Known(vm') = {}
  BY <1>1, <1>4, <1>5
<1> QED BY <1>4, <1>5, <1>6, <1>7, MachinesKeep

LEMMA RemoveKeeps == ASSUME IInv, removeVm PROVE IInv'
<1> DEFINE K == objectKey(vm.current)
           map == vm.map \ At(vm, K)
           v == [vm EXCEPT !.map = map, !.bare = @ \ {K}, !.asked = NoKey]
<1>1. /\ Orderly(vm) /\ isValid(vm) /\ web \in Seq(Requests) /\ gone \cap Known(vm) = {}
  BY DEF IInv, RemovedStaysRemoved, removeVm
<1>2. \/ At(vm, K) = {} /\ vm' = v /\ UNCHANGED <<sp, web, gone>>
      \/ \E u \in setCurrent(v, NoKey) :
            \/ vm' = u /\ UNCHANGED <<sp, web, gone>>
            \/ \E m \in At(vm, K) : Send(u, Command("destroy", m.server, m.id), {K})
  BY DEF removeVm
<1>3. /\ \A n \in map : n \in vm.map /\ objectKey(n) # K
      /\ At(vm, K) = {} => map = vm.map
  BY DEF At
<1> HIDE DEF map
<1>4. /\ DOMAIN v = ManagerFields /\ v.map = map /\ v.current = vm.current
      /\ v.create = vm.create /\ v.asked = NoKey
  BY <1>1 DEF Orderly, Sound, ManagerFields
<1> HIDE DEF v
<1>5. CASE At(vm, K) = {} /\ vm' = v /\ UNCHANGED <<sp, web, gone>>
  <2>1. Orderly(v) /\ Known(v) = Known(vm)
    BY <1>1, <1>3, <1>4, <1>5, SameKeeps
  <2> QED BY <1>1, <1>5, <2>1, MachinesKeep
<1>6. ASSUME NEW u \in setCurrent(v, NoKey)
      PROVE  Orderly(u) /\ Known(u) \subseteq Known(vm) \ {K}
  <2>1. At(v, K) = {} /\ isValid(v)
    BY <1>1, <1>3, <1>4 DEF At, isValid
  <2>2. Sound(v)
    BY <1>1, <1>3, <1>4, <2>1 DEF Orderly, Sound
  <2>3. Orderly(u) /\ u.map = map
    BY <1>4, <2>2, SetCurrentKeeps
  <2> QED BY <1>3, <2>3 DEF Known
<1>7. CASE \E u \in setCurrent(v, NoKey) : vm' = u /\ UNCHANGED <<sp, web, gone>>
  BY <1>1, <1>6, <1>7, MachinesKeep
<1>8. CASE \E u \in setCurrent(v, NoKey) : \E m \in At(vm, K) :
              Send(u, Command("destroy", m.server, m.id), {K})
  <2>1. PICK u \in setCurrent(v, NoKey), m \in At(vm, K) :
           Send(u, Command("destroy", m.server, m.id), {K})
    BY <1>8
  <2>2. m.id \in Names \cup {NoId} /\ "destroy" \in Ops
    BY <1>1 DEF At, Orderly, Sound, Machine, Ops
  <2> QED BY <1>6, <2>1, <2>2, SendKeeps
<1> QED BY <1>2, <1>5, <1>7, <1>8

(* Calls of the runner that are no sending.                                   *)
LEMMA CallKeeps ==
    ASSUME IInv, NEW p, Run(p, vm, {}), Runner(p), web' \in Seq(Requests)
    PROVE  IInv'
<1>1. Orderly(vm) /\ Known(vm) \subseteq Known(vm) \ {}
  BY DEF IInv
<1> QED BY <1>1, RunKeeps

LEMMA TimersKeep == ASSUME IInv, clusterTimer \/ statusTimer PROVE IInv'
<1>1. Runner(sp) /\ Orderly(vm) /\ web \in Seq(Requests) /\ gone \cap Known(vm) = {}
  BY DEF IInv, RemovedStaysRemoved
<1>2. CASE clusterTimer
  <2>1. PICK q \in GetLists : web' = q.web /\ Run(q.sp, vm, {})
    BY <1>2 DEF clusterTimer
  <2>2. Runner(q.sp) /\ q.web \in Seq(Requests)
    BY <1>1, GetListsKeep
  <2> QED BY <2>1, <2>2, CallKeeps
<1>3. CASE statusTimer
  <2> DEFINE c == vm.current
             command == Command("status", c.server, c.id)
  <2>1. /\ web' = Append(web, command) /\ UNCHANGED <<sp, vm, gone>>
        /\ isValid(vm) /\ c.server \in Webs
    BY <1>3 DEF statusTimer, isCreated
  <2>2. c.id \in Names \cup {NoId} /\ "status" \in Ops
    BY <1>1, <2>1 DEF Orderly, Sound, Machine, Ops
  <2>3. command \in Requests
    BY <2>1, <2>2, RequestIsOne
  <2> HIDE DEF command
  <2>4. web' \in Seq(Requests)
    BY <1>1, <2>1, <2>3
  <2> QED BY <1>1, <2>1, <2>4, MachinesKeep
<1> QED BY <1>2, <1>3

LEMMA WebKeeps == ASSUME IInv, webAnswers \/ webFails PROVE IInv'
<1>1. Orderly(vm) /\ web \in Seq(Requests) /\ gone \cap Known(vm) = {}
  BY DEF IInv, RemovedStaysRemoved
<1>2. web # <<>> /\ web' = Tail(web) /\ UNCHANGED sp
  BY DEF webAnswers, webFails
<1>3. Head(web) \in Requests /\ web' \in Seq(Requests)
  BY <1>1, <1>2
<1>4. CASE webFails
  BY <1>1, <1>3, <1>4, MachinesKeep DEF webFails
<1>5. CASE webAnswers
  <2> DEFINE command == Head(web)
             Said == command.op \in {"cluster", "create"}
  <2>1. /\ vm' \in onResponse(command)
        /\ gone' = gone \ (IF Said THEN Known(vm') ELSE {})
    BY <1>5 DEF webAnswers, Known
  <2> HIDE DEF command
  <2>2. Orderly(vm') /\ (~Said => Known(vm') = Known(vm))
    BY <1>1, <1>3, <2>1, ResponseKeeps DEF command
  <2>3. gone' \cap Known(vm') = {}
    BY <1>1, <2>1, <2>2
  <2> QED BY <1>2, <1>3, <2>2, <2>3, MachinesKeep
<1> QED BY <1>4, <1>5

LEMMA SessionKeeps ==
    ASSUME IInv, sshCancel \/ sessionChanges \/ commandRuns \/ commandOver \/ sessionFreed
    PROVE  IInv'
<1>1. Runner(sp) /\ web \in Seq(Requests)
  BY DEF IInv
<1>2. UNCHANGED web
  BY DEF sshCancel, sessionChanges, commandRuns, commandOver, sessionFreed
<1>3. \E p : Run(p, vm, {}) /\ Runner(p)
  <2>1. CASE sshCancel
    BY <1>1, <2>1, CancelKeeps DEF sshCancel
  <2>2. CASE sessionChanges
    <3>1. PICK con \in Contracts!Change(sp.session.con) :
             \E p \in Changed(sp, con) : Run(p, vm, {})
      BY <2>2 DEF sessionChanges
    <3>2. HasSession(sp)
      BY <2>2 DEF sessionChanges
    <3> QED BY <1>1, <3>1, <3>2, ChangedKeeps
  <2>3. CASE commandRuns
    <3>1. PICK p \in {onChannelOpened(sp), exitStatusChanged(sp, 0), exitStatusChanged(sp, 1)}
                     \cup (IF sp.late < MaxLate THEN {channelClosed(sp)} ELSE {}) :
             Run(p, vm, {})
      BY <2>3 DEF commandRuns
    <3>2. HasSession(sp)
      BY <2>3 DEF commandRuns, Runs
    <3>3. Runner(p)
      BY <1>1, <3>1, <3>2, ChannelKeeps
    <3> QED BY <3>1, <3>3
  <2>4. CASE commandOver
    BY <1>1, <2>4, ChannelKeeps DEF commandOver
  <2>5. CASE sessionFreed
    BY <1>1, <2>5, ChannelKeeps DEF sessionFreed
  <2> QED BY <2>1, <2>2, <2>3, <2>4, <2>5
<1> QED BY <1>1, <1>2, <1>3, CallKeeps

--------------------------------------------------------------------------------
LEMMA StartsInOrder == Init => IInv
<1> SUFFICES ASSUME Init PROVE IInv
  OBVIOUS
<1>1. PICK map \in Stored : \E m \in IF map = {} THEN {NoMachine} ELSE map :
         vm = [map |-> map, current |-> m, progress |-> -1, create |-> NoMachine,
               asked |-> NoKey, bare |-> {}]
  BY DEF Init
<1>2. PICK c \in IF map = {} THEN {NoMachine} ELSE map :
         vm = [map |-> map, current |-> c, progress |-> -1, create |-> NoMachine,
               asked |-> NoKey, bare |-> {}]
  BY <1>1
<1>3. \A m \in map : Machine(m)
  BY StoredAssumption DEF Machines, Machine, MachineFields
<1>4. /\ DOMAIN vm = ManagerFields /\ vm.map = map /\ vm.current = c
      /\ vm.create = NoMachine /\ vm.asked = NoKey
  BY <1>2 DEF ManagerFields
<1>5. Orderly(vm)
  BY <1>2, <1>3, <1>4 DEF Orderly, Sound, isValid
<1>6. Runner(sp) /\ sp.told = <<>>
  <2>1. /\ DOMAIN sp = RunnerFields /\ sp.running = FALSE /\ sp.told = <<>>
        /\ sp.session = NoSession
    BY DEF Init, Idle, RunnerFields
  <2>2. IsList(sp.told)
    BY <2>1 DEF IsList
  <2> QED BY <2>1, <2>2 DEF Runner, HasSession
<1>7. web \in Seq(Requests) /\ RemovedStaysRemoved
  BY DEF Init, RemovedStaysRemoved
<1> QED BY <1>5, <1>6, <1>7 DEF IInv

LEMMA EveryStepKeeps == IInv /\ [Next]_vars => IInv'
<1> SUFFICES ASSUME IInv, [Next]_vars PROVE IInv'
  OBVIOUS
<1>1. CASE UNCHANGED vars
  <2>1. Orderly(vm) /\ vm' = vm /\ UNCHANGED <<sp, web, gone>>
    BY <1>1 DEF IInv, vars
  <2>2. web' \in Seq(Requests) /\ gone' \cap Known(vm) = {}
    BY <2>1 DEF IInv, RemovedStaysRemoved
  <2> QED BY <2>1, <2>2, MachinesKeep
<1>2. CASE \E s \in Servers, name \in Names : defineMachine(s, name)
  BY <1>2, DefineKeeps
<1>3. CASE \E m \in vm.map : choose(m)
  BY <1>3, ChooseKeeps
<1>4. CASE createVm \/ startStopVm \/ askRemove \/ removeVm
  BY <1>4, CreateVmKeeps, StartStopKeeps, AskRemoveKeeps, RemoveKeeps
<1>5. CASE keep \/ drawerOpened \/ webCancel \/ showProgress
  BY <1>5, DialogsKeep
<1>6. CASE clusterTimer \/ statusTimer \/ webAnswers \/ webFails
  BY <1>6, TimersKeep, WebKeeps
<1>7. CASE sshCancel \/ sessionChanges \/ commandRuns \/ commandOver \/ sessionFreed
  BY <1>7, SessionKeeps
<1> QED BY <1>1, <1>2, <1>3, <1>4, <1>5, <1>6, <1>7 DEF Next

THEOREM Inductive == Spec => []IInv
BY StartsInOrder, EveryStepKeeps, PTL DEF Spec

(* The command that the server runs is the one the runner names, on the       *)
(* server it names, as long as the runner listens to it: setCommand() of      *)
(* src/src/SshProcess.cpp refuses another one while a command runs.           *)
THEOREM CommandIsItsOwn == Spec => []ExecRunsCommand
<1>1. IInv => ExecRunsCommand
  BY DEF IInv, Runner, Linked, ExecRunsCommand
<1> QED BY <1>1, Inductive, PTL

(* While SshProcess says that a command runs it has a session that may still  *)
(* serve it, but for the three ways of being left without one.                *)
THEOREM RunningIsServed == Spec => []RunningHasSession
<1>1. IInv => RunningHasSession
  BY DEF IInv, Runner, RunningHasSession
<1> QED BY <1>1, Inductive, PTL

(* The machine that VMConfigSet.qml shows is the one it stores, after any     *)
(* answers in any order.                                                      *)
THEOREM ShownIsStored == Spec => []CurrentIsStored
<1>1. IInv => CurrentIsStored
  BY DEF IInv, Orderly, Sound, CurrentIsStored
<1> QED BY <1>1, Inductive, PTL

(* A machine that the user removed is not known again before its server lists *)
(* or creates it, whatever late answers about it arrive.                      *)
THEOREM RemovedStaysAway == Spec => []RemovedStaysRemoved
<1>1. IInv => RemovedStaysRemoved
  BY DEF IInv
<1> QED BY <1>1, Inductive, PTL

(* The question before a removal is answered for the machine that it names.   *)
THEOREM AskedIsAnswered == Spec => []AskedIsCurrent
<1>1. IInv => AskedIsCurrent
  BY DEF IInv, Orderly, Sound, AskedIsCurrent
<1> QED BY <1>1, Inductive, PTL
================================================================================
