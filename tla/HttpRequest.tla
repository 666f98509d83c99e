------------------------------ MODULE HttpRequest ------------------------------
(***************************************************************************)
(* The REST client of the program (src/HttpRequest.cpp): one network reply *)
(* in flight, and a queue for the requests that arrive meanwhile.          *)
(* last_reply is a QPointer: after deleteLater() the reply lives on until  *)
(* the event loop deletes it, and only then is the pointer null.           *)
(* reply_phase says what the object it points to is doing.                 *)
(*                                                                         *)
(* An operator whose name ends in _f... is the operator of the same name   *)
(* with one plausible fault; the properties are shown to notice it.        *)
(***************************************************************************)
EXTENDS Naturals, Sequences, SequencesExt

CONSTANTS
    Requests,       \* the calls of sendPost and sendGet, each made at most once
    Posts,          \* those made through sendPost
    Malformed,      \* bad URL, no SSL support, empty JSON: turned away at entry
    Silent,         \* external: those the server takes and need not ever answer
    NoReply,        \* the null QPointer
    MaxData         \* bound: readyRead signals per reply

ASSUME HttpAssumption ==
    /\ Posts \subseteq Requests
    /\ Malformed \subseteq Requests
    /\ Silent \subseteq Requests
    /\ NoReply \notin Requests
    /\ MaxData \in Nat

VARIABLES
    last_reply, reply_phase, reply_data, request_queue, request_running,
    outcome,        \* history: what became of each request
    clock, stamp,   \* history: how many were accepted, and each one's number
    stranded,       \* history: requests queued behind an aborted reply
    delivered       \* history: whose bytes were handed out with an answer

history == <<outcome, clock, stamp, stranded, delivered>>
vars == <<last_reply, reply_phase, reply_data, request_queue, request_running, history>>

Phases   == {"none", "open", "finished", "aborted"}
Outcomes == {"new", "refused", "accepted", "answered", "canceled"}

TypeOK ==
    /\ last_reply \in Requests \cup {NoReply}
    /\ reply_phase \in Phases
    /\ reply_data \in Seq(Requests)
    /\ request_queue \in Seq(Requests)
    /\ request_running \in BOOLEAN
    /\ outcome \in [Requests -> Outcomes]
    /\ clock \in Nat
    /\ stamp \in [Requests -> Nat]
    /\ stranded \subseteq Requests
    /\ delivered \in [Requests -> SUBSET Requests]

Init ==
    /\ last_reply = NoReply
    /\ reply_phase = "none"
    /\ reply_data = <<>>
    /\ request_queue = <<>>
    /\ request_running = FALSE
    /\ outcome = [r \in Requests |-> "new"]
    /\ clock = 0
    /\ stamp = [r \in Requests |-> 0]
    /\ stranded = {}
    /\ delivered = [r \in Requests |-> {}]

--------------------------------------------------------------------------------
(* A new reply and setListenReply(true), which empties the receive buffer. *)
StartRequest_fKeepsBytes(r) ==
    last_reply' = r /\ reply_phase' = "open" /\ request_running' = TRUE /\ UNCHANGED reply_data
StartRequest(r) ==
    /\ last_reply' = r
    /\ reply_phase' = "open"
    /\ reply_data' = <<>>
    /\ request_running' = TRUE

(* setListenReply(false): the reply is disconnected, aborted and left to the  *)
(* event loop for deletion.                                                   *)
StopListening_fStaysBusy ==
    /\ reply_data' = <<>>
    /\ reply_phase' = IF last_reply = NoReply THEN "none" ELSE "aborted"
    /\ UNCHANGED <<last_reply, request_running>>
StopListening_fConnected ==
    reply_data' = <<>> /\ request_running' = FALSE /\ UNCHANGED <<last_reply, reply_phase>>
StopListening ==
    /\ reply_data' = <<>>
    /\ reply_phase' = IF last_reply = NoReply THEN "none" ELSE "aborted"
    /\ request_running' = FALSE
    /\ UNCHANGED last_reply

(* The checks at the top of sendPost and sendGet. *)
Refuse(r) ==
    /\ r \in Malformed
    /\ outcome' = [outcome EXCEPT ![r] = "refused"]
    /\ UNCHANGED <<last_reply, reply_phase, reply_data, request_queue,
                   request_running, clock, stamp, stranded, delivered>>

(* A request behind a reply object, whatever that object still does. *)
Queued_fFront(r) == <<r>> \o request_queue
Queued(r) == Append(request_queue, r)

Enqueue(r) ==
    /\ last_reply # NoReply
    /\ request_queue' = Queued(r)
    /\ stranded' = IF reply_phase = "aborted" THEN stranded \cup {r} ELSE stranded
    /\ UNCHANGED <<last_reply, reply_phase, reply_data, request_running>>

Dispatch(r) ==
    /\ last_reply = NoReply
    /\ StartRequest(r)
    /\ UNCHANGED <<request_queue, stranded>>

Accept(r) ==
    /\ r \notin Malformed
    /\ outcome' = [outcome EXCEPT ![r] = "accepted"]
    /\ clock' = clock + 1
    /\ stamp' = [stamp EXCEPT ![r] = clock + 1]
    /\ Enqueue(r) \/ Dispatch(r)
    /\ UNCHANGED delivered

sendPost(r) == r \in Posts /\ outcome[r] = "new" /\ (Refuse(r) \/ Accept(r))
sendGet(r) == r \in Requests \ Posts /\ outcome[r] = "new" /\ (Refuse(r) \/ Accept(r))

(* The readyRead lambda of setListenReply. *)
Readable_fConnected == reply_phase \in {"none", "open", "aborted"}
Readable == reply_phase = "open"

readyRead ==
    /\ Readable
    /\ Len(reply_data) < MaxData
    /\ reply_data' = Append(reply_data, last_reply)
    /\ UNCHANGED <<last_reply, reply_phase, request_queue, request_running, history>>

(* The answer goes out as an object, an array or an error; only a parsed     *)
(* body carries bytes.  The reply is left to the event loop for deletion.    *)
replyFinished ==
    /\ reply_phase = "open"
    /\ reply_phase' = "finished"
    /\ outcome' = [outcome EXCEPT ![last_reply] = "answered"]
    /\ \E bytes \in {{}, ToSet(reply_data)} :
          delivered' = [delivered EXCEPT ![last_reply] = bytes]
    /\ UNCHANGED <<last_reply, reply_data, request_queue, request_running,
                   clock, stamp, stranded>>

(* sendQueue on the head of the queue: it passes the checks once more. *)
Sendable == request_queue # <<>> /\ Head(request_queue) \notin Malformed

sendQueue ==
    /\ Sendable
    /\ StartRequest(Head(request_queue))
    /\ request_queue' = Tail(request_queue)

(* Nothing to send, or it could not be sent: the rest is given up. *)
GiveUpQueue ==
    /\ ~Sendable
    /\ request_queue' = <<>>
    /\ request_running' = FALSE
    /\ last_reply' = NoReply
    /\ reply_phase' = "none"
    /\ UNCHANGED reply_data

(* The event loop deletes a finished reply; the pointer is null by the time  *)
(* the destroyed signal arrives.                                             *)
replyDestroyed_fNoDrain ==
    /\ reply_phase = "finished"
    /\ last_reply' = NoReply
    /\ reply_phase' = "none"
    /\ request_running' = FALSE
    /\ UNCHANGED <<reply_data, request_queue, history>>
replyDestroyed ==
    /\ reply_phase = "finished"
    /\ sendQueue \/ GiveUpQueue
    /\ UNCHANGED history

(* The event loop deletes an aborted reply: its signals were disconnected.  *)
AbortedDestroyed ==
    /\ reply_phase = "aborted"
    /\ last_reply' = NoReply
    /\ reply_phase' = "none"
    /\ UNCHANGED <<reply_data, request_queue, request_running, history>>

(* Every request still owed an answer is dropped with the queue. *)
Outstanding == {r \in Requests : outcome[r] = "accepted"}

cancel_fKeepsQueue ==
    /\ StopListening
    /\ outcome' = [r \in Requests |-> IF r \in Outstanding THEN "canceled" ELSE outcome[r]]
    /\ UNCHANGED <<request_queue, clock, stamp, stranded, delivered>>
cancel ==
    /\ request_queue' = <<>>
    /\ StopListening
    /\ outcome' = [r \in Requests |-> IF r \in Outstanding THEN "canceled" ELSE outcome[r]]
    /\ UNCHANGED <<clock, stamp, stranded, delivered>>

EventLoop == replyDestroyed \/ AbortedDestroyed

Next ==
    \/ \E r \in Requests : sendPost(r) \/ sendGet(r)
    \/ readyRead
    \/ replyFinished
    \/ EventLoop
    \/ cancel

(* The event loop runs, and a reply ends if its server answers or drops the   *)
(* connection.  No transfer timeout is set: one that does neither is waited   *)
(* for.  The user owes nothing.                                               *)
Spec ==
    /\ Init /\ [][Next]_vars
    /\ WF_vars(last_reply \notin Silent /\ replyFinished)
    /\ WF_vars(EventLoop)

--------------------------------------------------------------------------------
(* The busy flag the whole user interface is built on is raised exactly while *)
(* a reply is being listened to, from the request to the deletion of its      *)
(* reply: setListenReply, replyDestroyed and cancel keep them together.       *)
RunningIffListening == request_running <=> reply_phase \in {"open", "finished"}

InFlight == IF reply_phase = "open" THEN {last_reply} ELSE {}

(* Nothing accepted is forgotten and nothing is kept twice: what is owed an   *)
(* answer is the open reply plus the queue, and the queue holds it once.      *)
NoneLost ==
    /\ Outstanding = InFlight \cup ToSet(request_queue)
    /\ InFlight \cap ToSet(request_queue) = {}
    /\ \A i, j \in 1 .. Len(request_queue) :
          request_queue[i] = request_queue[j] => i = j

(* Answers come in the order of the requests, except for a request that was   *)
(* queued behind a reply that cancel() had already aborted.                   *)
InOrder ==
    \A r, q \in Requests :
        (outcome[r] = "answered" /\ outcome[q] = "accepted" /\ q \notin stranded)
            => stamp[r] < stamp[q]

(* Bytes never leak from one reply into the answer of another: the buffer is  *)
(* shared and is emptied when a request starts and when one is cancelled.     *)
OwnBytes == \A r \in Requests : delivered[r] \subseteq {r}

(* A queue with nothing in flight to drain it only holds requests made        *)
(* between cancel() and the deletion of the aborted reply.                    *)
IdleQueueIsStranded == ~request_running => ToSet(request_queue) \subseteq stranded

(* An answer or a cancellation is final: a reply that cancel() aborted never  *)
(* reports a result, and none reports two (action property).                  *)
OutcomesFinal ==
    [][\A r \in Requests : outcome[r] \in {"answered", "canceled", "refused"}
                               => outcome'[r] = outcome[r]]_vars

(* While the client is busy every accepted request is on its way: it is       *)
(* answered, or cancelled by the user.  Only a server that never ends the     *)
(* reply in flight can hold the queue up, and then it does so for good.       *)
HeldUp == reply_phase = "open" /\ last_reply \in Silent

Served ==
    \/ \A r \in Requests :
          (outcome[r] = "accepted" /\ request_running)
              ~> outcome[r] \in {"answered", "canceled"}
    \/ <>[]HeldUp
=============================================================================
