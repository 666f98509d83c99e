--------------------------- MODULE HttpRequestProofs ---------------------------
(***************************************************************************)
(* What is proved of HttpRequest for every set of requests.                *)
(***************************************************************************)
EXTENDS HttpRequest, TLAPS

--------------------------------------------------------------------------------
(* Queues of pairwise different requests. *)

Distinct(q) == \A i, j \in 1 .. Len(q) : q[i] = q[j] => i = j

LEMMA AppendSet ==
    ASSUME NEW S, NEW q \in Seq(S), NEW x \in S
    PROVE  /\ ToSet(Append(q, x)) = ToSet(q) \cup {x}
           /\ (Distinct(q) /\ x \notin ToSet(q)) => Distinct(Append(q, x))
<1>1. Append(q, x) \in Seq(S) /\ Len(Append(q, x)) = Len(q) + 1
  OBVIOUS
<1>2. \A i \in 1 .. Len(q) : Append(q, x)[i] = q[i]
  OBVIOUS
<1>3. Append(q, x)[Len(q) + 1] = x
  OBVIOUS
<1>4. DOMAIN q = 1 .. Len(q) /\ DOMAIN Append(q, x) = 1 .. (Len(q) + 1) /\ Len(q) \in Nat
  BY <1>1
<1>5. ToSet(Append(q, x)) = ToSet(q) \cup {x}
  <2>1. ASSUME NEW y \in ToSet(Append(q, x)) PROVE y \in ToSet(q) \cup {x}
    <3>1. PICK i \in 1 .. (Len(q) + 1) : y = Append(q, x)[i]
      BY <2>1, <1>4 DEF ToSet
    <3>2. CASE i = Len(q) + 1
      BY <3>1, <3>2, <1>3
    <3>3. CASE i \in 1 .. Len(q)
      BY <3>1, <3>3, <1>2, <1>4 DEF ToSet
    <3> QED BY <3>1, <3>2, <3>3, <1>4
  <2>2. ASSUME NEW y \in ToSet(q) PROVE y \in ToSet(Append(q, x))
    <3>1. PICK i \in 1 .. Len(q) : y = q[i]
      BY <2>2, <1>4 DEF ToSet
    <3> QED BY <3>1, <1>2, <1>4 DEF ToSet
  <2>3. x \in ToSet(Append(q, x))
    BY <1>3, <1>4 DEF ToSet
  <2> QED BY <2>1, <2>2, <2>3
<1>6. ASSUME Distinct(q), x \notin ToSet(q),
             NEW i \in 1 .. (Len(q) + 1), NEW j \in 1 .. (Len(q) + 1),
             Append(q, x)[i] = Append(q, x)[j]
      PROVE  i = j
  <2>1. \A k \in 1 .. Len(q) : q[k] # x
    BY <1>6, <1>4 DEF ToSet
  <2> QED BY <1>6, <2>1, <1>2, <1>3, <1>4 DEF Distinct
<1> QED BY <1>1, <1>5, <1>6 DEF Distinct

LEMMA HeadTailSet ==
    ASSUME NEW S, NEW q \in Seq(S), q # <<>>
    PROVE  /\ Head(q) \in S /\ Tail(q) \in Seq(S)
           /\ ToSet(q) = {Head(q)} \cup ToSet(Tail(q))
           /\ Distinct(q) => Distinct(Tail(q)) /\ Head(q) \notin ToSet(Tail(q))
<1>1. /\ Len(q) \in Nat \ {0} /\ Tail(q) \in Seq(S) /\ Len(Tail(q)) = Len(q) - 1
      /\ Head(q) = q[1] /\ DOMAIN q = 1 .. Len(q)
  OBVIOUS
<1>2. \A i \in 1 .. (Len(q) - 1) : Tail(q)[i] = q[i + 1]
  BY <1>1
<1>3. DOMAIN Tail(q) = 1 .. (Len(q) - 1)
  BY <1>1
<1>4. ToSet(q) = {Head(q)} \cup ToSet(Tail(q))
  <2>1. ASSUME NEW y \in ToSet(q) PROVE y \in {Head(q)} \cup ToSet(Tail(q))
    <3>1. PICK i \in 1 .. Len(q) : y = q[i]
      BY <2>1, <1>1 DEF ToSet
    <3>2. CASE i = 1
      BY <3>1, <3>2, <1>1
    <3>3. CASE i # 1
      <4>1. i - 1 \in 1 .. (Len(q) - 1) /\ Tail(q)[i - 1] = q[i]
        BY <3>3, <1>1, <1>2
      <4> QED BY <3>1, <4>1, <1>3 DEF ToSet
    <3> QED BY <3>2, <3>3
  <2>2. Head(q) \in ToSet(q)
    BY <1>1 DEF ToSet
  <2>3. ASSUME NEW y \in ToSet(Tail(q)) PROVE y \in ToSet(q)
    <3>1. PICK i \in 1 .. (Len(q) - 1) : y = Tail(q)[i]
      BY <2>3, <1>3 DEF ToSet
    <3>2. i + 1 \in 1 .. Len(q) /\ y = q[i + 1]
      BY <3>1, <1>1, <1>2
    <3> QED BY <3>2, <1>1 DEF ToSet
  <2> QED BY <2>1, <2>2, <2>3
<1>5. ASSUME Distinct(q) PROVE Distinct(Tail(q)) /\ Head(q) \notin ToSet(Tail(q))
  <2>1. Distinct(Tail(q))
    BY <1>5, <1>1, <1>2 DEF Distinct
  <2>2. ASSUME NEW i \in 1 .. (Len(q) - 1), Tail(q)[i] = Head(q) PROVE FALSE
    <3>1. i + 1 \in 1 .. Len(q) /\ 1 \in 1 .. Len(q) /\ q[i + 1] = q[1]
      BY <2>2, <1>1, <1>2
    <3>2. i + 1 = 1
      BY <3>1, <1>5 DEF Distinct
    <3> QED BY <3>2
  <2> QED BY <2>1, <2>2, <1>3 DEF ToSet
<1> QED BY <1>1, <1>4, <1>5

LEMMA EmptySet == ToSet(<<>>) = {} /\ Distinct(<<>>)
BY DEF ToSet, Distinct

--------------------------------------------------------------------------------
(* The types, with the reply that the pointer and the phase agree on. *)
Types == TypeOK /\ (last_reply = NoReply <=> reply_phase = "none")

LEMMA EmptyQueue == <<>> \in Seq(Requests)
OBVIOUS

LEMMA TypesInit == Init => Types
<1> SUFFICES ASSUME Init PROVE Types
  OBVIOUS
<1> USE DEF Init
<1>1. reply_data \in Seq(Requests) /\ request_queue \in Seq(Requests)
  BY EmptyQueue
<1>2. outcome \in [Requests -> Outcomes]
  BY DEF Outcomes
<1>3. stamp \in [Requests -> Nat] /\ clock \in Nat
  OBVIOUS
<1>4. delivered \in [Requests -> SUBSET Requests] /\ stranded \subseteq Requests
  OBVIOUS
<1> QED BY <1>1, <1>2, <1>3, <1>4 DEF Types, TypeOK, Phases

LEMMA TypesStep == Types /\ [Next]_vars => Types'
<1> SUFFICES ASSUME Types, [Next]_vars PROVE Types'
  OBVIOUS
<1> USE HttpAssumption DEF Types, TypeOK, Phases, Outcomes
<1>1. ASSUME NEW r \in Requests, sendPost(r) \/ sendGet(r) PROVE Types'
  <2>1. CASE Refuse(r)
    BY <2>1 DEF Refuse
  <2>2. CASE Accept(r) /\ Enqueue(r)
    <3>1. request_queue' \in Seq(Requests)
      BY <2>2 DEF Enqueue, Queued
    <3> QED BY <2>2, <3>1 DEF Accept, Enqueue
  <2>3. CASE Accept(r) /\ Dispatch(r)
    BY <2>3 DEF Accept, Dispatch, StartRequest
  <2> QED BY <1>1, <2>1, <2>2, <2>3 DEF sendPost, sendGet, Accept
<1>2. CASE readyRead
  <2>1. reply_data' \in Seq(Requests)
    BY <1>2 DEF readyRead, Readable
  <2> QED BY <1>2, <2>1 DEF readyRead, history
<1>3. CASE replyFinished
  <2>1. PICK bytes \in {{}, ToSet(reply_data)} :
           delivered' = [delivered EXCEPT ![last_reply] = bytes]
    BY <1>3 DEF replyFinished
  <2>2. ToSet(reply_data) \subseteq Requests
    BY DEF ToSet
  <2>3. delivered' \in [Requests -> SUBSET Requests]
    BY <2>1, <2>2
  <2> QED BY <1>3, <2>3 DEF replyFinished
<1>4. CASE replyDestroyed
  <2>1. CASE sendQueue
    BY <1>4, <2>1, HeadTailSet DEF replyDestroyed, sendQueue, Sendable, StartRequest, history
  <2>2. CASE GiveUpQueue
    <3>1. request_queue' \in Seq(Requests)
      BY <2>2, EmptyQueue DEF GiveUpQueue
    <3> QED BY <1>4, <2>2, <3>1 DEF replyDestroyed, GiveUpQueue, history
  <2> QED BY <1>4, <2>1, <2>2 DEF replyDestroyed
<1>5. CASE AbortedDestroyed
  BY <1>5 DEF AbortedDestroyed, history
<1>6. CASE cancel
  <2>1. request_queue' \in Seq(Requests) /\ reply_data' \in Seq(Requests)
    BY <1>6, EmptyQueue DEF cancel, StopListening
  <2>2. outcome' \in [Requests -> Outcomes]
    BY <1>6 DEF cancel, Outstanding
  <2> QED BY <1>6, <2>1, <2>2 DEF cancel, StopListening
<1>7. CASE UNCHANGED vars
  BY <1>7 DEF vars, history
<1> QED BY <1>1, <1>2, <1>3, <1>4, <1>5, <1>6, <1>7 DEF Next, EventLoop

(* Every variable keeps its type, for every set of requests. *)
THEOREM TypeCorrect == Spec => []TypeOK
<1>1. Types => TypeOK
  BY DEF Types
<1> QED BY <1>1, TypesInit, TypesStep, PTL DEF Spec

--------------------------------------------------------------------------------
(* What keeps the queue complete: it only holds requests that will pass the   *)
(* checks again when their turn comes.                                        *)
Inv ==
    /\ Types
    /\ RunningIffListening
    /\ ToSet(request_queue) \cap Malformed = {}
    /\ NoneLost
    /\ reply_phase = "open" => ToSet(reply_data) \subseteq {last_reply}
    /\ OwnBytes

LEMMA InvInit == Init => Inv
<1> SUFFICES ASSUME Init PROVE Inv
  OBVIOUS
<1>1. Types
  BY TypesInit
<1> QED BY <1>1, EmptySet DEF Init, Inv, RunningIffListening, NoneLost, Outstanding, InFlight,
                              OwnBytes, Distinct

LEMMA InvStep == Inv /\ Types' /\ [Next]_vars => Inv'
<1> SUFFICES ASSUME Inv, Types', [Next]_vars PROVE Inv'
  OBVIOUS
<1> USE HttpAssumption DEF Inv, Types, RunningIffListening, OwnBytes
<1>0. /\ request_queue \in Seq(Requests) /\ reply_data \in Seq(Requests)
      /\ outcome \in [Requests -> Outcomes] /\ delivered \in [Requests -> SUBSET Requests]
      /\ Distinct(request_queue) /\ Outstanding = InFlight \cup ToSet(request_queue)
      /\ InFlight \cap ToSet(request_queue) = {}
  BY DEF TypeOK, NoneLost, Distinct
<1>a. ASSUME Distinct(request_queue'), Outstanding' = InFlight' \cup ToSet(request_queue'),
             InFlight' \cap ToSet(request_queue') = {}
      PROVE  NoneLost'
  BY <1>a DEF NoneLost, Distinct
<1>1. ASSUME NEW r \in Requests, outcome[r] = "new", Refuse(r) PROVE Inv'
  <2>1. Outstanding' = Outstanding /\ InFlight' = InFlight
    BY <1>0, <1>1 DEF Refuse, Outstanding, InFlight, Outcomes
  <2>2. NoneLost'
    BY <1>0, <1>1, <2>1, <1>a DEF Refuse, Distinct
  <2> QED BY <1>1, <2>2 DEF Refuse
<1>2. ASSUME NEW r \in Requests, outcome[r] = "new", Accept(r) PROVE Inv'
  <2>1. Outstanding' = Outstanding \cup {r} /\ r \notin Outstanding
    BY <1>0, <1>2 DEF Accept, Outstanding
  <2>2. CASE Enqueue(r)
    <3>1. ToSet(request_queue') = ToSet(request_queue) \cup {r} /\ Distinct(request_queue')
      BY <1>0, <2>1, <2>2, AppendSet DEF Enqueue, Queued
    <3>2. InFlight' = InFlight
      BY <2>2 DEF Enqueue, InFlight
    <3>3. NoneLost'
      BY <1>0, <2>1, <3>1, <3>2, <1>a
    <3> QED BY <1>2, <2>2, <3>1, <3>3 DEF Enqueue, Accept
  <2>3. CASE Dispatch(r)
    <3>1. InFlight = {} /\ InFlight' = {r}
      BY <2>3 DEF Dispatch, StartRequest, InFlight
    <3>2. Distinct(request_queue') /\ ToSet(request_queue') = ToSet(request_queue)
      BY <1>0, <2>3 DEF Dispatch
    <3>3. NoneLost'
      BY <1>0, <2>1, <3>1, <3>2, <1>a
    <3> QED BY <1>2, <2>3, <3>2, <3>3, EmptySet DEF Dispatch, StartRequest, Accept
  <2> QED BY <1>2, <2>2, <2>3 DEF Accept
<1>3. CASE readyRead
  <2>1. Outstanding' = Outstanding /\ InFlight' = InFlight /\ request_queue' = request_queue
    BY <1>3 DEF readyRead, history, Outstanding, InFlight
  <2>2. NoneLost'
    BY <1>0, <2>1, <1>a DEF Distinct
  <2>3. reply_phase = "open" /\ last_reply \in Requests
    BY <1>3 DEF readyRead, Readable, TypeOK
  <2>4. ToSet(reply_data') \subseteq {last_reply}
    BY <1>0, <1>3, <2>3, AppendSet DEF readyRead
  <2> QED BY <1>3, <2>1, <2>2, <2>4 DEF readyRead, history
<1>4. CASE replyFinished
  <2>1. last_reply \in Requests /\ InFlight = {last_reply} /\ InFlight' = {}
    BY <1>4 DEF replyFinished, InFlight, TypeOK
  <2>2. Outstanding' = Outstanding \ {last_reply}
    BY <1>0, <1>4, <2>1 DEF replyFinished, Outstanding
  <2>3. NoneLost'
    BY <1>0, <1>4, <2>1, <2>2, <1>a DEF replyFinished, Distinct
  <2>4. ToSet(reply_data) \subseteq {last_reply}
    BY <1>4 DEF replyFinished
  <2>5. OwnBytes'
    BY <1>0, <1>4, <2>1, <2>4 DEF replyFinished
  <2> QED BY <1>4, <2>3, <2>5 DEF replyFinished
<1>5. CASE replyDestroyed
  <2>0. InFlight = {} /\ Outstanding' = Outstanding
    BY <1>5 DEF replyDestroyed, InFlight, Outstanding, history
  <2>1. CASE sendQueue
    <3>1. /\ Head(request_queue) \in Requests /\ request_queue' = Tail(request_queue)
          /\ ToSet(request_queue) = {Head(request_queue)} \cup ToSet(request_queue')
          /\ Distinct(request_queue') /\ Head(request_queue) \notin ToSet(request_queue')
      BY <1>0, <2>1, HeadTailSet DEF sendQueue, Sendable
    <3>2. InFlight' = {Head(request_queue)}
      BY <2>1 DEF sendQueue, StartRequest, InFlight
    <3>3. NoneLost'
      BY <1>0, <2>0, <3>1, <3>2, <1>a
    <3> QED BY <1>5, <2>1, <3>1, <3>3, EmptySet DEF replyDestroyed, sendQueue, StartRequest, history
  <2>2. CASE GiveUpQueue
    <3>1. request_queue = <<>>
      <4>1. request_queue # <<>> => Head(request_queue) \in ToSet(request_queue)
        BY <1>0, HeadTailSet
      <4> QED BY <4>1, <2>2 DEF GiveUpQueue, Sendable
    <3>2. InFlight' = {} /\ request_queue' = <<>>
      BY <2>2 DEF GiveUpQueue, InFlight
    <3>3. NoneLost'
      BY <1>0, <2>0, <3>1, <3>2, <1>a
    <3> QED BY <1>5, <2>2, <3>2, <3>3, EmptySet DEF replyDestroyed, GiveUpQueue, history
  <2> QED BY <1>5, <2>1, <2>2 DEF replyDestroyed
<1>6. CASE AbortedDestroyed
  <2>1. InFlight' = InFlight /\ Outstanding' = Outstanding /\ request_queue' = request_queue
    BY <1>6 DEF AbortedDestroyed, InFlight, Outstanding, history
  <2>2. NoneLost'
    BY <1>0, <2>1, <1>a DEF Distinct
  <2> QED BY <1>6, <2>1, <2>2 DEF AbortedDestroyed, history
<1>7. CASE cancel
  <2>1. Outstanding' = {}
    BY <1>0, <1>7 DEF cancel, Outstanding
  <2>2. InFlight' = {} /\ request_queue' = <<>>
    BY <1>7 DEF cancel, StopListening, InFlight
  <2>3. NoneLost'
    BY <2>1, <2>2, EmptySet, <1>a
  <2> QED BY <1>7, <2>2, <2>3, EmptySet DEF cancel, StopListening
<1>8. CASE UNCHANGED vars
  <2>1. NoneLost'
    BY <1>8 DEF vars, history, NoneLost, Outstanding, InFlight
  <2> QED BY <1>8, <2>1 DEF vars, history
<1> QED BY <1>1, <1>2, <1>3, <1>4, <1>5, <1>6, <1>7, <1>8 DEF Next, EventLoop, sendPost, sendGet

THEOREM Invariant == Spec => []Inv
<1>1. Inv => Types
  BY DEF Inv
<1> QED BY <1>1, InvInit, InvStep, TypesStep, PTL DEF Spec

(* The busy flag is up exactly while a reply is listened to. *)
THEOREM BusyIffListening == Spec => []RunningIffListening
<1>1. Inv => RunningIffListening
  BY DEF Inv
<1> QED BY <1>1, Invariant, PTL

(* No accepted request is forgotten or kept twice, however long the queue. *)
THEOREM NoRequestLost == Spec => []NoneLost
<1>1. Inv => NoneLost
  BY DEF Inv
<1> QED BY <1>1, Invariant, PTL

(* Bytes of one reply never end in the answer of another. *)
THEOREM BytesStayApart == Spec => []OwnBytes
<1>1. Inv => OwnBytes
  BY DEF Inv
<1> QED BY <1>1, Invariant, PTL

(* No request is answered twice, or after it was cancelled. *)
THEOREM AnsweredOnce == Spec => OutcomesFinal
<1> DEFINE Final == {"answered", "canceled", "refused"}
           Keep  == \A r \in Requests : outcome[r] \in Final => outcome'[r] = outcome[r]
<1>1. Inv /\ [Next]_vars => [Keep]_vars
  <2> SUFFICES ASSUME Inv, Next, NEW r \in Requests, outcome[r] \in Final
               PROVE  outcome'[r] = outcome[r]
    OBVIOUS
  <2>0. outcome \in [Requests -> Outcomes]
    BY DEF Inv, Types, TypeOK
  <2>1. ASSUME NEW q \in Requests, sendPost(q) \/ sendGet(q) PROVE outcome'[r] = outcome[r]
    BY <2>0, <2>1 DEF sendPost, sendGet, Refuse, Accept
  <2>2. CASE replyFinished
    <3>1. outcome[last_reply] = "accepted"
      BY <2>2 DEF replyFinished, Inv, NoneLost, InFlight, Outstanding
    <3> QED BY <2>0, <2>2, <3>1 DEF replyFinished
  <2>3. CASE cancel
    BY <2>0, <2>3 DEF cancel, Outstanding
  <2> QED BY <2>1, <2>2, <2>3
          DEF Next, EventLoop, readyRead, replyDestroyed, AbortedDestroyed, history
<1> QED BY <1>1, Invariant, PTL DEF Spec, OutcomesFinal

--------------------------------------------------------------------------------
(* The order of the answers.  The queue is sorted by the numbers of its       *)
(* requests, and what waits behind an open reply came after it, unless it is  *)
(* stranded.                                                                  *)
Sorted(q) == \A i, j \in 1 .. Len(q) : i < j => stamp[q[i]] < stamp[q[j]]

Order ==
    /\ IdleQueueIsStranded
    /\ \A r \in Requests : stamp[r] <= clock
    /\ Sorted(request_queue)
    /\ reply_phase = "open" =>
          \A r \in ToSet(request_queue) \ stranded : stamp[last_reply] < stamp[r]
    /\ InOrder

LEMMA OrderInit == Init => Order
BY EmptySet DEF Init, Order, IdleQueueIsStranded, Sorted, InOrder

(* A request that is accepted gets the greatest number. *)
LEMMA AcceptOrder ==
    ASSUME Inv, Order, NEW r \in Requests, outcome[r] = "new", Accept(r)
    PROVE  Order'
<1> USE HttpAssumption DEF Inv, Types
<1>0. /\ request_queue \in Seq(Requests) /\ stamp \in [Requests -> Nat] /\ clock \in Nat
      /\ outcome \in [Requests -> Outcomes] /\ Len(request_queue) \in Nat
      /\ last_reply \in Requests \cup {NoReply} /\ reply_phase \in Phases
  BY DEF TypeOK
<1>1. /\ r \notin ToSet(request_queue) /\ (reply_phase = "open" => last_reply # r)
      /\ ToSet(request_queue) \subseteq Requests
  BY DEF NoneLost, Outstanding, InFlight
<1>2. /\ clock' = clock + 1 /\ stamp'[r] = clock + 1 /\ outcome'[r] = "accepted"
      /\ \A q \in Requests \ {r} : stamp'[q] = stamp[q] /\ outcome'[q] = outcome[q]
      /\ \A q \in Requests : stamp[q] <= clock
  BY <1>0 DEF Accept, Order
<1>3. \A q \in Requests : stamp'[q] <= clock'
  BY <1>0, <1>2
<1>4. \A i \in 1 .. Len(request_queue) :
         request_queue[i] \in Requests /\ stamp'[request_queue[i]] = stamp[request_queue[i]]
  <2> SUFFICES ASSUME NEW i \in 1 .. Len(request_queue)
               PROVE  request_queue[i] \in Requests \ {r}
    BY <1>2
  <2>1. request_queue[i] \in ToSet(request_queue) /\ request_queue[i] \in Requests
    BY <1>0 DEF ToSet
  <2> QED BY <2>1, <1>1
<1>5. stranded \subseteq stranded'
  BY DEF Accept, Enqueue, Dispatch
<1>6. InOrder'
  <2> SUFFICES ASSUME NEW a \in Requests, NEW b \in Requests,
                      outcome'[a] = "answered", outcome'[b] = "accepted", b \notin stranded'
               PROVE  stamp'[a] < stamp'[b]
    BY DEF InOrder
  <2>1. a # r /\ outcome[a] = "answered" /\ stamp'[a] = stamp[a]
    BY <1>2
  <2>2. CASE b = r
    BY <2>1, <2>2, <1>0, <1>2
  <2>3. CASE b # r
    <3>1. outcome[b] = "accepted" /\ stamp'[b] = stamp[b] /\ b \notin stranded
      BY <2>3, <1>2, <1>5
    <3> QED BY <2>1, <3>1 DEF Order, InOrder
  <2> QED BY <2>2, <2>3
<1>7. CASE Enqueue(r)
  <2>1. /\ ToSet(request_queue') = ToSet(request_queue) \cup {r}
        /\ Len(request_queue') = Len(request_queue) + 1
        /\ \A i \in 1 .. Len(request_queue) : request_queue'[i] = request_queue[i]
        /\ request_queue'[Len(request_queue) + 1] = r
    BY <1>0, <1>7, AppendSet DEF Enqueue, Queued
  <2>2. Sorted(request_queue)'
    <3> SUFFICES ASSUME NEW i \in 1 .. (Len(request_queue) + 1),
                        NEW j \in 1 .. (Len(request_queue) + 1), i < j
                 PROVE  stamp'[request_queue'[i]] < stamp'[request_queue'[j]]
      BY <2>1 DEF Sorted
    <3>1. i \in 1 .. Len(request_queue)
      BY <1>0
    <3>2. CASE j \in 1 .. Len(request_queue)
      BY <3>1, <3>2, <2>1, <1>4 DEF Order, Sorted
    <3>3. CASE j = Len(request_queue) + 1
      <4>1. stamp'[request_queue'[j]] = clock + 1
        BY <3>3, <2>1, <1>2
      <4>2. stamp'[request_queue'[i]] = stamp[request_queue[i]] /\ request_queue[i] \in Requests
        BY <3>1, <2>1, <1>4
      <4>3. stamp[request_queue[i]] <= clock /\ stamp[request_queue[i]] \in Nat
        BY <4>2, <1>0, <1>2
      <4> QED BY <4>1, <4>2, <4>3, <1>0
    <3> QED BY <3>2, <3>3, <1>0
  <2>3. ASSUME reply_phase' = "open", NEW q \in ToSet(request_queue') \ stranded'
        PROVE  stamp'[last_reply'] < stamp'[q]
    <3>1. last_reply' = last_reply /\ reply_phase = "open" /\ last_reply \in Requests \ {r}
      BY <2>3, <1>0, <1>1, <1>7 DEF Enqueue, TypeOK
    <3>2. CASE q = r
      BY <3>1, <3>2, <1>0, <1>2
    <3>3. CASE q # r
      BY <2>1, <2>3, <3>1, <3>3, <1>1, <1>2, <1>5 DEF Order
    <3> QED BY <3>2, <3>3
  <2>4. IdleQueueIsStranded'
    <3> SUFFICES ASSUME ~request_running' PROVE ToSet(request_queue') \subseteq stranded'
      BY DEF IdleQueueIsStranded
    <3>1. reply_phase = "aborted" /\ ~request_running
      BY <1>0, <1>7 DEF Enqueue, RunningIffListening, Phases
    <3> QED BY <2>1, <3>1, <1>7 DEF Enqueue, Order, IdleQueueIsStranded
  <2> QED BY <1>3, <1>6, <2>2, <2>3, <2>4 DEF Order
<1>8. CASE Dispatch(r)
  <2>1. request_queue' = request_queue /\ stranded' = stranded /\ request_running'
    BY <1>8 DEF Dispatch, StartRequest
  <2>2. ToSet(request_queue) \subseteq stranded
    BY <1>8 DEF Dispatch, RunningIffListening, Order, IdleQueueIsStranded
  <2>3. Sorted(request_queue)'
    BY <2>1, <1>4 DEF Order, Sorted
  <2> QED BY <1>3, <1>6, <2>1, <2>2, <2>3 DEF Order, IdleQueueIsStranded
<1> QED BY <1>7, <1>8 DEF Accept

LEMMA OrderStep == Inv /\ Inv' /\ Order /\ [Next]_vars => Order'
<1> SUFFICES ASSUME Inv, Inv', Order, [Next]_vars PROVE Order'
  OBVIOUS
<1>0. /\ request_queue \in Seq(Requests) /\ stamp \in [Requests -> Nat] /\ clock \in Nat
      /\ outcome \in [Requests -> Outcomes]
  BY DEF Inv, Types, TypeOK
<1>1. ASSUME NEW r \in Requests, sendPost(r) \/ sendGet(r) PROVE Order'
  <2>1. CASE Refuse(r)
    <3>1. \A q \in Requests : outcome'[q] \in {"answered", "accepted"} => outcome'[q] = outcome[q]
      BY <1>0, <2>1 DEF Refuse
    <3> QED BY <2>1, <3>1 DEF Refuse, Order, IdleQueueIsStranded, Sorted, InOrder
  <2>2. CASE Accept(r)
    BY <1>1, <2>2, AcceptOrder DEF sendPost, sendGet
  <2> QED BY <1>1, <2>1, <2>2 DEF sendPost, sendGet
<1>2. CASE readyRead
  BY <1>2 DEF readyRead, history, Order, IdleQueueIsStranded, Sorted, InOrder
<1>3. CASE replyFinished
  <2>1. last_reply \in Requests /\ ToSet(request_queue) \cup {last_reply} = Outstanding
    BY <1>3 DEF replyFinished, Inv, NoneLost, InFlight, Outstanding
  <2>2. ASSUME NEW a \in Requests, NEW b \in Requests,
               outcome'[a] = "answered", outcome'[b] = "accepted", b \notin stranded
        PROVE  stamp[a] < stamp[b]
    <3>1. b # last_reply /\ outcome[b] = "accepted"
      BY <1>0, <1>3, <2>1, <2>2 DEF replyFinished
    <3>2. CASE a = last_reply
      BY <1>3, <2>1, <2>2, <3>1, <3>2 DEF replyFinished, Outstanding, Order
    <3>3. CASE a # last_reply
      BY <1>0, <1>3, <2>2, <3>1, <3>3 DEF replyFinished, Order, InOrder
    <3> QED BY <3>2, <3>3
  <2> QED BY <1>3, <2>2 DEF replyFinished, Order, IdleQueueIsStranded, Sorted, InOrder
<1>4. CASE replyDestroyed
  <2>1. CASE sendQueue
    <3>1. /\ last_reply' = request_queue[1] /\ request_queue' = Tail(request_queue)
          /\ request_running' /\ reply_phase' = "open"
          /\ UNCHANGED <<stamp, clock, outcome, stranded>>
      BY <1>0, <1>4, <2>1 DEF replyDestroyed, sendQueue, StartRequest, Sendable, history
    <3>2. /\ Len(request_queue) \in Nat \ {0} /\ Len(request_queue') = Len(request_queue) - 1
          /\ DOMAIN request_queue' = 1 .. (Len(request_queue) - 1)
          /\ \A i \in 1 .. (Len(request_queue) - 1) : request_queue'[i] = request_queue[i + 1]
      BY <1>0, <2>1, <3>1 DEF sendQueue, Sendable
    <3>3. Sorted(request_queue)'
      BY <3>1, <3>2 DEF Order, Sorted
    <3>4. ASSUME NEW q \in ToSet(request_queue') PROVE stamp[request_queue[1]] < stamp[q]
      <4>1. PICK i \in 1 .. (Len(request_queue) - 1) : q = request_queue[i + 1]
        BY <3>2, <3>4 DEF ToSet
      <4> QED BY <3>2, <4>1 DEF Order, Sorted
    <3> QED BY <3>1, <3>3, <3>4 DEF Order, IdleQueueIsStranded, InOrder
  <2>2. CASE GiveUpQueue
    <3>1. request_queue' = <<>> /\ reply_phase' = "none" /\ UNCHANGED history
      BY <1>4, <2>2 DEF replyDestroyed, GiveUpQueue
    <3> QED BY <3>1, EmptySet DEF history, Order, IdleQueueIsStranded, Sorted, InOrder
  <2> QED BY <1>4, <2>1, <2>2 DEF replyDestroyed
<1>5. CASE AbortedDestroyed
  BY <1>5 DEF AbortedDestroyed, history, Order, IdleQueueIsStranded, Sorted, InOrder
<1>6. CASE cancel
  <2>1. request_queue' = <<>> /\ reply_phase' # "open" /\ UNCHANGED <<clock, stamp, stranded>>
    BY <1>6 DEF cancel, StopListening
  <2>2. \A q \in Requests : outcome'[q] # "accepted"
    BY <1>0, <1>6 DEF cancel, Outstanding
  <2> QED BY <2>1, <2>2, EmptySet DEF Order, IdleQueueIsStranded, Sorted, InOrder
<1>7. CASE UNCHANGED vars
  BY <1>7 DEF vars, history, Order, IdleQueueIsStranded, Sorted, InOrder
<1> QED BY <1>1, <1>2, <1>3, <1>4, <1>5, <1>6, <1>7 DEF Next, EventLoop

LEMMA OrderInvariant == Spec => []Order
<1> QED BY Invariant, OrderInit, OrderStep, PTL DEF Spec

(* Answers keep the order of the requests, however many wait. *)
THEOREM AnswersInOrder == Spec => []InOrder
<1>1. Order => InOrder
  BY DEF Order
<1> QED BY <1>1, OrderInvariant, PTL

(* Only requests made behind an aborted reply can wait for nobody. *)
THEOREM OnlyStrandedWait == Spec => []IdleQueueIsStranded
<1>1. Order => IdleQueueIsStranded
  BY DEF Order
<1> QED BY <1>1, OrderInvariant, PTL
================================================================================
