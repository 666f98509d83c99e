----------------------------- MODULE DesktopProofs -----------------------------
(***************************************************************************)
(* What is proved of the desktop, for any number of starts and any sizes,  *)
(* and whatever is on its way.  What a queue of calls or signals leads to  *)
(* is stated by a chain of states, one for each message (Leads, Shows):    *)
(* posting a message makes the chain longer at its end, and doing the      *)
(* first one cuts off its beginning.  The invariants say where the chain   *)
(* ends, so they hold whatever is on its way.                              *)
(***************************************************************************)
EXTENDS Desktop, TLAPS

Symbols == {"Shift_L", "Alt_L", "Meta_L"} \cup Letters
Sizes   == (Nat \ {0}) \X (Nat \ {0})
Calls   == [op : {"startSession", "delete", "wheel"}]
           \cup [op : {"setMaxSize"}, size : Dims]
           \cup [op : {"key"}, symbol : Symbols, down : BOOLEAN]
           \cup [op : {"text"}, symbols : SUBSET Letters]
           \cup [op : {"mouse"}, buttons : SUBSET Buttons, move : BOOLEAN, down : BOOLEAN]
Signals == [signal : {"aliveChanged"}, alive : BOOLEAN]
           \cup [signal : {"sizeChanged", "areaChanged"}, size : Sizes]

Viewing == [client : Clients \cup {Nobody}, alive : BOOLEAN, frames : BOOLEAN,
            dimension : Sizes \cup {NoDim}, buttons : SUBSET Buttons,
            maxsize : Sizes \cup {NoDim}]
Working == [stage : {"none", "new", "started", "on", "off", "aborted", "deleted"},
            remote : Sizes \cup {NoDim}, picture : Sizes \cup {NoDim},
            maxsize : Sizes \cup {NoDim}, setsize : BOOLEAN,
            mask : SUBSET Buttons, modifiers : SUBSET Symbols]
Serving == [buttons : SUBSET Buttons, keys : SUBSET Symbols, asked : Sizes \cup {NoDim}]
Using   == [buttons : SUBSET Buttons, keys : SUBSET Keys, pressedAs : SUBSET Letters,
            renamed : SUBSET Letters, focus : BOOLEAN, lost : BOOLEAN]

Typed ==
    /\ view \in Viewing
    /\ client \in [Clients -> Working]
    /\ calls \in [Clients -> Seq(Calls)]
    /\ signals \in Seq(Signals)
    /\ user \in Using
    /\ server \in [Clients -> Serving]

(* A client that was not started or is deleted has nothing to do, one that    *)
(* was started starts a session once; there is a picture as long as there is a session, and the    *)
(* server was told of what the client keeps.                                  *)
Fresh(c) ==
    /\ client[c].remote = NoDim /\ client[c].picture = NoDim
    /\ client[c].mask = {} /\ client[c].modifiers = {}
    /\ server[c].keys = {} /\ server[c].asked = NoDim

Lives(c) ==
    /\ client[c].stage \in {"none", "deleted"} => calls[c] = <<>>
    /\ client[c].stage \in {"none", "new", "started"} => Fresh(c)
    /\ \A i \in 1 .. Len(calls[c]) :
          /\ calls[c][i].op = "startSession" => client[c].stage = "started"
          /\ view.client = c => calls[c][i].op # "delete"
    /\ \A i, j \in 1 .. Len(calls[c]) :
          calls[c][i].op = "startSession" /\ calls[c][j].op = "startSession" => i = j
    /\ view.client = c => client[c].stage \notin {"none", "deleted"}
    /\ client[c].stage = "on" => client[c].picture = client[c].remote
    /\ HasInstance(c) => client[c].picture # NoDim
    /\ HasInstance(c) /\ client[c].setsize => server[c].asked = client[c].maxsize
    /\ client[c].stage # "deleted" => server[c].buttons = client[c].mask

(* The view passes on events once it has a size, a button that it takes for   *)
(* pressed is one, and a key has symbols while it is held.                    *)
Passes ==
    /\ view.frames => view.dimension # NoDim
    /\ ~user.lost => view.buttons \subseteq user.buttons
    /\ "one" \notin user.keys => user.pressedAs = {}

--------------------------------------------------------------------------------
(* Where the calls on their way lead. *)

Hands == [on : BOOLEAN, keys : SUBSET Symbols, mods : SUBSET Symbols, mask : SUBSET Buttons,
          maxsize : Sizes \cup {NoDim}]

Present(c) == [on |-> HasInstance(c), keys |-> server[c].keys, mods |-> client[c].modifiers,
               mask |-> client[c].mask, maxsize |-> client[c].maxsize]

(* What a call makes of them while there is a session. *)
DoesKey(t, symbol, down) ==
    LET up   == Released(t.mods, symbol, down)
        keys == t.keys \ up
    IN  [t EXCEPT !.mods = IF ~isControlKey(symbol) THEN t.mods
                           ELSE IF down THEN t.mods \cup {symbol} ELSE (t.mods \ {symbol}) \ up,
                  !.keys = IF down THEN keys \cup {symbol} ELSE keys \ {symbol}]

DoesMouse(t, call) ==
    [t EXCEPT !.mask = IF call.move THEN t.mask
                       ELSE IF call.down THEN t.mask \cup call.buttons ELSE t.mask \ call.buttons]

Acts(t, call) ==
    CASE call.op = "key"   -> DoesKey(t, call.symbol, call.down)
      [] call.op = "text"  -> [t EXCEPT !.keys = @ \ call.symbols]
      [] call.op = "mouse" -> DoesMouse(t, call)
      [] OTHER             -> t

Does(t, call) ==
    IF call.op = "startSession" THEN [t EXCEPT !.on = TRUE]
    ELSE IF call.op = "setMaxSize" THEN [t EXCEPT !.maxsize = call.size]
    ELSE IF t.on THEN Acts(t, call) ELSE t

Leads(q, first, last) ==
    \E tr \in [0 .. Len(q) -> Hands] :
        /\ tr[0] = first /\ tr[Len(q)] = last
        /\ \A i \in 1 .. Len(q) : tr[i] = Does(tr[i - 1], q[i])

(* Of the keys and buttons, the server will know those that the user holds,   *)
(* and symbols that no release has named.                                     *)
Held(t) ==
    /\ t.mask \subseteq view.buttons
    /\ t.keys \ Letters = t.mods
    /\ "Shift_L" \in t.mods => "shift" \in user.keys
    /\ "Alt_L" \in t.mods => "alt" \in user.keys /\ "Meta_L" \notin t.mods
    /\ "Meta_L" \in t.mods => "alt" \in user.keys
    /\ t.keys \cap Letters \subseteq user.renamed \cup user.pressedAs

Idle(t) == ~t.on => t.keys = {} /\ t.mods = {} /\ t.mask = {}

Ends(t) == t.maxsize = view.maxsize /\ Idle(t) /\ (~user.lost => Held(t))

Followed(c) == \E t \in Hands : Leads(calls[c], Present(c), t) /\ Ends(t)

Led == \A c \in Clients :
          view.client = c /\ client[c].stage \in {"new", "started", "on", "aborted"}
              => Followed(c)

--------------------------------------------------------------------------------
(* Where the signals on their way lead. *)

Sights == [alive : BOOLEAN, dimension : Sizes \cup {NoDim}]

Seen == [alive |-> view.alive, dimension |-> view.dimension]

Makes(t, s) ==
    CASE s.signal = "aliveChanged" -> [t EXCEPT !.alive = s.alive]
      [] s.signal = "sizeChanged"  -> [t EXCEPT !.dimension = s.size]
      [] s.signal = "areaChanged"  -> IF t.dimension = NoDim THEN [t EXCEPT !.dimension = s.size]
                                      ELSE t

Shows(q, first, last) ==
    \E tr \in [0 .. Len(q) -> Sights] :
        /\ tr[0] = first /\ tr[Len(q)] = last
        /\ \A i \in 1 .. Len(q) : tr[i] = Makes(tr[i - 1], q[i])

Only(c) == \A d \in Clients : client[d].stage # "none" <=> d = c

Told ==
    /\ (\A c \in Clients : client[c].stage = "none")
           => signals = <<>> /\ Seen = [alive |-> FALSE, dimension |-> NoDim]
    /\ \A c \in Clients : Only(c) =>
          Shows(signals, Seen, [alive |-> HasInstance(c), dimension |-> client[c].picture])

Inv == Typed /\ (\A c \in Clients : Lives(c)) /\ Passes /\ Led /\ Told

--------------------------------------------------------------------------------
(* Sequences and chains. *)

LEMMA SymbolsOfKeys ==
    ASSUME NEW k \in Keys, NEW held
    PROVE  /\ Symbol(k, held) \in Symbols
           /\ k = "shift" => Symbol(k, held) = "Shift_L"
           /\ k = "alt" => Symbol(k, held) \in {"Alt_L", "Meta_L"}
           /\ k = "one" => Symbol(k, held) \in Letters
           /\ Ordinary(k) <=> k = "one"
BY DEF Symbol, Symbols, Letters, Keys, Ordinary, isControlKey

LEMMA AppendAt ==
    ASSUME NEW S, NEW q \in Seq(S), NEW x \in S
    PROVE  /\ Append(q, x) \in Seq(S) /\ Len(Append(q, x)) = Len(q) + 1 /\ Len(q) \in Nat
           /\ \A i \in 1 .. Len(q) : Append(q, x)[i] = q[i]
           /\ Append(q, x)[Len(q) + 1] = x
           /\ Append(q, x) # <<>>
OBVIOUS

LEMMA TailAt ==
    ASSUME NEW S, NEW q \in Seq(S), q # <<>>
    PROVE  /\ Len(q) \in Nat \ {0} /\ Tail(q) \in Seq(S) /\ Len(Tail(q)) = Len(q) - 1
           /\ Head(q) = q[1] /\ Head(q) \in S
           /\ \A i \in 1 .. (Len(q) - 1) : Tail(q)[i] = q[i + 1]
OBVIOUS

LEMMA DoesHands == ASSUME NEW t \in Hands, NEW call \in Calls PROVE Does(t, call) \in Hands
<1>1. CASE call.op = "setMaxSize"
  <2>1. call.size \in Sizes
    BY <1>1, DimAssumption DEF Calls, Sizes
  <2> QED BY <1>1, <2>1 DEF Does, Hands
<1>2. CASE call.op = "startSession"
  BY <1>2 DEF Does, Hands
<1>3. Acts(t, call) \in Hands
  <2>1. CASE call.op = "key"
    <3>1. call.symbol \in Symbols
      BY <2>1 DEF Calls
    <3> QED BY <2>1, <3>1 DEF Acts, DoesKey, Released, Hands
  <2>2. CASE call.op = "text"
    BY <2>2 DEF Acts, Hands
  <2>3. CASE call.op = "mouse"
    <3>1. call.buttons \in SUBSET Buttons
      BY <2>3 DEF Calls
    <3> QED BY <2>3, <3>1 DEF Acts, DoesMouse, Hands
  <2> QED BY <2>1, <2>2, <2>3 DEF Acts
<1> QED BY <1>1, <1>2, <1>3 DEF Does

(* A client without a session has nothing pressed: whatever the user does,    *)
(* its queue ends as it should while the view wants the same size.            *)
LEMMA IdleEnds ==
    ASSUME NEW t \in Hands, ~t.on, Ends(t), view'.maxsize = view.maxsize
    PROVE  Ends(t)'
BY DEF Ends, Idle, Held

LEMMA LeadsNowhere == ASSUME NEW t \in Hands PROVE Leads(<<>>, t, t)
<1> DEFINE tr == [i \in 0 .. 0 |-> t]
<1>1. Len(<<>>) = 0 /\ tr \in [0 .. 0 -> Hands] /\ tr[0] = t
  OBVIOUS
<1> HIDE DEF tr
<1>2. \A i \in 1 .. 0 : FALSE
  OBVIOUS
<1> QED BY <1>1, <1>2 DEF Leads

LEMMA LeadsEnd == ASSUME NEW a, NEW b, Leads(<<>>, a, b) PROVE a = b
BY DEF Leads

LEMMA LeadsAppend ==
    ASSUME NEW q \in Seq(Calls), NEW call \in Calls, NEW a, NEW b \in Hands, Leads(q, a, b)
    PROVE  Leads(Append(q, call), a, Does(b, call))
<1> DEFINE r == Append(q, call)
           n == Len(q)
<1>1. n \in Nat /\ Len(r) = n + 1 /\ r[n + 1] = call /\ \A i \in 1 .. n : r[i] = q[i]
  BY AppendAt
<1>2. PICK tr \in [0 .. n -> Hands] :
         /\ tr[0] = a /\ tr[n] = b
         /\ \A i \in 1 .. n : tr[i] = Does(tr[i - 1], q[i])
  BY DEF Leads
<1> DEFINE u == [i \in 0 .. (n + 1) |-> IF i <= n THEN tr[i] ELSE Does(b, call)]
<1> HIDE DEF r, n
<1>3. u \in [0 .. Len(r) -> Hands]
  BY <1>1, <1>2, DoesHands
<1>4. u[0] = a /\ u[Len(r)] = Does(b, call) /\ u[n] = b
  BY <1>1, <1>2
<1>5. ASSUME NEW i \in 1 .. Len(r) PROVE u[i] = Does(u[i - 1], r[i])
  <2>1. CASE i = n + 1
    BY <1>1, <1>4, <2>1
  <2>2. CASE i \in 1 .. n
    BY <1>1, <1>2, <2>2
  <2> QED BY <1>1, <2>1, <2>2
<1> HIDE DEF u
<1> QED BY <1>3, <1>4, <1>5 DEF Leads, r

LEMMA LeadsTail ==
    ASSUME NEW q \in Seq(Calls), q # <<>>, NEW a, NEW b, Leads(q, a, b)
    PROVE  Leads(Tail(q), Does(a, Head(q)), b)
<1> DEFINE r == Tail(q)
           n == Len(q)
<1>1. n \in Nat \ {0} /\ Len(r) = n - 1 /\ Head(q) = q[1] /\ \A i \in 1 .. (n - 1) : r[i] = q[i + 1]
  BY TailAt
<1>2. PICK tr \in [0 .. n -> Hands] :
         /\ tr[0] = a /\ tr[n] = b
         /\ \A i \in 1 .. n : tr[i] = Does(tr[i - 1], q[i])
  BY DEF Leads
<1> DEFINE u == [i \in 0 .. (n - 1) |-> tr[i + 1]]
<1> HIDE DEF r, n
<1>3. u \in [0 .. Len(r) -> Hands]
  BY <1>1, <1>2
<1>4. u[0] = Does(a, Head(q)) /\ u[Len(r)] = b
  <2>1. tr[1] = Does(tr[0], q[1])
    BY <1>1, <1>2
  <2> QED BY <1>1, <1>2, <2>1
<1>5. ASSUME NEW i \in 1 .. Len(r) PROVE u[i] = Does(u[i - 1], r[i])
  <2>1. u[i] = tr[i + 1] /\ u[i - 1] = tr[i] /\ r[i] = q[i + 1] /\ i + 1 \in 1 .. n
    BY <1>1
  <2>2. tr[i + 1] = Does(tr[(i + 1) - 1], q[i + 1])
    BY <1>2, <2>1
  <2>3. (i + 1) - 1 = i
    OBVIOUS
  <2> QED BY <2>1, <2>2, <2>3
<1> HIDE DEF u
<1> QED BY <1>3, <1>4, <1>5 DEF Leads, r

LEMMA MakesSights == ASSUME NEW t \in Sights, NEW s \in Signals PROVE Makes(t, s) \in Sights
<1>1. CASE s.signal = "aliveChanged"
  <2>1. s.alive \in BOOLEAN
    BY <1>1 DEF Signals
  <2> QED BY <1>1, <2>1 DEF Makes, Sights
<1>2. CASE s.signal # "aliveChanged"
  <2>1. s.signal \in {"sizeChanged", "areaChanged"} /\ s.size \in Sizes
    BY <1>2 DEF Signals
  <2> QED BY <1>2, <2>1 DEF Makes, Sights
<1> QED BY <1>1, <1>2

LEMMA ShowsNothing == ASSUME NEW t \in Sights PROVE Shows(<<>>, t, t)
<1> DEFINE tr == [i \in 0 .. 0 |-> t]
<1>1. Len(<<>>) = 0 /\ tr \in [0 .. 0 -> Sights] /\ tr[0] = t
  OBVIOUS
<1> HIDE DEF tr
<1>2. \A i \in 1 .. 0 : FALSE
  OBVIOUS
<1> QED BY <1>1, <1>2 DEF Shows

LEMMA ShowsEnd == ASSUME NEW a, NEW b, Shows(<<>>, a, b) PROVE a = b
BY DEF Shows

LEMMA ShowsAppend ==
    ASSUME NEW q \in Seq(Signals), NEW s \in Signals, NEW a, NEW b \in Sights, Shows(q, a, b)
    PROVE  Shows(Append(q, s), a, Makes(b, s))
<1> DEFINE r == Append(q, s)
           n == Len(q)
<1>1. n \in Nat /\ Len(r) = n + 1 /\ r[n + 1] = s /\ \A i \in 1 .. n : r[i] = q[i]
  BY AppendAt
<1>2. PICK tr \in [0 .. n -> Sights] :
         /\ tr[0] = a /\ tr[n] = b
         /\ \A i \in 1 .. n : tr[i] = Makes(tr[i - 1], q[i])
  BY DEF Shows
<1> DEFINE u == [i \in 0 .. (n + 1) |-> IF i <= n THEN tr[i] ELSE Makes(b, s)]
<1> HIDE DEF r, n
<1>3. u \in [0 .. Len(r) -> Sights]
  BY <1>1, <1>2, MakesSights
<1>4. u[0] = a /\ u[Len(r)] = Makes(b, s) /\ u[n] = b
  BY <1>1, <1>2
<1>5. ASSUME NEW i \in 1 .. Len(r) PROVE u[i] = Makes(u[i - 1], r[i])
  <2>1. CASE i = n + 1
    BY <1>1, <1>4, <2>1
  <2>2. CASE i \in 1 .. n
    BY <1>1, <1>2, <2>2
  <2> QED BY <1>1, <2>1, <2>2
<1> HIDE DEF u
<1> QED BY <1>3, <1>4, <1>5 DEF Shows, r

LEMMA ShowsTail ==
    ASSUME NEW q \in Seq(Signals), q # <<>>, NEW a, NEW b, Shows(q, a, b)
    PROVE  Shows(Tail(q), Makes(a, Head(q)), b)
<1> DEFINE r == Tail(q)
           n == Len(q)
<1>1. n \in Nat \ {0} /\ Len(r) = n - 1 /\ Head(q) = q[1] /\ \A i \in 1 .. (n - 1) : r[i] = q[i + 1]
  BY TailAt
<1>2. PICK tr \in [0 .. n -> Sights] :
         /\ tr[0] = a /\ tr[n] = b
         /\ \A i \in 1 .. n : tr[i] = Makes(tr[i - 1], q[i])
  BY DEF Shows
<1> DEFINE u == [i \in 0 .. (n - 1) |-> tr[i + 1]]
<1> HIDE DEF r, n
<1>3. u \in [0 .. Len(r) -> Sights]
  BY <1>1, <1>2
<1>4. u[0] = Makes(a, Head(q)) /\ u[Len(r)] = b
  <2>1. tr[1] = Makes(tr[0], q[1])
    BY <1>1, <1>2
  <2> QED BY <1>1, <1>2, <2>1
<1>5. ASSUME NEW i \in 1 .. Len(r) PROVE u[i] = Makes(u[i - 1], r[i])
  <2>1. u[i] = tr[i + 1] /\ u[i - 1] = tr[i] /\ r[i] = q[i + 1] /\ i + 1 \in 1 .. n
    BY <1>1
  <2>2. tr[i + 1] = Makes(tr[(i + 1) - 1], q[i + 1])
    BY <1>2, <2>1
  <2>3. (i + 1) - 1 = i
    OBVIOUS
  <2> QED BY <2>1, <2>2, <2>3
<1> HIDE DEF u
<1> QED BY <1>3, <1>4, <1>5 DEF Shows, r

--------------------------------------------------------------------------------
(* Events of the user. *)

LEMMA PostTells ==
    ASSUME Typed, NEW call \in Calls, Post(call)
    PROVE  /\ calls' \in [Clients -> Seq(Calls)]
           /\ \A c \in Clients : view.client # c => calls'[c] = calls[c]
           /\ \A c \in Clients : view.client = c => calls'[c] = Append(calls[c], call)
<1>1. CASE view.client = Nobody
  BY <1>1, NobodyAssumption DEF Post, Typed, Viewing, Working, Serving, Using, Nobody
<1>2. CASE view.client # Nobody
  <2>1. view.client \in Clients
    BY <1>2 DEF Typed, Viewing, Working, Serving, Using
  <2>2. Append(calls[view.client], call) \in Seq(Calls)
    BY <2>1, AppendAt DEF Typed, Viewing, Working, Serving, Using
  <2> QED BY <1>2, <2>1, <2>2 DEF Post, Typed, Viewing, Working, Serving, Using
<1> QED BY <1>1, <1>2

(* An event leaves the clients alone and posts at most one call, which keeps  *)
(* what the calls lead to.                                                    *)
Event(call) ==
    /\ UNCHANGED <<client, server, signals>>
    /\ view'.client = view.client /\ view'.alive = view.alive
    /\ view'.dimension = view.dimension
    /\ \/ Post(call) /\ \A t \in Hands : Ends(t) => Ends(Does(t, call))'
       \/ UNCHANGED calls /\ \A t \in Hands : Ends(t) => Ends(t)'

LEMMA EventKeeps ==
    ASSUME Inv, NEW call \in Calls, call.op \notin {"startSession", "delete"}, Event(call),
           view' \in Viewing,
           user' \in Using,
           Passes'
    PROVE  Inv'
<1>0. Typed /\ UNCHANGED <<client, server, signals>> /\ view'.client = view.client
  BY DEF Inv, Event
<1>1. /\ calls' \in [Clients -> Seq(Calls)]
      /\ \A c \in Clients : \/ calls'[c] = calls[c]
                            \/ view.client = c /\ calls'[c] = Append(calls[c], call)
  <2>1. CASE Post(call)
    BY <1>0, <2>1, PostTells
  <2>2. CASE UNCHANGED calls
    BY <1>0, <2>2 DEF Typed, Viewing, Working, Serving, Using
  <2> QED BY <2>1, <2>2 DEF Event
<1>2. Typed'
  BY <1>0, <1>1 DEF Typed, Viewing, Working, Serving, Using
<1>3. ASSUME NEW c \in Clients PROVE Lives(c)'
  <2>0. Lives(c) /\ calls[c] \in Seq(Calls)
    BY <1>0 DEF Inv, Typed, Viewing, Working, Serving, Using
  <2>1. CASE calls'[c] = calls[c]
    BY <1>0, <2>0, <2>1 DEF Lives, Fresh, HasInstance
  <2>2. CASE view.client = c /\ calls'[c] = Append(calls[c], call)
    <3>1. client[c].stage \notin {"none", "deleted"}
      BY <2>0, <2>2 DEF Lives
    <3>2. /\ Len(calls'[c]) = Len(calls[c]) + 1 /\ Len(calls[c]) \in Nat
          /\ \A i \in 1 .. Len(calls[c]) : calls'[c][i] = calls[c][i]
          /\ calls'[c][Len(calls[c]) + 1] = call
      BY <2>0, <2>2, AppendAt
    <3>3. ASSUME NEW i \in 1 .. Len(calls'[c])
          PROVE  /\ calls'[c][i].op = "startSession"
                       => i \in 1 .. Len(calls[c]) /\ calls[c][i].op = "startSession"
                 /\ calls'[c][i].op # "delete"
      <4>1. CASE i \in 1 .. Len(calls[c])
        BY <2>0, <2>2, <3>2, <4>1 DEF Lives
      <4>2. CASE i = Len(calls[c]) + 1
        BY <3>2, <4>2
      <4> QED BY <3>2, <4>1, <4>2
    <3> QED BY <1>0, <2>0, <2>2, <3>1, <3>3 DEF Lives, Fresh, HasInstance
  <2> QED BY <1>1, <2>1, <2>2
<1>4. Led'
  <2> SUFFICES ASSUME NEW c \in Clients, view.client = c,
                      client[c].stage \in {"new", "started", "on", "aborted"}
               PROVE  Followed(c)'
    BY <1>0 DEF Led
  <2>1. PICK t \in Hands : Leads(calls[c], Present(c), t) /\ Ends(t)
    BY DEF Inv, Led, Followed
  <2>2. Present(c)' = Present(c)
    BY <1>0 DEF Present, HasInstance
  <2>3. CASE UNCHANGED calls /\ Ends(t)'
    <3>1. Leads(calls'[c], Present(c)', t)
      BY <2>1, <2>2, <2>3
    <3> QED BY <2>3, <3>1 DEF Followed
  <2>4. CASE Post(call) /\ Ends(Does(t, call))'
    <3>1. calls'[c] = Append(calls[c], call) /\ calls[c] \in Seq(Calls)
      BY <1>0, <2>4, PostTells DEF Typed, Viewing, Working, Serving, Using
    <3>2. Leads(calls'[c], Present(c)', Does(t, call)) /\ Does(t, call) \in Hands
      BY <2>1, <2>2, <3>1, LeadsAppend, DoesHands
    <3> QED BY <2>4, <3>2 DEF Followed
  <2> QED BY <2>1, <2>3, <2>4 DEF Event
<1>5. Told'
  <2>1. Seen' = Seen /\ UNCHANGED <<signals, client>>
    BY <1>0 DEF Event, Seen
  <2> QED BY <2>1 DEF Inv, Told, Only, HasInstance
<1> QED BY <1>2, <1>3, <1>4, <1>5 DEF Inv

LEMMA SetMaxSizeInv == ASSUME Inv, NEW d \in Dims, setMaxSize(d) PROVE Inv'
<1> DEFINE call == [op |-> "setMaxSize", size |-> d]
<1>1. call \in Calls /\ call.op \notin {"startSession", "delete"} /\ d \in Sizes
  BY DimAssumption DEF Calls, Sizes
<1>2. /\ view' = [view EXCEPT !.maxsize = d] /\ Post(call) /\ UNCHANGED <<client, signals, user, server>>
  BY DEF setMaxSize
<1>3. ASSUME NEW t \in Hands, Ends(t) PROVE Ends(Does(t, call))'
  <2>1. Does(t, call) = [t EXCEPT !.maxsize = d]
    BY DEF Does
  <2> HIDE DEF call
  <2>2. view'.maxsize = d /\ view'.buttons = view.buttons /\ UNCHANGED user
    BY <1>2 DEF Inv, Typed, Viewing, Working, Serving, Using
  <2>3. Does(t, call) \in Hands /\ Does(t, call).maxsize = d /\ Does(t, call).keys = t.keys
        /\ Does(t, call).mods = t.mods /\ Does(t, call).mask = t.mask
        /\ Does(t, call).on = t.on
    BY <2>1, <1>1 DEF Hands
  <2> QED BY <1>3, <2>2, <2>3 DEF Ends, Idle, Held
<1> HIDE DEF call
<1>4. view' \in Viewing
      /\ user' \in Using
  BY <1>1, <1>2 DEF Inv, Typed, Viewing, Working, Serving, Using
<1>5. Event(call) /\ Passes'
  BY <1>2, <1>3 DEF Event, Inv, Typed, Viewing, Working, Serving, Using, Passes
<1> QED BY <1>1, <1>4, <1>5, EventKeeps

(* Events that post a call without effect on what is pressed, or none. *)
LEMMA EventOnlyPosts ==
    ASSUME Inv, NEW call \in Calls, call.op \notin {"startSession", "delete"},
           UNCHANGED <<view, client, signals, user, server>>,
           Post(call) \/ UNCHANGED calls,
           \A t \in Hands : Ends(t) => Ends(Does(t, call))
    PROVE  Inv'
<1>1. \A t \in Hands : (Ends(t) => Ends(t)') /\ (Ends(t) => Ends(Does(t, call))')
  BY DEF Ends, Idle, Held
<1>2. Event(call) /\ Passes'
  BY <1>1 DEF Event, Inv, Passes
<1> QED BY <1>2, EventKeeps DEF Inv, Typed, Viewing, Working, Serving, Using

MouseCalls == [op : {"mouse"}, buttons : SUBSET Buttons, move : BOOLEAN, down : BOOLEAN]

LEMMA MouseCall ==
    ASSUME NEW call \in MouseCalls, NEW t \in Hands
    PROVE  /\ call \in Calls /\ call.op = "mouse"
           /\ Does(t, call) \in Hands /\ Does(t, call).on = t.on
           /\ Does(t, call).keys = t.keys /\ Does(t, call).mods = t.mods
           /\ Does(t, call).maxsize = t.maxsize
           /\ Does(t, call).mask = IF ~t.on \/ call.move THEN t.mask
                                   ELSE IF call.down THEN t.mask \cup call.buttons
                                   ELSE t.mask \ call.buttons
<1>1. call \in Calls /\ call.op = "mouse"
  BY DEF Calls, MouseCalls
<1>2. Does(t, call) \in Hands
  BY <1>1, DoesHands
<1>3. Does(t, call) = IF t.on THEN DoesMouse(t, call) ELSE t
  BY <1>1 DEF Does, Acts
<1> QED BY <1>1, <1>2, <1>3 DEF DoesMouse, Hands

LEMMA MoveInv == ASSUME Inv, mouseMoveEvent \/ hoverMoveEvent PROVE Inv'
<1>1. PICK buttons \in SUBSET Buttons, down \in BOOLEAN :
         emitMouseAction(TRUE, buttons, TRUE, down)
  <2>1. CASE mouseMoveEvent
    BY <2>1 DEF mouseMoveEvent, Inv, Typed, Viewing, Working, Serving, Using
  <2>2. CASE hoverMoveEvent
    BY <2>2 DEF hoverMoveEvent
  <2> QED BY <2>1, <2>2
<1> DEFINE call == [op |-> "mouse", buttons |-> buttons, move |-> TRUE, down |-> down]
<1>2. Post(call) \/ UNCHANGED calls
  BY <1>1 DEF emitMouseAction
<1>3. call \in MouseCalls /\ call.move
  BY DEF MouseCalls
<1> HIDE DEF call
<1>4. UNCHANGED <<view, client, signals, user, server>>
  BY DEF mouseMoveEvent, hoverMoveEvent
<1>5. ASSUME NEW t \in Hands, Ends(t) PROVE Ends(Does(t, call))
  <2>1. /\ Does(t, call).keys = t.keys /\ Does(t, call).mods = t.mods
        /\ Does(t, call).maxsize = t.maxsize /\ Does(t, call).mask = t.mask
        /\ Does(t, call).on = t.on
    BY <1>3, MouseCall
  <2> QED BY <1>5, <2>1 DEF Ends, Idle, Held
<1>6. call \in Calls /\ call.op = "mouse"
  BY <1>3 DEF MouseCalls, Calls
<1> QED BY <1>2, <1>4, <1>5, <1>6, EventOnlyPosts

LEMMA WheelInv == ASSUME Inv, wheelEvent PROVE Inv'
<1> DEFINE call == [op |-> "wheel"]
<1>1. call \in Calls /\ call.op = "wheel"
  BY DEF Calls
<1>2. Post(call) /\ UNCHANGED <<view, client, signals, user, server>>
  BY DEF wheelEvent
<1> HIDE DEF call
<1>3. \A t : Does(t, call) = t
  BY <1>1 DEF Does, Acts
<1> QED BY <1>1, <1>2, <1>3, EventOnlyPosts

LEMMA TextInv == ASSUME Inv, inputMethodEvent PROVE Inv'
<1>0. PICK letter \in Letters : Post([op |-> "text", symbols |-> {letter}])
  BY DEF inputMethodEvent
<1> DEFINE call == [op |-> "text", symbols |-> {letter}]
<1>1. call \in Calls /\ call.op = "text" /\ call.symbols = {letter}
  BY DEF Calls
<1>2. Post(call) /\ UNCHANGED <<view, client, signals, user, server>>
  BY <1>0 DEF inputMethodEvent
<1> HIDE DEF call
<1>3. ASSUME NEW t \in Hands, Ends(t) PROVE Ends(Does(t, call))
  <2>1. Does(t, call) = IF t.on THEN [t EXCEPT !.keys = @ \ {letter}] ELSE t
    BY <1>1 DEF Does, Acts
  <2>2. CASE ~t.on
    BY <1>3, <2>1, <2>2
  <2>3. CASE t.on
    <3>1. Does(t, call).keys = t.keys \ {letter} /\ Does(t, call).mods = t.mods
          /\ Does(t, call).maxsize = t.maxsize /\ Does(t, call).mask = t.mask
          /\ Does(t, call).on
      BY <2>1, <2>3 DEF Hands
    <3> QED BY <1>3, <3>1 DEF Ends, Idle, Held
  <2> QED BY <2>2, <2>3
<1> QED BY <1>1, <1>2, <1>3, EventOnlyPosts

LEMMA FocusInv == ASSUME Inv, focusChanges PROVE Inv'
<1>1. /\ UNCHANGED <<view, client, calls, signals, server>> /\ user' = [user EXCEPT !.focus = ~@]
  BY DEF focusChanges
<1>2. user' \in Using
      /\ user'.keys = user.keys /\ user'.buttons = user.buttons /\ user'.lost = user.lost
      /\ user'.pressedAs = user.pressedAs /\ user'.renamed = user.renamed
  BY <1>1 DEF Inv, Typed, Viewing, Working, Serving, Using
<1>3. \A t \in Hands : Ends(t) => Ends(t)'
  BY <1>1, <1>2 DEF Ends, Idle, Held
<1> DEFINE call == [op |-> "wheel"]
<1>4. call \in Calls /\ call.op \notin {"startSession", "delete"}
  BY DEF Calls
<1> HIDE DEF call
<1>5. Event(call) /\ Passes'
  BY <1>1, <1>2, <1>3 DEF Event, Inv, Passes
<1> QED BY <1>1, <1>2, <1>4, <1>5, EventKeeps DEF Inv, Typed, Viewing, Working, Serving, Using

LEMMA KeyInv == ASSUME Inv, NEW k \in Keys, keyPressEvent(k) \/ keyReleaseEvent(k) PROVE Inv'
<1>0. /\ user \in Using /\ user.keys \in SUBSET Keys /\ Passes
      /\ user.renamed \subseteq Letters /\ user.pressedAs \subseteq Letters
  BY DEF Inv, Typed, Viewing, Working, Serving, Using
<1>1. PICK symbol \in Symbols, down \in BOOLEAN :
         /\ down => keyPressEvent(k) /\ symbol = Symbol(k, user.keys)
         /\ ~down => keyReleaseEvent(k) /\ symbol = Symbol(k, user.keys \ {k})
  <2>1. CASE keyPressEvent(k)
    BY <2>1, SymbolsOfKeys
  <2>2. CASE keyReleaseEvent(k)
    BY <2>2, SymbolsOfKeys
  <2> QED BY <2>1, <2>2
<1>2. /\ k = "shift" => symbol = "Shift_L"
      /\ k = "alt" => symbol \in {"Alt_L", "Meta_L"}
      /\ k = "one" => symbol \in Letters
      /\ Ordinary(k) <=> k = "one"
      /\ isControlKey(symbol) <=> k # "one"
  BY <1>1, SymbolsOfKeys DEF isControlKey, Letters, Keys
<1> DEFINE call == [op |-> "key", symbol |-> symbol, down |-> down]
<1>3. /\ UNCHANGED <<view, client, signals, server>>
      /\ IF Listens THEN Post(call) ELSE UNCHANGED calls
  <2>1. CASE down
    BY <1>1, <2>1 DEF keyPressEvent
  <2>2. CASE ~down
    BY <1>1, <2>2 DEF keyReleaseEvent
  <2> QED BY <2>1, <2>2
<1>4. /\ user' \in Using
      /\ user'.keys = IF down THEN user.keys \cup {k} ELSE user.keys \ {k}
      /\ user'.buttons = user.buttons
      /\ user.lost => user'.lost
      /\ ~user'.lost => down \/ Listens
      /\ user'.pressedAs = IF k # "one" THEN user.pressedAs
                           ELSE IF down THEN user.pressedAs \cup {symbol} ELSE {}
      /\ user'.renamed = IF k # "one" \/ down THEN user.renamed
                         ELSE (user.renamed \cup user.pressedAs) \ {symbol}
      /\ down /\ k # "one" => k \notin user.keys
  <2>1. CASE down
    <3> DEFINE p == IF k = "one" THEN user.pressedAs \cup {symbol} ELSE user.pressedAs
    <3>1. user' = [user EXCEPT !.keys = user.keys \cup {k}, !.pressedAs = p]
      BY <1>1, <1>2, <2>1 DEF keyPressEvent
    <3>2. p \subseteq Letters
      BY <1>0, <1>2
    <3>3. k # "one" => k \notin user.keys
      BY <1>1, <1>2, <2>1 DEF keyPressEvent
    <3> HIDE DEF p
    <3>4. /\ user' \in Using /\ user'.keys = user.keys \cup {k} /\ user'.pressedAs = p
          /\ user'.buttons = user.buttons /\ user'.lost = user.lost
          /\ user'.renamed = user.renamed
      BY <1>0, <3>1, <3>2 DEF Using
    <3> QED BY <2>1, <3>3, <3>4 DEF p
  <2>2. CASE ~down
    <3> DEFINE l == user.lost \/ ~Listens
               p == IF k = "one" THEN {} ELSE user.pressedAs
               q == IF k = "one" THEN (user.renamed \cup user.pressedAs) \ {symbol}
                    ELSE user.renamed
    <3>1. user' = [user EXCEPT !.keys = user.keys \ {k}, !.lost = l, !.renamed = q, !.pressedAs = p]
      BY <1>1, <1>2, <2>2 DEF keyReleaseEvent
    <3>2. p \subseteq Letters /\ q \subseteq Letters
      BY <1>0
    <3>3. l \in BOOLEAN
      OBVIOUS
    <3> HIDE DEF l, p, q
    <3>4. user'.lost <=> l
      BY <1>0, <3>1, <3>3 DEF Using
    <3>5. /\ user' \in Using /\ user'.keys = user.keys \ {k} /\ user'.pressedAs = p
          /\ user'.buttons = user.buttons /\ user'.renamed = q
      BY <1>0, <3>1, <3>2, <3>3 DEF Using
    <3> QED BY <2>2, <3>4, <3>5 DEF l, p, q
  <2> QED BY <2>1, <2>2
<1>5. /\ call \in Calls /\ call.op = "key"
      /\ \A t : Does(t, call) = IF t.on THEN DoesKey(t, symbol, down) ELSE t
  BY DEF Calls, Does, Acts
<1>8. Passes'
  BY <1>0, <1>3, <1>4 DEF Passes
<1> HIDE DEF call
<1>6. CASE ~Listens
  <2>1. \A t \in Hands : Ends(t) => Ends(t)'
    BY <1>3, <1>4, <1>6 DEF Ends, Idle, Held, Hands
  <2>2. Event(call)
    BY <1>3, <1>4, <1>6, <2>1 DEF Event
  <2> QED BY <1>3, <1>4, <1>5, <1>8, <2>2, EventKeeps DEF Inv, Typed
<1>7. CASE Listens
  <2>1. ASSUME NEW t \in Hands, Ends(t), t.on PROVE Ends(Does(t, call))'
    <3> DEFINE r == DoesKey(t, symbol, down)
               up == Released(t.mods, symbol, down)
    <3>1. /\ r.maxsize = t.maxsize /\ r.mask = t.mask /\ r.on
          /\ r.mods = IF ~isControlKey(symbol) THEN t.mods
                      ELSE IF down THEN t.mods \cup {symbol} ELSE (t.mods \ {symbol}) \ up
          /\ r.keys = IF down THEN (t.keys \ up) \cup {symbol} ELSE (t.keys \ up) \ {symbol}
      BY <2>1 DEF DoesKey, Hands
    <3>2. up = IF isControlKey(symbol) /\ ~down /\ symbol \notin t.mods THEN t.mods ELSE {}
      BY DEF Released
    <3>3. t.mods \subseteq Symbols /\ t.keys \subseteq Symbols
      BY DEF Hands
    <3> HIDE DEF r, up
    <3>4. r.maxsize = view'.maxsize
      BY <1>3, <2>1, <3>1 DEF Ends
    <3>5. ASSUME ~user'.lost PROVE Held(r)'
      <4>1. Held(t)
        BY <1>4, <2>1, <3>5 DEF Ends
      <4>2. r.mask \subseteq view'.buttons
        BY <1>3, <3>1, <4>1 DEF Held
      <4>3. CASE ~isControlKey(symbol)
        <5>1. symbol \in Letters /\ k = "one"
          BY <1>2, <4>3
        <5>2. up = {} /\ r.mods = t.mods
              /\ r.keys = IF down THEN t.keys \cup {symbol} ELSE t.keys \ {symbol}
          BY <3>1, <3>2, <4>3
        <5>3. r.keys \cap Letters \subseteq user'.renamed \cup user'.pressedAs
          BY <1>4, <4>1, <5>1, <5>2 DEF Held
        <5>4. /\ "shift" \in user'.keys <=> "shift" \in user.keys
              /\ "alt" \in user'.keys <=> "alt" \in user.keys
          BY <1>4, <5>1
        <5>5. r.keys \ Letters = r.mods
          BY <4>1, <5>1, <5>2 DEF Held
        <5> QED BY <4>1, <4>2, <5>2, <5>3, <5>4, <5>5 DEF Held
      <4>4. CASE isControlKey(symbol) /\ down
        <5>1. /\ symbol \in {"Shift_L", "Alt_L", "Meta_L"} /\ symbol \notin Letters
              /\ symbol = "Shift_L" <=> k = "shift"
              /\ symbol \in {"Alt_L", "Meta_L"} <=> k = "alt"
          BY <1>2, <4>4 DEF isControlKey, Keys, Letters
        <5>2. up = {} /\ r.mods = t.mods \cup {symbol} /\ r.keys = t.keys \cup {symbol}
          BY <3>1, <3>2, <4>4
        <5>3. user'.keys = user.keys \cup {k} /\ k \notin user.keys
          BY <1>2, <1>4, <4>4
        <5>4. r.keys \ Letters = r.mods
          BY <4>1, <5>1, <5>2 DEF Held
        <5>5. /\ "Shift_L" \in r.mods => "shift" \in user'.keys
              /\ r.keys \cap Letters \subseteq user'.renamed \cup user'.pressedAs
          BY <1>2, <1>4, <4>1, <4>4, <5>1, <5>2, <5>3 DEF Held
        <5>6. CASE k = "alt"
          <6>1. "Alt_L" \notin t.mods /\ "Meta_L" \notin t.mods
            BY <4>1, <5>3, <5>6 DEF Held
          <6> QED BY <4>2, <5>1, <5>2, <5>3, <5>4, <5>5, <5>6, <6>1 DEF Held
        <5>7. CASE k # "alt"
          BY <4>1, <4>2, <5>1, <5>2, <5>3, <5>4, <5>5, <5>7 DEF Held
        <5> QED BY <5>6, <5>7
      <4>5. CASE isControlKey(symbol) /\ ~down
        <5>1. /\ symbol \in {"Shift_L", "Alt_L", "Meta_L"} /\ symbol \notin Letters
              /\ symbol = "Shift_L" <=> k = "shift"
              /\ symbol \in {"Alt_L", "Meta_L"} <=> k = "alt"
          BY <1>2, <4>5 DEF isControlKey, Keys, Letters
        <5>2. user'.keys = user.keys \ {k}
          BY <1>4, <4>5
        <5>3. r.mods = (t.mods \ {symbol}) \ up /\ r.keys = (t.keys \ up) \ {symbol}
          BY <3>1, <4>5
        <5>4. up \subseteq t.mods
          BY <3>2
        <5>5. /\ r.keys \ Letters = r.mods
              /\ r.keys \cap Letters \subseteq user'.renamed \cup user'.pressedAs
          BY <1>2, <1>4, <4>1, <4>5, <5>1, <5>3, <5>4 DEF Held
        <5>6. CASE symbol \notin t.mods
          <6>1. r.mods = {}
            BY <3>2, <4>5, <5>3, <5>6
          <6> QED BY <4>2, <5>5, <6>1 DEF Held
        <5>7. CASE symbol \in t.mods
          <6>1. up = {}
            BY <3>2, <5>7
          <6>2. r.mods = t.mods \ {symbol}
            BY <5>3, <6>1
          <6> QED BY <4>1, <4>2, <5>1, <5>2, <5>5, <5>7, <6>2 DEF Held
        <5> QED BY <5>6, <5>7
      <4> QED BY <4>3, <4>4, <4>5
    <3>6. Does(t, call) = r
      BY <1>5, <2>1 DEF r
    <3>7. Ends(r)'
      BY <3>1, <3>4, <3>5 DEF Ends, Idle
    <3> QED BY <3>6, <3>7
  <2>2. ASSUME NEW t \in Hands, Ends(t), ~t.on PROVE Ends(Does(t, call))'
    <3>1. Does(t, call) = t /\ view'.maxsize = view.maxsize
      BY <1>3, <1>5, <2>2
    <3>2. Ends(t)'
      BY <2>2, <3>1, IdleEnds
    <3> QED BY <3>1, <3>2
  <2>3. Event(call)
    BY <1>3, <1>4, <1>7, <2>1, <2>2 DEF Event
  <2> QED BY <1>3, <1>4, <1>5, <1>8, <2>3, EventKeeps DEF Inv, Typed
<1> QED BY <1>6, <1>7

LEMMA MousePressInv ==
    ASSUME Inv, NEW b \in Buttons, NEW inside \in BOOLEAN, mousePressEvent(b, inside)
    PROVE  Inv'
<1>0. Typed /\ Passes
  BY DEF Inv
<1>1. PICK held \in SUBSET Buttons : held = user.buttons \cup {b}
  BY <1>0 DEF Typed, Viewing, Working, Serving, Using
<1>2. /\ UNCHANGED <<client, signals, server>>
      /\ user' = [user EXCEPT !.buttons = held, !.focus = @ \/ view.frames]
      /\ IF view.frames
         THEN view' = [view EXCEPT !.buttons = held] /\ emitMouseAction(inside, held, FALSE, TRUE)
         ELSE UNCHANGED <<view, calls>>
  BY <1>1 DEF mousePressEvent
<1>3. /\ user' \in Using
      /\ user'.buttons = held /\ user'.keys = user.keys /\ user'.lost = user.lost
      /\ user'.pressedAs = user.pressedAs /\ user'.renamed = user.renamed
  BY <1>0, <1>1, <1>2 DEF Typed, Viewing, Working, Serving, Using
<1>4. /\ view' \in Viewing
      /\ view'.client = view.client /\ view'.alive = view.alive /\ view'.frames = view.frames
      /\ view'.dimension = view.dimension /\ view'.maxsize = view.maxsize
      /\ view'.buttons = IF view.frames THEN held ELSE view.buttons
  BY <1>0, <1>2 DEF Typed, Viewing, Working, Serving, Using
<1> DEFINE call == [op |-> "mouse", buttons |-> held, move |-> FALSE, down |-> TRUE]
<1>5. call \in MouseCalls /\ ~call.move /\ call.down /\ call.buttons = held
  BY DEF MouseCalls
<1>6. \/ Post(call) /\ view.frames
      \/ UNCHANGED calls
  BY <1>2 DEF emitMouseAction
<1> HIDE DEF call
<1>7. ASSUME NEW t \in Hands, Ends(t)
      PROVE  /\ Ends(t)'
             /\ view.frames => Ends(Does(t, call))'
  <2>1. /\ Does(t, call).keys = t.keys /\ Does(t, call).mods = t.mods
        /\ Does(t, call).maxsize = t.maxsize /\ Does(t, call).on = t.on
        /\ Does(t, call).mask = IF t.on THEN t.mask \cup held ELSE t.mask
    BY <1>5, MouseCall
  <2>2. ~user.lost => t.mask \subseteq view.buttons /\ view.buttons \subseteq user.buttons
    BY <1>0, <1>7 DEF Ends, Held, Passes
  <2> QED BY <1>1, <1>3, <1>4, <1>7, <2>1, <2>2 DEF Ends, Idle, Held
<1>8. Event(call)
  BY <1>2, <1>4, <1>6, <1>7 DEF Event
<1>9. Passes'
  BY <1>0, <1>1, <1>3, <1>4 DEF Passes
<1>10. call \in Calls /\ call.op = "mouse"
  BY <1>5 DEF MouseCalls, Calls
<1> QED BY <1>3, <1>4, <1>8, <1>9, <1>10, EventKeeps

LEMMA MouseReleaseInv ==
    ASSUME Inv, NEW b \in Buttons, NEW inside \in BOOLEAN, mouseReleaseEvent(b, inside)
    PROVE  Inv'
<1>0. Typed /\ Passes
  BY DEF Inv
<1>1. PICK held \in SUBSET Buttons : held = view.buttons
  BY <1>0 DEF Typed, Viewing, Working, Serving, Using
<1> DEFINE passed == Listens /\ held # {}
           l == user.lost \/ (held # {} /\ ~(Listens /\ inside))
<1>2. /\ UNCHANGED <<client, signals, server>>
      /\ user' = [user EXCEPT !.buttons = @ \ {b}, !.lost = l]
      /\ IF passed
         THEN view' = [view EXCEPT !.buttons = {}] /\ emitMouseAction(inside, held, FALSE, FALSE)
         ELSE UNCHANGED <<view, calls>>
  BY <1>1 DEF mouseReleaseEvent
<1>3. /\ user' \in Using
      /\ user'.buttons = user.buttons \ {b} /\ user'.keys = user.keys /\ (user'.lost <=> l)
      /\ user'.pressedAs = user.pressedAs /\ user'.renamed = user.renamed
  <2>1. l \in BOOLEAN
    OBVIOUS
  <2> HIDE DEF l
  <2> QED BY <1>0, <1>2, <2>1 DEF Typed, Viewing, Working, Serving, Using
<1>4. /\ view' \in Viewing
      /\ view'.client = view.client /\ view'.alive = view.alive /\ view'.frames = view.frames
      /\ view'.dimension = view.dimension /\ view'.maxsize = view.maxsize
      /\ view'.buttons = IF passed THEN {} ELSE held
  <2> HIDE DEF passed
  <2> QED BY <1>0, <1>1, <1>2 DEF Typed, Viewing, Working, Serving, Using
<1> DEFINE call == [op |-> "mouse", buttons |-> held, move |-> FALSE, down |-> FALSE]
<1>5. call \in MouseCalls /\ ~call.move /\ ~call.down /\ call.buttons = held
  BY DEF MouseCalls
<1> DEFINE posted == passed /\ inside /\ view.dimension # NoDim
<1>6. IF posted THEN Post(call) ELSE UNCHANGED calls
  BY <1>2 DEF emitMouseAction
<1>7. (~l => held = {} \/ posted) /\ (posted => passed)
  BY <1>0 DEF Listens, Passes
<1> HIDE DEF call, passed, posted
<1>8. ~user'.lost => ~user.lost /\ (held = {} \/ posted)
  BY <1>3, <1>7
<1>9. ASSUME NEW t \in Hands, Ends(t)
      PROVE  /\ ~posted => Ends(t)'
             /\ posted => Ends(Does(t, call))'
  <2>1. /\ Does(t, call).keys = t.keys /\ Does(t, call).mods = t.mods
        /\ Does(t, call).maxsize = t.maxsize /\ Does(t, call).on = t.on
        /\ Does(t, call).mask = IF t.on THEN t.mask \ held ELSE t.mask
    BY <1>5, MouseCall
  <2>2. ~user.lost => t.mask \subseteq held
    BY <1>1, <1>9 DEF Ends, Held
  <2>3. ~posted => Ends(t)'
    BY <1>3, <1>4, <1>8, <1>9, <2>2 DEF Ends, Idle, Held
  <2>4. posted => Ends(Does(t, call))'
    BY <1>3, <1>4, <1>7, <1>8, <1>9, <2>1, <2>2 DEF Ends, Idle, Held
  <2> QED BY <2>3, <2>4
<1>10. Event(call)
  BY <1>2, <1>4, <1>6, <1>9 DEF Event
<1>11. Passes'
  <2>1. ASSUME ~user'.lost PROVE view'.buttons \subseteq user'.buttons
    <3>1. CASE held = {}
      BY <1>4, <3>1
    <3>2. CASE posted
      BY <1>4, <1>7, <3>2
    <3> QED BY <1>8, <2>1, <3>1, <3>2
  <2> QED BY <1>0, <1>3, <1>4, <2>1 DEF Passes
<1>12. call \in Calls /\ call.op = "mouse"
  BY <1>5 DEF MouseCalls, Calls
<1> QED BY <1>3, <1>4, <1>10, <1>11, <1>12, EventKeeps

--------------------------------------------------------------------------------
(* Starts, the end, and the signals. *)

LEMMA StartInv == ASSUME Inv, NEW c \in Clients, start(c) PROVE Inv'
<1>1. /\ Typed /\ client[c].stage = "none"
      /\ client' = [client EXCEPT ![c].stage = "new", ![c].maxsize = view.maxsize]
      /\ view' = [view EXCEPT !.client = c]
      /\ UNCHANGED <<calls, signals, user, server>>
  BY DEF Inv, start
<1>2. /\ Lives(c) /\ calls[c] = <<>> /\ Fresh(c) /\ server[c].buttons = {}
  BY <1>1 DEF Inv, Lives, Fresh
<1>3. /\ client'[c].stage = "new" /\ client'[c].maxsize = view.maxsize
      /\ client'[c].remote = client[c].remote /\ client'[c].picture = client[c].picture
      /\ client'[c].mask = client[c].mask /\ client'[c].modifiers = client[c].modifiers
      /\ \A d \in Clients : d # c => client'[d] = client[d]
      /\ view'.client = c /\ view'.alive = view.alive /\ view'.frames = view.frames
      /\ view'.dimension = view.dimension /\ view'.maxsize = view.maxsize
      /\ view'.buttons = view.buttons
  BY <1>1 DEF Typed, Viewing
<1>4. Typed'
  <2>1. client' \in [Clients -> Working]
    <3> DEFINE r == [client[c] EXCEPT !.stage = "new", !.maxsize = view.maxsize]
    <3>1. client' = [client EXCEPT ![c] = r]
      BY <1>1 DEF Typed
    <3>2. r \in Working
      <4>1. client[c] \in Working /\ view.maxsize \in Sizes \cup {NoDim}
        BY <1>1 DEF Typed, Viewing
      <4> QED BY <4>1 DEF Working
    <3> HIDE DEF r
    <3> QED BY <1>1, <3>1, <3>2 DEF Typed
  <2>2. view' \in Viewing
    BY <1>1 DEF Typed, Viewing
  <2> QED BY <1>1, <2>1, <2>2 DEF Typed
<1>5. ASSUME NEW d \in Clients PROVE Lives(d)'
  <2>1. CASE d # c
    <3>1. /\ Lives(d) /\ client'[d] = client[d] /\ calls'[d] = calls[d] /\ server'[d] = server[d]
          /\ view'.client # d
      BY <1>1, <1>3, <2>1 DEF Inv
    <3> QED BY <3>1 DEF Lives, Fresh, HasInstance
  <2>2. CASE d = c
    <3>1. \A i \in 1 .. Len(calls'[c]) : FALSE
      BY <1>1, <1>2
    <3>2. ~HasInstance(c)' /\ server'[c] = server[c] /\ Fresh(c)'
      BY <1>1, <1>2, <1>3 DEF HasInstance, Fresh
    <3> QED BY <1>2, <1>3, <2>2, <3>1, <3>2 DEF Lives, Fresh
  <2> QED BY <2>1, <2>2
<1>6. Led'
  <2> DEFINE t == [on |-> FALSE, keys |-> server[c].keys, mods |-> client'[c].modifiers,
                   mask |-> client'[c].mask, maxsize |-> client'[c].maxsize]
  <2>1. PICK u \in Hands : u = t
    BY <1>1, <1>4 DEF Typed, Working, Serving, Hands
  <2>2. u.keys = {} /\ u.mods = {} /\ u.mask = {} /\ u.maxsize = view.maxsize
    BY <1>2, <1>3, <2>1 DEF Fresh
  <2>3. Present(c)' = u
    <3>1. HasInstance(c)' = FALSE /\ server'[c].keys = server[c].keys
      BY <1>1, <1>3 DEF HasInstance
    <3> QED BY <2>1, <3>1 DEF Present
  <2>4. Leads(<<>>, u, u)
    BY LeadsNowhere
  <2>5. Ends(u)'
    BY <1>3, <2>2 DEF Ends, Idle, Held
  <2>6. Followed(c)'
    BY <1>1, <1>2, <2>3, <2>4, <2>5 DEF Followed
  <2> QED BY <1>3, <2>6 DEF Led
<1>7. Told'
  <2>1. ~ \A d \in Clients : client'[d].stage = "none"
    BY <1>3
  <2>2. ASSUME NEW d \in Clients, Only(d)'
        PROVE  Shows(signals, Seen, [alive |-> HasInstance(d), dimension |-> client[d].picture])'
    <3>1. d = c
      BY <1>3, <2>2 DEF Only
    <3>2. \A e \in Clients : client[e].stage = "none"
      BY <1>1, <1>3, <2>2, <3>1 DEF Only
    <3>3. signals = <<>> /\ Seen = [alive |-> FALSE, dimension |-> NoDim]
      BY <3>2 DEF Inv, Told
    <3>4. Seen' = Seen
      BY <1>3 DEF Seen
    <3>5. HasInstance(c)' = FALSE /\ client'[c].picture = NoDim
      BY <1>2, <1>3 DEF HasInstance, Fresh
    <3>6. [alive |-> FALSE, dimension |-> NoDim] \in Sights
      BY DEF Sights
    <3> QED BY <1>1, <3>1, <3>3, <3>4, <3>5, <3>6, ShowsNothing
  <2> QED BY <2>1, <2>2 DEF Told
<1>8. Passes'
  BY <1>1, <1>3 DEF Inv, Passes
<1> QED BY <1>4, <1>5, <1>6, <1>7, <1>8 DEF Inv

LEMMA CancelInv == ASSUME Inv, cancel PROVE Inv'
<1> DEFINE call == [op |-> "delete"]
<1>1. /\ Typed /\ view.client \in Clients
      /\ Post(call) /\ view' = [view EXCEPT !.client = Nobody]
      /\ UNCHANGED <<client, signals, user, server>>
  BY DEF Inv, cancel, Typed, Viewing, Working, Serving, Using
<1>2. call \in Calls /\ call.op = "delete"
  BY DEF Calls
<1> HIDE DEF call
<1>3. /\ view'.client = Nobody /\ view'.alive = view.alive /\ view'.frames = view.frames
      /\ view'.dimension = view.dimension /\ view'.maxsize = view.maxsize
      /\ view'.buttons = view.buttons
  BY <1>1 DEF Typed, Viewing, Working, Serving, Using
<1>4. /\ calls' \in [Clients -> Seq(Calls)]
      /\ \A c \in Clients : view.client # c => calls'[c] = calls[c]
      /\ \A c \in Clients : view.client = c => calls'[c] = Append(calls[c], call)
  BY <1>1, <1>2, PostTells
<1>5. Typed'
  BY <1>1, <1>4 DEF Typed, Viewing, Working, Serving, Using
<1>6. ASSUME NEW c \in Clients PROVE Lives(c)'
  <2>0. Lives(c) /\ calls[c] \in Seq(Calls) /\ view'.client # c
    BY <1>1, <1>3, NobodyAssumption DEF Inv, Typed, Nobody
  <2>1. CASE view.client # c
    BY <1>1, <1>4, <2>0, <2>1 DEF Lives, Fresh, HasInstance
  <2>2. CASE view.client = c
    <3>1. /\ Len(calls'[c]) = Len(calls[c]) + 1 /\ Len(calls[c]) \in Nat
          /\ \A i \in 1 .. Len(calls[c]) : calls'[c][i] = calls[c][i]
          /\ calls'[c][Len(calls[c]) + 1] = call
      BY <1>2, <1>4, <2>0, <2>2, AppendAt
    <3>2. ASSUME NEW i \in 1 .. Len(calls'[c]), calls'[c][i].op = "startSession"
          PROVE  i \in 1 .. Len(calls[c]) /\ calls[c][i].op = "startSession"
      BY <1>2, <3>1, <3>2
    <3>3. client[c].stage \notin {"none", "deleted"}
      BY <2>0, <2>2 DEF Lives
    <3> QED BY <1>1, <2>0, <3>2, <3>3 DEF Lives, Fresh, HasInstance
  <2> QED BY <2>1, <2>2
<1>7. Led'
  BY <1>3, NobodyAssumption DEF Led, Nobody
<1>8. Told'
  <2>1. Seen' = Seen
    BY <1>3 DEF Seen
  <2> QED BY <1>1, <2>1 DEF Inv, Told, Only, HasInstance
<1>9. Passes'
  BY <1>1, <1>3 DEF Inv, Passes
<1> QED BY <1>5, <1>6, <1>7, <1>8, <1>9 DEF Inv

LEMMA ViewStepInv == ASSUME Inv, viewStep PROVE Inv'
<1> DEFINE s == Head(signals)
<1>1. /\ Typed /\ Passes /\ signals # <<>> /\ signals \in Seq(Signals)
      /\ signals' = Tail(signals) /\ UNCHANGED <<client, calls, user, server>>
      /\ view' = CASE s.signal = "aliveChanged" -> onAliveChanged(view, s.alive)
                   [] s.signal = "sizeChanged"  -> onSizeChanged(view, s.size)
                   [] s.signal = "areaChanged"  -> onAreaChanged(view, s.size)
  BY DEF Inv, viewStep, Typed, Viewing, Working, Serving, Using
<1>2. s \in Signals /\ Tail(signals) \in Seq(Signals)
  BY <1>1, TailAt
<1> HIDE DEF s
<1>3. /\ view' \in Viewing
      /\ view'.client = view.client /\ view'.maxsize = view.maxsize
      /\ view'.buttons = view.buttons
      /\ [alive |-> view'.alive, dimension |-> view'.dimension] = Makes(Seen, s)
      /\ view'.frames => view'.dimension # NoDim
  <2>1. CASE s.signal = "aliveChanged"
    <3>1. s.alive \in BOOLEAN /\ view' = onAliveChanged(view, s.alive)
      BY <1>1, <1>2, <2>1 DEF Signals
    <3> QED BY <1>1, <2>1, <3>1
         DEF onAliveChanged, Makes, Seen, Typed, Viewing, Working, Serving, Using, Passes
  <2>2. CASE s.signal = "sizeChanged"
    <3>1. s.size \in Sizes /\ view' = onSizeChanged(view, s.size) /\ s.size # NoDim
      BY <1>1, <1>2, <2>2 DEF Signals, Sizes, NoDim
    <3> QED BY <1>1, <2>2, <3>1
         DEF onSizeChanged, Makes, Seen, Typed, Viewing, Working, Serving, Using, Passes
  <2>3. CASE s.signal = "areaChanged"
    <3>1. s.size \in Sizes /\ view' = onAreaChanged(view, s.size) /\ s.size # NoDim
      BY <1>1, <1>2, <2>3 DEF Signals, Sizes, NoDim
    <3> DEFINE u == IF view.dimension = NoDim THEN onSizeChanged(view, s.size) ELSE view
               f == u.frames \/ s.size[1] >= u.dimension[1] \/ s.size[2] >= u.dimension[2]
    <3>2. /\ u \in Viewing
          /\ u.dimension = IF view.dimension = NoDim THEN s.size ELSE view.dimension
          /\ u.alive = view.alive /\ u.client = view.client /\ u.buttons = view.buttons
          /\ u.maxsize = view.maxsize /\ u.dimension # NoDim
      BY <1>1, <3>1 DEF onSizeChanged, Typed, Viewing, Working, Serving, Using
    <3>3. view' = [u EXCEPT !.frames = f] /\ f \in BOOLEAN
      BY <3>1 DEF onAreaChanged
    <3> HIDE DEF u, f
    <3> QED BY <2>3, <3>1, <3>2, <3>3 DEF Makes, Seen, Viewing
  <2> QED BY <1>2, <2>1, <2>2, <2>3 DEF Signals
<1>4. Typed'
  BY <1>1, <1>2, <1>3 DEF Typed, Viewing, Working, Serving, Using
<1>5. ASSUME NEW c \in Clients PROVE Lives(c)'
  <2>1. Lives(c)
    BY DEF Inv
  <2> QED BY <1>1, <1>3, <2>1 DEF Lives, Fresh, HasInstance
<1>6. Passes'
  BY <1>1, <1>3 DEF Passes
<1>7. Led'
  <2>1. \A t \in Hands : Ends(t) => Ends(t)'
    BY <1>1, <1>3 DEF Ends, Idle, Held
  <2>2. ASSUME NEW c \in Clients, Followed(c) PROVE Followed(c)'
    <3>1. Present(c)' = Present(c)
      BY <1>1 DEF Present, HasInstance
    <3> QED BY <1>1, <2>1, <2>2, <3>1 DEF Followed
  <2> QED BY <1>1, <1>3, <2>2 DEF Inv, Led
<1>8. Told'
  <2>1. ASSUME NEW c \in Clients, Only(c)'
        PROVE  Shows(signals, Seen, [alive |-> HasInstance(c), dimension |-> client[c].picture])'
    <3> DEFINE b == [alive |-> HasInstance(c), dimension |-> client[c].picture]
    <3>1. Only(c) /\ b' = b
      BY <1>1, <2>1 DEF Only, HasInstance
    <3>2. Shows(signals, Seen, b)
      BY <3>1 DEF Inv, Told
    <3> HIDE DEF b
    <3>3. Shows(Tail(signals), Makes(Seen, s), b)
      BY <1>1, <3>2, ShowsTail DEF s
    <3>4. Seen' = Makes(Seen, s)
      BY <1>3 DEF Seen
    <3>5. Shows(signals', Seen', b')
      BY <1>1, <3>1, <3>3, <3>4
    <3> QED BY <3>5 DEF b
  <2>2. (\A c \in Clients : client'[c].stage = "none") => FALSE
    BY <1>1 DEF Inv, Told
  <2> QED BY <2>1, <2>2 DEF Told
<1> QED BY <1>4, <1>5, <1>6, <1>7, <1>8 DEF Inv

--------------------------------------------------------------------------------
(* Steps of a client.  It changes nothing but its own state, and what was     *)
(* posted to it gets shorter.                                                 *)

Step(c) ==
    /\ UNCHANGED <<view, user>>
    /\ client[c].stage # "none" /\ client'[c].stage # "none"
    /\ \A d \in Clients \ {c} : client'[d] = client[d] /\ server'[d] = server[d]
                                /\ calls'[d] = calls[d]

Shown(c) == Shows(signals, Seen, [alive |-> HasInstance(c), dimension |-> client[c].picture])

LEMMA StepKeeps ==
    ASSUME Inv, NEW c \in Clients, Step(c), Typed', Lives(c)', Shown(c) => Shown(c)',
           (view.client = c /\ client'[c].stage \in {"new", "started", "on", "aborted"}) => Followed(c)'
    PROVE  Inv'
<1>1. ASSUME NEW d \in Clients PROVE Lives(d)'
  <2>1. CASE d # c
    <3>1. /\ Lives(d) /\ client'[d] = client[d] /\ calls'[d] = calls[d] /\ server'[d] = server[d]
          /\ view' = view
      BY <2>1 DEF Inv, Step
    <3> QED BY <3>1 DEF Lives, Fresh, HasInstance
  <2> QED BY <2>1
<1>2. Led'
  <2> SUFFICES ASSUME NEW d \in Clients, view'.client = d,
                      client'[d].stage \in {"new", "started", "on", "aborted"}
               PROVE  Followed(d)'
    BY DEF Led
  <2>1. CASE d = c
    BY <2>1 DEF Step
  <2>2. CASE d # c
    <3>1. /\ client'[d] = client[d] /\ calls'[d] = calls[d] /\ server'[d] = server[d]
          /\ UNCHANGED <<view, user>>
      BY <2>2 DEF Step
    <3>2. Followed(d)
      BY <3>1 DEF Inv, Led
    <3>3. Present(d)' = Present(d)
      BY <3>1 DEF Present, HasInstance
    <3>4. \A t \in Hands : Ends(t) => Ends(t)'
      BY <3>1 DEF Ends, Idle, Held
    <3> QED BY <3>1, <3>2, <3>3, <3>4 DEF Followed
  <2> QED BY <2>1, <2>2
<1>3. Told'
  <2>1. ASSUME NEW d \in Clients, Only(d)' PROVE d = c /\ Only(c)
    <3>1. d = c
      BY <2>1 DEF Only, Step
    <3>2. \A e \in Clients \ {c} : client[e] = client'[e]
      BY DEF Step
    <3>3. \A e \in Clients : client[e].stage # "none" <=> client'[e].stage # "none"
      BY <3>2 DEF Step
    <3>4. \A e \in Clients : client'[e].stage # "none" <=> e = c
      BY <2>1, <3>1 DEF Only
    <3> QED BY <3>1, <3>3, <3>4 DEF Only
  <2>2. Only(c) => Shown(c)'
    BY DEF Inv, Told, Shown
  <2>3. ~ \A e \in Clients : client'[e].stage = "none"
    BY DEF Step
  <2>4. \A d \in Clients : Only(d)' => Shown(d)'
    BY <2>1, <2>2
  <2> QED BY <2>3, <2>4 DEF Told, Shown
<1>4. Passes'
  BY DEF Inv, Passes, Step
<1> QED BY <1>1, <1>2, <1>3, <1>4 DEF Inv

LEMMA ThreadStartsInv == ASSUME Inv, NEW c \in Clients, threadStarts(c) PROVE Inv'
<1> DEFINE first == [op |-> "startSession"]
           r == [client[c] EXCEPT !.stage = "started"]
<1>0. /\ Typed /\ Lives(c) /\ client[c].stage = "new" /\ UNCHANGED <<view, signals, user, server>>
      /\ client' = [client EXCEPT ![c].stage = "started"]
      /\ calls' = [calls EXCEPT ![c] = Append(@, first)]
      /\ client[c] \in Working /\ calls[c] \in Seq(Calls)
  BY DEF Inv, threadStarts, Typed
<1>1. first \in Calls /\ first.op = "startSession"
  BY DEF Calls
<1>2. /\ r \in Working /\ r.stage = "started" /\ r.remote = client[c].remote
      /\ r.picture = client[c].picture /\ r.maxsize = client[c].maxsize
      /\ r.mask = client[c].mask /\ r.modifiers = client[c].modifiers
      /\ r.setsize = client[c].setsize
  BY <1>0 DEF Working
<1>3. client' = [client EXCEPT ![c] = r]
  BY <1>0 DEF Typed
<1> HIDE DEF first, r
<1>4. /\ Append(calls[c], first) \in Seq(Calls)
      /\ Len(Append(calls[c], first)) = Len(calls[c]) + 1 /\ Len(calls[c]) \in Nat
      /\ \A i \in 1 .. Len(calls[c]) : Append(calls[c], first)[i] = calls[c][i]
      /\ Append(calls[c], first)[Len(calls[c]) + 1] = first
  BY <1>0, <1>1, AppendAt
<1>5. /\ client'[c] = r /\ calls'[c] = Append(calls[c], first)
      /\ client' \in [Clients -> Working] /\ calls' \in [Clients -> Seq(Calls)]
      /\ \A d \in Clients \ {c} : client'[d] = client[d] /\ calls'[d] = calls[d]
  BY <1>0, <1>2, <1>3, <1>4 DEF Typed
<1>6. Typed' /\ Step(c)
  BY <1>0, <1>2, <1>5 DEF Typed, Step
<1>7. Lives(c)'
  <2>1. \A i \in 1 .. Len(calls[c]) : calls[c][i].op # "startSession"
    BY <1>0 DEF Lives
  <2>2. ASSUME NEW i \in 1 .. Len(calls'[c])
        PROVE  /\ calls'[c][i].op = "startSession" => i = Len(calls[c]) + 1
               /\ view.client = c => calls'[c][i].op # "delete"
    <3>1. CASE i \in 1 .. Len(calls[c])
      BY <1>0, <1>4, <1>5, <2>1, <3>1 DEF Lives
    <3>2. CASE i = Len(calls[c]) + 1
      BY <1>1, <1>4, <1>5, <3>2
    <3> QED BY <1>4, <1>5, <3>1, <3>2
  <2> QED BY <1>0, <1>2, <1>5, <2>2 DEF Lives, Fresh, HasInstance
<1>8. HasInstance(c) = FALSE /\ HasInstance(c)' = FALSE
  BY <1>0, <1>2, <1>5 DEF HasInstance
<1>9. Shown(c) => Shown(c)'
  <2>1. Seen' = Seen /\ client'[c].picture = client[c].picture
    BY <1>0, <1>2, <1>5 DEF Seen
  <2> QED BY <1>0, <1>8, <2>1 DEF Shown
<1>10. ASSUME view.client = c PROVE Followed(c)'
  <2>1. PICK t \in Hands : Leads(calls[c], Present(c), t) /\ Ends(t)
    BY <1>0, <1>10 DEF Inv, Led, Followed
  <2> DEFINE u == Does(t, first)
  <2>2. Leads(calls'[c], Present(c), u) /\ u \in Hands
    BY <1>0, <1>1, <1>5, <2>1, LeadsAppend, DoesHands
  <2>3. Present(c)' = Present(c)
    BY <1>0, <1>2, <1>5, <1>8 DEF Present
  <2>4. u = [t EXCEPT !.on = TRUE]
    BY <1>1 DEF Does
  <2>5. u.on /\ u.keys = t.keys /\ u.mods = t.mods /\ u.mask = t.mask /\ u.maxsize = t.maxsize
    BY <2>4 DEF Hands
  <2> HIDE DEF u
  <2>6. Ends(u)'
    BY <1>0, <2>1, <2>5 DEF Ends, Idle, Held
  <2> QED BY <2>2, <2>3, <2>6 DEF Followed
<1> QED BY <1>6, <1>7, <1>9, <1>10, StepKeeps

(* What remains of the calls when the first is done. *)
LEMMA Remaining ==
    ASSUME Inv, NEW c \in Clients, calls[c] # <<>>, calls' = [calls EXCEPT ![c] = Tail(@)]
    PROVE  /\ Head(calls[c]) \in Calls
           /\ calls' \in [Clients -> Seq(Calls)] /\ calls'[c] = Tail(calls[c])
           /\ \A d \in Clients \ {c} : calls'[d] = calls[d]
           /\ client[c].stage \notin {"none", "deleted"}
           /\ Head(calls[c]).op = "startSession" => client[c].stage = "started"
           /\ view.client = c => Head(calls[c]).op # "delete"
           /\ \A i \in 1 .. Len(calls'[c]) :
                 /\ calls'[c][i].op = "startSession"
                       => client[c].stage = "started" /\ Head(calls[c]).op # "startSession"
                 /\ view.client = c => calls'[c][i].op # "delete"
           /\ \A i, j \in 1 .. Len(calls'[c]) :
                 calls'[c][i].op = "startSession" /\ calls'[c][j].op = "startSession" => i = j
<1>1. calls \in [Clients -> Seq(Calls)] /\ Lives(c) /\ calls[c] \in Seq(Calls)
  BY DEF Inv, Typed
<1>2. /\ Len(calls[c]) \in Nat \ {0} /\ Tail(calls[c]) \in Seq(Calls)
      /\ Len(Tail(calls[c])) = Len(calls[c]) - 1
      /\ Head(calls[c]) = calls[c][1] /\ Head(calls[c]) \in Calls
      /\ \A i \in 1 .. (Len(calls[c]) - 1) : Tail(calls[c])[i] = calls[c][i + 1]
  BY <1>1, TailAt
<1>3. /\ calls' \in [Clients -> Seq(Calls)] /\ calls'[c] = Tail(calls[c])
      /\ \A d \in Clients \ {c} : calls'[d] = calls[d]
  BY <1>1, <1>2
<1>4. client[c].stage \notin {"none", "deleted"}
  BY <1>1 DEF Lives
<1>5. 1 \in 1 .. Len(calls[c])
  BY <1>2
<1>6. \A i \in 1 .. Len(calls'[c]) :
         calls'[c][i] = calls[c][i + 1] /\ i + 1 \in 1 .. Len(calls[c]) /\ i + 1 # 1
  BY <1>2, <1>3
<1>7. ASSUME NEW i \in 1 .. Len(calls'[c])
      PROVE  /\ calls'[c][i].op = "startSession"
                   => client[c].stage = "started" /\ Head(calls[c]).op # "startSession"
             /\ view.client = c => calls'[c][i].op # "delete"
  <2>1. calls'[c][i] = calls[c][i + 1] /\ i + 1 \in 1 .. Len(calls[c]) /\ i + 1 # 1
    BY <1>6
  <2> QED BY <1>1, <1>2, <1>5, <2>1 DEF Lives
<1>8. ASSUME NEW i \in 1 .. Len(calls'[c]), NEW j \in 1 .. Len(calls'[c]),
             calls'[c][i].op = "startSession", calls'[c][j].op = "startSession"
      PROVE  i = j
  <2>1. /\ calls'[c][i] = calls[c][i + 1] /\ i + 1 \in 1 .. Len(calls[c])
        /\ calls'[c][j] = calls[c][j + 1] /\ j + 1 \in 1 .. Len(calls[c])
    BY <1>6
  <2>2. i + 1 = j + 1
    BY <1>1, <1>8, <2>1 DEF Lives
  <2>3. i \in Int /\ j \in Int
    OBVIOUS
  <2> QED BY <2>2, <2>3
<1>9. /\ Head(calls[c]).op = "startSession" => client[c].stage = "started"
      /\ view.client = c => Head(calls[c]).op # "delete"
  BY <1>1, <1>2, <1>5 DEF Lives
<1> QED BY <1>2, <1>3, <1>4, <1>7, <1>8, <1>9

(* Signals of the client are posted behind the others. *)
LEMMA PostedBehind ==
    ASSUME NEW S, NEW q \in Seq(S), NEW x \in S, NEW y \in S
    PROVE  /\ q \o <<>> = q
           /\ q \o <<x>> = Append(q, x)
           /\ q \o (<<>> \o <<x>>) = Append(q, x)
           /\ q \o (<<x>> \o <<y>>) = Append(Append(q, x), y)
OBVIOUS

LEMMA SizeSeq ==
    ASSUME Typed, NEW c \in Clients, NEW d \in Sizes
    PROVE  /\ signals \o SizeTold(c, d) \in Seq(Signals)
           /\ \A y \in Signals : signals \o (SizeTold(c, d) \o <<y>>)
                                 = Append(signals \o SizeTold(c, d), y)
<1> DEFINE s == [signal |-> "sizeChanged", size |-> d]
<1>1. signals \in Seq(Signals) /\ s \in Signals
  BY DEF Typed, Signals
<1>2. SizeTold(c, d) \in {<<>>, <<s>>}
  BY DEF SizeTold
<1> HIDE DEF s
<1>3. CASE SizeTold(c, d) = <<>>
  BY <1>1, <1>3, PostedBehind
<1>4. CASE SizeTold(c, d) = <<s>>
  <2>1. signals \o <<s>> = Append(signals, s) /\ Append(signals, s) \in Seq(Signals)
    BY <1>1, PostedBehind, AppendAt
  <2>2. ASSUME NEW y \in Signals
        PROVE  signals \o (<<s>> \o <<y>>) = Append(Append(signals, s), y)
    BY <1>1, PostedBehind
  <2> QED BY <1>4, <2>1, <2>2
<1> QED BY <1>2, <1>3, <1>4

LEMMA SizeTells ==
    ASSUME Typed, NEW c \in Clients, NEW d \in Sizes, NEW a, NEW alive \in BOOLEAN,
           client[c].picture = client[c].remote,
           Shows(signals, a, [alive |-> alive, dimension |-> client[c].picture])
    PROVE  Shows(signals \o SizeTold(c, d), a, [alive |-> alive, dimension |-> d])
<1> DEFINE b == [alive |-> alive, dimension |-> client[c].picture]
           s == [signal |-> "sizeChanged", size |-> d]
<1>1. signals \in Seq(Signals) /\ b \in Sights /\ s \in Signals
      /\ client[c].picture \in Sizes \cup {NoDim}
  BY DEF Typed, Working, Sights, Signals
<1>2. CASE SizeTold(c, d) = <<>>
  <2>1. d[1] = client[c].picture[1] /\ d[2] = client[c].picture[2]
    BY <1>2 DEF SizeTold
  <2>2. d = client[c].picture
    BY <1>1, <2>1 DEF Sizes, NoDim
  <2> QED BY <1>1, <1>2, <2>2, PostedBehind
<1>3. CASE SizeTold(c, d) = <<s>>
  <2>1. Makes(b, s) = [alive |-> alive, dimension |-> d]
    BY DEF Makes
  <2>2. signals \o SizeTold(c, d) = Append(signals, s)
    BY <1>1, <1>3, PostedBehind
  <2>3. Shows(Append(signals, s), a, Makes(b, s))
    BY <1>1, ShowsAppend
  <2> QED BY <2>1, <2>2, <2>3
<1> QED BY <1>2, <1>3 DEF SizeTold

LEMMA AliveTells ==
    ASSUME NEW q \in Seq(Signals), NEW on \in BOOLEAN, NEW a, NEW b \in Sights, Shows(q, a, b)
    PROVE  LET y == [signal |-> "aliveChanged", alive |-> on] IN
           /\ y \in Signals /\ AliveChanged(on) = <<y>>
           /\ Append(q, y) \in Seq(Signals)
           /\ Shows(Append(q, y), a, [alive |-> on, dimension |-> b.dimension])
<1> DEFINE y == [signal |-> "aliveChanged", alive |-> on]
<1>1. y \in Signals /\ AliveChanged(on) = <<y>> /\ y.signal = "aliveChanged" /\ y.alive = on
  BY DEF Signals, AliveChanged
<1> HIDE DEF y
<1>2. Makes(b, y) = [alive |-> on, dimension |-> b.dimension]
  BY <1>1 DEF Makes, Sights
<1>3. Append(q, y) \in Seq(Signals) /\ Shows(Append(q, y), a, Makes(b, y))
  BY <1>1, AppendAt, ShowsAppend
<1> QED BY <1>1, <1>2, <1>3 DEF y

(* A step of the client c that does the first call, in these terms.           *)
DoesCall(c) ==
    /\ calls[c] # <<>> /\ calls' = [calls EXCEPT ![c] = Tail(@)]
    /\ UNCHANGED <<view, user>>
    /\ client' \in [Clients -> Working] /\ server' \in [Clients -> Serving]
    /\ \A d \in Clients \ {c} : client'[d] = client[d] /\ server'[d] = server[d]
    /\ client'[c].stage \notin {"none", "new", "deleted"}
    /\ client[c].stage = "started" /\ Head(calls[c]).op # "startSession"
          => client'[c].stage = "started"
    /\ client'[c].stage = "started" => Fresh(c)'
    /\ client'[c].stage = "on" => client'[c].picture = client'[c].remote
    /\ HasInstance(c)' => client'[c].picture # NoDim
    /\ HasInstance(c)' /\ client'[c].setsize => server'[c].asked = client'[c].maxsize
    /\ server'[c].buttons = client'[c].mask

LEMMA DoesFirst ==
    ASSUME Inv, NEW c \in Clients, DoesCall(c), signals' \in Seq(Signals), Shown(c) => Shown(c)',
           client'[c].stage \in {"started", "on", "aborted"}
              => client[c].stage \in {"new", "started", "on", "aborted"}
                 /\ Present(c)' = Does(Present(c), Head(calls[c]))
    PROVE  Inv'
<1>0. Typed /\ calls[c] # <<>> /\ calls' = [calls EXCEPT ![c] = Tail(@)] /\ UNCHANGED <<view, user>>
  BY DEF Inv, DoesCall
<1>1. /\ Head(calls[c]) \in Calls
      /\ calls' \in [Clients -> Seq(Calls)] /\ calls'[c] = Tail(calls[c])
      /\ \A d \in Clients \ {c} : calls'[d] = calls[d]
      /\ client[c].stage # "none"
      /\ \A i \in 1 .. Len(calls'[c]) :
            /\ calls'[c][i].op = "startSession"
                  => client[c].stage = "started" /\ Head(calls[c]).op # "startSession"
            /\ view.client = c => calls'[c][i].op # "delete"
      /\ \A i, j \in 1 .. Len(calls'[c]) :
            calls'[c][i].op = "startSession" /\ calls'[c][j].op = "startSession" => i = j
  BY <1>0, Remaining
<1>2. Typed'
  BY <1>0, <1>1 DEF Typed, DoesCall
<1>3. Lives(c)'
  BY <1>0, <1>1 DEF Lives, DoesCall
<1>4. Step(c)
  BY <1>1 DEF Step, DoesCall
<1>5. ASSUME view.client = c, client'[c].stage \in {"new", "started", "on", "aborted"}
      PROVE  Followed(c)'
  <2>1. client'[c].stage \in {"started", "on", "aborted"}
    BY <1>5 DEF DoesCall
  <2>2. PICK t \in Hands : Leads(calls[c], Present(c), t) /\ Ends(t)
    BY <1>5, <2>1 DEF Inv, Led, Followed
  <2>3. Leads(Tail(calls[c]), Does(Present(c), Head(calls[c])), t)
    BY <1>0, <2>2, LeadsTail DEF Typed
  <2>4. Leads(calls'[c], Present(c)', t)
    BY <1>1, <2>1, <2>3
  <2>5. Ends(t)'
    BY <1>0, <2>2 DEF Ends, Idle, Held
  <2> QED BY <2>4, <2>5 DEF Followed
<1> QED BY <1>2, <1>3, <1>4, <1>5, StepKeeps

(* Nothing is told of a call that leaves the picture and the session alone.   *)
LEMMA NothingShown ==
    ASSUME NEW c \in Clients, UNCHANGED <<view, signals>>, client'[c].stage = client[c].stage,
           client'[c].picture = client[c].picture
    PROVE  Shown(c) => Shown(c)'
<1>1. HasInstance(c)' = HasInstance(c) /\ Seen' = Seen
  BY DEF HasInstance, Seen
<1> QED BY <1>1 DEF Shown

(* The calls of inputs. *)
LEMMA PresentTells ==
    ASSUME Typed, NEW c \in Clients
    PROVE  /\ Present(c) \in Hands
           /\ client[c] \in Working /\ server[c] \in Serving
           /\ Present(c).keys = server[c].keys /\ Present(c).mods = client[c].modifiers
           /\ Present(c).mask = client[c].mask /\ Present(c).maxsize = client[c].maxsize
           /\ Present(c).on = HasInstance(c)
BY DEF Typed, Working, Serving, Present, Hands, HasInstance

LEMMA SameHands ==
    ASSUME NEW a \in Hands, NEW b \in Hands, a.keys = b.keys, a.mods = b.mods, a.mask = b.mask,
           a.maxsize = b.maxsize, a.on = b.on
    PROVE  a = b
BY DEF Hands

(* What a call of an input leaves alone. *)
LEMMA InputDone ==
    ASSUME Inv, NEW c \in Clients, calls[c] # <<>>, calls' = [calls EXCEPT ![c] = Tail(@)],
           UNCHANGED <<view, user, signals>>, HasInstance(c),
           NEW r \in Working, client' = [client EXCEPT ![c] = r],
           NEW s \in Serving, server' = [server EXCEPT ![c] = s],
           r.stage = client[c].stage, r.remote = client[c].remote,
           r.picture = client[c].picture, r.setsize = client[c].setsize,
           r.setsize => s.asked = r.maxsize, s.buttons = r.mask,
           LET t == Does(Present(c), Head(calls[c]))
           IN  /\ s.keys = t.keys /\ r.modifiers = t.mods /\ r.mask = t.mask
               /\ r.maxsize = t.maxsize /\ t.on
    PROVE  Inv'
<1>0. Typed /\ Lives(c) /\ client[c].stage \in {"on", "aborted"}
  BY DEF Inv, HasInstance
<1>1. client'[c] = r /\ server'[c] = s
  BY <1>0 DEF Typed
<1>2. /\ client' \in [Clients -> Working] /\ server' \in [Clients -> Serving]
      /\ \A d \in Clients \ {c} : client'[d] = client[d] /\ server'[d] = server[d]
  BY <1>0 DEF Typed
<1>3. DoesCall(c)
  BY <1>0, <1>1, <1>2 DEF DoesCall, HasInstance, Lives
<1>4. Shown(c) => Shown(c)'
  BY <1>1, NothingShown
<1>5. Typed'
  BY <1>0, <1>2, Remaining DEF Typed
<1>6. Present(c)' = Does(Present(c), Head(calls[c]))
  <2>1. /\ Present(c)' \in Hands /\ Present(c)'.keys = s.keys /\ Present(c)'.mods = r.modifiers
        /\ Present(c)'.mask = r.mask /\ Present(c)'.maxsize = r.maxsize /\ Present(c)'.on = TRUE
    <3>1. Present(c)' = [on |-> TRUE, keys |-> s.keys, mods |-> r.modifiers, mask |-> r.mask,
                         maxsize |-> r.maxsize]
      BY <1>0, <1>1 DEF Present, HasInstance
    <3> QED BY <3>1 DEF Working, Serving, Hands
  <2>2. Does(Present(c), Head(calls[c])) \in Hands /\ Does(Present(c), Head(calls[c])).on = TRUE
    <3>1. Does(Present(c), Head(calls[c])) \in Hands
      BY <1>0, PresentTells, Remaining, DoesHands
    <3> QED BY <3>1 DEF Hands
  <2> QED BY <2>1, <2>2, SameHands
<1> QED BY <1>0, <1>3, <1>4, <1>6, DoesFirst DEF Typed

LEMMA SendInv ==
    ASSUME Inv, NEW c \in Clients, calls[c] # <<>>, calls' = [calls EXCEPT ![c] = Tail(@)],
           UNCHANGED <<view, user, signals>>, HasInstance(c),
           NEW call \in Calls, call = Head(calls[c]),
           sendAction(c, call) \/ (call.op = "setMaxSize" /\ setClientMaxSize(c, call.size))
    PROVE  Inv'
<1> DEFINE p == Present(c)
           t == Does(p, call)
<1>0. /\ Typed /\ client[c].stage \in {"on", "aborted"}
      /\ client[c].setsize => server[c].asked = client[c].maxsize
      /\ server[c].buttons = client[c].mask
  BY DEF Inv, HasInstance, Lives
<1>1. /\ client[c] \in Working /\ server[c] \in Serving /\ p \in Hands
      /\ p.keys = server[c].keys /\ p.mods = client[c].modifiers
      /\ p.mask = client[c].mask /\ p.maxsize = client[c].maxsize /\ p.on
  BY <1>0, PresentTells
<1>2. /\ client = [client EXCEPT ![c] = client[c]] /\ server = [server EXCEPT ![c] = server[c]]
      /\ DOMAIN client = Clients /\ DOMAIN server = Clients
  BY <1>0 DEF Typed
<1>3. t \in Hands
  BY <1>1, DoesHands
<1>9. t = Does(Present(c), Head(calls[c]))
  OBVIOUS
<1> HIDE DEF p, t
<1>4. CASE call.op = "key" /\ sendKey(c, call.symbol, call.down)
  <2> DEFINE r == [client[c] EXCEPT !.modifiers = t.mods]
             s == [server[c] EXCEPT !.keys = t.keys]
  <2>1. t = DoesKey(p, call.symbol, call.down)
    BY <1>1, <1>4 DEF t, Does, Acts
  <2>2. /\ t.mask = p.mask /\ t.maxsize = p.maxsize /\ t.on
        /\ client' = [client EXCEPT ![c].modifiers = t.mods]
        /\ server' = [server EXCEPT ![c].keys = t.keys]
    <3> DEFINE up == Released(p.mods, call.symbol, call.down)
    <3>1. /\ t.mask = p.mask /\ t.maxsize = p.maxsize /\ t.on
          /\ t.mods = IF ~isControlKey(call.symbol) THEN p.mods
                      ELSE IF call.down THEN p.mods \cup {call.symbol}
                      ELSE (p.mods \ {call.symbol}) \ up
          /\ t.keys = IF call.down THEN (p.keys \ up) \cup {call.symbol}
                      ELSE (p.keys \ up) \ {call.symbol}
      BY <1>1, <2>1 DEF DoesKey, Hands
    <3>2. up = Released(client[c].modifiers, call.symbol, call.down)
      BY <1>1
    <3> HIDE DEF up
    <3>3. client' = [client EXCEPT ![c].modifiers = t.mods]
      BY <1>1, <1>4, <3>1, <3>2 DEF sendKey
    <3>4. server' = [server EXCEPT ![c].keys = t.keys]
      BY <1>1, <1>4, <3>1, <3>2 DEF sendKey
    <3> QED BY <3>1, <3>3, <3>4
  <2>3. /\ r \in Working /\ r.stage = client[c].stage /\ r.remote = client[c].remote
        /\ r.picture = client[c].picture
        /\ r.setsize = client[c].setsize /\ r.maxsize = client[c].maxsize
        /\ r.mask = client[c].mask /\ r.modifiers = t.mods
    BY <1>1, <1>3 DEF Working, Hands
  <2>4. s \in Serving /\ s.keys = t.keys /\ s.buttons = server[c].buttons /\ s.asked = server[c].asked
    BY <1>1, <1>3 DEF Serving, Hands
  <2>5. client' = [client EXCEPT ![c] = r] /\ server' = [server EXCEPT ![c] = s]
    BY <1>2, <2>2
  <2> HIDE DEF r, s
  <2>6. /\ r.setsize => s.asked = r.maxsize
        /\ s.buttons = r.mask
        /\ s.keys = t.keys /\ r.modifiers = t.mods /\ r.mask = t.mask /\ r.maxsize = t.maxsize
        /\ t.on
    BY <1>0, <1>1, <2>2, <2>3, <2>4
  <2> QED BY <1>9, <2>3, <2>4, <2>5, <2>6, InputDone
<1>5. CASE call.op = "text" /\ sendInputAction(c, call.symbols)
  <2> DEFINE s == [server[c] EXCEPT !.keys = t.keys]
  <2>1. t = [p EXCEPT !.keys = @ \ call.symbols]
    BY <1>1, <1>5 DEF t, Does, Acts
  <2>2. /\ t.mask = p.mask /\ t.maxsize = p.maxsize /\ t.mods = p.mods /\ t.on
        /\ t.keys = p.keys \ call.symbols
    BY <1>1, <2>1 DEF Hands
  <2>3. client' = client /\ server' = [server EXCEPT ![c].keys = t.keys]
    BY <1>1, <1>5, <2>2 DEF sendInputAction
  <2>4. s \in Serving /\ s.keys = t.keys /\ s.buttons = server[c].buttons /\ s.asked = server[c].asked
    BY <1>1, <1>3 DEF Serving, Hands
  <2>5. client' = [client EXCEPT ![c] = client[c]] /\ server' = [server EXCEPT ![c] = s]
    BY <1>2, <2>3
  <2> HIDE DEF s
  <2> QED BY <1>0, <1>1, <2>2, <2>4, <2>5, <1>9, InputDone
<1>6. CASE call.op = "mouse" /\ sendMouse(c, call)
  <2> DEFINE r == [client[c] EXCEPT !.mask = t.mask]
             s == [server[c] EXCEPT !.buttons = t.mask]
  <2>1. t = DoesMouse(p, call)
    BY <1>1, <1>6 DEF t, Does, Acts
  <2>2. /\ t.keys = p.keys /\ t.maxsize = p.maxsize /\ t.mods = p.mods /\ t.on
        /\ client' = [client EXCEPT ![c].mask = t.mask]
        /\ server' = [server EXCEPT ![c].buttons = t.mask]
    BY <1>1, <1>6, <2>1 DEF sendMouse, DoesMouse, Hands
  <2>3. /\ r \in Working /\ r.stage = client[c].stage /\ r.remote = client[c].remote
        /\ r.picture = client[c].picture
        /\ r.setsize = client[c].setsize /\ r.maxsize = client[c].maxsize
        /\ r.mask = t.mask /\ r.modifiers = client[c].modifiers
    BY <1>1, <1>3 DEF Working, Hands
  <2>4. s \in Serving /\ s.keys = server[c].keys /\ s.buttons = t.mask /\ s.asked = server[c].asked
    BY <1>1, <1>3 DEF Serving, Hands
  <2>5. client' = [client EXCEPT ![c] = r] /\ server' = [server EXCEPT ![c] = s]
    BY <1>2, <2>2
  <2> HIDE DEF r, s
  <2>6. /\ r.setsize => s.asked = r.maxsize
        /\ s.buttons = r.mask
        /\ s.keys = t.keys /\ r.modifiers = t.mods /\ r.mask = t.mask /\ r.maxsize = t.maxsize
        /\ t.on
    BY <1>0, <1>1, <2>2, <2>3, <2>4
  <2> QED BY <1>9, <2>3, <2>4, <2>5, <2>6, InputDone
<1>7. CASE call.op = "wheel" /\ sendWheel(c)
  <2>1. t = p
    BY <1>1, <1>7 DEF t, Does, Acts
  <2>2. [server EXCEPT ![c].buttons = client[c].mask] = server
    <3>1. [server[c] EXCEPT !.buttons = client[c].mask] = server[c]
      BY <1>0, <1>1 DEF Serving
    <3> QED BY <1>2, <3>1
  <2>3. client' = client /\ server' = server
    BY <1>7, <2>2 DEF sendWheel
  <2> DEFINE r == client[c]
             s == server[c]
  <2>4. /\ r \in Working /\ s \in Serving
        /\ client' = [client EXCEPT ![c] = r] /\ server' = [server EXCEPT ![c] = s]
    BY <1>1, <1>2, <2>3
  <2>5. /\ r.setsize => s.asked = r.maxsize
        /\ s.buttons = r.mask
        /\ s.keys = t.keys /\ r.modifiers = t.mods /\ r.mask = t.mask /\ r.maxsize = t.maxsize
        /\ t.on
    BY <1>0, <1>1, <2>1
  <2> QED BY <1>9, <2>4, <2>5, InputDone
<1>8. CASE call.op = "setMaxSize" /\ setClientMaxSize(c, call.size)
  <2>1. t = [p EXCEPT !.maxsize = call.size]
    BY <1>8 DEF t, Does, Acts
  <2>2. t.keys = p.keys /\ t.mask = p.mask /\ t.mods = p.mods /\ t.maxsize = call.size /\ t.on
    BY <1>1, <2>1 DEF Hands
  <2> DEFINE r == [client[c] EXCEPT !.maxsize = t.maxsize]
             b == t.maxsize # client[c].maxsize /\ client[c].setsize
             s == IF b THEN [server[c] EXCEPT !.asked = t.maxsize] ELSE server[c]
  <2>3. /\ client' = [client EXCEPT ![c].maxsize = t.maxsize]
        /\ server' = IF b THEN [server EXCEPT ![c].asked = t.maxsize] ELSE server
    BY <1>8, <2>2 DEF setClientMaxSize
  <2>4. /\ r \in Working /\ r.stage = client[c].stage /\ r.remote = client[c].remote
        /\ r.picture = client[c].picture
        /\ r.setsize = client[c].setsize /\ r.maxsize = t.maxsize
        /\ r.mask = client[c].mask /\ r.modifiers = client[c].modifiers
    BY <1>1, <1>3 DEF Working, Hands
  <2>5. /\ s \in Serving /\ s.keys = server[c].keys /\ s.buttons = server[c].buttons
        /\ s.asked = IF b THEN t.maxsize ELSE server[c].asked
    BY <1>1, <1>3 DEF Serving, Hands
  <2>6. client' = [client EXCEPT ![c] = r] /\ server' = [server EXCEPT ![c] = s]
    BY <1>2, <2>3
  <2>7. r.setsize => s.asked = r.maxsize
    BY <1>0, <2>4, <2>5
  <2> HIDE DEF r, s, b
  <2>8. /\ s.buttons = r.mask
        /\ s.keys = t.keys /\ r.modifiers = t.mods /\ r.mask = t.mask /\ r.maxsize = t.maxsize
        /\ t.on
    BY <1>0, <1>1, <2>2, <2>4, <2>5
  <2> QED BY <2>4, <2>5, <2>6, <2>7, <2>8, <1>9, InputDone
<1> QED BY <1>4, <1>5, <1>6, <1>7, <1>8 DEF sendAction

(* The session starts, or fails to. *)
LEMMA StartSessionInv ==
    ASSUME Inv, NEW c \in Clients, calls[c] # <<>>, calls' = [calls EXCEPT ![c] = Tail(@)],
           UNCHANGED <<view, user>>, Head(calls[c]).op = "startSession", startSession(c)
    PROVE  Inv'
<1>0. /\ Typed /\ Lives(c) /\ client[c].stage = "started" /\ server[c].buttons = client[c].mask
      /\ server[c].asked = NoDim /\ client[c].remote = NoDim /\ client[c].picture = NoDim
  BY Remaining DEF Inv, Lives, Fresh
<1>1. /\ client[c] \in Working /\ server[c] \in Serving /\ signals \in Seq(Signals)
      /\ client = [client EXCEPT ![c] = client[c]] /\ server = [server EXCEPT ![c] = server[c]]
      /\ DOMAIN client = Clients /\ DOMAIN server = Clients
  BY <1>0 DEF Typed
<1>2. Shown(c) => Shows(signals, Seen, [alive |-> FALSE, dimension |-> client[c].picture])
  <2>1. HasInstance(c) = FALSE
    BY <1>0 DEF HasInstance
  <2> QED BY <2>1 DEF Shown
<1>3. CASE \E d \in Dims, setsize \in BOOLEAN :
          /\ client' = [client EXCEPT ![c].stage = "on", ![c].remote = d, ![c].picture = d,
                                      ![c].setsize = setsize]
          /\ server' = IF setsize /\ client[c].maxsize # NoDim
                       THEN [server EXCEPT ![c].asked = client[c].maxsize] ELSE server
          /\ Emit(SizeTold(c, d) \o AliveChanged(TRUE))
  <2>1. PICK d \in Dims, setsize \in BOOLEAN :
          /\ client' = [client EXCEPT ![c].stage = "on", ![c].remote = d, ![c].picture = d,
                                      ![c].setsize = setsize]
          /\ server' = IF setsize /\ client[c].maxsize # NoDim
                       THEN [server EXCEPT ![c].asked = client[c].maxsize] ELSE server
          /\ Emit(SizeTold(c, d) \o AliveChanged(TRUE))
    BY <1>3
  <2>2. d \in Sizes /\ d # NoDim
    BY DimAssumption DEF Sizes, NoDim
  <2> DEFINE r == [client[c] EXCEPT !.stage = "on", !.remote = d, !.picture = d,
                                 !.setsize = setsize]
             s == IF setsize /\ client[c].maxsize # NoDim
                  THEN [server[c] EXCEPT !.asked = client[c].maxsize] ELSE server[c]
  <2>3. /\ r \in Working /\ r.stage = "on" /\ r.remote = d /\ r.picture = d /\ r.setsize = setsize
        /\ r.maxsize = client[c].maxsize /\ r.mask = client[c].mask
        /\ r.modifiers = client[c].modifiers
    BY <1>1, <2>2 DEF Working
  <2>4. /\ s \in Serving /\ s.keys = server[c].keys /\ s.buttons = server[c].buttons
        /\ setsize => s.asked = client[c].maxsize
    <3>1. client[c].maxsize \in Sizes \cup {NoDim}
      BY <1>1 DEF Working
    <3> QED BY <1>0, <1>1, <3>1 DEF Serving
  <2>5. client' = [client EXCEPT ![c] = r] /\ server' = [server EXCEPT ![c] = s]
    BY <1>1, <2>1
  <2> HIDE DEF r, s
  <2>6. /\ client'[c] = r /\ server'[c] = s
        /\ client' \in [Clients -> Working] /\ server' \in [Clients -> Serving]
        /\ \A e \in Clients \ {c} : client'[e] = client[e] /\ server'[e] = server[e]
    BY <1>0, <2>3, <2>4, <2>5 DEF Typed
  <2>7. DoesCall(c)
    BY <1>0, <2>2, <2>3, <2>4, <2>6 DEF DoesCall, HasInstance
  <2>8. Present(c)' = Does(Present(c), Head(calls[c]))
    <3> DEFINE t == [on |-> TRUE, keys |-> server[c].keys, mods |-> client[c].modifiers,
                     mask |-> client[c].mask, maxsize |-> client[c].maxsize]
    <3>1. HasInstance(c)' = TRUE
      BY <2>3, <2>6 DEF HasInstance
    <3>2. Present(c)' = t
      BY <2>3, <2>4, <2>6, <3>1 DEF Present
    <3>3. Does(Present(c), Head(calls[c])) = [Present(c) EXCEPT !.on = TRUE]
      BY DEF Does
    <3>4. /\ Present(c) \in Hands
          /\ Present(c).keys = server[c].keys /\ Present(c).mods = client[c].modifiers
          /\ Present(c).mask = client[c].mask /\ Present(c).maxsize = client[c].maxsize
      BY <1>0, PresentTells
    <3>5. t \in Hands
      BY <1>1 DEF Hands, Working, Serving
    <3> DEFINE u == [Present(c) EXCEPT !.on = TRUE]
    <3>6. /\ u \in Hands /\ u.on = TRUE /\ u.keys = server[c].keys
          /\ u.mods = client[c].modifiers
          /\ u.mask = client[c].mask /\ u.maxsize = client[c].maxsize
      BY <3>4 DEF Hands
    <3> HIDE DEF u
    <3>7. u = t
      BY <3>5, <3>6, SameHands
    <3> HIDE DEF t
    <3> QED BY <3>2, <3>3, <3>7 DEF u
  <2>10. signals' \in Seq(Signals) /\ (Shown(c) => Shown(c)')
    <3> DEFINE q == signals \o SizeTold(c, d)
               y == [signal |-> "aliveChanged", alive |-> TRUE]
               b == [alive |-> FALSE, dimension |-> d]
    <3>1. AliveChanged(TRUE) = <<y>> /\ y \in Signals
      BY DEF AliveChanged, Signals
    <3>2. signals' = signals \o (SizeTold(c, d) \o <<y>>)
      BY <2>1, <3>1 DEF Emit
    <3>3. b \in Sights /\ b.dimension = d
      BY <2>2 DEF Sights
    <3>4. HasInstance(c)' = TRUE /\ client'[c].picture = d /\ Seen' = Seen
      BY <2>3, <2>6 DEF HasInstance, Seen
    <3>5. q \in Seq(Signals) /\ signals' = Append(q, y)
      BY <1>0, <2>2, <3>1, <3>2, SizeSeq
    <3>6. ASSUME Shown(c) PROVE Shown(c)'
      <4>1. Shows(q, Seen, b)
        BY <1>0, <1>2, <2>2, <3>6, SizeTells
      <4> HIDE DEF q, b
      <4>2. Shows(Append(q, y), Seen, [alive |-> TRUE, dimension |-> b.dimension])
        BY <3>3, <3>5, <4>1, AliveTells
      <4> QED BY <3>3, <3>4, <3>5, <4>2 DEF Shown
    <3>7. signals' \in Seq(Signals)
      BY <3>1, <3>5, AppendAt
    <3> QED BY <3>6, <3>7
  <2>11. client'[c].stage \in {"started", "on", "aborted"}
            => client[c].stage \in {"new", "started", "on", "aborted"}
               /\ Present(c)' = Does(Present(c), Head(calls[c]))
    BY <1>0, <2>8
  <2> QED BY <2>7, <2>10, <2>11, DoesFirst
<1>4. CASE /\ \E d \in Dims :
                /\ client' = [client EXCEPT ![c].stage = "off", ![c].remote = d, ![c].picture = d]
                /\ Emit(SizeTold(c, d))
           /\ UNCHANGED server
  <2>1. PICK d \in Dims :
           /\ client' = [client EXCEPT ![c].stage = "off", ![c].remote = d, ![c].picture = d]
           /\ Emit(SizeTold(c, d))
    BY <1>4
  <2>2. d \in Sizes /\ d # NoDim
    BY DimAssumption DEF Sizes, NoDim
  <2> DEFINE r == [client[c] EXCEPT !.stage = "off", !.remote = d, !.picture = d]
  <2>3. r \in Working /\ r.stage = "off" /\ r.picture = d /\ r.mask = client[c].mask
    BY <1>1, <2>2 DEF Working
  <2>4. client' = [client EXCEPT ![c] = r] /\ server' = server
    <3>1. client' = [client EXCEPT ![c] = r]
      BY <1>1, <2>1
    <3>2. server' = server
      BY <1>4
    <3> QED BY <3>1, <3>2
  <2> HIDE DEF r
  <2>5. /\ client'[c] = r /\ client' \in [Clients -> Working] /\ server' \in [Clients -> Serving]
        /\ \A e \in Clients \ {c} : client'[e] = client[e] /\ server'[e] = server[e]
    BY <1>0, <2>3, <2>4 DEF Typed
  <2>6. DoesCall(c) /\ ~HasInstance(c)'
    BY <1>0, <2>3, <2>4, <2>5 DEF DoesCall, HasInstance
  <2>7. signals' = signals \o SizeTold(c, d) /\ signals' \in Seq(Signals)
    BY <1>0, <2>1, <2>2, SizeSeq DEF Emit
  <2>8. ASSUME Shown(c) PROVE Shown(c)'
    <3>1. Shows(signals', Seen, [alive |-> FALSE, dimension |-> d])
      BY <1>0, <1>2, <2>2, <2>7, <2>8, SizeTells
    <3>2. HasInstance(c)' = FALSE /\ client'[c].picture = d /\ Seen' = Seen
      BY <2>3, <2>5 DEF HasInstance, Seen
    <3> QED BY <3>1, <3>2 DEF Shown
  <2> QED BY <2>3, <2>5, <2>6, <2>7, <2>8, DoesFirst
<1>5. CASE /\ \E d \in Dims \cup {NoDim} :
                client' = [client EXCEPT ![c].stage = "off", ![c].remote = d]
           /\ UNCHANGED <<signals, server>>
  <2>1. PICK d \in Sizes \cup {NoDim} :
           client' = [client EXCEPT ![c].stage = "off", ![c].remote = d]
    BY <1>5, DimAssumption DEF Sizes
  <2> DEFINE r == [client[c] EXCEPT !.stage = "off", !.remote = d]
  <2>2. r \in Working /\ r.stage = "off" /\ r.picture = client[c].picture /\ r.mask = client[c].mask
    BY <1>1 DEF Working
  <2>3. client' = [client EXCEPT ![c] = r]
    BY <1>1, <2>1
  <2> HIDE DEF r
  <2>4. /\ client'[c] = r /\ client' \in [Clients -> Working] /\ server' \in [Clients -> Serving]
        /\ \A e \in Clients \ {c} : client'[e] = client[e] /\ server'[e] = server[e]
    BY <1>0, <1>5, <2>2, <2>3 DEF Typed
  <2>5. DoesCall(c) /\ ~HasInstance(c)'
    BY <1>0, <1>5, <2>2, <2>4 DEF DoesCall, HasInstance
  <2>6. HasInstance(c)' = FALSE /\ HasInstance(c) = FALSE
        /\ client'[c].picture = client[c].picture /\ Seen' = Seen /\ signals' = signals
    BY <1>0, <1>5, <2>2, <2>4 DEF HasInstance, Seen
  <2>7. Shown(c) => Shown(c)'
    BY <2>6 DEF Shown
  <2> QED BY <1>1, <2>2, <2>4, <2>5, <2>6, <2>7, DoesFirst
<1> QED BY <1>3, <1>4, <1>5 DEF startSession

(* The destructor. *)
LEMMA DeletedInv ==
    ASSUME Inv, NEW c \in Clients, calls[c] # <<>>, UNCHANGED <<view, user>>,
           Head(calls[c]).op = "delete", deleted(c)
    PROVE  Inv'
<1>0. /\ Typed /\ Lives(c) /\ view.client # c /\ client[c].stage # "none"
      /\ calls' = [calls EXCEPT ![c] = <<>>]
  <2>1. calls[c] \in Seq(Calls) /\ Lives(c)
    BY DEF Inv, Typed
  <2>2. Len(calls[c]) \in Nat \ {0} /\ Head(calls[c]) = calls[c][1]
    BY <2>1, TailAt
  <2>3. 1 \in 1 .. Len(calls[c])
    BY <2>2
  <2> QED BY <2>1, <2>2, <2>3 DEF Inv, Lives, deleted
<1>1. /\ client[c] \in Working /\ server[c] \in Serving /\ signals \in Seq(Signals)
      /\ client = [client EXCEPT ![c] = client[c]] /\ server = [server EXCEPT ![c] = server[c]]
      /\ DOMAIN client = Clients /\ DOMAIN server = Clients
  BY <1>0 DEF Typed
<1> DEFINE r == [client[c] EXCEPT !.stage = "deleted"]
           s == [server[c] EXCEPT !.buttons = {}, !.keys = {}]
<1>2. r \in Working /\ r.stage = "deleted" /\ r.picture = client[c].picture /\ s \in Serving
  BY <1>1 DEF Working, Serving
<1>3. client' = [client EXCEPT ![c] = r] /\ server' = [server EXCEPT ![c] = s]
  BY <1>1 DEF deleted
<1> HIDE DEF r, s
<1>4. /\ client'[c] = r /\ client' \in [Clients -> Working] /\ server' \in [Clients -> Serving]
      /\ calls' \in [Clients -> Seq(Calls)] /\ calls'[c] = <<>>
      /\ \A e \in Clients \ {c} : client'[e] = client[e] /\ server'[e] = server[e]
                                  /\ calls'[e] = calls[e]
  BY <1>0, <1>2, <1>3 DEF Typed
<1>5. Lives(c)' /\ Step(c)
  <2>1. \A i \in 1 .. Len(calls'[c]) : FALSE
    BY <1>4
  <2>2. Lives(c)'
    BY <1>0, <1>2, <1>4, <2>1 DEF Lives, HasInstance
  <2> QED BY <1>0, <1>2, <1>4, <2>2 DEF Step
<1>6. HasInstance(c)' = FALSE /\ client'[c].picture = client[c].picture /\ Seen' = Seen
  BY <1>2, <1>4 DEF HasInstance, Seen
<1>7. signals' \in Seq(Signals) /\ (Shown(c) => Shown(c)')
  <2>1. CASE ~HasInstance(c)
    <3>1. signals' = signals /\ HasInstance(c) = FALSE
      BY <1>1, <2>1, PostedBehind DEF deleted, Emit, HasInstance
    <3> QED BY <1>1, <1>6, <3>1 DEF Shown
  <2>2. CASE HasInstance(c)
    <3> DEFINE b == [alive |-> HasInstance(c), dimension |-> client[c].picture]
               y == [signal |-> "aliveChanged", alive |-> FALSE]
    <3>1. b \in Sights /\ b.dimension = client[c].picture
      BY <1>1 DEF Sights, Working, HasInstance
    <3>2. AliveChanged(FALSE) = <<y>> /\ y \in Signals
      BY DEF AliveChanged, Signals
    <3>3. signals' = signals \o <<y>>
      BY <2>2, <3>2 DEF deleted, Emit
    <3> HIDE DEF b
    <3>4. signals' = Append(signals, y) /\ signals' \in Seq(Signals)
      BY <1>1, <3>2, <3>3, PostedBehind, AppendAt
    <3>5. ASSUME Shown(c) PROVE Shown(c)'
      <4>1. Shows(signals, Seen, b)
        BY <3>5 DEF Shown, b
      <4>2. Shows(Append(signals, y), Seen, [alive |-> FALSE, dimension |-> b.dimension])
        BY <1>1, <3>1, <4>1, AliveTells
      <4> QED BY <1>6, <3>1, <3>4, <4>2 DEF Shown
    <3> QED BY <3>4, <3>5
  <2> QED BY <2>1, <2>2
<1>8. Typed'
  BY <1>0, <1>4, <1>7 DEF Typed
<1> QED BY <1>0, <1>5, <1>7, <1>8, StepKeeps

(* A call to a client without a session. *)
LEMMA WithoutSessionInv ==
    ASSUME Inv, NEW c \in Clients, calls[c] # <<>>, calls' = [calls EXCEPT ![c] = Tail(@)],
           UNCHANGED <<view, user, signals>>, ~HasInstance(c),
           client[c].stage # "new",
           NEW call \in Calls, call = Head(calls[c]), call.op \notin {"startSession", "delete"},
           \/ call.op # "setMaxSize" /\ UNCHANGED <<client, server>>
           \/ call.op = "setMaxSize" /\ setClientMaxSize(c, call.size)
    PROVE  Inv'
<1>0. /\ Typed /\ Lives(c) /\ client[c].stage \notin {"none", "new", "deleted"}
      /\ client[c].stage = "started" => Fresh(c)
  BY Remaining DEF Inv, Lives
<1>1. /\ client[c] \in Working /\ client = [client EXCEPT ![c] = client[c]]
      /\ DOMAIN client = Clients
  BY <1>0 DEF Typed
<1>2. PICK r \in Working :
         /\ client' = [client EXCEPT ![c] = r] /\ r.stage = client[c].stage
         /\ r.remote = client[c].remote /\ r.picture = client[c].picture
         /\ r.mask = client[c].mask /\ r.modifiers = client[c].modifiers
         /\ r.maxsize = IF call.op = "setMaxSize" THEN call.size ELSE client[c].maxsize
  <2>1. CASE call.op # "setMaxSize"
    BY <1>1, <2>1
  <2>2. CASE call.op = "setMaxSize"
    <3>1. call.size \in Sizes
      BY <2>2, DimAssumption DEF Calls, Sizes
    <3> DEFINE r == [client[c] EXCEPT !.maxsize = call.size]
    <3>2. /\ r \in Working /\ r.stage = client[c].stage /\ r.remote = client[c].remote
          /\ r.picture = client[c].picture /\ r.mask = client[c].mask
          /\ r.modifiers = client[c].modifiers /\ r.maxsize = call.size
      BY <1>1, <3>1 DEF Working
    <3>3. client' = [client EXCEPT ![c] = r]
      BY <1>1, <2>2 DEF setClientMaxSize
    <3> HIDE DEF r
    <3> QED BY <2>2, <3>2, <3>3
  <2> QED BY <2>1, <2>2
<1>3. server' = server
  BY DEF setClientMaxSize
<1>4. /\ client'[c] = r /\ client' \in [Clients -> Working] /\ server' \in [Clients -> Serving]
      /\ \A e \in Clients \ {c} : client'[e] = client[e] /\ server'[e] = server[e]
  BY <1>0, <1>2, <1>3 DEF Typed
<1>5. DoesCall(c) /\ ~HasInstance(c)'
  <2>1. client'[c].stage = "started" => Fresh(c)'
    BY <1>0, <1>2, <1>3, <1>4 DEF Fresh
  <2> QED BY <1>0, <1>2, <1>3, <1>4, <2>1 DEF DoesCall, HasInstance, Lives
<1>6. Shown(c) => Shown(c)'
  BY <1>2, <1>4, NothingShown
<1>7. ASSUME client[c].stage = "started" PROVE Present(c)' = Does(Present(c), call)
  <2>1. HasInstance(c) = FALSE /\ HasInstance(c)' = FALSE
    BY <1>2, <1>4, <1>7 DEF HasInstance
  <2>2. Present(c)' = IF call.op = "setMaxSize" THEN [Present(c) EXCEPT !.maxsize = call.size]
                      ELSE Present(c)
    BY <1>2, <1>3, <1>4, <2>1 DEF Present
  <2>3. Present(c).on = FALSE
    BY <2>1 DEF Present
  <2> QED BY <2>2, <2>3 DEF Does
<1> QED BY <1>0, <1>2, <1>4, <1>5, <1>6, <1>7, DoesFirst DEF Typed, HasInstance

LEMMA ClientStepInv == ASSUME Inv, NEW c \in Clients, clientStep(c) PROVE Inv'
<1> DEFINE call == Head(calls[c])
<1>1. /\ calls[c] # <<>> /\ client[c].stage # "new" /\ UNCHANGED <<view, user>>
      /\ \/ call.op = "delete" /\ deleted(c)
         \/ /\ calls' = [calls EXCEPT ![c] = Tail(@)]
            /\ \/ call.op = "startSession" /\ startSession(c)
               \/ call.op = "setMaxSize" /\ setClientMaxSize(c, call.size) /\ UNCHANGED signals
               \/ /\ call.op \in {"key", "text", "mouse", "wheel"}
                  /\ IF HasInstance(c) THEN sendAction(c, call) ELSE UNCHANGED <<client, server>>
                  /\ UNCHANGED signals
  BY DEF clientStep
<1>2. call \in Calls
  <2>1. calls[c] \in Seq(Calls)
    BY DEF Inv, Typed
  <2> QED BY <1>1, <2>1, TailAt
<1>3. CASE /\ call.op = "startSession" /\ startSession(c)
           /\ calls' = [calls EXCEPT ![c] = Tail(@)]
  BY <1>1, <1>3, StartSessionInv
<1>4. CASE call.op = "delete" /\ deleted(c)
  BY <1>1, <1>4, DeletedInv
<1>5. CASE /\ call.op = "setMaxSize" /\ setClientMaxSize(c, call.size) /\ UNCHANGED signals
           /\ calls' = [calls EXCEPT ![c] = Tail(@)]
  <2>1. CASE HasInstance(c)
    BY <1>1, <1>2, <1>5, <2>1, SendInv
  <2>2. CASE ~HasInstance(c)
    BY <1>1, <1>2, <1>5, <2>2, WithoutSessionInv
  <2> QED BY <2>1, <2>2
<1>6. CASE /\ call.op \in {"key", "text", "mouse", "wheel"}
           /\ IF HasInstance(c) THEN sendAction(c, call) ELSE UNCHANGED <<client, server>>
           /\ UNCHANGED signals /\ calls' = [calls EXCEPT ![c] = Tail(@)]
  <2>1. CASE HasInstance(c)
    BY <1>1, <1>2, <1>6, <2>1, SendInv
  <2>2. CASE ~HasInstance(c)
    BY <1>1, <1>2, <1>6, <2>2, WithoutSessionInv
  <2> QED BY <2>1, <2>2
<1> QED BY <1>1, <1>3, <1>4, <1>5, <1>6

(* What comes from the server. *)
LEMMA PictureInv == ASSUME Inv, NEW c \in Clients, pictureComes(c) PROVE Inv'
<1>0. /\ Typed /\ Lives(c) /\ client[c].stage = "on" /\ client[c].picture \in Sizes
      /\ client[c].picture # NoDim /\ UNCHANGED <<view, client, calls, user, server>>
  BY DEF Inv, pictureComes, Lives, HasInstance, Typed, Working
<1>1. PICK d \in {client[c].picture, <<1, 1>>} : Emit(<<[signal |-> "areaChanged", size |-> d]>>)
  BY DEF pictureComes
<1> DEFINE s == [signal |-> "areaChanged", size |-> d]
           b == [alive |-> HasInstance(c), dimension |-> client[c].picture]
<1>2. d \in Sizes
  BY <1>0 DEF Sizes
<1>3. s \in Signals /\ b \in Sights /\ Makes(b, s) = b /\ signals' = signals \o <<s>>
  BY <1>0, <1>1, <1>2 DEF Signals, Sights, Makes, Emit, HasInstance
<1>4. signals' = Append(signals, s) /\ signals' \in Seq(Signals) /\ signals \in Seq(Signals)
  <2> HIDE DEF s
  <2>1. signals \in Seq(Signals)
    BY <1>0 DEF Typed
  <2> QED BY <1>3, <2>1, PostedBehind, AppendAt
<1>5. b' = b /\ Seen' = Seen
  BY <1>0 DEF HasInstance, Seen
<1> HIDE DEF s, b
<1>6. ASSUME Shown(c) PROVE Shown(c)'
  <2>1. Shows(signals, Seen, b)
    BY <1>6 DEF Shown, b
  <2>2. Shows(Append(signals, s), Seen, b)
    BY <1>3, <1>4, <2>1, ShowsAppend
  <2>3. Shows(signals', Seen', b')
    BY <1>4, <1>5, <2>2
  <2> QED BY <2>3 DEF Shown, b
<1>7. Typed' /\ Step(c)
  BY <1>0, <1>4 DEF Typed, Step
<1>8. Lives(c)'
  BY <1>0 DEF Lives, Fresh, HasInstance
<1>9. view.client = c => Followed(c)'
  <2>1. Present(c)' = Present(c) /\ \A t \in Hands : Ends(t) => Ends(t)'
    BY <1>0 DEF Present, HasInstance, Ends, Idle, Held
  <2>2. view.client = c => Followed(c)
    BY <1>0 DEF Inv, Led
  <2> QED BY <1>0, <2>1, <2>2 DEF Followed
<1> QED BY <1>6, <1>7, <1>8, <1>9, StepKeeps

(* The picture or the connection changes, and no call is done. *)
LEMMA SessionChanges ==
    ASSUME Inv, NEW c \in Clients, client[c].stage = "on", UNCHANGED <<view, calls, user, server>>,
           NEW r \in Working, client' = [client EXCEPT ![c] = r], r.stage \in {"on", "aborted"},
           r.picture # NoDim, r.stage = "on" => r.picture = r.remote, r.setsize = client[c].setsize, r.maxsize = client[c].maxsize,
           r.mask = client[c].mask, r.modifiers = client[c].modifiers,
           signals' \in Seq(Signals), Shown(c) => Shown(c)'
    PROVE  Inv'
<1>0. Typed /\ Lives(c)
  BY DEF Inv
<1>1. /\ client'[c] = r /\ client' \in [Clients -> Working]
      /\ \A e \in Clients \ {c} : client'[e] = client[e]
  BY <1>0 DEF Typed
<1>2. Typed' /\ Step(c)
  BY <1>0, <1>1 DEF Typed, Step
<1>3. Lives(c)'
  BY <1>0, <1>1 DEF Lives, Fresh, HasInstance
<1>4. view.client = c => Followed(c)'
  <2>1. HasInstance(c)' = TRUE /\ HasInstance(c) = TRUE
    BY <1>1 DEF HasInstance
  <2>3. Present(c)' = Present(c) /\ \A t \in Hands : Ends(t) => Ends(t)'
    BY <1>1, <2>1 DEF Present, Ends, Idle, Held
  <2>2. view.client = c => Followed(c)
    BY DEF Inv, Led
  <2> QED BY <2>2, <2>3 DEF Followed
<1> QED BY <1>2, <1>3, <1>4, StepKeeps

LEMMA SizeChangesInv == ASSUME Inv, NEW c \in Clients, sizeChanges(c) PROVE Inv'
<1>0. /\ Typed /\ client[c] \in Working /\ client[c].stage = "on"
      /\ client[c].picture = client[c].remote /\ client[c].picture # NoDim
      /\ client = [client EXCEPT ![c] = client[c]] /\ DOMAIN client = Clients
      /\ UNCHANGED <<view, calls, user, server>>
  BY DEF Inv, sizeChanges, Typed, Lives, HasInstance
<1>1. PICK d \in Dims :
         \/ /\ client' = [client EXCEPT ![c].remote = d, ![c].picture = d]
            /\ Emit(SizeTold(c, d))
         \/ /\ client' = [client EXCEPT ![c].remote = d, ![c].stage = "aborted"]
            /\ UNCHANGED signals
  BY DEF sizeChanges
<1>2. d \in Sizes /\ d # NoDim
  BY DimAssumption DEF Sizes, NoDim
<1>3. CASE /\ client' = [client EXCEPT ![c].remote = d, ![c].picture = d]
           /\ Emit(SizeTold(c, d))
  <2> DEFINE r == [client[c] EXCEPT !.remote = d, !.picture = d]
  <2>1. /\ r \in Working /\ r.stage = "on" /\ r.remote = d /\ r.picture = d
        /\ r.setsize = client[c].setsize
        /\ r.maxsize = client[c].maxsize /\ r.mask = client[c].mask
        /\ r.modifiers = client[c].modifiers
    BY <1>0, <1>2 DEF Working
  <2>2. client' = [client EXCEPT ![c] = r]
    BY <1>0, <1>3
  <2> HIDE DEF r
  <2>3. signals' = signals \o SizeTold(c, d) /\ signals' \in Seq(Signals) /\ client'[c] = r
    BY <1>0, <1>2, <1>3, <2>2, SizeSeq DEF Emit
  <2>4. ASSUME Shown(c) PROVE Shown(c)'
    <3>1. HasInstance(c) = TRUE /\ HasInstance(c)' = TRUE /\ client'[c].picture = d /\ Seen' = Seen
      BY <1>0, <2>1, <2>3 DEF HasInstance, Seen
    <3>2. Shows(signals, Seen, [alive |-> TRUE, dimension |-> client[c].picture])
      BY <2>4, <3>1 DEF Shown
    <3>3. Shows(signals', Seen, [alive |-> TRUE, dimension |-> d])
      BY <1>0, <1>2, <2>3, <3>2, SizeTells
    <3> QED BY <3>1, <3>3 DEF Shown
  <2> QED BY <1>0, <1>2, <2>1, <2>2, <2>3, <2>4, SessionChanges
<1>4. CASE /\ client' = [client EXCEPT ![c].remote = d, ![c].stage = "aborted"]
           /\ UNCHANGED signals
  <2> DEFINE r == [client[c] EXCEPT !.remote = d, !.stage = "aborted"]
  <2>1. /\ r \in Working /\ r.stage = "aborted" /\ r.picture = client[c].picture
        /\ r.setsize = client[c].setsize
        /\ r.maxsize = client[c].maxsize /\ r.mask = client[c].mask
        /\ r.modifiers = client[c].modifiers
    BY <1>0, <1>2 DEF Working
  <2>2. client' = [client EXCEPT ![c] = r]
    BY <1>0, <1>4
  <2> HIDE DEF r
  <2>3. client'[c] = r /\ signals' \in Seq(Signals)
    BY <1>0, <1>4, <2>2 DEF Typed
  <2>4. /\ HasInstance(c)' = HasInstance(c) /\ client'[c].picture = client[c].picture
        /\ Seen' = Seen
    BY <1>0, <2>1, <2>3 DEF HasInstance, Seen
  <2>5. Shown(c) => Shown(c)'
    BY <1>4, <2>4 DEF Shown
  <2> QED BY <1>0, <2>1, <2>2, <2>3, <2>5, SessionChanges
<1> QED BY <1>1, <1>3, <1>4

LEMMA AbortedInv == ASSUME Inv, NEW c \in Clients, connectionAborted(c) PROVE Inv'
<1>0. /\ Typed /\ client[c] \in Working /\ client[c].stage = "on"
      /\ client = [client EXCEPT ![c] = client[c]] /\ DOMAIN client = Clients
      /\ client[c].picture # NoDim /\ signals \in Seq(Signals)
      /\ UNCHANGED <<view, calls, signals, user, server>>
  BY DEF Inv, connectionAborted, Typed, Lives, HasInstance
<1> DEFINE r == [client[c] EXCEPT !.stage = "aborted"]
<1>1. /\ r \in Working /\ r.stage = "aborted" /\ r.picture = client[c].picture
      /\ r.setsize = client[c].setsize
      /\ r.maxsize = client[c].maxsize /\ r.mask = client[c].mask
      /\ r.modifiers = client[c].modifiers
  BY <1>0 DEF Working
<1>2. client' = [client EXCEPT ![c] = r]
  BY <1>0 DEF connectionAborted
<1> HIDE DEF r
<1>3. client'[c] = r
  BY <1>0, <1>2
<1>4. Shown(c) => Shown(c)'
  <2>1. HasInstance(c)' = HasInstance(c) /\ client'[c].picture = client[c].picture /\ Seen' = Seen
    BY <1>0, <1>1, <1>3 DEF HasInstance, Seen
  <2> QED BY <1>0, <2>1 DEF Shown
<1> QED BY <1>0, <1>1, <1>2, <1>4, SessionChanges

--------------------------------------------------------------------------------
LEMMA InvInit == Init => Inv
<1> SUFFICES ASSUME Init PROVE Inv
  OBVIOUS
<1>1. Typed
  BY DEF Init, Typed, Viewing, Working, Serving, Using, Nobody
<1>2. ASSUME NEW c \in Clients PROVE Lives(c)
  <2>1. /\ client[c].stage = "none" /\ client[c].remote = NoDim
        /\ client[c].picture = NoDim /\ client[c].mask = {}
        /\ client[c].modifiers = {} /\ server[c].keys = {} /\ server[c].asked = NoDim
        /\ server[c].buttons = {} /\ calls[c] = <<>> /\ view.client # c
    BY NobodyAssumption DEF Init, Nobody
  <2>2. \A i \in 1 .. Len(calls[c]) : FALSE
    BY <2>1
  <2> QED BY <2>1, <2>2 DEF Lives, Fresh, HasInstance
<1>3. Passes /\ Led
  BY NobodyAssumption DEF Init, Passes, Led, Nobody
<1>4. Told
  BY DEF Init, Told, Only, Seen
<1> QED BY <1>1, <1>2, <1>3, <1>4 DEF Inv

LEMMA InvStep == Inv /\ [Next]_vars => Inv'
<1> SUFFICES ASSUME Inv, [Next]_vars PROVE Inv'
  OBVIOUS
<1>1. CASE UNCHANGED vars
  <2>1. UNCHANGED <<view, client, calls, signals, user, server>>
    BY <1>1 DEF vars
  <2>2. Typed' /\ Passes'
    BY <2>1 DEF Inv, Typed, Passes
  <2>3. ASSUME NEW c \in Clients PROVE Lives(c)'
    <3>1. Lives(c)
      BY DEF Inv
    <3> QED BY <2>1, <3>1 DEF Lives, Fresh, HasInstance
  <2>4. Led'
    <3>1. \A c \in Clients : Present(c)' = Present(c)
      BY <2>1 DEF Present, HasInstance
    <3>2. \A t \in Hands : Ends(t) => Ends(t)'
      BY <2>1 DEF Ends, Idle, Held
    <3>3. \A c \in Clients : Followed(c) => Followed(c)'
      BY <2>1, <3>1, <3>2 DEF Followed
    <3> QED BY <2>1, <3>3 DEF Inv, Led
  <2>5. Told'
    <3>1. Seen' = Seen /\ \A c \in Clients : HasInstance(c)' = HasInstance(c)
      BY <2>1 DEF Seen, HasInstance
    <3> QED BY <2>1, <3>1 DEF Inv, Told, Only
  <2> QED BY <2>2, <2>3, <2>4, <2>5 DEF Inv
<1>2. CASE Next
  BY <1>2, StartInv, ThreadStartsInv, ClientStepInv, PictureInv, SizeChangesInv, AbortedInv, CancelInv,
     SetMaxSizeInv, KeyInv, MousePressInv, MouseReleaseInv, MoveInv, WheelInv, TextInv, FocusInv,
     ViewStepInv DEF Next
<1> QED BY <1>1, <1>2

LEMMA Invariant == Spec => []Inv
BY InvInit, InvStep, PTL DEF Spec

(* The calls of DesktopView reach the client in the order of the events, and  *)
(* sendKey ends the modifiers that may have been pressed under another symbol *)
(* (but not the ordinary keys): so no button and no modifier stays pressed on *)
(* the server, an ordinary key only if its releases named other symbols than  *)
(* it was pressed under, and it was asked for the size of the view.           *)
THEOREM NothingStaysPressed == Spec => []ServerFollowsView
<1>1. Inv => ServerFollowsView
  <2> SUFFICES ASSUME Inv, NEW c \in Clients, view.client = c, client[c].stage = "on",
                      calls[c] = <<>>
               PROVE  /\ (user.buttons = {} /\ user.keys = {} /\ ~user.lost)
                            => server[c].buttons = {} /\ server[c].keys \subseteq user.renamed
                      /\ client[c].setsize => server[c].asked = view.maxsize
    BY DEF ServerFollowsView
  <2>1. PICK t \in Hands : Leads(<<>>, Present(c), t) /\ Ends(t)
    BY DEF Inv, Led, Followed
  <2>2. t = Present(c)
    BY <2>1, LeadsEnd
  <2>3. /\ t.keys = server[c].keys /\ t.mask = client[c].mask /\ t.maxsize = client[c].maxsize
        /\ t.mods = client[c].modifiers /\ t.keys \subseteq Symbols
    BY <2>2, PresentTells DEF Inv, Hands
  <2>4. /\ client[c].setsize => server[c].asked = client[c].maxsize
        /\ server[c].buttons = client[c].mask
    BY DEF Inv, Lives, HasInstance
  <2>5. ASSUME user.buttons = {}, user.keys = {}, ~user.lost
        PROVE  server[c].buttons = {} /\ server[c].keys \subseteq user.renamed
    <3>1. Held(t) /\ view.buttons = {} /\ user.pressedAs = {}
      BY <2>1, <2>5 DEF Ends, Inv, Passes
    <3>2. t.mods = {}
      BY <2>5, <3>1 DEF Held, Hands, Symbols
    <3> QED BY <2>3, <2>4, <2>5, <3>1, <3>2 DEF Held
  <2> QED BY <2>1, <2>3, <2>4, <2>5 DEF Ends
<1> QED BY <1>1, Invariant, PTL

(* The signals of the only client tell the view all that it has to know.      *)
THEOREM ViewShowsItsClient == Spec => []ViewFollowsClient
<1>1. Inv => ViewFollowsClient
  <2> SUFFICES ASSUME Inv, NEW c \in Clients,
                      {d \in Clients : client[d].stage # "none"} = {c}, signals = <<>>
               PROVE  /\ view.alive = HasInstance(c)
                      /\ client[c].picture # NoDim => view.dimension = client[c].picture
    BY DEF ViewFollowsClient
  <2>1. Only(c)
    BY DEF Only
  <2>2. Seen = [alive |-> HasInstance(c), dimension |-> client[c].picture]
    BY <2>1, ShowsEnd DEF Inv, Told
  <2> QED BY <2>2 DEF Seen
<1> QED BY <1>1, Invariant, PTL
================================================================================
