------------------------------- MODULE Desktop -------------------------------
(***************************************************************************)
(* The desktop of a machine over VNC: the view in the thread of the user   *)
(* interface (src/DesktopView.cpp) and a client for each start, in a       *)
(* thread of its own (src/VncDesktopClient.cpp).  The view posts calls to  *)
(* the client, and the client posts signals to the view; neither waits.    *)
(* A key is sent as a symbol, which depends on the modifiers that are held *)
(* when it is pressed, and again when it is released.  The end of the      *)
(* program (stopSession at aboutToQuit) is left out.                       *)
(*                                                                         *)
(* An operator whose name ends in _f... is the operator of the same name   *)
(* with one plausible fault; the properties are shown to notice it.        *)
(***************************************************************************)
EXTENDS Integers, Sequences

CONSTANTS
    Clients,        \* one for each start
    Buttons,        \* of the mouse
    Dims,           \* sizes, of pictures and windows: <<width, height>>
    MaxInputs,      \* bound: events of the user
    MaxCalls,       \* bound: calls on their way to one client
    MaxSignals      \* bound: signals on their way to the view

ASSUME DimAssumption   == Dims \subseteq (Nat \ {0}) \X (Nat \ {0})
ASSUME NobodyAssumption == "nobody" \notin Clients
ASSUME BoundAssumption == {MaxInputs, MaxCalls, MaxSignals} \subseteq Nat

VARIABLES
    view,           \* the members of DesktopView
    client,         \* the members of each VncDesktopClient
    calls,          \* for each client, the calls posted to its thread
    signals,        \* the signals posted to the view
    user,           \* what is pressed; lost: a release that was not passed on
    server,         \* external: what the server of each client takes for pressed
    inputs          \* how many events of the user there were

vars == <<view, client, calls, signals, user, server, inputs>>

Nobody  == "nobody"
NoDim   == <<0, 0>>
Keys    == {"shift", "alt", "one"}
Letters == {"1", "exclam"}
isControlKey(symbol) == symbol \in {"Shift_L", "Alt_L", "Meta_L"}

(* The keyboard is the one of X11; qtKeyToVnc takes the symbol of an ordinary *)
(* key from Qt's name of it, which is Key_Exclam while Shift is held.         *)
Symbol(k, held) ==
    CASE k = "shift" -> "Shift_L"
      [] k = "alt"   -> IF "shift" \in held THEN "Meta_L" ELSE "Alt_L"
      [] k = "one"   -> IF "shift" \in held THEN "exclam" ELSE "1"

Init ==
    /\ view = [client |-> Nobody, alive |-> FALSE, frames |-> FALSE, dimension |-> NoDim,
               buttons |-> {}, maxsize |-> NoDim]
    /\ client = [c \in Clients |->
                    [stage |-> "none", remote |-> NoDim, picture |-> NoDim, maxsize |-> NoDim,
                     setsize |-> FALSE, mask |-> {}, modifiers |-> {}]]
    /\ calls = [c \in Clients |-> <<>>]
    /\ signals = <<>>
    /\ user = [buttons |-> {}, keys |-> {}, pressedAs |-> {}, renamed |-> {}, focus |-> TRUE,
               lost |-> FALSE]
    /\ server = [c \in Clients |-> [buttons |-> {}, keys |-> {}, asked |-> NoDim]]
    /\ inputs = 0

--------------------------------------------------------------------------------
(* The view.                                                                  *)

Input == inputs < MaxInputs /\ inputs' = inputs + 1

Post(call) ==
    IF view.client = Nobody THEN UNCHANGED calls
    ELSE /\ Len(calls[view.client]) < MaxCalls
         /\ calls' = [calls EXCEPT ![view.client] = Append(@, call)]

start(c) ==
    /\ client[c].stage = "none"
    /\ client' = [client EXCEPT ![c].stage = "new", ![c].maxsize = view.maxsize]
    /\ view' = [view EXCEPT !.client = c]
    /\ UNCHANGED <<calls, signals, user, server, inputs>>

(* The signal that the thread has started is queued to the client as well,    *)
(* behind what the view has posted in the meantime.                           *)
threadStarts(c) ==
    /\ client[c].stage = "new"
    /\ client' = [client EXCEPT ![c].stage = "started"]
    /\ Len(calls[c]) < MaxCalls
    /\ calls' = [calls EXCEPT ![c] = Append(@, [op |-> "startSession"])]
    /\ UNCHANGED <<view, signals, user, server, inputs>>

(* deleteLater: the client is deleted in its thread. *)
cancel ==
    /\ view.client # Nobody
    /\ Post([op |-> "delete"])
    /\ view' = [view EXCEPT !.client = Nobody]
    /\ UNCHANGED <<client, signals, user, server, inputs>>

setMaxSize(d) ==
    /\ Input
    /\ d # view.maxsize
    /\ Post([op |-> "setMaxSize", size |-> d])
    /\ view' = [view EXCEPT !.maxsize = d]
    /\ UNCHANGED <<client, signals, user, server>>

Listens == view.frames /\ user.focus

Ordinary(k) == ~isControlKey(Symbol(k, {}))

(* An ordinary key that is held repeats.  pressedAs and renamed record under  *)
(* which symbols it was pressed, and which of these its release did not name. *)
keyPressEvent(k) ==
    /\ Input
    /\ k \in user.keys => Ordinary(k)
    /\ LET symbol == Symbol(k, user.keys)
       IN  /\ user' = [user EXCEPT !.keys = @ \cup {k},
                                   !.pressedAs = IF Ordinary(k) THEN @ \cup {symbol} ELSE @]
           /\ IF Listens THEN Post([op |-> "key", symbol |-> symbol, down |-> TRUE])
              ELSE UNCHANGED calls
    /\ UNCHANGED <<view, client, signals, server>>

keyReleaseEvent(k) ==
    /\ Input
    /\ k \in user.keys
    /\ LET symbol == Symbol(k, user.keys \ {k})
       IN  /\ user' = [user EXCEPT
                 !.keys = @ \ {k}, !.lost = @ \/ ~Listens,
                 !.renamed = IF Ordinary(k) THEN (@ \cup user.pressedAs) \ {symbol} ELSE @,
                 !.pressedAs = IF Ordinary(k) THEN {} ELSE @]
           /\ IF Listens THEN Post([op |-> "key", symbol |-> symbol, down |-> FALSE])
              ELSE UNCHANGED calls
    /\ UNCHANGED <<view, client, signals, server>>

(* Nothing is passed on of what happens beside the picture, or in its corner. *)
emitMouseAction(inside, buttons, move, down) ==
    IF inside /\ view.dimension # NoDim
    THEN Post([op |-> "mouse", buttons |-> buttons, move |-> move, down |-> down])
    ELSE UNCHANGED calls

mousePressEvent(b, inside) ==
    /\ Input
    /\ b \notin user.buttons
    /\ LET held == user.buttons \cup {b}
       IN  /\ user' = [user EXCEPT !.buttons = held, !.focus = @ \/ view.frames]
           /\ IF view.frames
              THEN /\ view' = [view EXCEPT !.buttons = held]
                   /\ emitMouseAction(inside, held, FALSE, TRUE)
              ELSE UNCHANGED <<view, calls>>
    /\ UNCHANGED <<client, signals, server>>

mouseMoveEvent ==
    /\ Input
    /\ Listens /\ view.buttons # {}
    /\ emitMouseAction(TRUE, view.buttons, TRUE, TRUE)
    /\ UNCHANGED <<view, client, signals, user, server>>

hoverMoveEvent ==
    /\ Input
    /\ Listens
    /\ emitMouseAction(TRUE, {}, TRUE, FALSE)
    /\ UNCHANGED <<view, client, signals, user, server>>

(* The first release ends all that were pressed. *)
mouseReleaseEvent(b, inside) ==
    /\ Input
    /\ b \in user.buttons
    /\ user' = [user EXCEPT !.buttons = @ \ {b},
                            !.lost = @ \/ (view.buttons # {} /\ ~(Listens /\ inside))]
    /\ IF Listens /\ view.buttons # {}
       THEN /\ view' = [view EXCEPT !.buttons = {}]
            /\ emitMouseAction(inside, view.buttons, FALSE, FALSE)
       ELSE UNCHANGED <<view, calls>>
    /\ UNCHANGED <<client, signals, server>>

(* The wheel turns beside the picture as well. *)
wheelEvent ==
    /\ Input
    /\ Listens
    /\ Post([op |-> "wheel"])
    /\ UNCHANGED <<view, client, signals, user, server>>

(* A text that an input method made: a letter, which a key makes as well. *)
inputMethodEvent ==
    /\ Input
    /\ Listens
    /\ \E letter \in Letters : Post([op |-> "text", symbols |-> {letter}])
    /\ UNCHANGED <<view, client, signals, user, server>>

focusChanges ==
    /\ Input
    /\ user' = [user EXCEPT !.focus = ~@]
    /\ UNCHANGED <<view, client, calls, signals, server>>

(* The signals. *)
onAliveChanged(v, alive) ==
    IF alive = v.alive THEN v ELSE [v EXCEPT !.alive = alive, !.frames = FALSE]
onSizeChanged(v, d) == [v EXCEPT !.dimension = d]
onAreaChanged(v, d) ==
    LET u == IF v.dimension = NoDim THEN onSizeChanged(v, d) ELSE v
    IN  [u EXCEPT !.frames = @ \/ d[1] >= u.dimension[1] \/ d[2] >= u.dimension[2]]

viewStep ==
    /\ signals # <<>> /\ signals' = Tail(signals)
    /\ LET s == Head(signals)
       IN  view' = CASE s.signal = "aliveChanged" -> onAliveChanged(view, s.alive)
                     [] s.signal = "sizeChanged"  -> onSizeChanged(view, s.size)
                     [] s.signal = "areaChanged"  -> onAreaChanged(view, s.size)
    /\ UNCHANGED <<client, calls, user, server, inputs>>

--------------------------------------------------------------------------------
(* The client, in its thread.                                                 *)

AliveChanged(on) == <<[signal |-> "aliveChanged", alive |-> on]>>
Emit(told) == Len(signals) + Len(told) <= MaxSignals /\ signals' = signals \o told

(* mallocFrameBuffer, for a picture of size d.  When the server cannot be     *)
(* told of it the client already keeps the new size, but not the picture, and *)
(* tells nothing.                                                             *)
SizeTold_fBoth(c, d) ==
    IF d[1] # client[c].remote[1] /\ d[2] # client[c].remote[2]
    THEN <<[signal |-> "sizeChanged", size |-> d]>> ELSE <<>>
SizeTold(c, d) ==
    IF d[1] # client[c].remote[1] \/ d[2] # client[c].remote[2]
    THEN <<[signal |-> "sizeChanged", size |-> d]>> ELSE <<>>

(* It may fail before, while or after the first picture is made.              *)
startSession(c) ==
    \/ \E d \in Dims, setsize \in BOOLEAN :
          /\ client' = [client EXCEPT ![c].stage = "on", ![c].remote = d, ![c].picture = d,
                                      ![c].setsize = setsize]
          /\ server' = IF setsize /\ client[c].maxsize # NoDim
                       THEN [server EXCEPT ![c].asked = client[c].maxsize] ELSE server
          /\ Emit(SizeTold(c, d) \o AliveChanged(TRUE))
    \/ /\ \E d \in Dims :
             /\ client' = [client EXCEPT ![c].stage = "off", ![c].remote = d, ![c].picture = d]
             /\ Emit(SizeTold(c, d))
       /\ UNCHANGED server
    \/ /\ \E d \in Dims \cup {NoDim} :
             client' = [client EXCEPT ![c].stage = "off", ![c].remote = d]
       /\ UNCHANGED <<signals, server>>

HasInstance(c) == client[c].stage \in {"on", "aborted"}

setClientMaxSize(c, d) ==
    /\ client' = [client EXCEPT ![c].maxsize = d]
    /\ server' = IF d # client[c].maxsize /\ HasInstance(c) /\ client[c].setsize
                 THEN [server EXCEPT ![c].asked = d] ELSE server

(* key_modifiers: a release of one that was not pressed ends all that were,   *)
(* since its symbol may have been another one when it was pressed.            *)
Released_fNone(mods, symbol, down) == {}
Released(mods, symbol, down) ==
    IF isControlKey(symbol) /\ ~down /\ symbol \notin mods THEN mods ELSE {}

sendKey(c, symbol, down) ==
    LET mods == client[c].modifiers
        up   == Released(mods, symbol, down)
        next == IF ~isControlKey(symbol) THEN mods
                ELSE IF down THEN mods \cup {symbol} ELSE (mods \ {symbol}) \ up
        keys == server[c].keys \ up
    IN  /\ client' = [client EXCEPT ![c].modifiers = next]
        /\ server' = [server EXCEPT ![c].keys = IF down THEN keys \cup {symbol}
                                                ELSE keys \ {symbol}]

sendMouse(c, call) ==
    LET mask == client[c].mask
        next == IF call.move THEN mask
                ELSE IF call.down THEN mask \cup call.buttons ELSE mask \ call.buttons
    IN  /\ client' = [client EXCEPT ![c].mask = next]
        /\ server' = [server EXCEPT ![c].buttons = next]

(* A turn of the wheel, if it is far enough, and each letter of a text is     *)
(* pressed and released in one go: nothing of it is left pressed.             *)
sendWheel(c) ==
    /\ server' \in {server, [server EXCEPT ![c].buttons = client[c].mask]}
    /\ UNCHANGED client

sendInputAction(c, symbols) ==
    /\ server' = [server EXCEPT ![c].keys = @ \ symbols]
    /\ UNCHANGED client

(* The destructor ends the session, and the calls behind it are dropped. *)
deleted(c) ==
    /\ client' = [client EXCEPT ![c].stage = "deleted"]
    /\ calls' = [calls EXCEPT ![c] = <<>>]
    /\ server' = [server EXCEPT ![c].buttons = {}, ![c].keys = {}]
    /\ Emit(IF HasInstance(c) THEN AliveChanged(FALSE) ELSE <<>>)

sendAction(c, call) ==
    \/ call.op = "key"   /\ sendKey(c, call.symbol, call.down)
    \/ call.op = "text"  /\ sendInputAction(c, call.symbols)
    \/ call.op = "mouse" /\ sendMouse(c, call)
    \/ call.op = "wheel" /\ sendWheel(c)

clientStep(c) ==
    /\ client[c].stage # "new" /\ calls[c] # <<>>
    /\ LET call == Head(calls[c])
       IN  \/ call.op = "delete" /\ deleted(c)
           \/ /\ calls' = [calls EXCEPT ![c] = Tail(@)]
              /\ \/ call.op = "startSession" /\ startSession(c)
                 \/ /\ call.op = "setMaxSize" /\ setClientMaxSize(c, call.size)
                    /\ UNCHANGED signals
                 \/ /\ call.op \in {"key", "text", "mouse", "wheel"}
                    /\ IF HasInstance(c) THEN sendAction(c, call)
                       ELSE UNCHANGED <<client, server>>
                    /\ UNCHANGED signals
    /\ UNCHANGED <<view, user, inputs>>

(* External: the server sends a part of the picture or all of it, changes its *)
(* size, or goes away, which the client tells as an error and not as its end. *)
pictureComes(c) ==
    /\ client[c].stage = "on"
    /\ \E d \in {client[c].picture, <<1, 1>>} : Emit(<<[signal |-> "areaChanged", size |-> d]>>)
    /\ UNCHANGED <<view, client, calls, user, server, inputs>>

sizeChanges(c) ==
    /\ client[c].stage = "on"
    /\ \E d \in Dims :
          \/ /\ client' = [client EXCEPT ![c].remote = d, ![c].picture = d]
             /\ Emit(SizeTold(c, d))
          \/ /\ client' = [client EXCEPT ![c].remote = d, ![c].stage = "aborted"]
             /\ UNCHANGED signals
    /\ UNCHANGED <<view, calls, user, server, inputs>>

connectionAborted(c) ==
    /\ client[c].stage = "on"
    /\ client' = [client EXCEPT ![c].stage = "aborted"]
    /\ UNCHANGED <<view, calls, signals, user, server, inputs>>

--------------------------------------------------------------------------------
Next ==
    \/ \E c \in Clients : start(c) \/ threadStarts(c) \/ clientStep(c) \/ pictureComes(c)
                                   \/ sizeChanges(c) \/ connectionAborted(c)
    \/ cancel
    \/ \E d \in Dims : setMaxSize(d)
    \/ \E k \in Keys : keyPressEvent(k) \/ keyReleaseEvent(k)
    \/ \E b \in Buttons, inside \in BOOLEAN :
          mousePressEvent(b, inside) \/ mouseReleaseEvent(b, inside)
    \/ mouseMoveEvent \/ hoverMoveEvent \/ wheelEvent \/ inputMethodEvent
    \/ focusChanges \/ viewStep

Spec == Init /\ [][Next]_vars

--------------------------------------------------------------------------------
(* When the client has done all it was told, the user holds nothing and every *)
(* release was passed on, then the server holds no button and no modifier,    *)
(* and of the ordinary keys only symbols under which a key was pressed and    *)
(* not released (Shift let go before the key); and it was asked for the size  *)
(* that the view wants.                                                       *)
ServerFollowsView ==
    \A c \in Clients \cap {view.client} :
        (client[c].stage = "on" /\ calls[c] = <<>>)
            => /\ (user.buttons = {} /\ user.keys = {} /\ ~user.lost)
                      => server[c].buttons = {} /\ server[c].keys \subseteq user.renamed
               /\ client[c].setsize => server[c].asked = view.maxsize

(* When the view has handled every signal it has the size of the picture of   *)
(* its client, and says that it is alive if the client has a session, also    *)
(* after it was cancelled; unless there was another client before.            *)
ViewFollowsClient ==
    \A c \in Clients :
        ({d \in Clients : client[d].stage # "none"} = {c} /\ signals = <<>>)
            => /\ view.alive = HasInstance(c)
               /\ client[c].picture # NoDim => view.dimension = client[c].picture
================================================================================
