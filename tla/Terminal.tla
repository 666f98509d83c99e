------------------------------- MODULE Terminal -------------------------------
(***************************************************************************)
(* The emulated terminal (src/Terminal.cpp): two screens, the history, the *)
(* cursor, the margins, the tab stops and the selection, changed by the    *)
(* characters and the complete escape sequences of the other side, and by  *)
(* the user: keys, scrolling the view, selecting, resizing.  The members   *)
(* are the fields of the record t; the helpers are functions on it.  A line *)
(* is a sequence of cells, 0 blank and 1 written; a screen may hold fewer  *)
(* lines than it has rows, and a line fewer cells than there are columns.  *)
(* What only changes the drawing or the bytes of an answer is left out.    *)
(*                                                                         *)
(* An operator whose name ends in _f... is the operator of the same name   *)
(* with one plausible fault; the properties are shown to notice it.        *)
(***************************************************************************)
EXTENDS Integers, Sequences, SequencesExt, Parser

CONSTANTS
    Sizes,          \* <<columns, rows>> that the window can give
    ParamLists,     \* the numbers of a sequence
    SgrLists,       \* and of one that sets the pen
    ViewSteps,      \* lines the user scrolls the view by
    BackLimit,      \* back_buffer_size: 1000 in the code
    TabStep,        \* 8 in the code
    MaxEvents       \* bound: events of a behaviour

ASSUME SizeAssumption  == Sizes # {} /\ Sizes \subseteq (Nat \ {0}) \X (Nat \ {0})
ASSUME ParamAssumption == ParamLists \subseteq Seq(Nat) /\ SgrLists \subseteq Seq(Nat)
ASSUME StepAssumption  == ViewSteps \subseteq Int
ASSUME LimitAssumption == BackLimit \in Nat /\ TabStep \in Nat \ {0} /\ MaxEvents \in Nat

VARIABLES
    t,              \* the members
    past,           \* history: what makes a bound void until the next full reset
    entry,          \* history: what entering the other screen is to give back
    events          \* how many events there were

vars == <<t, past, entry, events>>

NoSelection == <<>>
Margins(u) == u.top .. u.bottom

--------------------------------------------------------------------------------
(* Lines and buffers: an index outside is clamped by insert, ignored by       *)
(* removeAt.                                                                  *)

Blanks(n)      == [i \in 1..n |-> 0]
Short(s, n)    == IF n > Len(s) THEN n - Len(s) ELSE 0
Pad(b, n)      == b \o [i \in 1..Short(b, n) |-> <<>>]
PadLine(l, n)  == l \o Blanks(Short(l, n))
Bound(n, lo, hi) == IF n \in lo..hi THEN n ELSE IF n < lo THEN lo ELSE hi
Put(b, i, l)   == InsertAt(b, Bound(i, 1, Len(b) + 1), l)
Drop(b, i)     == IF i \in 1..Len(b) THEN RemoveAt(b, i) ELSE b
Row(b, i)      == IF i \in 1..Len(b) THEN b[i] ELSE <<>>

Buf(u)     == IF u.alt THEN u.altBuf ELSE u.main
SetBuf(u, b) == IF u.alt THEN [u EXCEPT !.altBuf = b] ELSE [u EXCEPT !.main = b]

(* currentLine makes the screen long enough; the row of a cursor above the    *)
(* screen is the last line, and that of an empty screen a shared empty line   *)
(* outside it.                                                                *)
CurrentRow(u) == IF u.at.y >= 1 THEN u.at.y ELSE Len(Buf(u))
currentLine(u) == Row(Buf(u), CurrentRow(u))
SetLine(u, l) ==
    LET b == Pad(Buf(u), u.at.y)
    IN  SetBuf(u, IF CurrentRow(u) = 0 THEN b ELSE [b EXCEPT ![CurrentRow(u)] = l])

--------------------------------------------------------------------------------
(* Cursor.                                                                    *)

setCursorPos_fAnyRow(u, x, y) ==
    [u EXCEPT !.at.x = Bound(x, 1, u.w + 1), !.at.y = y]
setCursorPos(u, x, y) ==
    IF x = u.at.x /\ y = u.at.y THEN u
    ELSE [u EXCEPT !.at.x = Bound(x, 1, u.w + 1),
                   !.at.y = IF u.at.origin THEN Bound(y, u.top, u.bottom) ELSE Bound(y, 1, u.h)]

(* Tab stops: a row of sorted columns for each row of the screen.             *)
DefaultTabs(w, h) ==
    [r \in 1..h |-> [i \in 1..((w + TabStep - 1) \div TabStep) |-> 1 + (i - 1) * TabStep]]
resetTabs(u) == [u EXCEPT !.tabs = DefaultTabs(u.w, u.h)]

StopsHere(u) == IF u.at.y <= Len(u.tabs) THEN Range(u.tabs[u.at.y]) ELSE {}

NextStop(u, x) ==
    LET next == {c \in StopsHere(u) : c > x}
    IN  IF next = {} THEN x ELSE CHOOSE c \in next : \A d \in next : c <= d
PreviousStop(u, x) ==
    LET before == {c \in StopsHere(u) : c < x}
    IN  IF before = {} THEN x ELSE CHOOSE c \in before : \A d \in before : c >= d

(* The first move may bring the cursor to the rows of the margins.            *)
forwardTab(u, n) ==
    LET v == setCursorPos(u, NextStop(u, u.at.x), u.at.y)
        column[k \in 1..n] == IF k = 1 THEN v.at.x ELSE NextStop(v, column[k - 1])
    IN  IF n = 0 THEN u ELSE setCursorPos(v, column[n], v.at.y)
backwardTab(u, n) ==
    LET v == setCursorPos(u, PreviousStop(u, u.at.x), u.at.y)
        column[k \in 1..n] == IF k = 1 THEN v.at.x ELSE PreviousStop(v, column[k - 1])
    IN  IF n = 0 THEN u ELSE setCursorPos(v, column[n], v.at.y)

--------------------------------------------------------------------------------
(* Selection (its rows) and the view of the history.                          *)

clearSelection(u) == [u EXCEPT !.sel = NoSelection]

adjustSelectionPosition_fStays(u, n) == u
adjustSelectionPosition(u, n) ==
    LET top == u.sel[1] + n
        bot == u.sel[2] + n
        a == IF top < 1 THEN 1 ELSE top
        b == IF bot > u.h THEN u.h ELSE bot
    IN  IF u.sel = NoSelection \/ n = 0 THEN u
        ELSE IF b < 1 \/ a > u.h THEN clearSelection(u)
        ELSE [u EXCEPT !.sel = <<a, b>>]

scrollBackBufferFwd(u, n) ==
    IF n <= 0 \/ u.alt THEN u
    ELSE IF u.scroll < n THEN [u EXCEPT !.scroll = 0]
    ELSE adjustSelectionPosition([u EXCEPT !.scroll = @ - n], -n)

scrollBackBufferBack_fNoLimit(u, n) ==
    IF n <= 0 \/ u.alt THEN u ELSE adjustSelectionPosition([u EXCEPT !.scroll = @ + n], n)
scrollBackBufferBack(u, n) ==
    IF n <= 0 \/ u.alt THEN u
    ELSE IF u.scroll + n > Len(u.back) THEN [u EXCEPT !.scroll = Len(u.back)]
    ELSE adjustSelectionPosition([u EXCEPT !.scroll = @ + n], n)

resetBackBufferScrollPos(u) ==
    IF u.alt THEN [u EXCEPT !.scroll = 0] ELSE scrollBackBufferFwd(u, u.scroll)

setSelection(u, a, b) == [u EXCEPT !.sel = <<IF a < 1 THEN 1 ELSE a, IF b > u.h THEN u.h ELSE b>>]

(* What copying takes of the rows that are selected: a row of the view is a   *)
(* line of the history above the screen, or one of the screen in use.  The    *)
(* second screen has no history: the view is counted against it all the same. *)
Seen(u, i) == LET k == i - u.scroll
              IN  IF u.alt \/ k > 0 THEN Row(Buf(u), k) ELSE Row(u.back, Len(u.back) + k)
selectedText(u) == IF u.sel = NoSelection THEN <<>>
                   ELSE [i \in 0..(u.sel[2] - u.sel[1]) |-> Seen(u, u.sel[1] + i)]

--------------------------------------------------------------------------------
(* Scrolling.  n lines leave at row from and as many blank ones enter at the  *)
(* bottom margin; the first screen keeps what leaves in the history.          *)

ScrolledUp_fAboveBottom(u, n, from) ==
    LET run[k \in 0..n] ==
            IF k = 0 THEN <<Pad(Buf(u), u.bottom), u.back>>
            ELSE LET b == Put(run[k - 1][1], u.bottom, <<>>)
                 IN  <<Drop(b, from),
                       IF u.alt THEN u.back ELSE Append(run[k - 1][2], Row(b, from))>>
    IN  run[n]
ScrolledUp(u, n, from) ==
    LET run[k \in 0..n] ==
            IF k = 0 THEN <<Pad(Buf(u), u.bottom), u.back>>
            ELSE LET b == Put(run[k - 1][1], u.bottom + 1, <<>>)
                 IN  <<Drop(b, from),
                       IF u.alt THEN u.back ELSE Append(run[k - 1][2], Row(b, from))>>
    IN  run[n]

Newest(b) == SubSeq(b, Len(b) - (IF Len(b) > BackLimit THEN BackLimit ELSE Len(b)) + 1, Len(b))

scrollFwd(u, n, from) ==
    IF n <= 0 THEN u
    ELSE [SetBuf(adjustSelectionPosition(u, -n), ScrolledUp(u, n, from)[1])
             EXCEPT !.back = Newest(ScrolledUp(u, n, from)[2])]

(* n lines enter at row into and as many leave at the bottom margin, or at    *)
(* the end of a shorter screen.  With history they enter from its end, if     *)
(* there are any and this is the first screen.                                *)
ScrolledDown(u, n, into, history) ==
    LET run[k \in 0..n] ==
            IF k = 0 THEN <<Buf(u), u.back>>
            ELSE LET back == run[k - 1][2]
                     taken == history /\ ~u.alt /\ back # <<>>
                     b == Put(run[k - 1][1], into, IF taken THEN Last(back) ELSE <<>>)
                 IN  <<Drop(b, IF u.bottom >= Len(b) THEN Len(b) ELSE u.bottom + 1),
                       IF taken THEN Front(back) ELSE back>>
    IN  run[n]

scrollBack(u, n, into, history) ==
    IF n <= 0 THEN u
    ELSE [SetBuf(adjustSelectionPosition(u, n), ScrolledDown(u, n, into, history)[1])
             EXCEPT !.back = ScrolledDown(u, n, into, history)[2]]

scrollUp(u, n)   == scrollFwd(u, n, u.top)
scrollDown(u, n) == scrollBack(u, n, u.top, FALSE)

--------------------------------------------------------------------------------
(* Writing and erasing.                                                       *)

Wrapped(u) ==
    IF u.at.x <= u.w THEN u
    ELSE IF ~u.at.wrap THEN setCursorPos(u, u.w, u.at.y)
    ELSE IF u.at.y < u.bottom THEN setCursorPos(u, 1, u.at.y + 1)
    ELSE setCursorPos(scrollUp(u, 1), 1, u.at.y)

insertAtCursor(u) ==
    LET v == Wrapped(u)
        l == PadLine(currentLine(v), v.at.x)
        new == IF v.replace THEN InsertAt(l, v.at.x, 1) ELSE [l EXCEPT ![v.at.x] = 1]
    IN  setCursorPos(SetLine(v, new), v.at.x + 1, v.at.y)

(* The cells from x to y; y < 1 stands for the end of the line.               *)
eraseLineAtCursor(u, x, y) ==
    LET l == currentLine(u)
        last == IF y < 1 \/ y > Len(l) THEN Len(l) ELSE y
    IN  SetLine(u, [i \in DOMAIN l |-> IF i \in x..last THEN 0 ELSE l[i]])

ClearRows(u, rows) ==
    SetBuf(u, [i \in DOMAIN Buf(u) |-> IF i \in rows THEN <<>> ELSE Buf(u)[i]])

clearAll_fFirstScreen(u) == setCursorPos([clearSelection(u) EXCEPT !.main = <<>>], 1, 1)
clearAll(u) == setCursorPos(SetBuf(clearSelection(u), <<>>), 1, 1)
clearEverything(u) == clearAll(resetBackBufferScrollPos([clearSelection(u) EXCEPT !.back = <<>>]))

(* The first two parameters, 1 where missing; p1 also where the first is 0.   *)
Param(ps, i) == IF Len(ps) < i THEN 1 ELSE ps[i]
p1(ps) == IF Param(ps, 1) = 0 THEN 1 ELSE Param(ps, 1)

handleDECSED(u, ps) ==
    CASE ps # <<>> /\ Param(ps, 1) = 1 ->
             ClearRows(eraseLineAtCursor(u, 1, u.at.x), 1..(u.at.y - 1))
      [] ps # <<>> /\ Param(ps, 1) = 2 -> clearAll(u)
      [] OTHER ->
             LET v == eraseLineAtCursor(u, u.at.x, 0)
             IN  ClearRows(v, (IF u.at.y < 0 THEN 1 ELSE u.at.y + 1)..Len(Buf(v)))

handleEL(u, ps) ==
    CASE ps # <<>> /\ Param(ps, 1) = 1 -> eraseLineAtCursor(u, 1, u.at.x)
      [] ps # <<>> /\ Param(ps, 1) = 2 -> SetLine(u, <<>>)
      [] OTHER -> eraseLineAtCursor(u, u.at.x, 0)

handleECH(u, ps) ==
    IF Len(ps) > 1 THEN u ELSE eraseLineAtCursor(u, u.at.x, u.at.x + p1(ps) - 1)

(* Neither the last line of the screen nor the last cell of a line is ever    *)
(* taken out.                                                                 *)
handleDCH(u, ps) ==
    LET l == currentLine(u)
        n == IF p1(ps) < Len(l) - u.at.x THEN p1(ps) ELSE Len(l) - u.at.x
    IN  IF u.at.y < 1 \/ u.at.y >= Len(Buf(u)) \/ n <= 0 THEN u
        ELSE SetLine(u, SubSeq(l, 1, u.at.x - 1) \o SubSeq(l, u.at.x + n, Len(l)))

handleICH(u, ps) ==
    LET l == PadLine(currentLine(u), u.at.x)
    IN  SetLine(u, SubSeq(l, 1, u.at.x - 1) \o Blanks(p1(ps)) \o SubSeq(l, u.at.x, Len(l)))

AtMost(n, limit) == IF n > limit THEN limit ELSE n

handleIL(u, ps) ==
    IF u.at.y \notin Margins(u) THEN u
    ELSE setCursorPos(scrollBack(u, AtMost(p1(ps), u.bottom - u.at.y), u.at.y, TRUE), 1, u.at.y)

handleDL(u, ps) ==
    IF u.at.y \notin Margins(u) THEN u
    ELSE setCursorPos(scrollFwd(u, AtMost(p1(ps), u.bottom - u.at.y), u.at.y), 1, u.at.y)

--------------------------------------------------------------------------------
(* Modes, margins, resets.                                                    *)

AllRows(u) == [u EXCEPT !.top = 1, !.bottom = u.h]

useAltScreen(u, set) ==
    LET on == AllRows([u EXCEPT !.savedAlt = u.at, !.alt = TRUE])
        off == AllRows([u EXCEPT !.alt = FALSE, !.at = u.savedAlt])
    IN  resetTabs(IF set THEN clearAll(clearSelection(resetBackBufferScrollPos(on)))
                         ELSE clearSelection(resetBackBufferScrollPos(off)))

handleMode(u, mode, set) ==
    CASE mode = "origin"  -> [u EXCEPT !.at.origin = set]
      [] mode = "wrap"    -> [u EXCEPT !.at.wrap = set]
      [] mode = "replace" -> [u EXCEPT !.replace = set]
      [] mode = "newline" -> [u EXCEPT !.newline = set]

(* A region of one row or none is made two rows, which may lie outside.       *)
setMargins(u, ps) ==
    LET a == IF Len(ps) < 2 \/ ps[1] < 1 THEN 1 ELSE ps[1]
        b == IF Len(ps) < 2 THEN u.h ELSE AtMost(ps[2], u.h)
        top == IF a >= b /\ a = u.h THEN b - 1 ELSE a
        bottom == IF a >= b /\ a # u.h THEN a + 1 ELSE b
    IN  setCursorPos([u EXCEPT !.top = top, !.bottom = bottom], 1, top)

PlainAttribs(at) == [at EXCEPT !.wrap = TRUE, !.origin = FALSE, !.pen = DefaultPen]

resetTerminal(u, hard) ==
    LET v == IF hard THEN [u EXCEPT !.main = <<>>, !.altBuf = <<>>, !.back = <<>>,
                                    !.at.x = 1, !.at.y = 1]
                     ELSE u
        at == PlainAttribs(v.at)
        w == [AllRows(v) EXCEPT !.at = at, !.saved = at, !.savedAlt = at,
                 !.alt = FALSE, !.replace = FALSE, !.newline = FALSE]
    IN  resetTabs(clearSelection(resetBackBufferScrollPos(w)))

setTermSize(u, w, h) ==
    IF w = u.w /\ h = u.h THEN u
    ELSE resetTabs([u EXCEPT !.w = w, !.h = h, !.top = 1, !.bottom = h])

(* ESC # 8 fills the screen after clearing the history with it.               *)
screenTest(u) ==
    LET v == clearEverything(u)
    IN  SetBuf(v, [r \in 1..v.h |-> [c \in 1..v.w |-> 1]])

newLine(u) ==
    LET x == IF u.newline THEN 1 ELSE u.at.x
    IN  IF u.at.y = u.bottom THEN setCursorPos(scrollUp(u, 1), x, u.at.y)
        ELSE IF u.at.x <= u.w THEN setCursorPos(u, x, u.at.y + 1) ELSE u

nextLine(u) ==
    IF u.at.y = u.bottom THEN setCursorPos(scrollUp(u, 1), 1, u.at.y)
    ELSE setCursorPos(u, 1, u.at.y + 1)

setTab(u) ==
    LET rows == Pad(u.tabs, u.at.y)
        stops == SortSeq(Append(rows[u.at.y], u.at.x), <)
    IN  [u EXCEPT !.tabs = [rows EXCEPT ![u.at.y] = stops]]

(* CSI g takes out one stop at the cursor, CSI 3 g all of the screen.         *)
clearTab(u, ps) ==
    LET i == IF u.at.y <= Len(u.tabs)
             THEN {k \in DOMAIN u.tabs[u.at.y] : u.tabs[u.at.y][k] = u.at.x} ELSE {}
    IN  CASE ps # <<>> /\ Param(ps, 1) = 3 -> [u EXCEPT !.tabs = <<>>]
          [] (ps = <<>> \/ Param(ps, 1) = 0) /\ i # {} ->
                 [u EXCEPT !.tabs = [u.tabs EXCEPT ![u.at.y] = RemoveAt(@, CHOOSE k \in i : TRUE)]]
          [] OTHER -> u

--------------------------------------------------------------------------------
Fresh(w, h) ==
    LET at == [x |-> 1, y |-> 1, wrap |-> TRUE, origin |-> FALSE, pen |-> DefaultPen]
    IN  [w |-> w, h |-> h, at |-> at, saved |-> at, savedAlt |-> at, top |-> 1, bottom |-> h,
         alt |-> FALSE, replace |-> FALSE, newline |-> FALSE, main |-> <<>>, altBuf |-> <<>>,
         back |-> <<>>, scroll |-> 0, sel |-> NoSelection, tabs |-> DefaultTabs(w, h)]

Init ==
    /\ \E s \in Sizes : t = Fresh(s[1], s[2])
    /\ past = {}
    /\ entry = [main |-> <<>>, at |-> t.at, once |-> FALSE]
    /\ events = 0

Become(u, marks) ==
    /\ events < MaxEvents
    /\ events' = events + 1
    /\ t' = u
    /\ past' = past \cup marks
Do(u) == Become(u, {}) /\ UNCHANGED entry

(* Characters. *)
putChar        == Do(insertAtCursor(t))
lineFeed       == Do(newLine(t))
carriageReturn == Do(setCursorPos(t, 1, t.at.y))
backspace      == Do(setCursorPos(t, t.at.x - 1, t.at.y))

(* Cursor sequences. *)
cursorUp(ps)   == Do(setCursorPos(t, t.at.x,
                        IF t.at.y - p1(ps) < t.top THEN t.top ELSE t.at.y - p1(ps)))
cursorDown(ps) == Do(setCursorPos(t, t.at.x, AtMost(t.at.y + p1(ps), t.bottom)))
cursorFwd(ps)  == Do(setCursorPos(t, AtMost(t.at.x + p1(ps), t.w), t.at.y))
cursorBack(ps) == Do(setCursorPos(t,
                        IF t.at.x - p1(ps) < 1 THEN 1 ELSE t.at.x - p1(ps), t.at.y))
cursorNextLine(ps) == Do(setCursorPos(t, 1, AtMost(t.at.y + p1(ps), t.bottom)))
cursorPrevLine(ps) == Do(setCursorPos(t, 1,
                        IF t.at.y - p1(ps) < t.top THEN t.top ELSE t.at.y - p1(ps)))
goToColumn(ps) == Do(setCursorPos(t, p1(ps), t.at.y))
goToRow(ps)    == Do(setCursorPos(t, t.at.x, p1(ps)))
cursorTo(ps) ==
    Do(setCursorPos(t, Param(ps, 2), Param(ps, 1) + (IF t.at.origin THEN t.top - 1 ELSE 0)))
saveCursor    == Do([t EXCEPT !.saved = t.at])
restoreCursor == Do([t EXCEPT !.at = t.saved])

(* Tab stops exist for the rows from 1: a cursor above them has no defined    *)
(* behaviour in the code.                                                     *)
tabForward(n)  == t.at.y >= 1 /\ Do(forwardTab(t, n))
tabBackward(n) == t.at.y >= 1 /\ Do(backwardTab(t, n))
tabSet       == t.at.y >= 1 /\ Do(setTab(t))
tabClear(ps) == t.at.y >= 1 /\ Do(clearTab(t, ps))

(* Erasing, inserting, deleting, scrolling. *)
eraseDisplay(ps) == Do(handleDECSED(t, ps))
eraseLine(ps)    == Do(handleEL(t, ps))
eraseChars(ps)   == Do(handleECH(t, ps))
deleteChars(ps)  == Do(handleDCH(t, ps))
insertChars(ps)  == Do(handleICH(t, ps))
deleteLines(ps)  == Do(handleDL(t, ps))
scrollUpBy(ps)   == Do(scrollUp(t, p1(ps)))
scrollDownBy(ps) == Do(scrollDown(t, p1(ps)))
index            == Do(scrollFwd(t, 1, t.at.y))
nextLineDown     == Do(nextLine(t))

(* A line taken from the history while the user looks at it. *)
Taken(u) == IF t.scroll > 0 /\ Len(u.back) < Len(t.back) THEN {"taken"} ELSE {}
Take(u)  == Become(u, Taken(u)) /\ UNCHANGED entry

insertLines(ps) == Take(handleIL(t, ps))
reverseIndex    == Take(scrollBack(t, 1, t.at.y, TRUE))

(* Modes and resets. *)
modeSet(mode, set) == Do(handleMode(t, mode, set))
altScreen(set) ==
    /\ Become(useAltScreen(t, set), {})
    /\ entry' = CASE set /\ ~t.alt -> [main |-> t.main, at |-> t.at, once |-> TRUE]
                  [] set /\ t.alt  -> [entry EXCEPT !.once = FALSE]
                  [] OTHER         -> entry
pen(ps)       == Do([t EXCEPT !.at.pen = handleSGR(@, IF ps = <<>> THEN <<0>> ELSE ps)])
softReset     == Do(resetTerminal(t, FALSE))
alignmentTest == Do(screenTest(t))
region(ps) ==
    LET u == setMargins(t, ps)
        inside == 1 <= u.top /\ u.top <= u.bottom /\ u.bottom <= u.h
    IN  Become(u, IF inside THEN {} ELSE {"margins"}) /\ UNCHANGED entry
fullReset ==
    /\ events < MaxEvents
    /\ events' = events + 1
    /\ t' = resetTerminal(t, TRUE)
    /\ past' = {}
    /\ UNCHANGED entry

(* The user. *)
resize(w, h) ==
    Become(setTermSize(t, w, h), IF w < t.w \/ h < t.h THEN {"shrunk"} ELSE {}) /\ UNCHANGED entry
keyPress(escape) ==
    LET u == resetBackBufferScrollPos(t) IN Do(IF escape THEN u ELSE clearSelection(u))
viewFwd(n)   == Do(scrollBackBufferFwd(t, n))
viewBack(n)  == Do(scrollBackBufferBack(t, n))
select(a, b) == Do(setSelection(t, a, b))
deselect     == Do(clearSelection(t))

Characters == putChar \/ lineFeed \/ carriageReturn \/ backspace \/ tabForward(1)

Sequences1 ==
    \E ps \in ParamLists :
       \/ cursorUp(ps) \/ cursorDown(ps) \/ cursorFwd(ps) \/ cursorBack(ps)
       \/ cursorNextLine(ps) \/ cursorPrevLine(ps) \/ goToColumn(ps) \/ goToRow(ps)
       \/ cursorTo(ps) \/ eraseDisplay(ps) \/ eraseLine(ps) \/ eraseChars(ps)
       \/ deleteChars(ps) \/ insertChars(ps) \/ insertLines(ps) \/ deleteLines(ps)
       \/ scrollUpBy(ps) \/ scrollDownBy(ps) \/ tabClear(ps) \/ region(ps)
       \/ Len(ps) <= 1 /\ tabForward(Param(ps, 1))
       \/ Len(ps) <= 1 /\ tabBackward(Param(ps, 1))

Sequences0 ==
    \/ saveCursor \/ restoreCursor \/ tabSet \/ index \/ reverseIndex \/ nextLineDown
    \/ softReset \/ fullReset \/ alignmentTest
    \/ \E set \in BOOLEAN : altScreen(set)
    \/ \E set \in BOOLEAN, mode \in {"origin", "wrap", "replace", "newline"} : modeSet(mode, set)
    \/ \E ps \in SgrLists : pen(ps)

User ==
    \/ \E s \in Sizes : resize(s[1], s[2])
    \/ \E escape \in BOOLEAN : keyPress(escape)
    \/ \E n \in ViewSteps : viewFwd(n) \/ viewBack(n)
    \/ \E a, b \in 0..(t.h + 1) : a <= b /\ select(a, b)
    \/ deselect

Next == Characters \/ Sequences1 \/ Sequences0 \/ User

Spec == Init /\ [][Next]_vars

--------------------------------------------------------------------------------
(* Properties.                                                                *)

Inside(a) ==
    /\ "shrunk" \notin past => a.x \in 1..(t.w + 1)
    /\ past \cap {"shrunk", "margins"} = {} => a.y \in 1..t.h

(* The cursor, and the two saved ones that a sequence brings back, are on the *)
(* screen, whatever margins, origin mode, scrolling and resets did before,    *)
(* unless the window shrank or a region that is not on the screen was set.    *)
CursorInside == Inside(t.at) /\ Inside(t.saved) /\ Inside(t.savedAlt)

(* In v the rows lo to hi of the screen have moved d rows up, or down if d is  *)
(* negative, and no other row has changed.  What enters from k rows outside   *)
(* is line k of entering, counted from its end, or a blank line.              *)
RowsMove(v, lo, hi, d, entering) ==
    \A i \in 1..(Len(Buf(t)) + Len(Buf(v))) :
        LET from == i + d
            enters(k) == Row(entering, Len(entering) + 1 - k)
        IN  Row(Buf(v), i) = IF i \notin lo..hi THEN Row(Buf(t), i)
                             ELSE IF from < lo THEN enters(lo - from)
                             ELSE IF from > hi THEN enters(from - hi)
                             ELSE Row(Buf(t), from)

(* The history after the lines have left the screen, and after n were taken.  *)
HistoryWith(lines) == IF t.alt THEN t.back ELSE Newest(t.back \o lines)
HistoryLess(n)     == IF t.alt THEN t.back ELSE SubSeq(t.back, 1, Len(t.back) - n)
RowIn(i, lo, hi)   == IF i \in lo..hi THEN Row(Buf(t), i) ELSE <<>>

(* A scroll from a row on the screen, of n lines up or down, moves one region *)
(* and changes no other row; the history gets what leaves upwards and gives   *)
(* what it lent, in order.  At or above the bottom margin the region reaches  *)
(* down to it, but a scroll down of a screen that holds fewer lines moves     *)
(* only those there are, and the last n are lost (Terminal.cpp:1397).  Below  *)
(* the margin, where ESC D and ESC M scroll one line, the region is what lies *)
(* between: it moves the other way, and its last row, or what enters next to  *)
(* the margin, leaves (1399, 1420).  A row above the screen, which a margin   *)
(* that is set above it gives, is left out.                                   *)
ScrollMovesRegion ==
    LET length == Len(Buf(t))
        bottom == t.bottom
        lent(history) == IF history /\ ~t.alt THEN t.back ELSE <<>>
    IN  \A at \in Margins(t) \cup 1..t.h : \A n \in 1..t.h :
            LET up == scrollFwd(t, n, at)
                down(history) == scrollBack(t, n, at, history)
            IN  /\ at \in 1..bottom =>
                     /\ RowsMove(up, at, bottom, n, <<>>)
                     /\ up.back = HistoryWith([k \in 1..n |-> RowIn(at + k - 1, at, bottom)])
                     /\ \A history \in BOOLEAN :
                           RowsMove(down(history), at, AtMost(bottom, length), -n, lent(history))
                /\ at > bottom /\ n = 1 =>
                     /\ RowsMove(up, bottom + 1, at - 1, -1, <<>>)
                     /\ up.back = HistoryWith(<<RowIn(at - 1, bottom + 1, at - 1)>>)
                     /\ \A history \in BOOLEAN :
                           RowsMove(down(history), bottom + 1, AtMost(at - 1, length), 1, lent(history))
                /\ down(TRUE).back = HistoryLess(n) /\ down(FALSE).back = t.back

(* A selection that stays wholly in view keeps its text when the user scrolls *)
(* the view, not further than there is history, and when the whole screen     *)
(* scrolls below it.  One that is moved partly out of view is cut off there.  *)
SelectionKeepsText ==
    (t.sel # NoSelection /\ past = {}) =>
        \A n \in ViewSteps :
            /\ t.scroll + n <= Len(t.back) /\ t.sel[2] + n <= t.h
                 => selectedText(scrollBackBufferBack(t, n)) = selectedText(t)
            /\ t.scroll >= n /\ t.sel[1] > n
                 => selectedText(scrollBackBufferFwd(t, n)) = selectedText(t)
            /\ t.top = 1 /\ t.bottom = t.h /\ t.sel[1] > n
                 => selectedText(scrollUp(t, n)) = selectedText(t)

(* The history keeps its limit however the screen is resized and scrolled.    *)
(* The view starts in the history, or at the screen, and the second screen    *)
(* has none, unless lines were taken out of the history while it was seen.    *)
ViewInHistory ==
    /\ Len(t.back) <= BackLimit
    /\ "taken" \notin past => t.scroll \in 0..Len(t.back) /\ (t.alt => t.scroll = 0)

(* A program that uses the second screen leaves the first as it was, and the  *)
(* cursor that leaving brings back is that of entering, unless it entered     *)
(* twice.                                                                     *)
FirstScreenKept ==
    t.alt => t.main = entry.main /\ (entry.once => t.savedAlt = entry.at)
================================================================================
