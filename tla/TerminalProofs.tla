---------------------------- MODULE TerminalProofs ----------------------------
(***************************************************************************)
(* For every size of the window, every list of parameters, every limit of  *)
(* the history and any number of events: the cursor stays on the screen,   *)
(* the first screen is kept, the view stays in the history, scrolling      *)
(* moves the lines of its region and no other, and the selection keeps its *)
(* text.                                                                   *)
(*                                                                         *)
(* The proofs go by one lemma for each function on the record t.  The      *)
(* first part says of each that it keeps the cursors inside, and the first *)
(* screen while the second is shown; the second, that it keeps the record  *)
(* whole.  The runs of lines of ScrolledUp and ScrolledDown are recursive  *)
(* functions: what they give is shown by the least number of lines for     *)
(* which it would not be so.                                               *)
(***************************************************************************)
EXTENDS Terminal, WellFoundedInduction, SequenceTheorems, TLAPS

Fields   == {"w", "h", "at", "saved", "savedAlt", "top", "bottom", "alt", "replace",
             "newline", "main", "altBuf", "back", "scroll", "sel", "tabs"}
AtFields == {"x", "y", "wrap", "origin", "pen"}

Shape(u) ==
    /\ DOMAIN u = Fields
    /\ DOMAIN u.at = AtFields /\ DOMAIN u.saved = AtFields /\ DOMAIN u.savedAlt = AtFields
    /\ u.w \in Nat \ {0} /\ u.h \in Nat \ {0} /\ u.alt \in BOOLEAN

Region(u, p) ==
    "margins" \notin p =>
        u.top \in Int /\ u.bottom \in Int /\ 1 <= u.top /\ u.top <= u.bottom /\ u.bottom <= u.h

InsideOf(u, p, a) ==
    /\ "shrunk" \notin p => a.x \in 1..(u.w + 1)
    /\ p \cap {"shrunk", "margins"} = {} => a.y \in 1..u.h

(* The inductive part about the cursors, of a record u with a history p.      *)
Good(u, p) ==
    /\ Shape(u) /\ Region(u, p)
    /\ InsideOf(u, p, u.at) /\ InsideOf(u, p, u.saved) /\ InsideOf(u, p, u.savedAlt)

(* From u to v, the screen shown is the same, and if it is the second, what   *)
(* leaving it brings back is the same.                                        *)
Quiet(u, v) ==
    /\ v.alt = u.alt
    /\ v.savedAlt = u.savedAlt
    /\ u.alt => v.main = u.main

(* From u to v, nothing changes that the cursors depend on.                   *)
Same(u, v) ==
    /\ DOMAIN v = Fields
    /\ v.w = u.w /\ v.h = u.h /\ v.top = u.top /\ v.bottom = u.bottom
    /\ v.at = u.at /\ v.saved = u.saved
    /\ Quiet(u, v)

Keeps(u, v, p) == Good(v, p) /\ Quiet(u, v)

LEMMA SameKeeps ==
    ASSUME NEW u, NEW v, NEW p, Good(u, p), Same(u, v)
    PROVE  Keeps(u, v, p)
BY DEF Good, Shape, Region, InsideOf, Same, Keeps, Quiet

LEMMA KeepsTrans ==
    ASSUME NEW u, NEW v, NEW w, NEW p, Keeps(u, v, p), Keeps(v, w, p)
    PROVE  Keeps(u, w, p)
BY DEF Keeps, Quiet

LEMMA KeepsSelf ==
    ASSUME NEW u, NEW p, Good(u, p)
    PROVE  Keeps(u, u, p)
BY DEF Keeps, Quiet

LEMMA MoreHistory ==
    ASSUME NEW u, NEW p, NEW q, Good(u, p), p \subseteq q
    PROVE  Good(u, q)
BY DEF Good, Region, InsideOf

LEMMA BoundInside ==
    ASSUME NEW n, NEW lo \in Int, NEW hi \in Int, lo <= hi
    PROVE  Bound(n, lo, hi) \in lo..hi
BY DEF Bound

--------------------------------------------------------------------------------
(* Cursor, selection, view.                                                   *)

LEMMA CursorKeeps ==
    ASSUME NEW u, NEW p, NEW x, NEW y, Good(u, p)
    PROVE  Keeps(u, setCursorPos(u, x, y), p)
<1> DEFINE a == [u.at EXCEPT !.x = Bound(x, 1, u.w + 1),
                             !.y = IF u.at.origin THEN Bound(y, u.top, u.bottom)
                                                  ELSE Bound(y, 1, u.h)]
           v == [u EXCEPT !.at = a]
<1>1. CASE x = u.at.x /\ y = u.at.y
  BY <1>1, KeepsSelf DEF setCursorPos
<1>2. CASE ~(x = u.at.x /\ y = u.at.y)
  <2>1. setCursorPos(u, x, y) = v
    BY <1>2 DEF setCursorPos, Good, Shape, Fields, AtFields
  <2>2. /\ DOMAIN a = AtFields /\ a.x = Bound(x, 1, u.w + 1)
        /\ a.y = IF u.at.origin THEN Bound(y, u.top, u.bottom) ELSE Bound(y, 1, u.h)
    BY DEF Good, Shape, AtFields
  <2>3. a.x \in 1..(u.w + 1)
    BY <2>2, BoundInside DEF Good, Shape
  <2>4. p \cap {"shrunk", "margins"} = {} => a.y \in 1..u.h
    <3> SUFFICES ASSUME p \cap {"shrunk", "margins"} = {} PROVE a.y \in 1..u.h
      OBVIOUS
    <3>1. /\ u.top \in Int /\ u.bottom \in Int /\ u.h \in Int
          /\ 1 <= u.top /\ u.top <= u.bottom /\ u.bottom <= u.h /\ 1 <= u.h
      BY DEF Good, Region, Shape
    <3>2. Bound(y, u.top, u.bottom) \in u.top .. u.bottom /\ Bound(y, 1, u.h) \in 1..u.h
      BY <3>1, BoundInside
    <3> QED BY <2>2, <3>1, <3>2
  <2> HIDE DEF a
  <2>5. /\ DOMAIN v = Fields /\ v.at = a /\ v.w = u.w /\ v.h = u.h /\ v.top = u.top
        /\ v.bottom = u.bottom /\ v.saved = u.saved /\ v.savedAlt = u.savedAlt
        /\ v.alt = u.alt /\ v.main = u.main
    BY DEF Good, Shape, Fields
  <2> QED BY <2>1, <2>2, <2>3, <2>4, <2>5 DEF Keeps, Quiet, Good, Shape, Region, InsideOf
<1> QED BY <1>1, <1>2

LEMMA SelectionKeeps ==
    ASSUME NEW u, NEW p, NEW n, Good(u, p)
    PROVE  /\ Keeps(u, clearSelection(u), p)
           /\ Keeps(u, adjustSelectionPosition(u, n), p)
<1>1. ASSUME NEW s PROVE Keeps(u, [u EXCEPT !.sel = s], p)
  <2> DEFINE v == [u EXCEPT !.sel = s]
  <2>1. Same(u, v)
    BY DEF Same, Quiet, Good, Shape, Fields
  <2> QED BY <2>1, SameKeeps
<1>2. Keeps(u, clearSelection(u), p)
  BY <1>1 DEF clearSelection
<1>3. \/ adjustSelectionPosition(u, n) = u
      \/ adjustSelectionPosition(u, n) = clearSelection(u)
      \/ \E s : adjustSelectionPosition(u, n) = [u EXCEPT !.sel = s]
  BY DEF adjustSelectionPosition
<1> QED BY <1>1, <1>2, <1>3, KeepsSelf

LEMMA ScrollKeeps ==
    ASSUME NEW u, NEW p, NEW s, Good(u, p)
    PROVE  Keeps(u, [u EXCEPT !.scroll = s], p)
<1> DEFINE v == [u EXCEPT !.scroll = s]
<1>1. Same(u, v)
  BY DEF Same, Quiet, Good, Shape, Fields
<1> QED BY <1>1, SameKeeps

LEMMA ViewKeeps ==
    ASSUME NEW u, NEW p, NEW n, Good(u, p)
    PROVE  /\ Keeps(u, scrollBackBufferFwd(u, n), p)
           /\ Keeps(u, scrollBackBufferBack(u, n), p)
           /\ Keeps(u, resetBackBufferScrollPos(u), p)
<1>1. ASSUME NEW s, NEW m
      PROVE  Keeps(u, adjustSelectionPosition([u EXCEPT !.scroll = s], m), p)
  <2> DEFINE v == [u EXCEPT !.scroll = s]
  <2>1. Keeps(u, v, p)
    BY ScrollKeeps
  <2>2. Good(v, p)
    BY <2>1 DEF Keeps
  <2> HIDE DEF v
  <2>3. Keeps(v, adjustSelectionPosition(v, m), p)
    BY <2>2, SelectionKeeps
  <2>4. Keeps(u, adjustSelectionPosition(v, m), p)
    BY <2>1, <2>3, KeepsTrans
  <2> QED BY <2>4 DEF v
<1>2. ASSUME NEW m PROVE Keeps(u, scrollBackBufferFwd(u, m), p)
  <2>1. \/ scrollBackBufferFwd(u, m) = u
        \/ scrollBackBufferFwd(u, m) = [u EXCEPT !.scroll = 0]
        \/ scrollBackBufferFwd(u, m)
             = adjustSelectionPosition([u EXCEPT !.scroll = u.scroll - m], -m)
    BY DEF scrollBackBufferFwd, Good, Shape, Fields
  <2>2. Keeps(u, adjustSelectionPosition([u EXCEPT !.scroll = u.scroll - m], -m), p)
    BY <1>1
  <2>3. Keeps(u, [u EXCEPT !.scroll = 0], p)
    BY ScrollKeeps
  <2> QED BY <2>1, <2>2, <2>3, KeepsSelf
<1>3. Keeps(u, scrollBackBufferBack(u, n), p)
  <2>1. \/ scrollBackBufferBack(u, n) = u
        \/ scrollBackBufferBack(u, n) = [u EXCEPT !.scroll = Len(u.back)]
        \/ scrollBackBufferBack(u, n)
             = adjustSelectionPosition([u EXCEPT !.scroll = u.scroll + n], n)
    BY DEF scrollBackBufferBack, Good, Shape, Fields
  <2>2. Keeps(u, adjustSelectionPosition([u EXCEPT !.scroll = u.scroll + n], n), p)
    BY <1>1
  <2>3. Keeps(u, [u EXCEPT !.scroll = Len(u.back)], p)
    BY ScrollKeeps
  <2> QED BY <2>1, <2>2, <2>3, KeepsSelf
<1>4. Keeps(u, resetBackBufferScrollPos(u), p)
  BY <1>2, ScrollKeeps DEF resetBackBufferScrollPos
<1> QED BY <1>2, <1>3, <1>4

--------------------------------------------------------------------------------
(* Screens: what changes only the lines.                                      *)

LEMMA LinesKeep ==
    ASSUME NEW u, NEW p, NEW b, Good(u, p)
    PROVE  Keeps(u, SetBuf(u, b), p)
<1>1. Same(u, SetBuf(u, b))
  <2>1. CASE u.alt
    BY <2>1 DEF SetBuf, Same, Quiet, Good, Shape, Fields
  <2>2. CASE ~u.alt
    BY <2>2 DEF SetBuf, Same, Quiet, Good, Shape, Fields
  <2> QED BY <2>1, <2>2
<1> QED BY <1>1, SameKeeps

LEMMA HistoryKeeps ==
    ASSUME NEW u, NEW p, NEW b, Good(u, p)
    PROVE  Keeps(u, [u EXCEPT !.back = b], p)
<1>1. Same(u, [u EXCEPT !.back = b])
  BY DEF Same, Quiet, Good, Shape, Fields
<1> QED BY <1>1, SameKeeps

LEMMA LineKeeps ==
    ASSUME NEW u, NEW p, NEW l, Good(u, p)
    PROVE  Keeps(u, SetLine(u, l), p)
BY LinesKeep DEF SetLine

LEMMA ScrollingKeeps ==
    ASSUME NEW u, NEW p, NEW n, NEW row, NEW history, Good(u, p)
    PROVE  Keeps(u, scrollFwd(u, n, row), p) /\ Keeps(u, scrollBack(u, n, row, history), p)
<1>1. ASSUME NEW m, NEW b, NEW c
      PROVE  Keeps(u, [SetBuf(adjustSelectionPosition(u, m), b) EXCEPT !.back = c], p)
  <2> DEFINE v == adjustSelectionPosition(u, m)
             w == SetBuf(v, b)
  <2>1. Keeps(u, v, p)
    BY SelectionKeeps
  <2>2. Good(v, p)
    BY <2>1 DEF Keeps
  <2> HIDE DEF v
  <2>3. Keeps(v, w, p)
    BY <2>2, LinesKeep
  <2>4. Good(w, p)
    BY <2>3 DEF Keeps
  <2> HIDE DEF w
  <2>5. Keeps(w, [w EXCEPT !.back = c], p)
    BY <2>4, HistoryKeeps
  <2>6. Keeps(u, [w EXCEPT !.back = c], p)
    BY <2>1, <2>3, <2>5, KeepsTrans
  <2> QED BY <2>6 DEF w, v
<1>2. Keeps(u, scrollFwd(u, n, row), p)
  <2>1. CASE n <= 0
    BY <2>1, KeepsSelf DEF scrollFwd
  <2>2. CASE ~(n <= 0)
    <3> DEFINE b == ScrolledUp(u, n, row)[1]
               c == Newest(ScrolledUp(u, n, row)[2])
    <3>1. scrollFwd(u, n, row) = [SetBuf(adjustSelectionPosition(u, -n), b) EXCEPT !.back = c]
      BY <2>2 DEF scrollFwd
    <3> HIDE DEF b, c
    <3>2. Keeps(u, [SetBuf(adjustSelectionPosition(u, -n), b) EXCEPT !.back = c], p)
      BY <1>1
    <3> QED BY <3>1, <3>2
  <2> QED BY <2>1, <2>2
<1>3. Keeps(u, scrollBack(u, n, row, history), p)
  <2>1. CASE n <= 0
    BY <2>1, KeepsSelf DEF scrollBack
  <2>2. CASE ~(n <= 0)
    <3> DEFINE b == ScrolledDown(u, n, row, history)[1]
               c == ScrolledDown(u, n, row, history)[2]
    <3>1. scrollBack(u, n, row, history)
            = [SetBuf(adjustSelectionPosition(u, n), b) EXCEPT !.back = c]
      BY <2>2 DEF scrollBack
    <3> HIDE DEF b, c
    <3>2. Keeps(u, [SetBuf(adjustSelectionPosition(u, n), b) EXCEPT !.back = c], p)
      BY <1>1
    <3> QED BY <3>1, <3>2
  <2> QED BY <2>1, <2>2
<1> QED BY <1>2, <1>3

(* Two functions in a row. *)
LEMMA ThenCursor ==
    ASSUME NEW u, NEW v, NEW p, NEW x, NEW y, Keeps(u, v, p)
    PROVE  Keeps(u, setCursorPos(v, x, y), p)
BY CursorKeeps, KeepsTrans DEF Keeps

LEMMA ThenLine ==
    ASSUME NEW u, NEW v, NEW p, NEW l, Keeps(u, v, p)
    PROVE  Keeps(u, SetLine(v, l), p)
BY LineKeeps, KeepsTrans DEF Keeps

LEMMA ThenLines ==
    ASSUME NEW u, NEW v, NEW p, NEW b, Keeps(u, v, p)
    PROVE  Keeps(u, SetBuf(v, b), p)
BY LinesKeep, KeepsTrans DEF Keeps

LEMMA ThenDeselected ==
    ASSUME NEW u, NEW v, NEW p, Keeps(u, v, p)
    PROVE  Keeps(u, clearSelection(v), p)
BY SelectionKeeps, KeepsTrans DEF Keeps

LEMMA ThenViewReset ==
    ASSUME NEW u, NEW v, NEW p, Keeps(u, v, p)
    PROVE  Keeps(u, resetBackBufferScrollPos(v), p)
BY ViewKeeps, KeepsTrans DEF Keeps

--------------------------------------------------------------------------------
(* The handlers.                                                              *)

LEMMA TabsKeep ==
    ASSUME NEW u, NEW p, NEW b, Good(u, p)
    PROVE  Keeps(u, [u EXCEPT !.tabs = b], p)
<1>1. Same(u, [u EXCEPT !.tabs = b])
  BY DEF Same, Quiet, Good, Shape, Fields
<1> QED BY <1>1, SameKeeps

LEMMA TabsMove ==
    ASSUME NEW u, NEW p, NEW n, NEW ps, Good(u, p)
    PROVE  /\ Keeps(u, forwardTab(u, n), p) /\ Keeps(u, backwardTab(u, n), p)
           /\ Keeps(u, setTab(u), p) /\ Keeps(u, clearTab(u, ps), p)
<1>1. ASSUME NEW x, NEW c
      PROVE  Keeps(u, setCursorPos(setCursorPos(u, x, u.at.y), c,
                                   setCursorPos(u, x, u.at.y).at.y), p)
  BY CursorKeeps, ThenCursor
<1>2. Keeps(u, forwardTab(u, n), p)
  <2> DEFINE v == setCursorPos(u, NextStop(u, u.at.x), u.at.y)
  <2>1. forwardTab(u, n) = u \/ \E c : forwardTab(u, n) = setCursorPos(v, c, v.at.y)
    BY DEF forwardTab
  <2>2. ASSUME NEW c PROVE Keeps(u, setCursorPos(v, c, v.at.y), p)
    BY <1>1
  <2> HIDE DEF v
  <2> QED BY <2>1, <2>2, KeepsSelf
<1>3. Keeps(u, backwardTab(u, n), p)
  <2> DEFINE v == setCursorPos(u, PreviousStop(u, u.at.x), u.at.y)
  <2>1. backwardTab(u, n) = u \/ \E c : backwardTab(u, n) = setCursorPos(v, c, v.at.y)
    BY DEF backwardTab
  <2>2. ASSUME NEW c PROVE Keeps(u, setCursorPos(v, c, v.at.y), p)
    BY <1>1
  <2> HIDE DEF v
  <2> QED BY <2>1, <2>2, KeepsSelf
<1>4. Keeps(u, setTab(u), p)
  BY TabsKeep DEF setTab
<1>5. Keeps(u, clearTab(u, ps), p)
  <2> DEFINE i == IF u.at.y <= Len(u.tabs)
                  THEN {k \in DOMAIN u.tabs[u.at.y] : u.tabs[u.at.y][k] = u.at.x} ELSE {}
             c1 == ps # <<>> /\ Param(ps, 1) = 3
             c2 == (ps = <<>> \/ Param(ps, 1) = 0) /\ i # {}
             b == [u.tabs EXCEPT ![u.at.y] = RemoveAt(@, CHOOSE k \in i : TRUE)]
  <2>1. CASE c1
    <3>1. clearTab(u, ps) = [u EXCEPT !.tabs = <<>>]
      BY <2>1 DEF clearTab
    <3> QED BY <3>1, TabsKeep
  <2>2. CASE ~c1 /\ c2
    <3>1. clearTab(u, ps) = [u EXCEPT !.tabs = b]
      BY <2>2 DEF clearTab
    <3> HIDE DEF b
    <3> QED BY <3>1, TabsKeep
  <2>3. CASE ~c1 /\ ~c2
    BY <2>3, KeepsSelf DEF clearTab
  <2> QED BY <2>1, <2>2, <2>3
<1> QED BY <1>2, <1>3, <1>4, <1>5

LEMMA WritingKeeps ==
    ASSUME NEW u, NEW p, Good(u, p)
    PROVE  Keeps(u, insertAtCursor(u), p) /\ Keeps(u, newLine(u), p) /\ Keeps(u, nextLine(u), p)
<1>1. Keeps(u, scrollUp(u, 1), p)
  BY ScrollingKeeps DEF scrollUp
<1>2. Keeps(u, Wrapped(u), p)
  BY <1>1, ThenCursor, CursorKeeps, KeepsSelf DEF Wrapped
<1>3. \E l : insertAtCursor(u)
               = setCursorPos(SetLine(Wrapped(u), l), Wrapped(u).at.x + 1, Wrapped(u).at.y)
  BY DEF insertAtCursor
<1>4. Keeps(u, insertAtCursor(u), p)
  BY <1>2, <1>3, ThenLine, ThenCursor
<1>5. Keeps(u, newLine(u), p) /\ Keeps(u, nextLine(u), p)
  BY <1>1, ThenCursor, CursorKeeps, KeepsSelf DEF newLine, nextLine
<1> QED BY <1>4, <1>5

LEMMA ErasingKeeps ==
    ASSUME NEW u, NEW p, Good(u, p)
    PROVE  Keeps(u, clearAll(u), p) /\ Keeps(u, screenTest(u), p)
<1>1. ASSUME NEW v, Keeps(u, v, p) PROVE Keeps(u, clearAll(v), p)
  BY <1>1, ThenDeselected, ThenLines, ThenCursor DEF clearAll
<1>2. Keeps(u, clearAll(u), p)
  BY <1>1, KeepsSelf
<1>3. Keeps(u, clearEverything(u), p)
  <2> DEFINE v == clearSelection(u)
             w == [v EXCEPT !.back = <<>>]
  <2>1. Keeps(u, v, p)
    BY SelectionKeeps
  <2>2. Good(v, p)
    BY <2>1 DEF Keeps
  <2> HIDE DEF v
  <2>3. Keeps(v, w, p)
    BY <2>2, HistoryKeeps
  <2>4. Keeps(u, w, p)
    BY <2>1, <2>3, KeepsTrans
  <2>5. Keeps(u, clearAll(resetBackBufferScrollPos(w)), p)
    BY <2>4, ThenViewReset, <1>1
  <2> QED BY <2>5 DEF clearEverything, v
<1>4. Keeps(u, screenTest(u), p)
  <2> DEFINE v == clearEverything(u)
             b == [r \in 1..v.h |-> [c \in 1..v.w |-> 1]]
  <2>1. Keeps(u, SetBuf(v, b), p)
    <3> HIDE DEF b, v
    <3> QED BY <1>3, ThenLines DEF v
  <2> QED BY <2>1 DEF screenTest
<1> QED BY <1>2, <1>4

LEMMA EditingKeeps ==
    ASSUME NEW u, NEW p, NEW ps, Good(u, p)
    PROVE  /\ Keeps(u, handleDECSED(u, ps), p) /\ Keeps(u, handleEL(u, ps), p)
           /\ Keeps(u, handleECH(u, ps), p)    /\ Keeps(u, handleDCH(u, ps), p)
           /\ Keeps(u, handleICH(u, ps), p)    /\ Keeps(u, handleIL(u, ps), p)
           /\ Keeps(u, handleDL(u, ps), p)
<1>1. ASSUME NEW x, NEW y PROVE Keeps(u, eraseLineAtCursor(u, x, y), p)
  BY LineKeeps DEF eraseLineAtCursor
<1>2. ASSUME NEW v, NEW rows, Keeps(u, v, p) PROVE Keeps(u, ClearRows(v, rows), p)
  BY <1>2, ThenLines DEF ClearRows
<1>3. Keeps(u, handleDECSED(u, ps), p)
  <2>1. \/ handleDECSED(u, ps) = clearAll(u)
        \/ \E x, y, rows : handleDECSED(u, ps) = ClearRows(eraseLineAtCursor(u, x, y), rows)
    BY DEF handleDECSED
  <2> QED BY <2>1, <1>1, <1>2, ErasingKeeps
<1>4. Keeps(u, handleEL(u, ps), p)
  BY <1>1, LineKeeps DEF handleEL
<1>5. Keeps(u, handleECH(u, ps), p)
  BY <1>1, KeepsSelf DEF handleECH
<1>6. Keeps(u, handleDCH(u, ps), p)
  <2>1. handleDCH(u, ps) = u \/ \E l : handleDCH(u, ps) = SetLine(u, l)
    BY DEF handleDCH
  <2> QED BY <2>1, LineKeeps, KeepsSelf
<1>7. Keeps(u, handleICH(u, ps), p)
  BY LineKeeps DEF handleICH
<1>8. Keeps(u, handleIL(u, ps), p) /\ Keeps(u, handleDL(u, ps), p)
  BY ScrollingKeeps, ThenCursor, KeepsSelf DEF handleIL, handleDL
<1> QED BY <1>3, <1>4, <1>5, <1>6, <1>7, <1>8

--------------------------------------------------------------------------------
(* What changes margins, screens or the size.                                 *)

(* The rows of the whole screen are a good region, whatever it was before.    *)
LEMMA AllRowsGood ==
    ASSUME NEW u, NEW p, Good(u, p)
    PROVE  Good(AllRows(u), p) /\ Quiet(u, AllRows(u))
<1> DEFINE v == AllRows(u)
<1>1. /\ DOMAIN v = Fields /\ v.at = u.at /\ v.w = u.w /\ v.h = u.h /\ v.top = 1
      /\ v.bottom = u.h /\ v.saved = u.saved /\ v.savedAlt = u.savedAlt
      /\ v.alt = u.alt /\ v.main = u.main
  BY DEF AllRows, Good, Shape, Fields
<1> HIDE DEF v
<1>2. Shape(v) /\ Region(v, p)
  BY <1>1 DEF Good, Shape, Region
<1>3. InsideOf(v, p, v.at) /\ InsideOf(v, p, v.saved) /\ InsideOf(v, p, v.savedAlt)
  BY <1>1 DEF Good, InsideOf
<1> QED BY <1>1, <1>2, <1>3 DEF Good, Quiet, v

LEMMA TabsReset ==
    ASSUME NEW u, NEW p, Good(u, p)
    PROVE  Keeps(u, resetTabs(u), p)
BY TabsKeep DEF resetTabs

LEMMA AltScreenGood ==
    ASSUME NEW u, NEW p, Good(u, p)
    PROVE  /\ Good(useAltScreen(u, TRUE), p) /\ Good(useAltScreen(u, FALSE), p)
           /\ useAltScreen(u, TRUE).alt /\ ~useAltScreen(u, FALSE).alt
           /\ useAltScreen(u, TRUE).savedAlt = u.at
           /\ useAltScreen(u, TRUE).main = u.main
<1> DEFINE on0 == [u EXCEPT !.savedAlt = u.at, !.alt = TRUE]
           off0 == [u EXCEPT !.alt = FALSE, !.at = u.savedAlt]
           on == AllRows(on0)
           off == AllRows(off0)
<1>1. Good(on0, p) /\ on0.alt = TRUE /\ on0.savedAlt = u.at /\ on0.main = u.main
  <2>1. /\ DOMAIN on0 = Fields /\ on0.at = u.at /\ on0.w = u.w /\ on0.h = u.h
        /\ on0.top = u.top /\ on0.bottom = u.bottom /\ on0.saved = u.saved
        /\ on0.savedAlt = u.at /\ on0.alt = TRUE /\ on0.main = u.main
    BY DEF Good, Shape, Fields
  <2> HIDE DEF on0
  <2> QED BY <2>1 DEF Good, Shape, Region, InsideOf
<1>2. Good(off0, p) /\ off0.alt = FALSE
  <2>1. /\ DOMAIN off0 = Fields /\ off0.at = u.savedAlt /\ off0.w = u.w /\ off0.h = u.h
        /\ off0.top = u.top /\ off0.bottom = u.bottom /\ off0.saved = u.saved
        /\ off0.savedAlt = u.savedAlt /\ off0.alt = FALSE
    BY DEF Good, Shape, Fields
  <2> HIDE DEF off0
  <2> QED BY <2>1 DEF Good, Shape, Region, InsideOf
<1> HIDE DEF on0, off0
<1>3. Keeps(on0, on, p) /\ Keeps(off0, off, p)
  BY <1>1, <1>2, AllRowsGood DEF Keeps
<1>4. ASSUME NEW a, NEW b, Keeps(a, b, p) PROVE Keeps(a, resetTabs(b), p)
  BY <1>4, TabsReset, KeepsTrans DEF Keeps
<1>5. ASSUME NEW a, NEW b, Keeps(a, b, p) PROVE Keeps(a, clearAll(b), p)
  BY <1>5, ErasingKeeps, KeepsTrans DEF Keeps
<1>6. Keeps(on0, resetTabs(clearAll(clearSelection(resetBackBufferScrollPos(on)))), p)
  BY <1>3, <1>4, <1>5, ThenViewReset, ThenDeselected
<1>7. Keeps(off0, resetTabs(clearSelection(resetBackBufferScrollPos(off))), p)
  BY <1>3, <1>4, ThenViewReset, ThenDeselected
<1>8. /\ useAltScreen(u, TRUE) = resetTabs(clearAll(clearSelection(resetBackBufferScrollPos(on))))
      /\ useAltScreen(u, FALSE) = resetTabs(clearSelection(resetBackBufferScrollPos(off)))
  BY DEF useAltScreen, on0, off0
<1> HIDE DEF on, off
<1> QED BY <1>1, <1>2, <1>6, <1>7, <1>8 DEF Keeps, Quiet

LEMMA ModeKeeps ==
    ASSUME NEW u, NEW p, NEW set, NEW mode \in {"origin", "wrap", "replace", "newline"},
           Good(u, p)
    PROVE  Keeps(u, handleMode(u, mode, set), p)
<1>1. ASSUME NEW a, DOMAIN a = AtFields, a.x = u.at.x, a.y = u.at.y
      PROVE  Keeps(u, [u EXCEPT !.at = a], p)
  <2> DEFINE v == [u EXCEPT !.at = a]
  <2>1. /\ DOMAIN v = Fields /\ v.at = a /\ v.w = u.w /\ v.h = u.h
        /\ v.top = u.top /\ v.bottom = u.bottom /\ v.saved = u.saved
        /\ v.savedAlt = u.savedAlt /\ v.alt = u.alt /\ v.main = u.main
    BY DEF Good, Shape, Fields
  <2> HIDE DEF v
  <2> QED BY <2>1, <1>1 DEF Keeps, Quiet, Good, Shape, Region, InsideOf
<1>2. CASE mode = "origin"
  <2> DEFINE a == [u.at EXCEPT !.origin = set]
  <2>1. DOMAIN a = AtFields /\ a.x = u.at.x /\ a.y = u.at.y
    BY DEF Good, Shape, AtFields
  <2>2. handleMode(u, mode, set) = [u EXCEPT !.at = a]
    BY <1>2 DEF handleMode, Good, Shape, Fields
  <2> HIDE DEF a
  <2> QED BY <2>1, <2>2, <1>1
<1>3. CASE mode = "wrap"
  <2> DEFINE a == [u.at EXCEPT !.wrap = set]
  <2>1. DOMAIN a = AtFields /\ a.x = u.at.x /\ a.y = u.at.y
    BY DEF Good, Shape, AtFields
  <2>2. handleMode(u, mode, set) = [u EXCEPT !.at = a]
    BY <1>3 DEF handleMode, Good, Shape, Fields
  <2> HIDE DEF a
  <2> QED BY <2>1, <2>2, <1>1
<1>4. CASE mode = "replace"
  <2> DEFINE v == [u EXCEPT !.replace = set]
  <2>1. Same(u, v)
    BY DEF Same, Quiet, Good, Shape, Fields
  <2> QED BY <2>1, <1>4, SameKeeps DEF handleMode
<1>5. CASE mode = "newline"
  <2> DEFINE v == [u EXCEPT !.newline = set]
  <2>1. Same(u, v)
    BY DEF Same, Quiet, Good, Shape, Fields
  <2> QED BY <2>1, <1>5, SameKeeps DEF handleMode
<1> QED BY <1>2, <1>3, <1>4, <1>5

LEMMA PenKeeps ==
    ASSUME NEW u, NEW p, NEW q, Good(u, p)
    PROVE  Keeps(u, [u EXCEPT !.at.pen = q], p)
<1> DEFINE a == [u.at EXCEPT !.pen = q]
           v == [u EXCEPT !.at = a]
<1>1. DOMAIN a = AtFields /\ a.x = u.at.x /\ a.y = u.at.y
  BY DEF Good, Shape, AtFields
<1> HIDE DEF a
<1>2. /\ DOMAIN v = Fields /\ v.at = a /\ v.w = u.w /\ v.h = u.h
      /\ v.top = u.top /\ v.bottom = u.bottom /\ v.saved = u.saved
      /\ v.savedAlt = u.savedAlt /\ v.alt = u.alt /\ v.main = u.main
  BY DEF Good, Shape, Fields
<1>3. [u EXCEPT !.at.pen = q] = v
  BY DEF a, Good, Shape, Fields
<1> HIDE DEF v
<1> QED BY <1>1, <1>2, <1>3 DEF Keeps, Quiet, Good, Shape, Region, InsideOf

LEMMA SaveGood ==
    ASSUME NEW u, NEW p, Good(u, p)
    PROVE  /\ Keeps(u, [u EXCEPT !.saved = u.at], p)
           /\ Keeps(u, [u EXCEPT !.at = u.saved], p)
<1>1. Keeps(u, [u EXCEPT !.saved = u.at], p)
  <2> DEFINE v == [u EXCEPT !.saved = u.at]
  <2>1. /\ DOMAIN v = Fields /\ v.at = u.at /\ v.w = u.w /\ v.h = u.h
        /\ v.top = u.top /\ v.bottom = u.bottom /\ v.saved = u.at
        /\ v.savedAlt = u.savedAlt /\ v.alt = u.alt /\ v.main = u.main
    BY DEF Good, Shape, Fields
  <2> HIDE DEF v
  <2>2. Shape(v) /\ Region(v, p) /\ Quiet(u, v)
    BY <2>1 DEF Good, Shape, Region, Quiet
  <2>3. InsideOf(v, p, v.at) /\ InsideOf(v, p, v.saved) /\ InsideOf(v, p, v.savedAlt)
    BY <2>1 DEF Good, InsideOf
  <2> QED BY <2>2, <2>3 DEF Good, Keeps, v
<1>2. Keeps(u, [u EXCEPT !.at = u.saved], p)
  <2> DEFINE v == [u EXCEPT !.at = u.saved]
  <2>1. /\ DOMAIN v = Fields /\ v.at = u.saved /\ v.w = u.w /\ v.h = u.h
        /\ v.top = u.top /\ v.bottom = u.bottom /\ v.saved = u.saved
        /\ v.savedAlt = u.savedAlt /\ v.alt = u.alt /\ v.main = u.main
    BY DEF Good, Shape, Fields
  <2> HIDE DEF v
  <2>2. Shape(v) /\ Region(v, p) /\ Quiet(u, v)
    BY <2>1 DEF Good, Shape, Region, Quiet
  <2>3. InsideOf(v, p, v.at) /\ InsideOf(v, p, v.saved) /\ InsideOf(v, p, v.savedAlt)
    BY <2>1 DEF Good, InsideOf
  <2> QED BY <2>2, <2>3 DEF Good, Keeps, v
<1> QED BY <1>1, <1>2

(* A reset keeps the cursor unless it is a full one, which needs no earlier   *)
(* bound: the record only has to have its shape.                              *)
LEMMA ResetGood ==
    ASSUME NEW u, NEW p, Good(u, p)
    PROVE  /\ Good(resetTerminal(u, FALSE), p) /\ ~resetTerminal(u, FALSE).alt
           /\ Good(resetTerminal(u, TRUE), {}) /\ ~resetTerminal(u, TRUE).alt
<1> DEFINE Rest(v) == [AllRows(v) EXCEPT !.at = PlainAttribs(v.at),
                           !.saved = PlainAttribs(v.at), !.savedAlt = PlainAttribs(v.at),
                           !.alt = FALSE, !.replace = FALSE, !.newline = FALSE]
           home == [u EXCEPT !.main = <<>>, !.altBuf = <<>>, !.back = <<>>,
                             !.at.x = 1, !.at.y = 1]
<1>1. ASSUME NEW v, NEW q, Shape(v), InsideOf(v, q, v.at)
      PROVE  Good(Rest(v), q) /\ Rest(v).alt = FALSE
  <2> DEFINE a == PlainAttribs(v.at)
             w == Rest(v)
  <2>1. DOMAIN a = AtFields /\ a.x = v.at.x /\ a.y = v.at.y
    BY <1>1 DEF PlainAttribs, Shape, AtFields
  <2> HIDE DEF a
  <2>2. /\ DOMAIN w = Fields /\ w.at = a /\ w.saved = a /\ w.savedAlt = a
        /\ w.w = v.w /\ w.h = v.h /\ w.top = 1 /\ w.bottom = v.h /\ w.alt = FALSE
    BY <1>1 DEF a, AllRows, Shape, Fields
  <2> HIDE DEF w
  <2>3. Shape(w) /\ Region(w, q)
    <3>1. v.w \in Nat \ {0} /\ v.h \in Nat \ {0}
      BY <1>1 DEF Shape
    <3>2. Shape(w)
      BY <2>1, <2>2, <3>1 DEF Shape
    <3> QED BY <2>2, <3>1, <3>2 DEF Region
  <2>4. InsideOf(w, q, a)
    BY <1>1, <2>1, <2>2 DEF InsideOf
  <2> QED BY <2>2, <2>3, <2>4 DEF Good, w
<1>2. ASSUME NEW v, NEW q, Good(v, q), v.alt = FALSE
      PROVE  LET w == resetTabs(clearSelection(resetBackBufferScrollPos(v)))
             IN  Good(w, q) /\ w.alt = FALSE
  <2>1. Keeps(v, clearSelection(resetBackBufferScrollPos(v)), q)
    BY <1>2, KeepsSelf, ThenViewReset, ThenDeselected
  <2>2. Keeps(v, resetTabs(clearSelection(resetBackBufferScrollPos(v))), q)
    BY <2>1, TabsReset, KeepsTrans DEF Keeps
  <2> QED BY <2>2, <1>2 DEF Keeps, Quiet
<1>3. Shape(home) /\ InsideOf(home, {}, home.at)
  <2> DEFINE a == [u.at EXCEPT !.x = 1, !.y = 1]
             v == [u EXCEPT !.main = <<>>, !.altBuf = <<>>, !.back = <<>>, !.at = a]
  <2>1. DOMAIN a = AtFields /\ a.x = 1 /\ a.y = 1
    BY DEF Good, Shape, AtFields
  <2>2. home = v
    BY DEF Good, Shape, Fields, AtFields
  <2> HIDE DEF a
  <2>3. /\ DOMAIN v = Fields /\ v.at = a /\ v.saved = u.saved /\ v.savedAlt = u.savedAlt
        /\ v.w = u.w /\ v.h = u.h /\ v.alt = u.alt
    BY DEF Good, Shape, Fields
  <2> HIDE DEF v
  <2>4. u.w \in Nat \ {0} /\ u.h \in Nat \ {0} /\ Shape(u)
    BY DEF Good, Shape
  <2>5. Shape(v)
    BY <2>1, <2>3, <2>4 DEF Shape
  <2>6. InsideOf(v, {}, v.at)
    BY <2>1, <2>3, <2>4 DEF InsideOf
  <2> QED BY <2>2, <2>5, <2>6
<1> HIDE DEF home
<1>4. /\ resetTerminal(u, FALSE) = resetTabs(clearSelection(resetBackBufferScrollPos(Rest(u))))
      /\ resetTerminal(u, TRUE) = resetTabs(clearSelection(resetBackBufferScrollPos(Rest(home))))
  BY DEF resetTerminal, home
<1>5. Good(Rest(u), p) /\ Rest(u).alt = FALSE
  BY <1>1 DEF Good
<1>6. Good(Rest(home), {}) /\ Rest(home).alt = FALSE
  BY <1>1, <1>3
<1> HIDE DEF Rest
<1> QED BY <1>2, <1>4, <1>5, <1>6

LEMMA MarginsGood ==
    ASSUME NEW u, NEW p, NEW ps \in Seq(Nat), Good(u, p)
    PROVE  LET v == setMargins(u, ps)
               inside == 1 <= v.top /\ v.top <= v.bottom /\ v.bottom <= v.h
           IN  Good(v, p \cup (IF inside THEN {} ELSE {"margins"})) /\ Quiet(u, v)
<1> DEFINE a == IF Len(ps) < 2 \/ ps[1] < 1 THEN 1 ELSE ps[1]
           b == IF Len(ps) < 2 THEN u.h ELSE AtMost(ps[2], u.h)
           top == IF a >= b /\ a = u.h THEN b - 1 ELSE a
           bottom == IF a >= b /\ a # u.h THEN a + 1 ELSE b
           w == [u EXCEPT !.top = top, !.bottom = bottom]
           inside == 1 <= top /\ top <= bottom /\ bottom <= u.h
           q == p \cup (IF inside THEN {} ELSE {"margins"})
<1>1. u.h \in Int /\ a \in Int /\ b \in Int
  BY DEF Good, Shape, AtMost
<1>2. top \in Int /\ bottom \in Int
  BY <1>1
<1>3. setMargins(u, ps) = setCursorPos(w, 1, top)
  BY DEF setMargins
<1> HIDE DEF top, bottom
<1>4. /\ DOMAIN w = Fields /\ w.at = u.at /\ w.w = u.w /\ w.h = u.h
      /\ w.top = top /\ w.bottom = bottom /\ w.saved = u.saved
      /\ w.savedAlt = u.savedAlt /\ w.alt = u.alt /\ w.main = u.main
  BY DEF Good, Shape, Fields
<1> HIDE DEF w
<1>5. Shape(w) /\ Region(w, q) /\ Quiet(u, w)
  BY <1>2, <1>4 DEF Good, Shape, Region, Quiet
<1>6. InsideOf(w, q, w.at) /\ InsideOf(w, q, w.saved) /\ InsideOf(w, q, w.savedAlt)
  BY <1>4 DEF Good, InsideOf
<1>7. Good(w, q)
  BY <1>5, <1>6 DEF Good
<1>8. Keeps(w, setCursorPos(w, 1, top), q)
  BY <1>7, CursorKeeps
<1>9. LET v == setCursorPos(w, 1, top)
      IN  v.top = w.top /\ v.bottom = w.bottom /\ v.h = w.h
  BY <1>7 DEF setCursorPos, Good, Shape, Fields
<1> HIDE DEF q, inside
<1>10. Good(setMargins(u, ps), q) /\ Quiet(u, setMargins(u, ps))
  BY <1>3, <1>5, <1>8 DEF Keeps, Quiet
<1>11. LET v == setMargins(u, ps)
       IN  inside <=> 1 <= v.top /\ v.top <= v.bottom /\ v.bottom <= v.h
  BY <1>3, <1>4, <1>9 DEF inside
<1> QED BY <1>10, <1>11 DEF q

LEMMA SizeGood ==
    ASSUME NEW u, NEW p, NEW w \in Nat \ {0}, NEW h \in Nat \ {0}, Good(u, p)
    PROVE  LET q == p \cup (IF w < u.w \/ h < u.h THEN {"shrunk"} ELSE {})
           IN  Good(setTermSize(u, w, h), q) /\ Quiet(u, setTermSize(u, w, h))
<1> DEFINE q == p \cup (IF w < u.w \/ h < u.h THEN {"shrunk"} ELSE {})
           v == [u EXCEPT !.w = w, !.h = h, !.top = 1, !.bottom = h]
<1>1. CASE w = u.w /\ h = u.h
  BY <1>1, MoreHistory DEF setTermSize, Quiet
<1>2. CASE ~(w = u.w /\ h = u.h)
  <2>1. /\ DOMAIN v = Fields /\ v.at = u.at /\ v.w = w /\ v.h = h
        /\ v.top = 1 /\ v.bottom = h /\ v.saved = u.saved
        /\ v.savedAlt = u.savedAlt /\ v.alt = u.alt /\ v.main = u.main
    BY DEF Good, Shape, Fields
  <2>2. setTermSize(u, w, h) = resetTabs(v)
    BY <1>2 DEF setTermSize
  <2> HIDE DEF v
  <2>3. Shape(v) /\ Region(v, q) /\ Quiet(u, v)
    BY <2>1 DEF Good, Shape, Region, Quiet
  <2>4. ASSUME NEW a, InsideOf(u, p, a) PROVE InsideOf(v, q, a)
    <3>1. "shrunk" \notin q => a.x \in 1..(v.w + 1)
      BY <2>1, <2>4 DEF InsideOf, Good, Shape
    <3>2. q \cap {"shrunk", "margins"} = {} => a.y \in 1..v.h
      BY <2>1, <2>4 DEF InsideOf, Good, Shape
    <3> QED BY <3>1, <3>2 DEF InsideOf
  <2>5. Good(v, q)
    BY <2>1, <2>3, <2>4 DEF Good
  <2>6. Keeps(v, resetTabs(v), q)
    BY <2>5, TabsReset
  <2> QED BY <2>2, <2>3, <2>6 DEF Keeps, Quiet
<1> QED BY <1>1, <1>2

--------------------------------------------------------------------------------
(* The invariant and the actions.                                             *)

IInv == Good(t, past) /\ FirstScreenKept

(* An event that keeps the record good and the screen shown.                  *)
LEMMA DoKeeps ==
    ASSUME NEW u, NEW p, IInv, Become(u, p), UNCHANGED entry,
           Good(u, past \cup p), Quiet(t, u)
    PROVE  IInv'
<1>1. t' = u /\ past' = past \cup p /\ entry' = entry
  BY DEF Become
<1>2. Good(t, past)' <=> Good(t', past')
  BY DEF Good, Shape, Region, InsideOf
<1>3. FirstScreenKept'
  BY <1>1 DEF FirstScreenKept, Quiet, IInv
<1> QED BY <1>1, <1>2, <1>3 DEF IInv

LEMMA QuietDo ==
    ASSUME NEW u, IInv, Do(u), Good(t, past) => Keeps(t, u, past)
    PROVE  IInv'
<1>1. Keeps(t, u, past)
  BY DEF IInv
<1>2. Good(u, past \cup {})
  BY <1>1 DEF Keeps
<1> QED BY <1>1, <1>2, DoKeeps DEF Do, Keeps

LEMMA CharactersKeep == ASSUME IInv, Characters PROVE IInv'
<1>1. CASE putChar
  BY <1>1, WritingKeeps, QuietDo DEF putChar
<1>2. CASE lineFeed
  BY <1>2, WritingKeeps, QuietDo DEF lineFeed
<1>3. CASE carriageReturn
  BY <1>3, CursorKeeps, QuietDo DEF carriageReturn
<1>4. CASE backspace
  BY <1>4, CursorKeeps, QuietDo DEF backspace
<1>5. CASE tabForward(1)
  BY <1>5, TabsMove, QuietDo DEF tabForward
<1> QED BY <1>1, <1>2, <1>3, <1>4, <1>5 DEF Characters

LEMMA TakeKeeps ==
    ASSUME NEW u, IInv, Take(u), Good(t, past) => Keeps(t, u, past)
    PROVE  IInv'
<1>1. Good(u, past) /\ Quiet(t, u)
  BY DEF IInv, Keeps
<1>2. Good(u, past \cup Taken(u))
  BY <1>1, MoreHistory
<1> QED BY <1>1, <1>2, DoKeeps DEF Take

LEMMA ParamsKeep ==
    ASSUME IInv, Sequences1
    PROVE  IInv'
<1> PICK ps \in ParamLists :
       \/ cursorUp(ps) \/ cursorDown(ps) \/ cursorFwd(ps) \/ cursorBack(ps)
       \/ cursorNextLine(ps) \/ cursorPrevLine(ps) \/ goToColumn(ps) \/ goToRow(ps)
       \/ cursorTo(ps) \/ eraseDisplay(ps) \/ eraseLine(ps) \/ eraseChars(ps)
       \/ deleteChars(ps) \/ insertChars(ps) \/ insertLines(ps) \/ deleteLines(ps)
       \/ scrollUpBy(ps) \/ scrollDownBy(ps) \/ tabClear(ps) \/ region(ps)
       \/ Len(ps) <= 1 /\ tabForward(Param(ps, 1))
       \/ Len(ps) <= 1 /\ tabBackward(Param(ps, 1))
  BY DEF Sequences1
<1>1. CASE cursorUp(ps) \/ cursorDown(ps) \/ cursorFwd(ps) \/ cursorBack(ps)
  BY <1>1, CursorKeeps, QuietDo DEF cursorUp, cursorDown, cursorFwd, cursorBack
<1>2. CASE cursorNextLine(ps) \/ cursorPrevLine(ps) \/ goToColumn(ps) \/ goToRow(ps)
           \/ cursorTo(ps)
  BY <1>2, CursorKeeps, QuietDo
     DEF cursorNextLine, cursorPrevLine, goToColumn, goToRow, cursorTo
<1>3. CASE eraseDisplay(ps) \/ eraseLine(ps) \/ eraseChars(ps)
  BY <1>3, EditingKeeps, QuietDo DEF eraseDisplay, eraseLine, eraseChars
<1>4. CASE deleteChars(ps) \/ insertChars(ps) \/ deleteLines(ps)
  BY <1>4, EditingKeeps, QuietDo DEF deleteChars, insertChars, deleteLines
<1>5. CASE insertLines(ps)
  BY <1>5, EditingKeeps, TakeKeeps DEF insertLines
<1>6. CASE scrollUpBy(ps) \/ scrollDownBy(ps)
  BY <1>6, ScrollingKeeps, QuietDo DEF scrollUpBy, scrollDownBy, scrollUp, scrollDown
<1>7. CASE tabClear(ps)
  BY <1>7, TabsMove, QuietDo DEF tabClear
<1>8. CASE region(ps)
  <2> DEFINE u == setMargins(t, ps)
             inside == 1 <= u.top /\ u.top <= u.bottom /\ u.bottom <= u.h
             p == IF inside THEN {} ELSE {"margins"}
  <2>1. ps \in Seq(Nat)
    BY ParamAssumption
  <2>2. Good(u, past \cup p) /\ Quiet(t, u)
    BY <2>1, MarginsGood DEF IInv
  <2>3. Become(u, p) /\ UNCHANGED entry
    BY <1>8 DEF region
  <2> HIDE DEF u, p
  <2> QED BY <2>2, <2>3, DoKeeps
<1>9. CASE tabForward(Param(ps, 1))
  BY <1>9, TabsMove, QuietDo DEF tabForward
<1>10. CASE tabBackward(Param(ps, 1))
  BY <1>10, TabsMove, QuietDo DEF tabBackward
<1> QED BY <1>1, <1>2, <1>3, <1>4, <1>5, <1>6, <1>7, <1>8, <1>9, <1>10

LEMMA PlainKeep ==
    ASSUME IInv, Sequences0
    PROVE  IInv'
<1>1. CASE saveCursor \/ restoreCursor
  BY <1>1, SaveGood, QuietDo DEF saveCursor, restoreCursor
<1>2. CASE tabSet
  BY <1>2, TabsMove, QuietDo DEF tabSet
<1>3. CASE index \/ nextLineDown
  BY <1>3, ScrollingKeeps, WritingKeeps, QuietDo DEF index, nextLineDown
<1>4. CASE reverseIndex
  BY <1>4, ScrollingKeeps, TakeKeeps DEF reverseIndex
<1>5. CASE softReset
  <2> DEFINE u == resetTerminal(t, FALSE)
  <2>1. Good(u, past) /\ ~u.alt
    BY ResetGood DEF IInv
  <2>2. t' = u /\ past' = past
    BY <1>5 DEF softReset, Do, Become
  <2> HIDE DEF u
  <2> QED BY <2>1, <2>2 DEF IInv, FirstScreenKept, Good, Shape, Region, InsideOf
<1>6. CASE fullReset
  <2> DEFINE u == resetTerminal(t, TRUE)
  <2>1. Good(u, {}) /\ ~u.alt
    BY ResetGood DEF IInv
  <2>2. t' = u /\ past' = {}
    BY <1>6 DEF fullReset
  <2> HIDE DEF u
  <2> QED BY <2>1, <2>2 DEF IInv, FirstScreenKept, Good, Shape, Region, InsideOf
<1>7. CASE alignmentTest
  BY <1>7, ErasingKeeps, QuietDo DEF alignmentTest
<1>8. ASSUME NEW set \in BOOLEAN, altScreen(set) PROVE IInv'
  <2> DEFINE u == useAltScreen(t, set)
  <2>1. t' = u /\ past' = past
    BY <1>8 DEF altScreen, Become
  <2>2. Good(u, past)
    BY AltScreenGood DEF IInv
  <2>3. Good(t, past)'
    BY <2>1, <2>2 DEF Good, Shape, Region, InsideOf
  <2>4. CASE ~set
    <3>1. ~u.alt
      BY <2>4, AltScreenGood DEF IInv
    <3> QED BY <2>1, <2>3, <3>1 DEF IInv, FirstScreenKept
  <2>5. CASE set
    <3>1. u.savedAlt = t.at /\ u.main = t.main
      BY <2>5, AltScreenGood DEF IInv
    <3>2. CASE ~t.alt
      <4>1. entry' = [main |-> t.main, at |-> t.at, once |-> TRUE]
        BY <1>8, <2>5, <3>2 DEF altScreen
      <4> HIDE DEF u
      <4> QED BY <2>1, <2>3, <3>1, <4>1 DEF IInv, FirstScreenKept
    <3>3. CASE t.alt
      <4>1. entry' = [entry EXCEPT !.once = FALSE]
        BY <1>8, <2>5, <3>3 DEF altScreen
      <4>2. t.main = entry.main
        BY <3>3 DEF IInv, FirstScreenKept
      <4> QED BY <2>1, <2>3, <3>1, <4>1, <4>2 DEF IInv, FirstScreenKept
    <3> QED BY <3>2, <3>3
  <2> QED BY <2>4, <2>5
<1>9. ASSUME NEW set \in BOOLEAN, NEW mode \in {"origin", "wrap", "replace", "newline"},
             modeSet(mode, set)
      PROVE IInv'
  BY <1>9, ModeKeeps, QuietDo DEF modeSet
<1>10. ASSUME NEW ps \in SgrLists, pen(ps) PROVE IInv'
  <2> DEFINE q == handleSGR(t.at.pen, IF ps = <<>> THEN <<0>> ELSE ps)
  <2>1. Do([t EXCEPT !.at.pen = q]) \/ ~IInv
    BY <1>10 DEF pen, IInv, Good, Shape, Fields, AtFields
  <2> HIDE DEF q
  <2> QED BY <2>1, PenKeeps, QuietDo
<1> QED BY <1>1, <1>2, <1>3, <1>4, <1>5, <1>6, <1>7, <1>8, <1>9, <1>10 DEF Sequences0

LEMMA UserKeeps == ASSUME IInv, User PROVE IInv'
<1>1. ASSUME NEW s \in Sizes, resize(s[1], s[2]) PROVE IInv'
  <2> DEFINE w == s[1]
             h == s[2]
             u == setTermSize(t, w, h)
             p == IF w < t.w \/ h < t.h THEN {"shrunk"} ELSE {}
  <2>1. w \in Nat \ {0} /\ h \in Nat \ {0}
    BY SizeAssumption
  <2> HIDE DEF w, h
  <2>2. Good(u, past \cup p) /\ Quiet(t, u)
    BY <2>1, SizeGood DEF IInv
  <2>3. Become(u, p) /\ UNCHANGED entry
    BY <1>1 DEF resize, w, h
  <2> HIDE DEF u, p
  <2> QED BY <2>2, <2>3, DoKeeps
<1>2. ASSUME NEW escape \in BOOLEAN, keyPress(escape) PROVE IInv'
  <2> DEFINE v == resetBackBufferScrollPos(t)
             u == IF escape THEN v ELSE clearSelection(v)
  <2>1. Good(t, past) => Keeps(t, v, past)
    BY ViewKeeps
  <2> HIDE DEF v
  <2>2. Good(t, past) => Keeps(t, u, past)
    BY <2>1, ThenDeselected
  <2>3. Do(u)
    BY <1>2 DEF keyPress, v
  <2> HIDE DEF u
  <2> QED BY <2>2, <2>3, QuietDo, <1>2
<1>3. ASSUME NEW n \in ViewSteps, viewFwd(n) \/ viewBack(n) PROVE IInv'
  BY <1>3, ViewKeeps, QuietDo DEF viewFwd, viewBack
<1>4. ASSUME NEW a \in 0..(t.h + 1), NEW b \in 0..(t.h + 1), select(a, b) PROVE IInv'
  <2>1. Good(t, past) => Keeps(t, setSelection(t, a, b), past)
    <3> DEFINE v == setSelection(t, a, b)
    <3> SUFFICES ASSUME Good(t, past) PROVE Keeps(t, v, past)
      OBVIOUS
    <3>1. Same(t, v)
      BY DEF setSelection, Same, Quiet, Good, Shape, Fields
    <3> QED BY <3>1, SameKeeps
  <2> QED BY <1>4, <2>1, QuietDo DEF select
<1>5. CASE deselect
  BY <1>5, SelectionKeeps, QuietDo DEF deselect
<1> QED BY <1>1, <1>2, <1>3, <1>4, <1>5 DEF User

LEMMA InitGood == Init => IInv
<1> SUFFICES ASSUME Init PROVE IInv
  OBVIOUS
<1> PICK s \in Sizes : t = Fresh(s[1], s[2])
  BY DEF Init
<1>1. s[1] \in Nat \ {0} /\ s[2] \in Nat \ {0}
  BY SizeAssumption
<1>2. Shape(t) /\ Region(t, past) /\ ~t.alt
  BY <1>1 DEF Fresh, Shape, Region, Fields, AtFields
<1>3. /\ t.at.x = 1 /\ t.at.y = 1 /\ t.saved = t.at /\ t.savedAlt = t.at
      /\ t.w \in Nat \ {0} /\ t.h \in Nat \ {0}
  BY <1>1 DEF Fresh
<1>4. InsideOf(t, past, t.at)
  BY <1>3 DEF InsideOf
<1> QED BY <1>2, <1>3, <1>4 DEF IInv, Good, FirstScreenKept

(* Whatever happens, the inductive invariant holds. *)
THEOREM AlwaysGood == Spec => []IInv
<1>1. Init => IInv
  BY InitGood
<1>2. IInv /\ [Next]_vars => IInv'
  <2> SUFFICES ASSUME IInv, [Next]_vars PROVE IInv'
    OBVIOUS
  <2>1. CASE Next
    BY <2>1, CharactersKeep, ParamsKeep, PlainKeep, UserKeeps DEF Next
  <2>2. CASE UNCHANGED vars
    BY <2>2 DEF vars, IInv, FirstScreenKept, Good, Shape, Region, InsideOf
  <2> QED BY <2>1, <2>2
<1> QED BY <1>1, <1>2, PTL DEF Spec

(* On a window of any size, and after any number of sequences with any        *)
(* parameters, the cursor and the saved cursors are on the screen unless the  *)
(* window shrank or a region outside it was set.                              *)
THEOREM CursorAlwaysInside == Spec => []CursorInside
<1>1. IInv => CursorInside
  BY DEF IInv, Good, InsideOf, CursorInside, Inside
<1> QED BY <1>1, AlwaysGood, PTL

(* A program that uses the second screen always leaves the first as it was.   *)
THEOREM FirstScreenAlwaysKept == Spec => []FirstScreenKept
<1>1. IInv => FirstScreenKept
  BY DEF IInv
<1> QED BY <1>1, AlwaysGood, PTL

--------------------------------------------------------------------------------
(* Lists: what the operators on sequences give, of any elements.              *)

IsList(b) == b \in Seq(Range(b))

LEMMA ListOf ==
    ASSUME NEW S, NEW b \in Seq(S)
    PROVE  IsList(b)
<1>1. Len(b) \in Nat /\ b \in [1 .. Len(b) -> S]
  BY LenProperties
<1>2. b \in [1 .. Len(b) -> Range(b)]
  BY <1>1 DEF Range
<1> QED BY <1>1, <1>2, SeqDef DEF IsList

LEMMA ListHas ==
    ASSUME NEW b, IsList(b)
    PROVE  /\ Len(b) \in Nat /\ DOMAIN b = 1 .. Len(b)
           /\ \A i \in 1 .. Len(b) : b[i] \in Range(b)
           /\ \A S : Range(b) \subseteq S => b \in Seq(S)
<1>1. Len(b) \in Nat /\ DOMAIN b = 1 .. Len(b)
  BY LenProperties DEF IsList
<1>2. \A S : Range(b) \subseteq S => b \in Seq(S)
  BY SeqMonotonic DEF IsList
<1> QED BY <1>1, <1>2, ElementOfSeq DEF IsList

LEMMA Listed ==
    ASSUME NEW n \in Nat, NEW b, DOMAIN b = 1 .. n, b = [i \in 1 .. n |-> b[i]]
    PROVE  IsList(b) /\ Len(b) = n
<1>1. b \in [1 .. n -> Range(b)]
  BY DEF Range
<1>2. b \in Seq(Range(b))
  BY <1>1, SeqDef
<1>3. Len(b) = n
  <2>1. Len(b) \in Nat /\ DOMAIN b = 1 .. Len(b)
    BY <1>2, LenProperties
  <2> QED BY <2>1
<1> QED BY <1>2, <1>3 DEF IsList

LEMMA ConcatGives ==
    ASSUME NEW a, NEW b, IsList(a), IsList(b)
    PROVE  /\ IsList(a \o b) /\ Len(a \o b) = Len(a) + Len(b)
           /\ Len(a) \in Nat /\ Len(b) \in Nat
           /\ \A i \in 1 .. Len(a) + Len(b) :
                 (a \o b)[i] = IF i <= Len(a) THEN a[i] ELSE b[i - Len(a)]
<1> DEFINE S == Range(a) \cup Range(b)
<1>1. a \in Seq(S) /\ b \in Seq(S)
  BY ListHas
<1> HIDE DEF S
<1>2. a \o b \in Seq(S)
  BY <1>1, ConcatProperties
<1> QED BY <1>1, <1>2, ConcatProperties, ListOf, ListHas

LEMMA PartGives ==
    ASSUME NEW b, IsList(b), NEW m \in Int, NEW n \in Int, 1 <= m, n <= Len(b)
    PROVE  /\ IsList(SubSeq(b, m, n)) /\ Len(SubSeq(b, m, n)) = IF m <= n THEN n - m + 1 ELSE 0
           /\ \A i \in 1 .. n - m + 1 : SubSeq(b, m, n)[i] = b[m + i - 1]
<1> DEFINE S == Range(b)
<1>1. \A i \in m .. n : b[i] \in S
  BY ListHas
<1> HIDE DEF S
<1> DEFINE q == SubSeq(b, m, n)
<1>2. q \in Seq(S) /\ Len(q) = (IF m <= n THEN n - m + 1 ELSE 0)
      /\ \A i \in 1 .. n - m + 1 : q[i] = b[m + i - 1]
  BY <1>1, SubSeqProperties
<1> HIDE DEF q
<1>3. IsList(q)
  BY <1>2, ListOf
<1> QED BY <1>2, <1>3 DEF q

LEMMA AppendGives ==
    ASSUME NEW b, IsList(b), NEW l
    PROVE  /\ IsList(Append(b, l)) /\ Len(Append(b, l)) = Len(b) + 1
           /\ \A i \in 1 .. Len(b) + 1 : Append(b, l)[i] = IF i <= Len(b) THEN b[i] ELSE l
<1> DEFINE S == Range(b) \cup {l}
<1>1. b \in Seq(S) /\ l \in S
  BY ListHas
<1> HIDE DEF S
<1>2. Append(b, l) \in Seq(S) /\ Len(Append(b, l)) = Len(b) + 1
  BY <1>1
<1>3. \A i \in 1 .. Len(b) + 1 : Append(b, l)[i] = IF i <= Len(b) THEN b[i] ELSE l
  BY <1>1
<1>4. IsList(Append(b, l))
  BY <1>2, ListOf
<1> QED BY <1>2, <1>3, <1>4

LEMMA OneGives == ASSUME NEW l PROVE IsList(<<l>>) /\ Len(<<l>>) = 1 /\ <<l>>[1] = l
<1>1. <<l>> \in Seq({l})
  OBVIOUS
<1> QED BY <1>1, ListOf

(* What the helpers on buffers do.                                            *)
LEMMA PutGives ==
    ASSUME NEW b, IsList(b), NEW i \in Int, NEW l
    PROVE  /\ IsList(Put(b, i, l)) /\ Len(Put(b, i, l)) = Len(b) + 1
           /\ i \in 1 .. Len(b) + 1 =>
                 \A j \in 1 .. Len(b) + 1 :
                    Put(b, i, l)[j] = IF j < i THEN b[j] ELSE IF j = i THEN l ELSE b[j - 1]
<1> DEFINE k == Bound(i, 1, Len(b) + 1)
           x == SubSeq(b, 1, k - 1)
           y == SubSeq(b, k, Len(b))
           o == <<l>>
<1>1. Len(b) \in Nat /\ k \in 1 .. Len(b) + 1
  BY ListHas, BoundInside
<1>2. i \in 1 .. Len(b) + 1 => k = i
  BY DEF Bound
<1>3. Put(b, i, l) = (x \o o) \o y
  BY DEF Put, InsertAt
<1> HIDE DEF k
<1>4. /\ IsList(x) /\ Len(x) = k - 1 /\ \A j \in 1 .. k - 1 : x[j] = b[j]
      /\ IsList(y) /\ Len(y) = Len(b) - k + 1 /\ \A j \in 1 .. Len(b) - k + 1 : y[j] = b[k + j - 1]
  BY <1>1, PartGives
<1>5. IsList(o) /\ Len(o) = 1 /\ o[1] = l
  BY OneGives
<1> HIDE DEF x, y, o
<1>6. /\ IsList(x \o o) /\ Len(x \o o) = k
      /\ \A j \in 1 .. k : (x \o o)[j] = IF j < k THEN b[j] ELSE l
  <2>0. IsList(x) /\ IsList(o)
    BY <1>4, <1>5
  <2>1. /\ IsList(x \o o) /\ Len(x \o o) = Len(x) + Len(o)
        /\ \A j \in 1 .. Len(x) + Len(o) :
              (x \o o)[j] = IF j <= Len(x) THEN x[j] ELSE o[j - Len(x)]
    BY <2>0, ConcatGives
  <2>2. ASSUME NEW j \in 1 .. k PROVE (x \o o)[j] = IF j < k THEN b[j] ELSE l
    <3>1. (x \o o)[j] = IF j <= Len(x) THEN x[j] ELSE o[j - Len(x)]
      BY <1>1, <1>4, <1>5, <2>1
    <3> QED BY <1>1, <1>4, <1>5, <3>1
  <2> QED BY <1>1, <1>4, <1>5, <2>1, <2>2
<1>7. /\ IsList((x \o o) \o y) /\ Len((x \o o) \o y) = Len(b) + 1
      /\ \A j \in 1 .. Len(b) + 1 :
            ((x \o o) \o y)[j] = IF j < k THEN b[j] ELSE IF j = k THEN l ELSE b[j - 1]
  <2>1. IsList((x \o o) \o y) /\ Len((x \o o) \o y) = Len(b) + 1
    BY <1>1, <1>4, <1>6, ConcatGives
  <2>2. ASSUME NEW j \in 1 .. Len(b) + 1
        PROVE  ((x \o o) \o y)[j] = IF j < k THEN b[j] ELSE IF j = k THEN l ELSE b[j - 1]
    <3>1. ((x \o o) \o y)[j] = IF j <= k THEN (x \o o)[j] ELSE y[j - k]
      BY <1>1, <1>4, <1>6, ConcatGives
    <3>2. j > k => y[j - k] = b[j - 1]
      BY <1>1, <1>4
    <3> QED BY <1>1, <1>6, <3>1, <3>2
  <2> QED BY <2>1, <2>2
<1> QED BY <1>2, <1>3, <1>7

LEMMA DropGives ==
    ASSUME NEW b, IsList(b), NEW i
    PROVE  /\ IsList(Drop(b, i))
           /\ i \in 1 .. Len(b) =>
                 /\ Len(Drop(b, i)) = Len(b) - 1
                 /\ \A j \in 1 .. Len(b) - 1 : Drop(b, i)[j] = IF j < i THEN b[j] ELSE b[j + 1]
<1>1. CASE i \notin 1 .. Len(b)
  BY <1>1 DEF Drop
<1>2. CASE i \in 1 .. Len(b)
  <2> DEFINE x == SubSeq(b, 1, i - 1)
             y == SubSeq(b, i + 1, Len(b))
  <2>1. Len(b) \in Nat /\ i \in Int
    BY <1>2, ListHas
  <2>2. Drop(b, i) = x \o y
    BY <1>2 DEF Drop, RemoveAt
  <2>3. /\ IsList(x) /\ Len(x) = i - 1 /\ \A j \in 1 .. i - 1 : x[j] = b[j]
    BY <1>2, <2>1, PartGives
  <2>4. IsList(y) /\ Len(y) = Len(b) - i /\ \A j \in 1 .. Len(b) - i : y[j] = b[i + j]
    BY <1>2, <2>1, PartGives
  <2> HIDE DEF x, y
  <2>5. IsList(x \o y) /\ Len(x \o y) = Len(b) - 1
    BY <2>1, <2>3, <2>4, ConcatGives
  <2>6. ASSUME NEW j \in 1 .. Len(b) - 1
        PROVE  (x \o y)[j] = IF j < i THEN b[j] ELSE b[j + 1]
    <3>1. (x \o y)[j] = IF j <= i - 1 THEN x[j] ELSE y[j - (i - 1)]
      BY <1>2, <2>1, <2>3, <2>4, ConcatGives
    <3>2. j >= i => y[j - (i - 1)] = b[j + 1]
      BY <1>2, <2>1, <2>4
    <3> QED BY <1>2, <2>1, <2>3, <3>1, <3>2
  <2> QED BY <2>2, <2>5, <2>6
<1> QED BY <1>1, <1>2

LEMMA PadGives ==
    ASSUME NEW b, IsList(b), NEW n \in Int
    PROVE  /\ IsList(Pad(b, n)) /\ Len(Pad(b, n)) = (IF n > Len(b) THEN n ELSE Len(b))
           /\ \A i : Row(Pad(b, n), i) = Row(b, i)
<1> DEFINE m == Short(b, n)
           e == [i \in 1 .. m |-> <<>>]
           p == b \o e
<1>1. Len(b) \in Nat /\ m \in Nat /\ Len(b) + m = IF n > Len(b) THEN n ELSE Len(b)
  BY ListHas DEF Short
<1>2. Pad(b, n) = p
  BY DEF Pad
<1> HIDE DEF m
<1>3. IsList(e) /\ Len(e) = m /\ \A i \in 1 .. m : e[i] = <<>>
  BY <1>1, Listed
<1> HIDE DEF e
<1>4. /\ IsList(p) /\ Len(p) = Len(b) + m
      /\ \A i \in 1 .. Len(b) + m : p[i] = IF i <= Len(b) THEN b[i] ELSE e[i - Len(b)]
  BY <1>1, <1>3, ConcatGives
<1> HIDE DEF p
<1>5. ASSUME NEW i PROVE Row(p, i) = Row(b, i)
  <2>1. CASE i \in 1 .. Len(b) + m
    <3>1. i > Len(b) => e[i - Len(b)] = <<>>
      BY <1>1, <1>3, <2>1
    <3> QED BY <1>1, <1>4, <2>1, <3>1 DEF Row
  <2>2. CASE i \notin 1 .. Len(b) + m
    BY <1>1, <1>4, <2>2 DEF Row
  <2> QED BY <2>1, <2>2
<1> QED BY <1>1, <1>2, <1>4, <1>5

(* The state after k lines of a scroll is a recursive function of k, whose    *)
(* values are found by its least exception.                                   *)

LEMMA Minimal ==
    ASSUME NEW R, IsWellFoundedOn(R, Nat), NEW S, S \subseteq Nat, S # {}
    PROVE  \E m \in S : \A k \in S : ~(<<k, m>> \in R)
BY WFMin

LEMMA LeastOf ==
    ASSUME NEW R, IsWellFoundedOn(R, Nat), \A i, k \in Nat : i < k => <<i, k>> \in R,
           NEW S, S \subseteq Nat, S # {}
    PROVE  \E m \in S : \A k \in S : m <= k
<1>1. PICK m \in S : \A k \in S : ~(<<k, m>> \in R)
  BY Minimal
<1>2. ASSUME NEW k \in S PROVE m <= k
  <2>1. ~(k < m)
    BY <1>1
  <2> QED BY <2>1
<1> QED BY <1>2

LEMMA Least ==
    ASSUME NEW S, S \subseteq Nat, S # {}
    PROVE  \E m \in S : \A k \in S : m <= k
<1> DEFINE R == OpToRel(<, Nat)
<1>1. IsWellFoundedOn(R, Nat)
  BY NatLessThanWellFounded
<1>2. \A i, k \in Nat : i < k => <<i, k>> \in R
  BY DEF OpToRel
<1> HIDE DEF R
<1> QED BY <1>1, <1>2, LeastOf

(* Scrolling goes line by line: First, and then n times Step, in either       *)
(* direction.                                                                 *)
UpLine(alt, back, bottom, from, r) ==
    LET b == Put(r[1], bottom + 1, <<>>)
    IN  <<Drop(b, from), IF alt THEN back ELSE Append(r[2], Row(b, from))>>
UpStep(u, from, r) == UpLine(u.alt, u.back, u.bottom, from, r)
DownLine(alt, bottom, into, history, r) ==
    LET taken == history /\ ~alt /\ r[2] # <<>>
        b == Put(r[1], into, IF taken THEN Last(r[2]) ELSE <<>>)
    IN  <<Drop(b, IF bottom >= Len(b) THEN Len(b) ELSE bottom + 1),
          IF taken THEN Front(r[2]) ELSE r[2]>>
DownStep(u, into, history, r) == DownLine(u.alt, u.bottom, into, history, r)

First(way, u) == <<IF way = "up" THEN Pad(Buf(u), u.bottom) ELSE Buf(u), u.back>>
Step(way, u, row, history, r) ==
    IF way = "up" THEN UpStep(u, row, r) ELSE DownStep(u, row, history, r)
Steps(h, n, way, u, row, history) ==
    h = [k \in 0..n |-> IF k = 0 THEN First(way, u) ELSE Step(way, u, row, history, h[k - 1])]

LEMMA StepsExist ==
    ASSUME NEW n \in Nat, NEW way, NEW u, NEW row, NEW history
    PROVE  \E h : Steps(h, n, way, u, row, history)
<1> DEFINE S == {m \in Nat : ~ \E h : Steps(h, m, way, u, row, history)}
           F == First(way, u)
           G(r) == Step(way, u, row, history, r)
<1>1. ASSUME S # {} PROVE FALSE
  <2>1. PICK m \in S : \A k \in S : m <= k
    BY <1>1, Least
  <2>2. CASE m = 0
    <3> DEFINE h == [k \in 0..0 |-> F]
    <3>1. h = [k \in 0..0 |-> IF k = 0 THEN F ELSE G(h[k - 1])]
      OBVIOUS
    <3>2. Steps(h, 0, way, u, row, history)
      BY <3>1 DEF Steps
    <3> QED BY <2>1, <2>2, <3>2
  <2>3. CASE m # 0
    <3>1. m - 1 \in Nat /\ m - 1 \notin S
      BY <2>1, <2>3
    <3>2. PICK g : Steps(g, m - 1, way, u, row, history)
      BY <3>1
    <3> DEFINE h == [k \in 0..m |-> IF k = m THEN G(g[m - 1]) ELSE g[k]]
    <3>3. \A k \in 0..m : k # m => k \in 0..(m - 1)
      OBVIOUS
    <3>4. \A k \in 0..m : k # 0 => k - 1 \in 0..m /\ k - 1 # m
      OBVIOUS
    <3> HIDE DEF G, F
    <3>5. \A k \in 0..(m - 1) : g[k] = IF k = 0 THEN F ELSE G(g[k - 1])
      BY <3>2 DEF Steps, F, G
    <3>6. ASSUME NEW k \in 0..m PROVE h[k] = IF k = 0 THEN F ELSE G(h[k - 1])
      <4>1. CASE k = m
        <5>1. h[k - 1] = g[m - 1] /\ h[k] = G(g[m - 1])
          BY <3>4, <4>1, <2>3
        <5> HIDE DEF h
        <5> QED BY <4>1, <5>1, <2>3
      <4>2. CASE k # m
        <5>1. h[k] = g[k] /\ k \in 0..(m - 1)
          BY <3>3, <4>2
        <5>2. k # 0 => h[k - 1] = g[k - 1]
          BY <3>4
        <5> HIDE DEF h
        <5> QED BY <3>5, <5>1, <5>2
      <4> QED BY <4>1, <4>2
    <3>7. h = [k \in 0..m |-> h[k]]
      OBVIOUS
    <3> HIDE DEF h
    <3>8. h = [k \in 0..m |-> IF k = 0 THEN F ELSE G(h[k - 1])]
      BY <3>6, <3>7
    <3>9. Steps(h, m, way, u, row, history)
      BY <3>8 DEF Steps, F, G
    <3> QED BY <2>1, <3>9
  <2> QED BY <2>2, <2>3
<1> QED BY <1>1

LEMMA UpSteps ==
    ASSUME NEW n \in Nat, NEW u, NEW from
    PROVE  \E h : Steps(h, n, "up", u, from, FALSE) /\ ScrolledUp(u, n, from) = h[n]
<1> DEFINE Up(h) ==
        h = [k \in 0..n |-> IF k = 0 THEN <<Pad(Buf(u), u.bottom), u.back>>
                            ELSE UpStep(u, from, h[k - 1])]
           f == CHOOSE h : Up(h)
<1>1. \A h : Steps(h, n, "up", u, from, FALSE) <=> Up(h)
  BY DEF Steps, First, Step
<1>2. \E h : Up(h)
  BY <1>1, StepsExist
<1>3. Up(f)
  BY <1>2
<1>4. ScrolledUp(u, n, from) = f[n]
  BY DEF ScrolledUp, UpStep, UpLine
<1> QED BY <1>1, <1>3, <1>4

LEMMA DownSteps ==
    ASSUME NEW n \in Nat, NEW u, NEW into, NEW history
    PROVE  \E h : Steps(h, n, "down", u, into, history) /\ ScrolledDown(u, n, into, history) = h[n]
<1> DEFINE Down(h) ==
        h = [k \in 0..n |-> IF k = 0 THEN <<Buf(u), u.back>>
                            ELSE DownStep(u, into, history, h[k - 1])]
           f == CHOOSE h : Down(h)
<1>1. \A h : Steps(h, n, "down", u, into, history) <=> Down(h)
  BY DEF Steps, First, Step
<1>2. \E h : Down(h)
  BY <1>1, StepsExist
<1>3. Down(f)
  BY <1>2
<1>4. ScrolledDown(u, n, into, history) = f[n]
  BY DEF ScrolledDown, DownStep, DownLine
<1> QED BY <1>1, <1>3, <1>4

(* After n lines up from row from: every list is a list, the history has all  *)
(* that left, and the rows of the region come from n rows below.              *)
FromBelow(b0, bottom, i) == IF i <= bottom THEN Row(b0, i) ELSE <<>>

UpResult(b0, back, alt, bottom, n, from, r) ==
    /\ IsList(r[1]) /\ IsList(r[2])
    /\ alt => r[2] = back
    /\ ~alt => Len(r[2]) = Len(back) + n
    /\ from \in 1 .. bottom =>
          /\ Len(r[1]) >= bottom
          /\ \A i \in Int : Row(r[1], i) = IF i \in from .. bottom THEN FromBelow(b0, bottom, i + n)
                                           ELSE Row(b0, i)
          /\ \A j \in 1 .. Len(r[2]) :
                r[2][j] = IF j <= Len(back) THEN back[j]
                          ELSE FromBelow(b0, bottom, from + j - Len(back) - 1)

LEMMA UpStart ==
    ASSUME NEW b0, NEW back, NEW alt, NEW bottom \in Int, NEW from,
           IsList(b0), IsList(back)
    PROVE  UpResult(b0, back, alt, bottom, 0, from, <<Pad(b0, bottom), back>>)
<1> DEFINE p == Pad(b0, bottom)
<1>1. <<Pad(b0, bottom), back>> = <<p, back>>
  OBVIOUS
<1>2. IsList(p) /\ Len(p) >= bottom /\ \A i : Row(p, i) = Row(b0, i)
  <2>1. Len(b0) \in Nat
    BY ListHas
  <2> QED BY <2>1, PadGives
<1>3. Len(back) \in Nat
  BY ListHas
<1> HIDE DEF p
<1> DEFINE r == <<p, back>>
<1>4. r[1] = p /\ r[2] = back
  OBVIOUS
<1> HIDE DEF r
<1>5. \A i \in Int : i + 0 = i
  OBVIOUS
<1>6. ASSUME from \in 1 .. bottom, NEW i \in Int
      PROVE  Row(p, i) = IF i \in from .. bottom THEN FromBelow(b0, bottom, i + 0) ELSE Row(b0, i)
  BY <1>2, <1>5 DEF FromBelow
<1>7. Len(back) = Len(back) + 0
  BY <1>3
<1>8. \A j \in 1 .. Len(back) : j <= Len(back)
  BY <1>3
<1>9. UpResult(b0, back, alt, bottom, 0, from, r)
  BY <1>2, <1>4, <1>6, <1>7, <1>8 DEF UpResult
<1> QED BY <1>9 DEF r, p

LEMMA UpOnce ==
    ASSUME NEW n \in Nat, NEW b0, NEW back, NEW alt, NEW bottom \in Int, NEW from,
           IsList(b0), IsList(back),
           NEW r, UpResult(b0, back, alt, bottom, n, from, r)
    PROVE  UpResult(b0, back, alt, bottom, n + 1, from, UpLine(alt, back, bottom, from, r))
<1> DEFINE a == r[1]
           e == r[2]
           b == Put(a, bottom + 1, <<>>)
           c == Drop(b, from)
           d == IF alt THEN back ELSE Append(e, Row(b, from))
<1>1. UpLine(alt, back, bottom, from, r)[1] = c /\ UpLine(alt, back, bottom, from, r)[2] = d
  BY DEF UpLine
<1>2. IsList(a) /\ Len(a) \in Nat /\ IsList(e) /\ Len(e) \in Nat /\ Len(back) \in Nat
  BY ListHas DEF UpResult
<1>10. (alt => e = back) /\ (~alt => Len(e) = Len(back) + n)
  BY DEF UpResult
<1>3. /\ IsList(b) /\ Len(b) = Len(a) + 1
      /\ bottom + 1 \in 1 .. Len(a) + 1 =>
            \A j \in 1 .. Len(a) + 1 :
               b[j] = IF j < bottom + 1 THEN a[j] ELSE IF j = bottom + 1 THEN <<>> ELSE a[j - 1]
  <2>1. bottom + 1 \in Int
    OBVIOUS
  <2> HIDE DEF a
  <2> QED BY <1>2, <2>1, PutGives
<1> HIDE DEF a, b, e
<1>4. /\ IsList(c)
      /\ from \in 1 .. Len(b) =>
            /\ Len(c) = Len(b) - 1
            /\ \A j \in 1 .. Len(b) - 1 : c[j] = IF j < from THEN b[j] ELSE b[j + 1]
  BY <1>3, DropGives
<1> HIDE DEF c
<1>5. IsList(d) /\ (~alt => Len(d) = Len(back) + (n + 1))
  <2>1. CASE alt
    BY <1>2, <2>1
  <2>2. CASE ~alt
    <3>1. d = Append(e, Row(b, from))
      BY <2>2
    <3>2. IsList(d) /\ Len(d) = Len(e) + 1
      BY <1>2, <3>1, AppendGives
    <3>3. Len(e) = Len(back) + n
      BY <1>10, <2>2
    <3> HIDE DEF d, e
    <3> QED BY <1>2, <2>2, <3>2, <3>3
  <2> QED BY <2>1, <2>2
<1>6. ~alt => \A j \in 1 .. Len(e) + 1 :
                   d[j] = IF j <= Len(e) THEN e[j] ELSE Row(b, from)
  BY <1>2, AppendGives
<1>7. alt => d = back
  OBVIOUS
<1> HIDE DEF d
<1>8. ASSUME from \in 1 .. bottom
      PROVE  /\ Len(c) >= bottom
             /\ \A i \in Int : Row(c, i) = IF i \in from .. bottom
                                           THEN FromBelow(b0, bottom, i + (n + 1)) ELSE Row(b0, i)
             /\ \A j \in 1 .. Len(d) :
                   d[j] = IF j <= Len(back) THEN back[j]
                          ELSE FromBelow(b0, bottom, from + j - Len(back) - 1)
  <2>1. /\ Len(a) >= bottom
        /\ \A i \in Int : Row(a, i) = IF i \in from .. bottom THEN FromBelow(b0, bottom, i + n)
                                      ELSE Row(b0, i)
        /\ \A j \in 1 .. Len(e) :
              e[j] = IF j <= Len(back) THEN back[j]
                        ELSE FromBelow(b0, bottom, from + j - Len(back) - 1)
        /\ alt => e = back
        /\ ~alt => Len(e) = Len(back) + n
    BY <1>8 DEF UpResult, a, e
  <2>2. Len(c) = Len(a)
    BY <1>2, <1>3, <1>4, <1>8, <2>1
  <2>3. ASSUME NEW i \in Int
        PROVE  Row(c, i) = IF i \in from .. bottom - 1 THEN Row(a, i + 1)
                           ELSE IF i = bottom THEN <<>> ELSE Row(a, i)
    <3>1. CASE i \in 1 .. Len(a)
      <4>1. c[i] = IF i < from THEN b[i] ELSE b[i + 1]
        BY <1>2, <1>3, <1>4, <1>8, <2>1, <3>1
      <4>2. i \in 1 .. Len(a) + 1 /\ i + 1 \in 1 .. Len(a) + 1
        BY <1>2, <3>1
      <4>3. /\ b[i] = IF i < bottom + 1 THEN a[i] ELSE IF i = bottom + 1 THEN <<>> ELSE a[i - 1]
            /\ b[i + 1] = IF i + 1 < bottom + 1 THEN a[i + 1]
                          ELSE IF i + 1 = bottom + 1 THEN <<>> ELSE a[(i + 1) - 1]
        <5>1. bottom + 1 \in 1 .. Len(a) + 1
          BY <1>2, <1>8, <2>1
        <5> QED BY <1>3, <4>2, <5>1
      <4>4. c[i] = IF i \in from .. bottom - 1 THEN a[i + 1]
                   ELSE IF i = bottom THEN <<>> ELSE a[i]
        BY <1>8, <4>1, <4>3
      <4>5. i \in from .. bottom - 1 => i + 1 \in 1 .. Len(a)
        BY <1>2, <1>8, <2>1
      <4> QED BY <2>2, <3>1, <4>4, <4>5 DEF Row
    <3>2. CASE i \notin 1 .. Len(a)
      <4>1. i \notin from .. bottom - 1 /\ i # bottom
        BY <1>2, <1>8, <2>1, <3>2
      <4> QED BY <2>2, <3>2, <4>1 DEF Row
    <3> QED BY <3>1, <3>2
  <2>4. ASSUME NEW i \in Int
        PROVE  Row(c, i) = IF i \in from .. bottom THEN FromBelow(b0, bottom, i + (n + 1))
                           ELSE Row(b0, i)
    <3>1. CASE i \in from .. bottom - 1
      <4>1. Row(c, i) = Row(a, i + 1) /\ i + 1 \in Int /\ i + 1 \in from .. bottom
        BY <2>3, <3>1, <1>8
      <4>2. Row(a, i + 1) = FromBelow(b0, bottom, (i + 1) + n)
        BY <2>1, <4>1
      <4>3. (i + 1) + n = i + (n + 1)
        OBVIOUS
      <4>4. i \in from .. bottom
        BY <1>8, <3>1
      <4> QED BY <4>1, <4>2, <4>3, <4>4
    <3>2. CASE i = bottom
      <4>1. Row(c, i) = <<>>
        BY <2>3, <3>2, <1>8
      <4>2. ~(i + (n + 1) <= bottom)
        BY <3>2
      <4> QED BY <4>1, <4>2, <3>2, <1>8 DEF FromBelow
    <3>3. CASE i \notin from .. bottom
      <4>1. Row(c, i) = Row(a, i)
        BY <2>3, <3>3, <1>8
      <4> QED BY <4>1, <2>1, <3>3
    <3> QED BY <1>8, <3>1, <3>2, <3>3
  <2>5. Row(b, from) = FromBelow(b0, bottom, from + n)
    <3>1. from \in 1 .. Len(a) + 1 /\ bottom + 1 \in 1 .. Len(a) + 1 /\ from < bottom + 1
          /\ from \in 1 .. Len(a)
      BY <1>2, <1>8, <2>1
    <3>2. b[from] = a[from]
      BY <1>3, <3>1
    <3>3. Row(b, from) = Row(a, from)
      BY <1>3, <3>1, <3>2 DEF Row
    <3>4. from \in from .. bottom /\ from \in Int
      BY <1>8
    <3> QED BY <2>1, <3>3, <3>4
  <2>6. ASSUME NEW j \in 1 .. Len(d)
        PROVE  d[j] = IF j <= Len(back) THEN back[j]
                      ELSE FromBelow(b0, bottom, from + j - Len(back) - 1)
    <3>1. CASE alt
      BY <1>2, <1>7, <3>1
    <3>2. CASE ~alt
      <4>0. Len(e) = Len(back) + n /\ Len(d) = Len(e) + 1
        BY <1>2, <1>5, <2>1, <3>2
      <4>1. d[j] = IF j <= Len(e) THEN e[j] ELSE Row(b, from)
        BY <1>6, <3>2, <4>0
      <4>2. CASE j <= Len(e)
        BY <1>2, <2>1, <4>1, <4>2
      <4>3. CASE ~(j <= Len(e))
        <5>1. from + n = from + j - Len(back) - 1 /\ ~(j <= Len(back))
          BY <1>2, <1>8, <4>0, <4>3
        <5> QED BY <2>5, <4>1, <4>3, <5>1
      <4> QED BY <4>2, <4>3
    <3> QED BY <3>1, <3>2
  <2> QED BY <1>2, <2>1, <2>2, <2>4, <2>6
<1>9. IsList(c)
  BY <1>4
<1> QED BY <1>1, <1>5, <1>7, <1>8, <1>9 DEF UpResult

LEMMA UpGives ==
    ASSUME NEW n \in Nat, NEW u, NEW from, IsList(Buf(u)), IsList(u.back), u.bottom \in Int
    PROVE  UpResult(Buf(u), u.back, u.alt, u.bottom, n, from, ScrolledUp(u, n, from))
<1> PICK h : Steps(h, n, "up", u, from, FALSE) /\ ScrolledUp(u, n, from) = h[n]
  BY UpSteps
<1> DEFINE b0 == Buf(u)
           back == u.back
           alt == u.alt
           bottom == u.bottom
           S == {k \in 0 .. n : ~UpResult(b0, back, alt, bottom, k, from, h[k])}
<1>0. IsList(b0) /\ IsList(back) /\ bottom \in Int
  OBVIOUS
<1>1. ASSUME S # {} PROVE FALSE
  <2>1. S \subseteq Nat
    OBVIOUS
  <2>2. PICK m \in S : \A k \in S : m <= k
    BY <1>1, <2>1, Least
  <2>3. m \in 0 .. n /\ ~UpResult(b0, back, alt, bottom, m, from, h[m])
    BY <2>2
  <2>4. h[m] = IF m = 0 THEN <<Pad(b0, bottom), back>> ELSE UpLine(alt, back, bottom, from, h[m - 1])
    BY <2>3 DEF Steps, Step, First, UpStep
  <2> HIDE DEF b0, back, alt, bottom
  <2>5. CASE m = 0
    BY <1>0, <2>3, <2>4, <2>5, UpStart
  <2>6. CASE m # 0
    <3>1. m - 1 \in 0 .. n /\ m - 1 \notin S /\ m - 1 \in Nat /\ (m - 1) + 1 = m
      BY <2>2, <2>3, <2>6
    <3>2. UpResult(b0, back, alt, bottom, m - 1, from, h[m - 1])
      BY <3>1
    <3>3. UpResult(b0, back, alt, bottom, (m - 1) + 1, from, UpLine(alt, back, bottom, from, h[m - 1]))
      BY <1>0, <3>1, <3>2, UpOnce
    <3> QED BY <2>3, <2>4, <2>6, <3>1, <3>3
  <2> QED BY <2>5, <2>6
<1>2. n \in 0 .. n
  OBVIOUS
<1> QED BY <1>1, <1>2

(* A line put in at p and the line at q taken out again: the rows between     *)
(* them move by one.                                                          *)
Slid(a, p, q, l, c) ==
    /\ IsList(c) /\ Len(c) = Len(a)
    /\ \A i \in Int :
          /\ p <= i /\ i < q => Row(c, i) = IF i = p THEN l ELSE Row(a, i - 1)
          /\ q <= i /\ i < p => Row(c, i) = IF i = p - 1 THEN l ELSE Row(a, i + 1)
          /\ ~(p <= i /\ i < q) /\ ~(q <= i /\ i < p) => Row(c, i) = Row(a, i)

LEMMA Slide ==
    ASSUME NEW a, IsList(a), NEW l, NEW p \in 1 .. Len(a) + 1, NEW q \in 1 .. Len(a) + 1
    PROVE  Slid(a, p, q, l, Drop(Put(a, p, l), q))
<1> DEFINE b == Put(a, p, l)
           c == Drop(b, q)
<1>1. Len(a) \in Nat /\ p \in Int /\ q \in Int
  BY ListHas
<1>2. /\ IsList(b) /\ Len(b) = Len(a) + 1
      /\ \A j \in 1 .. Len(a) + 1 : b[j] = IF j < p THEN a[j] ELSE IF j = p THEN l ELSE a[j - 1]
  BY <1>1, PutGives
<1> HIDE DEF b
<1>3. /\ IsList(c) /\ Len(c) = Len(a)
      /\ \A j \in 1 .. Len(a) : c[j] = IF j < q THEN b[j] ELSE b[j + 1]
  <2>1. q \in 1 .. Len(b) /\ Len(b) - 1 = Len(a)
    BY <1>1, <1>2
  <2>2. /\ IsList(c) /\ Len(c) = Len(b) - 1
        /\ \A j \in 1 .. Len(b) - 1 : c[j] = IF j < q THEN b[j] ELSE b[j + 1]
    BY <1>2, <2>1, DropGives
  <2> QED BY <2>1, <2>2
<1> HIDE DEF c
<1>4. ASSUME NEW i \in Int
      PROVE  /\ p <= i /\ i < q => Row(c, i) = IF i = p THEN l ELSE Row(a, i - 1)
             /\ q <= i /\ i < p => Row(c, i) = IF i = p - 1 THEN l ELSE Row(a, i + 1)
             /\ ~(p <= i /\ i < q) /\ ~(q <= i /\ i < p) => Row(c, i) = Row(a, i)
  <2>1. CASE i \in 1 .. Len(a)
    <3>1. c[i] = IF i < q THEN b[i] ELSE b[i + 1]
      BY <1>3, <2>1
    <3>2. i \in 1 .. Len(a) + 1 /\ i + 1 \in 1 .. Len(a) + 1
      BY <1>1, <2>1
    <3>3. b[i] = IF i < p THEN a[i] ELSE IF i = p THEN l ELSE a[i - 1]
      BY <1>2, <3>2
    <3>4. b[i + 1] = IF i + 1 < p THEN a[i + 1] ELSE IF i + 1 = p THEN l ELSE a[i]
      <4>1. (i + 1) - 1 = i
        OBVIOUS
      <4> QED BY <1>2, <3>2, <4>1
    <3>5. Row(c, i) = c[i] /\ Row(a, i) = a[i]
      BY <1>3, <2>1 DEF Row
    <3>6. ASSUME p <= i, i < q PROVE Row(c, i) = IF i = p THEN l ELSE Row(a, i - 1)
      <4>1. i # p => i - 1 \in 1 .. Len(a)
        BY <1>1, <2>1, <3>6
      <4>2. c[i] = IF i = p THEN l ELSE a[i - 1]
        BY <1>1, <3>1, <3>3, <3>6
      <4> QED BY <3>5, <4>1, <4>2 DEF Row
    <3>7. ASSUME q <= i, i < p PROVE Row(c, i) = IF i = p - 1 THEN l ELSE Row(a, i + 1)
      <4>1. i # p - 1 => i + 1 \in 1 .. Len(a)
        BY <1>1, <2>1, <3>7
      <4>2. c[i] = IF i = p - 1 THEN l ELSE a[i + 1]
        <5>1. ~(i < q) /\ (i + 1 = p <=> i = p - 1) /\ (i # p - 1 => i + 1 < p)
          BY <1>1, <3>7
        <5> QED BY <3>1, <3>4, <5>1
      <4> QED BY <3>5, <4>1, <4>2 DEF Row
    <3>8. ASSUME ~(p <= i /\ i < q), ~(q <= i /\ i < p) PROVE Row(c, i) = Row(a, i)
      <4>1. CASE i < q
        BY <1>1, <3>1, <3>3, <3>5, <3>8, <4>1
      <4>2. CASE ~(i < q)
        <5>1. ~(i + 1 < p) /\ i + 1 # p
          BY <1>1, <3>8, <4>2
        <5> QED BY <3>1, <3>4, <3>5, <4>2, <5>1
      <4> QED BY <4>1, <4>2
    <3> QED BY <3>6, <3>7, <3>8
  <2>2. CASE i \notin 1 .. Len(a)
    <3>1. ~(p <= i /\ i < q) /\ ~(q <= i /\ i < p)
      BY <1>1, <2>2
    <3> QED BY <1>3, <2>2, <3>1 DEF Row
  <2> QED BY <2>1, <2>2
<1>5. Slid(a, p, q, l, c)
  BY <1>3, <1>4 DEF Slid
<1> QED BY <1>5 DEF c, b

(* After n lines down from row into: every list is a list and the history     *)
(* lacks its last n lines, if it lent any; the rows of the region, which ends *)
(* with the lines there are, come from n rows above and from the history.     *)
Lent(back, alt, history) == IF history /\ ~alt THEN back ELSE <<>>
FromEnd(s, k) == Row(s, Len(s) + 1 - k)
FromAbove(b0, into, lent, i) == IF i >= into THEN Row(b0, i) ELSE FromEnd(lent, into - i)

Less(back, n, r) ==
    /\ Len(r) = IF n > Len(back) THEN 0 ELSE Len(back) - n
    /\ \A j \in 1 .. Len(r) : r[j] = back[j]

DownResult(b0, back, alt, bottom, n, into, history, r) ==
    /\ IsList(r[1]) /\ IsList(r[2]) /\ Len(r[2]) <= Len(back)
    /\ ~(history /\ ~alt) => r[2] = back
    /\ history /\ ~alt => Less(back, n, r[2])
    /\ into \in 1 .. bottom =>
          /\ Len(r[1]) = Len(b0)
          /\ \A i \in Int : Row(r[1], i) = IF i \in into .. AtMost(bottom, Len(b0))
                                           THEN FromAbove(b0, into, Lent(back, alt, history), i - n)
                                           ELSE Row(b0, i)

LEMMA DownStart ==
    ASSUME NEW b0, NEW back, NEW alt, NEW bottom \in Int, NEW into \in Int, NEW history,
           IsList(b0), IsList(back)
    PROVE  DownResult(b0, back, alt, bottom, 0, into, history, <<b0, back>>)
<1> DEFINE r == <<b0, back>>
           lent == Lent(back, alt, history)
           end == AtMost(bottom, Len(b0))
<1>1. r[1] = b0 /\ r[2] = back
  OBVIOUS
<1> HIDE DEF r, lent, end
<1>2. Len(back) \in Nat
  BY ListHas
<1>3. \A i \in Int : i - 0 = i /\ (i \in into .. end => i >= into)
  BY SMT
<1>4. \A i \in Int : Row(b0, i) = IF i \in into .. end THEN FromAbove(b0, into, lent, i - 0)
                                  ELSE Row(b0, i)
  BY <1>3 DEF FromAbove
<1>5. Less(back, 0, back)
  BY <1>2 DEF Less
<1>6. DownResult(b0, back, alt, bottom, 0, into, history, r)
  BY <1>1, <1>2, <1>4, <1>5 DEF DownResult, lent, end
<1> QED BY <1>6 DEF r

(* What the next line down takes of the history.                              *)
LEMMA NextLent ==
    ASSUME NEW n \in Nat, NEW back, IsList(back), NEW e, IsList(e), Less(back, n, e)
    PROVE  /\ e # <<>> => /\ IsList(Front(e)) /\ Less(back, n + 1, Front(e))
                         /\ Last(e) = FromEnd(back, n + 1)
           /\ e = <<>> => Less(back, n + 1, e) /\ FromEnd(back, n + 1) = <<>>
           /\ Len(back) \in Nat /\ Len(e) \in Nat
<1>1. Len(back) \in Nat /\ Len(e) \in Nat
  BY ListHas
<1>2. Len(e) = IF n > Len(back) THEN 0 ELSE Len(back) - n
  BY DEF Less
<1>3. (Len(back) + 1) - (n + 1) = Len(back) - n
  BY <1>1
<1>4. CASE e # <<>>
  <2> DEFINE m == Len(e) - 1
             f == SubSeq(e, 1, m)
  <2>1. Len(e) >= 1
    <3>1. e \in Seq(Range(e))
      BY DEF IsList
    <3> QED BY <1>1, <1>4, <3>1, EmptySeq
  <2>2. m \in Nat /\ m <= Len(e) /\ Len(e) = Len(back) - n /\ Len(e) \in 1 .. Len(back)
    BY <1>1, <1>2, <2>1
  <2>3. Front(e) = f /\ Last(e) = e[Len(e)]
    BY DEF Front, Last
  <2> HIDE DEF m
  <2>4. IsList(f) /\ Len(f) = m /\ \A i \in 1 .. m : f[i] = e[i]
    <3>1. /\ IsList(f) /\ Len(f) = IF 1 <= m THEN m - 1 + 1 ELSE 0
          /\ \A i \in 1 .. m - 1 + 1 : f[i] = e[1 + i - 1]
      BY <2>2, PartGives
    <3> HIDE DEF f
    <3>2. m - 1 + 1 = m /\ \A i \in 1 .. m : 1 + i - 1 = i
      BY <2>2
    <3> QED BY <2>2, <3>1, <3>2
  <2> HIDE DEF f
  <2>5. m = IF n + 1 > Len(back) THEN 0 ELSE Len(back) - (n + 1)
    BY <1>1, <1>2, <2>2 DEF m
  <2>6. \A j \in 1 .. m : f[j] = back[j]
    BY <1>1, <2>2, <2>4 DEF Less
  <2>7. e[Len(e)] = back[Len(back) - n]
    BY <2>2 DEF Less
  <2>8. Last(e) = FromEnd(back, n + 1)
    BY <1>1, <1>3, <2>2, <2>3, <2>7 DEF FromEnd, Row
  <2> QED BY <1>1, <1>4, <2>3, <2>4, <2>5, <2>6, <2>8 DEF Less
<1>5. CASE e = <<>>
  <2>1. Len(e) = 0
    BY <1>5
  <2>2. n >= Len(back)
    BY <1>1, <1>2, <2>1
  <2>3. Less(back, n + 1, e)
    BY <1>1, <2>1, <2>2 DEF Less
  <2>4. Len(back) - n \notin 1 .. Len(back)
    BY <1>1, <2>2
  <2> QED BY <1>1, <1>3, <1>5, <2>3, <2>4 DEF FromEnd, Row
<1> QED BY <1>1, <1>4, <1>5

LEMMA DownOnce ==
    ASSUME NEW n \in Nat, NEW b0, NEW back, NEW alt, NEW bottom \in Int, NEW into \in Int,
           NEW history, IsList(b0), IsList(back),
           NEW r, DownResult(b0, back, alt, bottom, n, into, history, r)
    PROVE  DownResult(b0, back, alt, bottom, n + 1, into, history,
                      DownLine(alt, bottom, into, history, r))
<1> DEFINE a == r[1]
           e == r[2]
           lends == history /\ ~alt
           taken == history /\ ~alt /\ e # <<>>
           l == IF taken THEN Last(e) ELSE <<>>
           b == Put(a, into, l)
           out == IF bottom >= Len(b) THEN Len(b) ELSE bottom + 1
           c == Drop(b, out)
           d == IF taken THEN Front(e) ELSE e
           q == DownLine(alt, bottom, into, history, r)
           lent == Lent(back, alt, history)
           end == AtMost(bottom, Len(b0))
<1>1. q[1] = c /\ q[2] = d
  BY DEF DownLine
<1>2. IsList(a) /\ Len(a) \in Nat /\ IsList(e) /\ Len(e) \in Nat /\ Len(back) \in Nat
  BY ListHas DEF DownResult
<1>3. Len(e) <= Len(back) /\ (~lends => e = back) /\ (lends => Less(back, n, e))
  BY DEF DownResult
<1>4. /\ IsList(d) /\ Len(d) <= Len(back) /\ (~lends => d = back)
      /\ lends => Less(back, n + 1, d)
      /\ l = FromEnd(lent, n + 1)
  <2> HIDE DEF e
  <2>1. CASE lends
    <3>0. lent = back
      BY <2>1 DEF Lent
    <3>1. Less(back, n, e)
      BY <1>3, <2>1
    <3>2. /\ e # <<>> => /\ IsList(Front(e)) /\ Less(back, n + 1, Front(e))
                        /\ Last(e) = FromEnd(back, n + 1)
          /\ e = <<>> => Less(back, n + 1, e) /\ FromEnd(back, n + 1) = <<>>
      BY <1>2, <3>1, NextLent
    <3>3. IsList(d) /\ Less(back, n + 1, d) /\ l = FromEnd(back, n + 1)
      BY <1>2, <2>1, <3>2
    <3> HIDE DEF d
    <3>4. Len(d) <= Len(back)
      BY <1>2, <3>3 DEF Less
    <3> HIDE DEF l, lent
    <3> QED BY <2>1, <3>0, <3>3, <3>4
  <2>2. CASE ~lends
    <3>1. lent = <<>> /\ l = <<>> /\ d = e
      BY <2>2 DEF Lent
    <3>2. FromEnd(lent, n + 1) = <<>>
      BY <3>1 DEF FromEnd, Row
    <3> HIDE DEF lent, l, d
    <3> QED BY <1>2, <1>3, <2>2, <3>1, <3>2
  <2> QED BY <2>1, <2>2
<1>5. IsList(b) /\ Len(b) = Len(a) + 1
  <2> HIDE DEF a, l
  <2> QED BY <1>2, PutGives
<1>6. IsList(c)
  <2> HIDE DEF b, out
  <2> QED BY <1>5, DropGives
<1>7. ASSUME into \in 1 .. bottom
      PROVE  /\ Len(c) = Len(b0)
             /\ \A i \in Int : Row(c, i) = IF i \in into .. end
                                           THEN FromAbove(b0, into, lent, i - (n + 1))
                                           ELSE Row(b0, i)
  <2>1. /\ Len(a) = Len(b0)
        /\ \A i \in Int : Row(a, i) = IF i \in into .. end THEN FromAbove(b0, into, lent, i - n)
                                      ELSE Row(b0, i)
    BY <1>7 DEF DownResult
  <2> HIDE DEF a, l
  <2> DEFINE p == Bound(into, 1, Len(a) + 1)
  <2>2. p \in 1 .. Len(a) + 1 /\ p = IF into <= Len(a) + 1 THEN into ELSE Len(a) + 1
    BY <1>2, <1>7 DEF Bound
  <2>3. out = end + 1 /\ out \in 1 .. Len(a) + 1 /\ p <= out /\ (p < out <=> into <= end)
        /\ (into <= end => p = into)
    <3> HIDE DEF b, p
    <3> QED BY <1>2, <1>5, <1>7, <2>1, <2>2 DEF AtMost
  <2>4. b = Put(a, p, l)
    <3>1. Bound(p, 1, Len(a) + 1) = p
      BY <2>2 DEF Bound
    <3> QED BY <3>1 DEF Put
  <2> HIDE DEF p, b, out
  <2>5. /\ IsList(c) /\ Len(c) = Len(a)
        /\ \A i \in Int :
              /\ p <= i /\ i < out => Row(c, i) = IF i = p THEN l ELSE Row(a, i - 1)
              /\ ~(p <= i /\ i < out) /\ ~(out <= i /\ i < p) => Row(c, i) = Row(a, i)
    <3>1. p \in 1 .. Len(a) + 1 /\ out \in 1 .. Len(a) + 1 /\ IsList(a)
      BY <1>2, <2>2, <2>3
    <3>2. Slid(a, p, out, l, c)
      BY <2>4, <3>1, Slide
    <3> HIDE DEF c
    <3> QED BY <3>2 DEF Slid
  <2> HIDE DEF c, end, lent
  <2>6. end \in Int
    BY <1>2, <2>1 DEF end, AtMost
  <2>7. ASSUME NEW i \in Int
        PROVE  Row(c, i) = IF i \in into .. end THEN FromAbove(b0, into, lent, i - (n + 1))
                           ELSE Row(b0, i)
    <3>1. CASE i \in into + 1 .. end
      <4>1. p <= i /\ i < out /\ i # p /\ i - 1 \in Int /\ i - 1 \in into .. end
        BY <2>3, <2>6, <3>1, <1>7
      <4>2. Row(c, i) = Row(a, i - 1)
        BY <2>5, <4>1
      <4>3. Row(a, i - 1) = FromAbove(b0, into, lent, (i - 1) - n)
        BY <2>1, <4>1
      <4>4. (i - 1) - n = i - (n + 1)
        OBVIOUS
      <4>5. i \in into .. end
        BY <1>7, <2>6, <3>1
      <4> QED BY <4>2, <4>3, <4>4, <4>5
    <3>2. CASE i = into /\ into <= end
      <4>1. p <= i /\ i < out /\ i = p
        BY <2>3, <2>6, <3>2, <1>7
      <4>2. Row(c, i) = l
        BY <2>5, <4>1
      <4>3. ~(i - (n + 1) >= into) /\ into - (i - (n + 1)) = n + 1 /\ i \in into .. end
        BY <2>6, <3>2
      <4> QED BY <1>4, <4>2, <4>3 DEF FromAbove
    <3>3. CASE i \notin into .. end
      <4>1. ~(p <= i /\ i < out) /\ ~(out <= i /\ i < p)
        BY <1>2, <1>7, <2>1, <2>2, <2>3, <2>6, <3>3
      <4>2. Row(c, i) = Row(a, i)
        BY <2>5, <4>1
      <4> QED BY <4>2, <2>1, <3>3
    <3>4. i \in into + 1 .. end \/ (i = into /\ into <= end) \/ i \notin into .. end
      BY <1>7, <2>6
    <3> QED BY <3>1, <3>2, <3>3, <3>4
  <2> QED BY <2>1, <2>5, <2>7
<1> HIDE DEF q, c, d, end, lent
<1>8. DownResult(b0, back, alt, bottom, n + 1, into, history, q)
  BY <1>1, <1>4, <1>6, <1>7 DEF DownResult, end, lent
<1> QED BY <1>8 DEF q

LEMMA DownGives ==
    ASSUME NEW n \in Nat, NEW u, NEW into \in Int, NEW history,
           IsList(Buf(u)), IsList(u.back), u.bottom \in Int
    PROVE  DownResult(Buf(u), u.back, u.alt, u.bottom, n, into, history,
                      ScrolledDown(u, n, into, history))
<1> PICK h : Steps(h, n, "down", u, into, history) /\ ScrolledDown(u, n, into, history) = h[n]
  BY DownSteps
<1> DEFINE b0 == Buf(u)
           back == u.back
           alt == u.alt
           bottom == u.bottom
           S == {k \in 0 .. n : ~DownResult(b0, back, alt, bottom, k, into, history, h[k])}
<1>0. IsList(b0) /\ IsList(back) /\ bottom \in Int
  OBVIOUS
<1>1. ASSUME S # {} PROVE FALSE
  <2>1. S \subseteq Nat
    OBVIOUS
  <2>2. PICK m \in S : \A k \in S : m <= k
    BY <1>1, <2>1, Least
  <2>3. m \in 0 .. n /\ ~DownResult(b0, back, alt, bottom, m, into, history, h[m])
    BY <2>2
  <2>4. h[m] = IF m = 0 THEN <<b0, back>> ELSE DownLine(alt, bottom, into, history, h[m - 1])
    BY <2>3 DEF Steps, Step, First, DownStep
  <2> HIDE DEF b0, back, alt, bottom
  <2>5. CASE m = 0
    BY <1>0, <2>3, <2>4, <2>5, DownStart
  <2>6. CASE m # 0
    <3>1. m - 1 \in 0 .. n /\ m - 1 \notin S /\ m - 1 \in Nat /\ (m - 1) + 1 = m
      BY <2>2, <2>3, <2>6
    <3>2. DownResult(b0, back, alt, bottom, m - 1, into, history, h[m - 1])
      BY <3>1
    <3>3. DownResult(b0, back, alt, bottom, (m - 1) + 1, into, history,
                     DownLine(alt, bottom, into, history, h[m - 1]))
      BY <1>0, <3>1, <3>2, DownOnce
    <3> QED BY <2>3, <2>4, <2>6, <3>1, <3>3
  <2> QED BY <2>5, <2>6
<1>2. n \in 0 .. n
  OBVIOUS
<1> QED BY <1>1, <1>2
--------------------------------------------------------------------------------
(* The whole record: the lines of both screens and of the history are lists,  *)
(* the history has its limit, and the selection and the view are in bounds.   *)

Depth(u) == Len(u.back)

Spot(a) == a.x \in Int /\ a.y \in Int
Rows(s) == s = NoSelection \/ \E a, b \in Int : s = <<a, b>> /\ 1 <= a

Frame(u) ==
    /\ Shape(u)
    /\ IsList(u.main) /\ IsList(u.altBuf) /\ IsList(u.back) /\ Depth(u) <= BackLimit
    /\ u.top \in Int /\ u.bottom \in Nat
    /\ Spot(u.at) /\ Spot(u.saved) /\ Spot(u.savedAlt)
    /\ u.scroll \in Nat /\ Rows(u.sel)

Chosen(u, p) == "shrunk" \notin p => u.sel = NoSelection \/ u.sel[2] <= u.h
Viewed(u, p) == "taken" \notin p => u.scroll <= Depth(u) /\ (u.alt => u.scroll = 0)

Whole(u, p) == Frame(u) /\ Chosen(u, p) /\ Viewed(u, p)

LEMMA WholeFrame ==
    ASSUME NEW u, Frame(u)
    PROVE  /\ IsList(u.main) /\ IsList(u.altBuf) /\ IsList(u.back) /\ IsList(Buf(u))
           /\ Depth(u) \in Nat /\ BackLimit \in Nat /\ Shape(u)
BY ListHas, LimitAssumption DEF Frame, Buf, Depth

LEMMA WholeAt ==
    ASSUME NEW u, NEW p, NEW a, DOMAIN a = AtFields, Spot(a)
    PROVE  /\ Frame(u) => Frame([u EXCEPT !.at = a])
           /\ Chosen(u, p) /\ Frame(u) => Chosen([u EXCEPT !.at = a], p)
           /\ Viewed(u, p) /\ Frame(u) => Viewed([u EXCEPT !.at = a], p)
           /\ Whole(u, p) => Whole([u EXCEPT !.at = a], p)
<1> DEFINE v == [u EXCEPT !.at = a]
<1> SUFFICES ASSUME Frame(u)
             PROVE  Frame(v) /\ (Chosen(u, p) => Chosen(v, p)) /\ (Viewed(u, p) => Viewed(v, p))
  BY DEF Whole
<1>1. /\ DOMAIN v = Fields /\ v.at = a /\ v.saved = u.saved /\ v.savedAlt = u.savedAlt
      /\ v.w = u.w /\ v.h = u.h /\ v.top = u.top /\ v.bottom = u.bottom /\ v.alt = u.alt
      /\ v.main = u.main /\ v.altBuf = u.altBuf /\ v.back = u.back /\ v.scroll = u.scroll
      /\ v.sel = u.sel
  BY DEF Frame, Shape, Fields
<1> HIDE DEF v
<1> QED BY <1>1 DEF Frame, Shape, Chosen, Viewed, Depth

LEMMA WholeSel ==
    ASSUME NEW u, NEW p, NEW s, Rows(s), Frame(u)
    PROVE  /\ Frame([u EXCEPT !.sel = s])
           /\ ("shrunk" \notin p => s = NoSelection \/ s[2] <= u.h)
                 => Chosen([u EXCEPT !.sel = s], p)
           /\ Viewed(u, p) => Viewed([u EXCEPT !.sel = s], p)
<1> DEFINE v == [u EXCEPT !.sel = s]
<1>1. /\ DOMAIN v = Fields /\ v.at = u.at /\ v.saved = u.saved /\ v.savedAlt = u.savedAlt
      /\ v.w = u.w /\ v.h = u.h /\ v.top = u.top /\ v.bottom = u.bottom /\ v.alt = u.alt
      /\ v.main = u.main /\ v.altBuf = u.altBuf /\ v.back = u.back /\ v.scroll = u.scroll
      /\ v.sel = s
  BY DEF Frame, Shape, Fields
<1> HIDE DEF v
<1>2. Frame(v)
  BY <1>1 DEF Frame, Shape, Depth
<1>3. ("shrunk" \notin p => s = NoSelection \/ s[2] <= u.h) => Chosen(v, p)
  BY <1>1 DEF Chosen
<1>4. Viewed(u, p) => Viewed(v, p)
  BY <1>1 DEF Viewed, Depth
<1> QED BY <1>2, <1>3, <1>4 DEF v

LEMMA WholeScroll ==
    ASSUME NEW u, NEW p, NEW s \in Nat, Frame(u)
    PROVE  LET v == [u EXCEPT !.scroll = s]
           IN  /\ Frame(v) /\ (Chosen(u, p) => Chosen(v, p))
               /\ ("taken" \notin p => s <= Depth(u) /\ (u.alt => s = 0)) => Viewed(v, p)
               /\ v.scroll = s /\ v.alt = u.alt /\ v.back = u.back /\ v.h = u.h /\ v.sel = u.sel
<1> DEFINE v == [u EXCEPT !.scroll = s]
<1>1. /\ DOMAIN v = Fields /\ v.at = u.at /\ v.saved = u.saved /\ v.savedAlt = u.savedAlt
      /\ v.w = u.w /\ v.h = u.h /\ v.top = u.top /\ v.bottom = u.bottom /\ v.alt = u.alt
      /\ v.main = u.main /\ v.altBuf = u.altBuf /\ v.back = u.back /\ v.scroll = s
      /\ v.sel = u.sel
  BY DEF Frame, Shape, Fields
<1> HIDE DEF v
<1>2. Frame(v) /\ (Chosen(u, p) => Chosen(v, p))
  BY <1>1 DEF Frame, Shape, Depth, Chosen
<1>3. ("taken" \notin p => s <= Depth(u) /\ (u.alt => s = 0)) => Viewed(v, p)
  BY <1>1 DEF Viewed, Depth
<1> QED BY <1>1, <1>2, <1>3 DEF v

LEMMA WholeBuf ==
    ASSUME NEW u, NEW p, NEW b, IsList(b), Frame(u)
    PROVE  LET v == SetBuf(u, b)
           IN  /\ Frame(v) /\ (Chosen(u, p) => Chosen(v, p)) /\ (Viewed(u, p) => Viewed(v, p))
               /\ v.alt = u.alt /\ v.back = u.back /\ v.scroll = u.scroll /\ v.h = u.h
               /\ v.sel = u.sel /\ v.bottom = u.bottom /\ v.top = u.top
               /\ Buf(v) = b
<1> DEFINE v == SetBuf(u, b)
<1>1. /\ DOMAIN v = Fields /\ v.at = u.at /\ v.saved = u.saved /\ v.savedAlt = u.savedAlt
      /\ v.w = u.w /\ v.h = u.h /\ v.top = u.top /\ v.bottom = u.bottom /\ v.alt = u.alt
      /\ v.back = u.back /\ v.scroll = u.scroll /\ v.sel = u.sel
  <2>1. CASE u.alt
    BY <2>1 DEF SetBuf, Frame, Shape, Fields
  <2>2. CASE ~u.alt
    BY <2>2 DEF SetBuf, Frame, Shape, Fields
  <2> QED BY <2>1, <2>2
<1>2. /\ u.alt => v.main = u.main /\ v.altBuf = b
      /\ ~u.alt => v.main = b /\ v.altBuf = u.altBuf
  <2>1. CASE u.alt
    BY <2>1 DEF SetBuf, Frame, Shape, Fields
  <2>2. CASE ~u.alt
    BY <2>2 DEF SetBuf, Frame, Shape, Fields
  <2> QED BY <2>1, <2>2
<1> HIDE DEF v
<1>3. IsList(v.main) /\ IsList(v.altBuf) /\ Buf(v) = b
  BY <1>1, <1>2 DEF Frame, Buf
<1>4. Frame(v) /\ (Chosen(u, p) => Chosen(v, p))
  BY <1>1, <1>3 DEF Frame, Shape, Depth, Chosen
<1>5. Viewed(u, p) => Viewed(v, p)
  BY <1>1 DEF Viewed, Depth
<1> QED BY <1>1, <1>3, <1>4, <1>5 DEF v

LEMMA WholeBack ==
    ASSUME NEW u, NEW p, NEW b, IsList(b), Len(b) <= BackLimit, Frame(u)
    PROVE  LET v == [u EXCEPT !.back = b]
           IN  /\ Frame(v) /\ (Chosen(u, p) => Chosen(v, p))
               /\ v.alt = u.alt /\ v.back = b /\ v.scroll = u.scroll /\ v.h = u.h
               /\ v.sel = u.sel /\ Buf(v) = Buf(u)
               /\ v.main = u.main /\ v.altBuf = u.altBuf
<1> DEFINE v == [u EXCEPT !.back = b]
<1>1. /\ DOMAIN v = Fields /\ v.at = u.at /\ v.saved = u.saved /\ v.savedAlt = u.savedAlt
      /\ v.w = u.w /\ v.h = u.h /\ v.top = u.top /\ v.bottom = u.bottom /\ v.alt = u.alt
      /\ v.main = u.main /\ v.altBuf = u.altBuf /\ v.back = b /\ v.scroll = u.scroll
      /\ v.sel = u.sel
  BY DEF Frame, Shape, Fields
<1> HIDE DEF v
<1>2. Frame(v) /\ (Chosen(u, p) => Chosen(v, p))
  BY <1>1 DEF Frame, Shape, Depth, Chosen
<1> QED BY <1>1, <1>2 DEF v, Buf

(* What none of the parts depends on.                                         *)
LEMMA WholeRest ==
    ASSUME NEW u, NEW v, NEW x, Frame(u),
           v = [u EXCEPT !.tabs = x] \/ v = [u EXCEPT !.replace = x] \/ v = [u EXCEPT !.newline = x]
    PROVE  Frame(v) /\ \A p : (Chosen(u, p) => Chosen(v, p)) /\ (Viewed(u, p) => Viewed(v, p))
<1>1. /\ DOMAIN v = Fields /\ v.at = u.at /\ v.saved = u.saved /\ v.savedAlt = u.savedAlt
      /\ v.w = u.w /\ v.h = u.h /\ v.top = u.top /\ v.bottom = u.bottom /\ v.alt = u.alt
      /\ v.main = u.main /\ v.altBuf = u.altBuf /\ v.back = u.back /\ v.scroll = u.scroll
      /\ v.sel = u.sel
  BY DEF Frame, Shape, Fields
<1>2. Frame(v)
  BY <1>1 DEF Frame, Shape, Depth
<1>3. ASSUME NEW p PROVE (Chosen(u, p) => Chosen(v, p)) /\ (Viewed(u, p) => Viewed(v, p))
  BY <1>1 DEF Chosen, Viewed, Depth
<1> QED BY <1>2, <1>3

Fine(u, v, p) ==
    Frame(v) /\ (Chosen(u, p) => Chosen(v, p)) /\ (Viewed(u, p) => Viewed(v, p))
SameView(u, v) == v.scroll = u.scroll /\ v.alt = u.alt /\ v.back = u.back

LEMMA FineTrans ==
    ASSUME NEW u, NEW v, NEW w, NEW p, Fine(u, v, p), Fine(v, w, p)
    PROVE  Fine(u, w, p)
BY DEF Fine

LEMMA FineSelf == ASSUME NEW u, NEW p, Frame(u) PROVE Fine(u, u, p)
BY DEF Fine

LEMMA FineWhole == ASSUME NEW u, NEW v, NEW p, Whole(u, p), Fine(u, v, p) PROVE Whole(v, p)
BY DEF Fine, Whole

LEMMA CursorFine ==
    ASSUME NEW u, NEW p, NEW x, NEW y, Frame(u)
    PROVE  Fine(u, setCursorPos(u, x, y), p) /\ SameView(u, setCursorPos(u, x, y))
<1> DEFINE a == [u.at EXCEPT !.x = Bound(x, 1, u.w + 1),
                             !.y = IF u.at.origin THEN Bound(y, u.top, u.bottom)
                                                  ELSE Bound(y, 1, u.h)]
           v == [u EXCEPT !.at = a]
<1>1. CASE x = u.at.x /\ y = u.at.y
  BY <1>1, FineSelf DEF setCursorPos, SameView
<1>2. CASE ~(x = u.at.x /\ y = u.at.y)
  <2>1. setCursorPos(u, x, y) = v
    BY <1>2 DEF setCursorPos, Frame, Shape, Fields, AtFields
  <2>2. /\ DOMAIN a = AtFields /\ a.x = Bound(x, 1, u.w + 1)
        /\ a.y = IF u.at.origin THEN Bound(y, u.top, u.bottom) ELSE Bound(y, 1, u.h)
    BY DEF Frame, Shape, AtFields
  <2> HIDE DEF a
  <2>3. u.w + 1 \in Int /\ u.h \in Int /\ u.top \in Int /\ u.bottom \in Int
    BY DEF Frame, Shape
  <2>4. ASSUME NEW n, NEW lo \in Int, NEW hi \in Int PROVE Bound(n, lo, hi) \in Int
    BY DEF Bound
  <2>5. Spot(a)
    BY <2>2, <2>3, <2>4 DEF Spot
  <2>6. Fine(u, v, p)
    BY <2>2, <2>5, WholeAt DEF Fine
  <2>7. SameView(u, v)
    BY DEF SameView, Frame, Shape, Fields
  <2> HIDE DEF v
  <2> QED BY <2>1, <2>6, <2>7
<1> QED BY <1>1, <1>2

LEMMA AdjustGives ==
    ASSUME NEW u, NEW n \in Int, Frame(u)
    PROVE  \/ adjustSelectionPosition(u, n) = u
           \/ \E s : /\ Rows(s) /\ (s = NoSelection \/ s[2] <= u.h)
                     /\ adjustSelectionPosition(u, n) = [u EXCEPT !.sel = s]
<1>1. CASE u.sel = NoSelection \/ n = 0
  BY <1>1 DEF adjustSelectionPosition
<1>2. CASE ~(u.sel = NoSelection \/ n = 0)
  <2> PICK c \in Int, d \in Int : u.sel = <<c, d>> /\ 1 <= c
    BY <1>2 DEF Frame, Rows
  <2> DEFINE a == IF c + n < 1 THEN 1 ELSE c + n
             b == IF d + n > u.h THEN u.h ELSE d + n
  <2>1. u.h \in Int
    BY DEF Frame, Shape
  <2>2. u.sel[1] = c /\ u.sel[2] = d
    OBVIOUS
  <2>3. adjustSelectionPosition(u, n) = IF b < 1 \/ a > u.h THEN clearSelection(u)
                                        ELSE [u EXCEPT !.sel = <<a, b>>]
    BY <1>2, <2>2 DEF adjustSelectionPosition
  <2>4. a \in Int /\ b \in Int /\ 1 <= a /\ b <= u.h
    BY <2>1
  <2> HIDE DEF a, b
  <2>5. Rows(<<a, b>>) /\ <<a, b>>[2] <= u.h /\ Rows(NoSelection)
    BY <2>4 DEF Rows
  <2>6. CASE b < 1 \/ a > u.h
    BY <2>3, <2>5, <2>6 DEF clearSelection
  <2>7. CASE ~(b < 1 \/ a > u.h)
    <3> DEFINE s == <<a, b>>
    <3>1. adjustSelectionPosition(u, n) = [u EXCEPT !.sel = s] /\ Rows(s) /\ s[2] <= u.h
      BY <2>3, <2>5, <2>7
    <3> HIDE DEF s
    <3> QED BY <3>1
  <2> QED BY <2>6, <2>7
<1> QED BY <1>1, <1>2

(* What moving the selection leaves alone.                                    *)
Still(u, v) ==
    /\ SameView(u, v) /\ v.main = u.main /\ v.altBuf = u.altBuf /\ Buf(v) = Buf(u)
    /\ v.h = u.h /\ v.top = u.top /\ v.bottom = u.bottom

LEMMA SelectionFine ==
    ASSUME NEW u, NEW p, NEW n \in Int, Frame(u)
    PROVE  /\ Fine(u, clearSelection(u), p) /\ Still(u, clearSelection(u))
           /\ Chosen(clearSelection(u), p)
           /\ Fine(u, adjustSelectionPosition(u, n), p)
           /\ Still(u, adjustSelectionPosition(u, n))
<1>1. ASSUME NEW s PROVE Still(u, [u EXCEPT !.sel = s])
  BY DEF Still, SameView, Frame, Shape, Fields, Buf
<1>2. ASSUME NEW s, Rows(s), s = NoSelection \/ s[2] <= u.h
      PROVE  Fine(u, [u EXCEPT !.sel = s], p) /\ Chosen([u EXCEPT !.sel = s], p)
  BY <1>2, WholeSel DEF Fine
<1>3. Rows(NoSelection)
  BY DEF Rows
<1>4. Still(u, u)
  BY DEF Still, SameView
<1>5. /\ Fine(u, clearSelection(u), p) /\ Still(u, clearSelection(u))
      /\ Chosen(clearSelection(u), p)
  BY <1>1, <1>2, <1>3 DEF clearSelection
<1>6. Fine(u, adjustSelectionPosition(u, n), p) /\ Still(u, adjustSelectionPosition(u, n))
  BY <1>1, <1>2, <1>4, AdjustGives, FineSelf
<1> QED BY <1>5, <1>6

LEMMA ViewFine ==
    ASSUME NEW u, NEW p, NEW n \in Int, Frame(u)
    PROVE  /\ Fine(u, scrollBackBufferFwd(u, n), p)
           /\ Fine(u, scrollBackBufferBack(u, n), p)
           /\ Fine(u, resetBackBufferScrollPos(u), p)
           /\ LET v == resetBackBufferScrollPos(u)
              IN  /\ v.scroll = 0 /\ v.alt = u.alt /\ v.back = u.back /\ v.main = u.main
                  /\ Viewed(v, p)
<1>0. u.scroll \in Nat /\ Depth(u) \in Nat /\ u.alt \in BOOLEAN
  BY WholeFrame DEF Frame, Shape
<1>1. ASSUME NEW s \in Nat, NEW m \in Int,
             "taken" \notin p => (Viewed(u, p) => s <= Depth(u) /\ (u.alt => s = 0))
      PROVE  LET v == [u EXCEPT !.scroll = s]
                 w == adjustSelectionPosition(v, m)
             IN  /\ Fine(u, v, p) /\ Fine(u, w, p)
                 /\ v.scroll = s /\ v.alt = u.alt /\ v.back = u.back /\ v.main = u.main
                 /\ w.scroll = s /\ w.alt = u.alt /\ w.back = u.back /\ w.main = u.main
  <2> DEFINE v == [u EXCEPT !.scroll = s]
             w == adjustSelectionPosition(v, m)
  <2>1. /\ Frame(v) /\ (Chosen(u, p) => Chosen(v, p))
        /\ ("taken" \notin p => s <= Depth(u) /\ (u.alt => s = 0)) => Viewed(v, p)
        /\ v.scroll = s /\ v.alt = u.alt /\ v.back = u.back
    BY WholeScroll
  <2>2. v.main = u.main
    BY DEF Frame, Shape, Fields
  <2> HIDE DEF v
  <2>3. Fine(u, v, p)
    BY <1>1, <2>1 DEF Fine
  <2>4. Fine(v, w, p) /\ Still(v, w)
    BY <2>1, SelectionFine
  <2> HIDE DEF w
  <2>5. Fine(u, w, p)
    BY <2>3, <2>4, FineTrans
  <2> QED BY <2>1, <2>2, <2>3, <2>4, <2>5 DEF Still, SameView, v, w
<1>2. Fine(u, scrollBackBufferFwd(u, n), p)
  <2>1. CASE n <= 0 \/ u.alt
    BY <2>1, FineSelf DEF scrollBackBufferFwd
  <2>2. CASE ~(n <= 0 \/ u.alt) /\ u.scroll < n
    <3>1. scrollBackBufferFwd(u, n) = [u EXCEPT !.scroll = 0]
      BY <2>2 DEF scrollBackBufferFwd
    <3>2. 0 <= Depth(u) /\ 0 \in Nat
      BY <1>0
    <3> QED BY <1>1, <3>1, <3>2
  <2>3. CASE ~(n <= 0 \/ u.alt) /\ ~(u.scroll < n)
    <3> DEFINE s == u.scroll - n
    <3>1. scrollBackBufferFwd(u, n) = adjustSelectionPosition([u EXCEPT !.scroll = s], -n)
      BY <2>3 DEF scrollBackBufferFwd, Frame, Shape, Fields
    <3>2. s \in Nat /\ -n \in Int /\ (u.scroll <= Depth(u) => s <= Depth(u))
      BY <1>0, <2>3
    <3> HIDE DEF s
    <3>3. "taken" \notin p => (Viewed(u, p) => s <= Depth(u) /\ (u.alt => s = 0))
      BY <2>3, <3>2 DEF Viewed
    <3> QED BY <1>1, <3>1, <3>2, <3>3
  <2> QED BY <2>1, <2>2, <2>3
<1>3. Fine(u, scrollBackBufferBack(u, n), p)
  <2>1. CASE n <= 0 \/ u.alt
    BY <2>1, FineSelf DEF scrollBackBufferBack
  <2>2. CASE ~(n <= 0 \/ u.alt) /\ u.scroll + n > Depth(u)
    <3>1. scrollBackBufferBack(u, n) = [u EXCEPT !.scroll = Depth(u)]
      BY <2>2 DEF scrollBackBufferBack, Depth
    <3>2. Depth(u) <= Depth(u)
      BY <1>0
    <3> QED BY <1>0, <1>1, <2>2, <3>1, <3>2
  <2>3. CASE ~(n <= 0 \/ u.alt) /\ ~(u.scroll + n > Depth(u))
    <3> DEFINE s == u.scroll + n
    <3>1. scrollBackBufferBack(u, n) = adjustSelectionPosition([u EXCEPT !.scroll = s], n)
      BY <2>3 DEF scrollBackBufferBack, Depth, Frame, Shape, Fields
    <3>2. s \in Nat /\ s <= Depth(u)
      BY <1>0, <2>3
    <3> HIDE DEF s
    <3> QED BY <1>1, <2>3, <3>1, <3>2
  <2> QED BY <2>1, <2>2, <2>3
<1>4. LET v == resetBackBufferScrollPos(u)
      IN  /\ Fine(u, v, p)
          /\ v.scroll = 0 /\ v.alt = u.alt /\ v.back = u.back /\ v.main = u.main
  <2> DEFINE v == resetBackBufferScrollPos(u)
  <2>1. 0 <= Depth(u) /\ 0 \in Nat
    BY <1>0
  <2>2. CASE u.alt
    <3>1. v = [u EXCEPT !.scroll = 0]
      BY <2>2 DEF resetBackBufferScrollPos
    <3> QED BY <1>1, <2>1, <3>1
  <2>3. CASE ~u.alt /\ u.scroll <= 0
    <3>1. v = u
      BY <2>3 DEF resetBackBufferScrollPos, scrollBackBufferFwd
    <3>2. u.scroll = 0
      BY <1>0, <2>3
    <3>3. resetBackBufferScrollPos(u) = u
      BY <3>1
    <3> HIDE DEF v
    <3> QED BY <3>2, <3>3, FineSelf
  <2>4. CASE ~u.alt /\ ~(u.scroll <= 0)
    <3>1. ~(u.scroll < u.scroll) /\ u.scroll - u.scroll = 0 /\ -u.scroll \in Int
      BY <1>0
    <3>2. v = adjustSelectionPosition([u EXCEPT !.scroll = 0], -u.scroll)
      BY <2>4, <3>1 DEF resetBackBufferScrollPos, scrollBackBufferFwd, Frame, Shape, Fields
    <3> DEFINE w == adjustSelectionPosition([u EXCEPT !.scroll = 0], -u.scroll)
    <3>3. Fine(u, w, p) /\ w.scroll = 0 /\ w.alt = u.alt /\ w.back = u.back /\ w.main = u.main
      BY <1>1, <2>1, <3>1
    <3>4. resetBackBufferScrollPos(u) = w
      BY <3>2
    <3> HIDE DEF w
    <3> QED BY <3>3, <3>4
  <2> QED BY <2>2, <2>3, <2>4
<1>5. LET v == resetBackBufferScrollPos(u) IN Viewed(v, p)
  <2> DEFINE v == resetBackBufferScrollPos(u)
  <2>1. v.scroll = 0 /\ v.back = u.back
    BY <1>4
  <2> HIDE DEF v
  <2>2. Viewed(v, p)
    BY <1>0, <2>1 DEF Viewed, Depth
  <2> QED BY <2>2 DEF v
<1> QED BY <1>2, <1>3, <1>4, <1>5

LEMMA EditGives ==
    ASSUME NEW b, IsList(b), NEW k, NEW l
    PROVE  IsList([b EXCEPT ![k] = l]) /\ Len([b EXCEPT ![k] = l]) = Len(b)
<1> DEFINE S == Range(b) \cup {l}
           n == Len(b)
           e == [b EXCEPT ![k] = l]
<1>1. b \in Seq(S) /\ n \in Nat
  BY ListHas
<1> HIDE DEF S
<1>2. b \in [1 .. n -> S] /\ l \in S
  BY <1>1, LenProperties DEF S
<1> HIDE DEF n
<1>3. e \in [1 .. n -> S]
  BY <1>2
<1> HIDE DEF e
<1>4. DOMAIN e = 1 .. n /\ e = [i \in 1 .. n |-> e[i]]
  BY <1>3
<1>5. IsList(e) /\ Len(e) = n
  BY <1>1, <1>4, Listed
<1> QED BY <1>5 DEF e, n

LEMMA NewestGives ==
    ASSUME NEW c, IsList(c)
    PROVE  /\ IsList(Newest(c)) /\ Len(c) \in Nat /\ Len(Newest(c)) \in Nat
           /\ Len(Newest(c)) = IF Len(c) > BackLimit THEN BackLimit ELSE Len(c)
           /\ \A i \in 1 .. Len(Newest(c)) : Newest(c)[i] = c[Len(c) - Len(Newest(c)) + i]
<1> DEFINE k == IF Len(c) > BackLimit THEN BackLimit ELSE Len(c)
           q == SubSeq(c, Len(c) - k + 1, Len(c))
<1>1. Len(c) \in Nat /\ BackLimit \in Nat
  BY ListHas, LimitAssumption
<1>2. k \in Nat /\ k <= Len(c)
  BY <1>1
<1>3. Newest(c) = q
  BY DEF Newest
<1> HIDE DEF k
<1>4. /\ IsList(q)
      /\ Len(q) = IF Len(c) - k + 1 <= Len(c) THEN Len(c) - (Len(c) - k + 1) + 1 ELSE 0
      /\ \A i \in 1 .. Len(c) - (Len(c) - k + 1) + 1 : q[i] = c[Len(c) - k + 1 + i - 1]
  BY <1>1, <1>2, PartGives
<1> HIDE DEF q
<1>5. Len(q) = k
  BY <1>1, <1>2, <1>4
<1>6. ASSUME NEW i \in 1 .. k PROVE q[i] = c[Len(c) - k + i]
  <2>1. i \in 1 .. Len(c) - (Len(c) - k + 1) + 1 /\ Len(c) - k + 1 + i - 1 = Len(c) - k + i
    BY <1>1, <1>2
  <2>2. q[i] = c[Len(c) - k + 1 + i - 1]
    BY <1>4, <2>1
  <2> QED BY <2>1, <2>2
<1> HIDE DEF q
<1>7. IsList(Newest(c)) /\ Len(Newest(c)) = k
  BY <1>3, <1>4, <1>5
<1>8. \A i \in 1 .. Len(Newest(c)) : Newest(c)[i] = c[Len(c) - Len(Newest(c)) + i]
  BY <1>3, <1>5, <1>6
<1>9. k = IF Len(c) > BackLimit THEN BackLimit ELSE Len(c)
  BY DEF k
<1> QED BY <1>1, <1>2, <1>7, <1>8, <1>9

LEMMA LineFine ==
    ASSUME NEW u, NEW p, NEW l, Frame(u)
    PROVE  Fine(u, SetLine(u, l), p) /\ SameView(u, SetLine(u, l))
<1> DEFINE b == Pad(Buf(u), u.at.y)
           e == [b EXCEPT ![CurrentRow(u)] = l]
           c == IF CurrentRow(u) = 0 THEN b ELSE e
<1>1. IsList(b)
  BY WholeFrame, PadGives DEF Frame, Spot
<1> HIDE DEF b
<1>2. IsList(c)
  BY <1>1, EditGives
<1>3. SetLine(u, l) = SetBuf(u, c)
  BY DEF SetLine, b
<1> HIDE DEF c
<1> QED BY <1>2, <1>3, WholeBuf DEF Fine, SameView

LEMMA BufFine ==
    ASSUME NEW u, NEW p, NEW b, IsList(b), Frame(u)
    PROVE  Fine(u, SetBuf(u, b), p) /\ SameView(u, SetBuf(u, b))
BY WholeBuf DEF Fine, SameView

(* What a scroll makes of the record.                                         *)
LEMMA UpFields ==
    ASSUME NEW u, NEW n \in Nat, n > 0, NEW from, Frame(u)
    PROVE  LET r == ScrolledUp(u, n, from)
               w == adjustSelectionPosition(u, -n)
               v == scrollFwd(u, n, from)
           IN  /\ UpResult(Buf(u), u.back, u.alt, u.bottom, n, from, r)
               /\ Frame(v) /\ \A p : Chosen(u, p) => Chosen(v, p)
               /\ v.scroll = u.scroll /\ v.alt = u.alt /\ v.back = Newest(r[2])
               /\ v.sel = w.sel /\ Buf(v) = r[1]
<1> DEFINE r == ScrolledUp(u, n, from)
           w == adjustSelectionPosition(u, -n)
           x == SetBuf(w, r[1])
           v == scrollFwd(u, n, from)
<1>1. UpResult(Buf(u), u.back, u.alt, u.bottom, n, from, r)
  BY UpGives, WholeFrame DEF Frame
<1>2. v = [x EXCEPT !.back = Newest(r[2])]
  BY DEF scrollFwd
<1>3. IsList(r[1]) /\ IsList(r[2])
  BY <1>1 DEF UpResult
<1>4. -n \in Int
  OBVIOUS
<1>5. ASSUME NEW p PROVE Fine(u, w, p) /\ Still(u, w)
  BY <1>4, SelectionFine
<1>6. Frame(w)
  BY <1>5 DEF Fine
<1> HIDE DEF r, w
<1>7. ASSUME NEW p PROVE Fine(w, x, p)
  BY <1>3, <1>6, BufFine
<1>8. SameView(w, x) /\ Buf(x) = r[1] /\ x.sel = w.sel
  BY <1>3, <1>6, BufFine, WholeBuf
<1>9. Frame(x)
  BY <1>7 DEF Fine
<1> HIDE DEF x
<1> DEFINE kept == Newest(r[2])
<1>10. IsList(kept) /\ Len(kept) <= BackLimit
  <2> DEFINE c == r[2]
  <2>1. IsList(c)
    BY <1>3
  <2> HIDE DEF c
  <2>2. IsList(Newest(c)) /\ Len(Newest(c)) <= BackLimit
    BY <2>1, NewestGives, LimitAssumption
  <2> QED BY <2>2 DEF c
<1> HIDE DEF kept
<1> DEFINE y == [x EXCEPT !.back = kept]
<1>11. ASSUME NEW p
       PROVE  Frame(y) /\ (Chosen(x, p) => Chosen(y, p))
  BY <1>9, <1>10, WholeBack
<1>12. /\ y.scroll = x.scroll /\ y.back = kept
       /\ y.sel = x.sel /\ Buf(y) = Buf(x)
  BY <1>9, <1>10, WholeBack
<1>13. y.alt = x.alt
  BY <1>9, <1>10, WholeBack, Zenon
<1> HIDE DEF y, v
<1>14. v = y /\ kept = Newest(r[2])
  BY <1>2 DEF y, kept
<1>15. /\ Frame(v) /\ \A p : Chosen(u, p) => Chosen(v, p)
       /\ v.scroll = u.scroll /\ v.alt = u.alt /\ v.back = Newest(r[2])
       /\ v.sel = w.sel /\ Buf(v) = r[1]
  BY <1>5, <1>7, <1>8, <1>11, <1>12, <1>13, <1>14 DEF Fine, Still, SameView
<1> QED BY <1>1, <1>15 DEF r, w, v

LEMMA DownFields ==
    ASSUME NEW u, NEW n \in Nat, n > 0, NEW into \in Int, NEW history, Frame(u)
    PROVE  LET r == ScrolledDown(u, n, into, history)
               v == scrollBack(u, n, into, history)
           IN  /\ DownResult(Buf(u), u.back, u.alt, u.bottom, n, into, history, r)
               /\ Frame(v) /\ \A p : Chosen(u, p) => Chosen(v, p)
               /\ v.scroll = u.scroll /\ v.alt = u.alt /\ v.back = r[2] /\ Buf(v) = r[1]
<1> DEFINE r == ScrolledDown(u, n, into, history)
           w == adjustSelectionPosition(u, n)
           x == SetBuf(w, r[1])
           v == scrollBack(u, n, into, history)
<1>1. DownResult(Buf(u), u.back, u.alt, u.bottom, n, into, history, r)
  BY DownGives, WholeFrame DEF Frame
<1>2. v = [x EXCEPT !.back = r[2]]
  BY DEF scrollBack
<1>3. IsList(r[1]) /\ IsList(r[2])
  BY <1>1 DEF DownResult
<1>4. Len(r[2]) <= BackLimit
  <2> DEFINE b == u.back
             c == r[2]
  <2>1. Len(c) <= Len(b) /\ Len(b) <= BackLimit /\ IsList(b) /\ IsList(c)
    BY <1>1 DEF DownResult, Frame, Depth
  <2> HIDE DEF b, c
  <2>2. Len(c) <= BackLimit
    BY <2>1, ListHas, LimitAssumption
  <2> QED BY <2>2 DEF c
<1>5. ASSUME NEW p PROVE Fine(u, w, p) /\ Still(u, w)
  BY SelectionFine
<1>6. Frame(w)
  BY <1>5 DEF Fine
<1> HIDE DEF r, w
<1>7. ASSUME NEW p PROVE Fine(w, x, p)
  BY <1>3, <1>6, BufFine
<1>8. SameView(w, x) /\ Buf(x) = r[1]
  BY <1>3, <1>6, BufFine, WholeBuf
<1>9. Frame(x)
  BY <1>7 DEF Fine
<1> HIDE DEF x
<1> DEFINE y == [x EXCEPT !.back = r[2]]
<1>11. ASSUME NEW p
       PROVE  Frame(y) /\ (Chosen(x, p) => Chosen(y, p))
  BY <1>3, <1>4, <1>9, WholeBack
<1>12. y.scroll = x.scroll /\ y.alt = x.alt /\ y.back = r[2] /\ Buf(y) = Buf(x)
  BY <1>3, <1>4, <1>9, WholeBack
<1> HIDE DEF y, v
<1>13. v = y
  BY <1>2 DEF y
<1>14. /\ Frame(v) /\ \A p : Chosen(u, p) => Chosen(v, p)
       /\ v.scroll = u.scroll /\ v.alt = u.alt /\ v.back = r[2] /\ Buf(v) = r[1]
  BY <1>5, <1>7, <1>8, <1>11, <1>12, <1>13 DEF Fine, Still, SameView
<1> QED BY <1>1, <1>14 DEF r, v

LEMMA UpFine ==
    ASSUME NEW u, NEW p, NEW n \in Int, NEW row, Frame(u)
    PROVE  Fine(u, scrollFwd(u, n, row), p)
<1>1. CASE n <= 0
  BY <1>1, FineSelf DEF scrollFwd
<1>2. CASE ~(n <= 0)
  <2> DEFINE r == ScrolledUp(u, n, row)
             v == scrollFwd(u, n, row)
             c == r[2]
             back == u.back
  <2>1. /\ UpResult(Buf(u), back, u.alt, u.bottom, n, row, r)
        /\ Frame(v) /\ (Chosen(u, p) => Chosen(v, p))
        /\ v.scroll = u.scroll /\ v.alt = u.alt /\ v.back = Newest(c)
    <3>1. n \in Nat /\ n > 0
      BY <1>2
    <3> QED BY <3>1, UpFields
  <2>2. IsList(back) /\ Len(back) <= BackLimit /\ u.scroll \in Nat
    BY DEF Frame, Depth
  <2> HIDE DEF r, v
  <2>3. IsList(c) /\ (u.alt => c = back) /\ (~u.alt => Len(c) = Len(back) + n)
    BY <2>1 DEF UpResult
  <2>4. Len(c) >= Len(back)
    <3> HIDE DEF c, back
    <3>1. Len(c) \in Nat /\ Len(back) \in Nat
      BY <2>2, <2>3, ListHas
    <3> QED BY <1>2, <2>3, <3>1
  <2> HIDE DEF c
  <2>5. Len(Newest(c)) >= Len(back)
    <3> HIDE DEF back
    <3> QED BY <2>2, <2>3, <2>4, NewestGives, ListHas, LimitAssumption
  <2>6. Len(Newest(c)) \in Nat /\ Len(back) \in Nat
    <3> HIDE DEF back
    <3> QED BY <2>2, <2>3, NewestGives, ListHas
  <2>7. Depth(v) = Len(Newest(c)) /\ Depth(u) = Len(back)
    BY <2>1 DEF Depth
  <2>8. ASSUME u.scroll <= Depth(u) PROVE u.scroll <= Depth(v)
    <3> HIDE DEF back
    <3> QED BY <2>2, <2>5, <2>6, <2>7, <2>8
  <2>9. Viewed(u, p) => Viewed(v, p)
    BY <2>1, <2>8 DEF Viewed
  <2> QED BY <2>1, <2>9 DEF Fine, v
<1> QED BY <1>1, <1>2

LEMMA DownFine ==
    ASSUME NEW u, NEW p, NEW n \in Int, NEW row \in Int, NEW history, Frame(u)
    PROVE  LET v == scrollBack(u, n, row, history)
           IN  /\ Frame(v) /\ (Chosen(u, p) => Chosen(v, p))
               /\ v.scroll = u.scroll /\ v.alt = u.alt
               /\ history = FALSE => Fine(u, v, p)
<1>1. CASE n <= 0
  BY <1>1, FineSelf DEF scrollBack
<1>2. CASE ~(n <= 0)
  <2> DEFINE r == ScrolledDown(u, n, row, history)
             v == scrollBack(u, n, row, history)
  <2>1. /\ DownResult(Buf(u), u.back, u.alt, u.bottom, n, row, history, r)
        /\ Frame(v) /\ (Chosen(u, p) => Chosen(v, p))
        /\ v.scroll = u.scroll /\ v.alt = u.alt /\ v.back = r[2]
    <3>1. n \in Nat /\ n > 0
      BY <1>2
    <3> QED BY <3>1, DownFields
  <2> HIDE DEF r, v
  <2>2. ASSUME ~history PROVE Viewed(u, p) => Viewed(v, p)
    <3>1. v.back = u.back
      BY <2>1, <2>2 DEF DownResult
    <3> QED BY <2>1, <3>1 DEF Viewed, Depth
  <2>3. history = FALSE => Fine(u, v, p)
    BY <2>1, <2>2 DEF Fine
  <2>4. /\ Frame(v) /\ (Chosen(u, p) => Chosen(v, p))
        /\ v.scroll = u.scroll /\ v.alt = u.alt
    BY <2>1
  <2> QED BY <2>3, <2>4 DEF v
<1> QED BY <1>1, <1>2

(* One more function on a record that is fine.                                *)
LEMMA FineCursor ==
    ASSUME NEW u, NEW v, NEW p, NEW x, NEW y, Fine(u, v, p)
    PROVE  Fine(u, setCursorPos(v, x, y), p)
<1>1. Frame(v)
  BY DEF Fine
<1>2. Fine(v, setCursorPos(v, x, y), p)
  BY <1>1, CursorFine
<1> QED BY <1>2, FineTrans

LEMMA FineLine ==
    ASSUME NEW u, NEW v, NEW p, NEW l, Fine(u, v, p)
    PROVE  Fine(u, SetLine(v, l), p)
<1>1. Frame(v)
  BY DEF Fine
<1>2. Fine(v, SetLine(v, l), p)
  BY <1>1, LineFine
<1> QED BY <1>2, FineTrans

LEMMA FineBuf ==
    ASSUME NEW u, NEW v, NEW p, NEW b, IsList(b), Fine(u, v, p)
    PROVE  Fine(u, SetBuf(v, b), p)
<1>1. Frame(v)
  BY DEF Fine
<1>2. Fine(v, SetBuf(v, b), p)
  BY <1>1, BufFine
<1> QED BY <1>2, FineTrans

LEMMA FineDeselected ==
    ASSUME NEW u, NEW v, NEW p, Fine(u, v, p)
    PROVE  Fine(u, clearSelection(v), p)
<1>1. Frame(v) /\ 0 \in Int
  BY DEF Fine
<1>2. Fine(v, clearSelection(v), p)
  BY <1>1, SelectionFine
<1> QED BY <1>2, FineTrans

LEMMA FineViewReset ==
    ASSUME NEW u, NEW v, NEW p, Fine(u, v, p)
    PROVE  Fine(u, resetBackBufferScrollPos(v), p)
<1>1. Frame(v) /\ 0 \in Int
  BY DEF Fine
<1>2. Fine(v, resetBackBufferScrollPos(v), p)
  BY <1>1, ViewFine
<1> QED BY <1>2, FineTrans

LEMMA TabsFine ==
    ASSUME NEW u, NEW p, NEW n, NEW ps, Frame(u)
    PROVE  /\ Fine(u, forwardTab(u, n), p) /\ Fine(u, backwardTab(u, n), p)
           /\ Fine(u, setTab(u), p) /\ Fine(u, clearTab(u, ps), p) /\ Fine(u, resetTabs(u), p)
<1>1. ASSUME NEW x, NEW c
      PROVE  Fine(u, setCursorPos(setCursorPos(u, x, u.at.y), c,
                                  setCursorPos(u, x, u.at.y).at.y), p)
  BY CursorFine, FineCursor
<1>2. Fine(u, forwardTab(u, n), p)
  <2> DEFINE v == setCursorPos(u, NextStop(u, u.at.x), u.at.y)
  <2>1. forwardTab(u, n) = u \/ \E c : forwardTab(u, n) = setCursorPos(v, c, v.at.y)
    BY DEF forwardTab
  <2>2. ASSUME NEW c PROVE Fine(u, setCursorPos(v, c, v.at.y), p)
    BY <1>1
  <2> HIDE DEF v
  <2> QED BY <2>1, <2>2, FineSelf
<1>3. Fine(u, backwardTab(u, n), p)
  <2> DEFINE v == setCursorPos(u, PreviousStop(u, u.at.x), u.at.y)
  <2>1. backwardTab(u, n) = u \/ \E c : backwardTab(u, n) = setCursorPos(v, c, v.at.y)
    BY DEF backwardTab
  <2>2. ASSUME NEW c PROVE Fine(u, setCursorPos(v, c, v.at.y), p)
    BY <1>1
  <2> HIDE DEF v
  <2> QED BY <2>1, <2>2, FineSelf
<1>4. ASSUME NEW b PROVE Fine(u, [u EXCEPT !.tabs = b], p)
  BY WholeRest DEF Fine
<1>5. Fine(u, setTab(u), p) /\ Fine(u, resetTabs(u), p)
  BY <1>4 DEF setTab, resetTabs
<1>6. Fine(u, clearTab(u, ps), p)
  <2> DEFINE i == IF u.at.y <= Len(u.tabs)
                  THEN {k \in DOMAIN u.tabs[u.at.y] : u.tabs[u.at.y][k] = u.at.x} ELSE {}
             c1 == ps # <<>> /\ Param(ps, 1) = 3
             c2 == (ps = <<>> \/ Param(ps, 1) = 0) /\ i # {}
             b == [u.tabs EXCEPT ![u.at.y] = RemoveAt(@, CHOOSE k \in i : TRUE)]
  <2>1. CASE c1
    <3>1. clearTab(u, ps) = [u EXCEPT !.tabs = <<>>]
      BY <2>1 DEF clearTab
    <3> QED BY <3>1, <1>4
  <2>2. CASE ~c1 /\ c2
    <3>1. clearTab(u, ps) = [u EXCEPT !.tabs = b]
      BY <2>2 DEF clearTab
    <3> HIDE DEF b
    <3> QED BY <3>1, <1>4
  <2>3. CASE ~c1 /\ ~c2
    BY <2>3, FineSelf DEF clearTab
  <2> QED BY <2>1, <2>2, <2>3
<1> QED BY <1>2, <1>3, <1>5, <1>6

LEMMA WritingFine ==
    ASSUME NEW u, NEW p, Frame(u)
    PROVE  Fine(u, insertAtCursor(u), p) /\ Fine(u, newLine(u), p) /\ Fine(u, nextLine(u), p)
<1>1. Fine(u, scrollUp(u, 1), p)
  BY UpFine DEF scrollUp
<1>2. Fine(u, u, p)
  BY FineSelf
<1>3. Fine(u, Wrapped(u), p)
  BY <1>1, <1>2, FineCursor DEF Wrapped
<1>4. \E l : insertAtCursor(u)
               = setCursorPos(SetLine(Wrapped(u), l), Wrapped(u).at.x + 1, Wrapped(u).at.y)
  BY DEF insertAtCursor
<1>5. Fine(u, insertAtCursor(u), p)
  BY <1>3, <1>4, FineLine, FineCursor
<1>6. Fine(u, newLine(u), p) /\ Fine(u, nextLine(u), p)
  BY <1>1, <1>2, FineCursor DEF newLine, nextLine
<1> QED BY <1>5, <1>6

LEMMA ErasingFine ==
    ASSUME NEW u, NEW p, Frame(u)
    PROVE  Fine(u, clearAll(u), p) /\ Fine(u, screenTest(u), p)
<1>0. IsList(<<>>) /\ Len(<<>>) = 0
  <2>1. <<>> \in Seq({})
    OBVIOUS
  <2> QED BY <2>1, ListOf
<1>1. ASSUME NEW w, NEW v, Fine(w, v, p) PROVE Fine(w, clearAll(v), p)
  BY <1>0, <1>1, FineDeselected, FineBuf, FineCursor DEF clearAll
<1>2. Fine(u, clearAll(u), p)
  BY <1>1, FineSelf
<1>3. Fine(u, clearEverything(u), p)
  <2> DEFINE v == clearSelection(u)
             w == [v EXCEPT !.back = <<>>]
             x == resetBackBufferScrollPos(w)
  <2>1. Fine(u, v, p)
    BY FineSelf, FineDeselected
  <2>2. Frame(v)
    BY <2>1 DEF Fine
  <2> HIDE DEF v
  <2>3. Frame(w) /\ (Chosen(v, p) => Chosen(w, p))
    BY <1>0, <2>2, WholeBack, LimitAssumption
  <2> HIDE DEF w
  <2>4. Fine(w, x, p) /\ Viewed(x, p)
    <3>1. 0 \in Int
      OBVIOUS
    <3> QED BY <2>3, <3>1, ViewFine
  <2> HIDE DEF x
  <2>5. Fine(u, x, p)
    BY <2>1, <2>3, <2>4 DEF Fine
  <2>6. Fine(u, clearAll(x), p)
    BY <2>5, <1>1
  <2> QED BY <2>6 DEF clearEverything, v, w, x
<1>4. Fine(u, screenTest(u), p)
  <2> DEFINE v == clearEverything(u)
             b == [r \in 1..v.h |-> [c \in 1..v.w |-> 1]]
  <2>1. v.h \in Nat
    BY <1>3 DEF Fine, Frame, Shape
  <2> HIDE DEF v
  <2>2. IsList(b)
    <3> DEFINE n == v.h
    <3>1. n \in Nat /\ DOMAIN b = 1 .. n /\ b = [i \in 1 .. n |-> b[i]]
      BY <2>1
    <3> HIDE DEF n, b
    <3> QED BY <3>1, Listed
  <2>3. Fine(u, SetBuf(v, b), p)
    <3> HIDE DEF b
    <3> QED BY <1>3, <2>2, FineBuf DEF v
  <2> QED BY <2>3 DEF screenTest, v
<1> QED BY <1>2, <1>4

LEMMA ParamNat ==
    ASSUME NEW ps \in Seq(Nat), NEW k \in Int
    PROVE  p1(ps) \in Nat /\ AtMost(p1(ps), k) \in Int
<1>1. Len(ps) >= 1 => ps[1] \in Nat
  OBVIOUS
<1>2. Param(ps, 1) \in Nat
  BY <1>1 DEF Param
<1> QED BY <1>2 DEF p1, AtMost

LEMMA EditingFine ==
    ASSUME NEW u, NEW p, NEW ps \in Seq(Nat), Frame(u)
    PROVE  /\ Fine(u, handleDECSED(u, ps), p) /\ Fine(u, handleEL(u, ps), p)
           /\ Fine(u, handleECH(u, ps), p)    /\ Fine(u, handleDCH(u, ps), p)
           /\ Fine(u, handleICH(u, ps), p)    /\ Fine(u, handleDL(u, ps), p)
<1>0. Fine(u, u, p)
  BY FineSelf
<1>1. ASSUME NEW x, NEW y PROVE Fine(u, eraseLineAtCursor(u, x, y), p)
  BY LineFine DEF eraseLineAtCursor
<1>2. ASSUME NEW v, NEW rows, Fine(u, v, p) PROVE Fine(u, ClearRows(v, rows), p)
  <2> DEFINE c == Buf(v)
             n == Len(c)
             b == [i \in DOMAIN c |-> IF i \in rows THEN <<>> ELSE c[i]]
  <2>1. IsList(c)
    BY <1>2, WholeFrame DEF Fine
  <2> HIDE DEF c
  <2>2. n \in Nat /\ DOMAIN c = 1 .. n
    BY <2>1, ListHas
  <2>3. DOMAIN b = 1 .. n /\ b = [i \in 1 .. n |-> b[i]]
    BY <2>2
  <2> HIDE DEF n, b
  <2>4. IsList(b)
    BY <2>2, <2>3, Listed
  <2>5. Fine(u, SetBuf(v, b), p)
    BY <1>2, <2>4, FineBuf
  <2> QED BY <2>5 DEF ClearRows, b, c
<1>3. Fine(u, handleDECSED(u, ps), p)
  <2>1. \/ handleDECSED(u, ps) = clearAll(u)
        \/ \E x, y, rows : handleDECSED(u, ps) = ClearRows(eraseLineAtCursor(u, x, y), rows)
    BY DEF handleDECSED
  <2> QED BY <2>1, <1>1, <1>2, ErasingFine
<1>4. Fine(u, handleEL(u, ps), p)
  BY <1>1, LineFine DEF handleEL
<1>5. Fine(u, handleECH(u, ps), p)
  BY <1>0, <1>1 DEF handleECH
<1>6. Fine(u, handleDCH(u, ps), p)
  <2>1. handleDCH(u, ps) = u \/ \E l : handleDCH(u, ps) = SetLine(u, l)
    BY DEF handleDCH
  <2> QED BY <2>1, LineFine, <1>0
<1>7. Fine(u, handleICH(u, ps), p)
  BY LineFine DEF handleICH
<1>8. Fine(u, handleDL(u, ps), p)
  <2>1. u.bottom - u.at.y \in Int
    <3>1. u.bottom \in Nat /\ u.at.y \in Int
      BY DEF Frame, Spot
    <3> QED BY <3>1
  <2>2. AtMost(p1(ps), u.bottom - u.at.y) \in Int
    BY <2>1, ParamNat
  <2>3. Fine(u, scrollFwd(u, AtMost(p1(ps), u.bottom - u.at.y), u.at.y), p)
    BY <2>2, UpFine
  <2> QED BY <1>0, <2>3, FineCursor DEF handleDL
<1> QED BY <1>3, <1>4, <1>5, <1>6, <1>7, <1>8

(* Lines may come from the history.                                           *)
Partly(u, v, p) == Frame(v) /\ (Chosen(u, p) => Chosen(v, p)) /\ v.scroll = u.scroll /\ v.alt = u.alt

LEMMA TakingFine ==
    ASSUME NEW u, NEW p, NEW ps \in Seq(Nat), Frame(u)
    PROVE  Partly(u, handleIL(u, ps), p) /\ Partly(u, scrollBack(u, 1, u.at.y, TRUE), p)
<1>0. u.bottom - u.at.y \in Int /\ u.at.y \in Int
  <2>1. u.bottom \in Nat /\ u.at.y \in Int
    BY DEF Frame, Spot
  <2> QED BY <2>1
<1>1. ASSUME NEW n \in Int PROVE Partly(u, scrollBack(u, n, u.at.y, TRUE), p)
  <2> DEFINE history == TRUE
  <2> HIDE DEF history
  <2>1. Partly(u, scrollBack(u, n, u.at.y, history), p)
    <3> DEFINE row == u.at.y
               v == scrollBack(u, n, row, history)
    <3>1. row \in Int
      BY <1>0
    <3> HIDE DEF row
    <3>2. /\ Frame(v) /\ (Chosen(u, p) => Chosen(v, p))
          /\ v.scroll = u.scroll /\ v.alt = u.alt
          /\ history = FALSE => Fine(u, v, p)
      BY <3>1, DownFine, Zenon
    <3> HIDE DEF v
    <3>3. Partly(u, v, p)
      BY <3>2 DEF Partly
    <3> QED BY <3>3 DEF v, row
  <2> QED BY <2>1 DEF history
<1>2. Partly(u, u, p)
  BY DEF Partly
<1>3. ASSUME NEW v, NEW x, NEW y, Partly(u, v, p) PROVE Partly(u, setCursorPos(v, x, y), p)
  <2> DEFINE w == setCursorPos(v, x, y)
  <2>1. /\ Frame(v) /\ (Chosen(u, p) => Chosen(v, p))
        /\ v.scroll = u.scroll /\ v.alt = u.alt
    BY <1>3 DEF Partly
  <2>2. Fine(v, w, p) /\ SameView(v, w)
    BY <2>1, CursorFine
  <2> HIDE DEF w
  <2>3. /\ Frame(w) /\ (Chosen(v, p) => Chosen(w, p))
        /\ w.scroll = v.scroll /\ w.alt = v.alt
    BY <2>2 DEF Fine, SameView
  <2>4. Partly(u, w, p)
    BY <2>1, <2>3 DEF Partly
  <2> QED BY <2>4 DEF w
<1>4. AtMost(p1(ps), u.bottom - u.at.y) \in Int
  BY <1>0, ParamNat
<1>5. Partly(u, handleIL(u, ps), p)
  BY <1>1, <1>2, <1>3, <1>4 DEF handleIL
<1>6. Partly(u, scrollBack(u, 1, u.at.y, TRUE), p)
  <2>1. 1 \in Int
    OBVIOUS
  <2> QED BY <1>1, <2>1
<1> QED BY <1>5, <1>6

LEMMA ModeFine ==
    ASSUME NEW u, NEW p, NEW set, NEW mode \in {"origin", "wrap", "replace", "newline"},
           NEW q, Frame(u)
    PROVE  Fine(u, handleMode(u, mode, set), p) /\ Fine(u, [u EXCEPT !.at.pen = q], p)
<1>1. ASSUME NEW a, DOMAIN a = AtFields, a.x = u.at.x, a.y = u.at.y
      PROVE  Fine(u, [u EXCEPT !.at = a], p)
  <2>1. Spot(a)
    BY <1>1 DEF Frame, Spot
  <2> QED BY <1>1, <2>1, WholeAt DEF Fine
<1>2. ASSUME mode = "origin" PROVE Fine(u, handleMode(u, mode, set), p)
  <2> DEFINE a == [u.at EXCEPT !.origin = set]
  <2>1. DOMAIN a = AtFields /\ a.x = u.at.x /\ a.y = u.at.y
    BY DEF Frame, Shape, AtFields
  <2>2. handleMode(u, mode, set) = [u EXCEPT !.at = a]
    BY <1>2 DEF handleMode, Frame, Shape, Fields
  <2> HIDE DEF a
  <2>3. Fine(u, handleMode(u, mode, set), p)
    BY <2>1, <2>2, <1>1
  <2> QED BY <2>3
<1>3. ASSUME mode = "wrap" PROVE Fine(u, handleMode(u, mode, set), p)
  <2> DEFINE a == [u.at EXCEPT !.wrap = set]
  <2>1. DOMAIN a = AtFields /\ a.x = u.at.x /\ a.y = u.at.y
    BY DEF Frame, Shape, AtFields
  <2>2. handleMode(u, mode, set) = [u EXCEPT !.at = a]
    BY <1>3 DEF handleMode, Frame, Shape, Fields
  <2> HIDE DEF a
  <2> QED BY <2>1, <2>2, <1>1
<1>4. ASSUME mode \in {"replace", "newline"} PROVE Fine(u, handleMode(u, mode, set), p)
  <2> DEFINE v == handleMode(u, mode, set)
  <2>1. v = [u EXCEPT !.replace = set] \/ v = [u EXCEPT !.newline = set]
    BY <1>4 DEF handleMode
  <2> HIDE DEF v
  <2>2. Fine(u, v, p)
    BY <2>1, WholeRest DEF Fine
  <2> QED BY <2>2 DEF v
<1>5. Fine(u, [u EXCEPT !.at.pen = q], p)
  <2> DEFINE a == [u.at EXCEPT !.pen = q]
             v == [u EXCEPT !.at = a]
  <2>1. DOMAIN a = AtFields /\ a.x = u.at.x /\ a.y = u.at.y
    BY DEF Frame, Shape, AtFields
  <2>2. [u EXCEPT !.at.pen = q] = v
    BY DEF Frame, Shape, Fields
  <2> HIDE DEF a
  <2>3. Fine(u, v, p)
    BY <2>1, <1>1
  <2> HIDE DEF v
  <2> QED BY <2>2, <2>3
<1> QED BY <1>2, <1>3, <1>4, <1>5

LEMMA MoreWhole ==
    ASSUME NEW u, NEW p, NEW q, Whole(u, p), p \subseteq q
    PROVE  Whole(u, q)
BY DEF Whole, Chosen, Viewed

(* Fields that matter to neither the selection nor the view.                  *)
LEMMA OtherFine ==
    ASSUME NEW u, NEW v, NEW p, Frame(u),
           DOMAIN v = Fields, v.w = u.w, v.h = u.h, v.alt = u.alt,
           DOMAIN v.at = AtFields, DOMAIN v.saved = AtFields, DOMAIN v.savedAlt = AtFields,
           Spot(v.at), Spot(v.saved), Spot(v.savedAlt), v.top \in Int, v.bottom \in Nat,
           v.main = u.main, v.altBuf = u.altBuf, v.back = u.back, v.scroll = u.scroll, v.sel = u.sel
    PROVE  Fine(u, v, p)
BY DEF Fine, Frame, Shape, Chosen, Viewed, Depth

LEMMA SaveFine ==
    ASSUME NEW u, NEW p, Frame(u)
    PROVE  /\ Fine(u, [u EXCEPT !.saved = u.at], p)
           /\ Fine(u, [u EXCEPT !.at = u.saved], p)
<1>1. ASSUME NEW v, v = [u EXCEPT !.saved = u.at] \/ v = [u EXCEPT !.at = u.saved]
      PROVE  Fine(u, v, p)
  <2>1. /\ DOMAIN v = Fields /\ v.at \in {u.at, u.saved} /\ v.saved \in {u.at, u.saved}
        /\ v.savedAlt = u.savedAlt
        /\ v.w = u.w /\ v.h = u.h /\ v.top = u.top /\ v.bottom = u.bottom /\ v.alt = u.alt
        /\ v.main = u.main /\ v.altBuf = u.altBuf /\ v.back = u.back /\ v.scroll = u.scroll
        /\ v.sel = u.sel
    BY <1>1 DEF Frame, Shape, Fields
  <2>2. /\ DOMAIN u.at = AtFields /\ DOMAIN u.saved = AtFields /\ DOMAIN u.savedAlt = AtFields
        /\ Spot(u.at) /\ Spot(u.saved) /\ Spot(u.savedAlt) /\ u.top \in Int /\ u.bottom \in Nat
    BY DEF Frame, Shape
  <2> QED BY <2>1, <2>2, OtherFine
<1> QED BY <1>1

LEMMA AllRowsFine ==
    ASSUME NEW u, NEW p, Frame(u)
    PROVE  Fine(u, AllRows(u), p)
<1> DEFINE v == AllRows(u)
<1>1. /\ DOMAIN v = Fields /\ v.at = u.at /\ v.saved = u.saved /\ v.savedAlt = u.savedAlt
      /\ v.w = u.w /\ v.h = u.h /\ v.top = 1 /\ v.bottom = u.h /\ v.alt = u.alt
      /\ v.main = u.main /\ v.altBuf = u.altBuf /\ v.back = u.back /\ v.scroll = u.scroll
      /\ v.sel = u.sel
  BY DEF AllRows, Frame, Shape, Fields
<1>2. /\ DOMAIN u.at = AtFields /\ DOMAIN u.saved = AtFields /\ DOMAIN u.savedAlt = AtFields
      /\ Spot(u.at) /\ Spot(u.saved) /\ Spot(u.savedAlt) /\ u.h \in Nat
  BY DEF Frame, Shape
<1> HIDE DEF v
<1>3. Fine(u, v, p)
  BY <1>1, <1>2, OtherFine
<1> QED BY <1>3 DEF v

(* Whatever the view was: resetting it, and clearing the selection, makes the *)
(* record whole.                                                              *)
LEMMA CalmWhole ==
    ASSUME NEW u, NEW p, Frame(u)
    PROVE  LET v == clearSelection(resetBackBufferScrollPos(u))
           IN  Whole(resetTabs(v), p) /\ Whole(resetTabs(clearAll(v)), p)
<1> DEFINE x == resetBackBufferScrollPos(u)
           v == clearSelection(x)
<1>0. 0 \in Int
  OBVIOUS
<1>1. Frame(x) /\ Viewed(x, p)
  BY <1>0, ViewFine DEF Fine
<1> HIDE DEF x
<1>2. Fine(x, v, p) /\ Chosen(v, p)
  BY <1>0, <1>1, SelectionFine
<1> HIDE DEF v
<1>3. Whole(v, p)
  BY <1>1, <1>2 DEF Fine, Whole
<1>4. Frame(v)
  BY <1>3 DEF Whole
<1>5. Fine(v, clearAll(v), p)
  BY <1>4, ErasingFine
<1>6. Whole(clearAll(v), p)
  BY <1>3, <1>5, FineWhole
<1>7. ASSUME NEW w, Whole(w, p) PROVE Whole(resetTabs(w), p)
  BY <1>7, TabsFine, FineWhole DEF Whole
<1> QED BY <1>3, <1>6, <1>7 DEF v, x

LEMMA AltScreenWhole ==
    ASSUME NEW u, NEW p, Frame(u)
    PROVE  Whole(useAltScreen(u, TRUE), p) /\ Whole(useAltScreen(u, FALSE), p)
<1> DEFINE on0 == [u EXCEPT !.savedAlt = u.at, !.alt = TRUE]
           off0 == [u EXCEPT !.alt = FALSE, !.at = u.savedAlt]
<1>1. ASSUME NEW v, v = on0 \/ v = off0 PROVE Frame(v)
  <2>0. DOMAIN u = Fields
    BY DEF Frame, Shape
  <2>1. /\ DOMAIN v = Fields /\ v.at \in {u.at, u.savedAlt} /\ v.savedAlt \in {u.at, u.savedAlt}
        /\ v.saved = u.saved /\ v.alt \in BOOLEAN
        /\ v.w = u.w /\ v.h = u.h /\ v.top = u.top /\ v.bottom = u.bottom
        /\ v.main = u.main /\ v.altBuf = u.altBuf /\ v.back = u.back /\ v.scroll = u.scroll
        /\ v.sel = u.sel
    <3>1. CASE v = on0
      BY <2>0, <3>1 DEF Fields
    <3>2. CASE v = off0
      BY <2>0, <3>2 DEF Fields
    <3> QED BY <1>1, <3>1, <3>2
  <2> HIDE DEF on0, off0
  <2> QED BY <2>1 DEF Frame, Shape, Depth
<1>2. Frame(AllRows(on0)) /\ Frame(AllRows(off0))
  BY <1>1, AllRowsFine DEF Fine
<1>3. /\ useAltScreen(u, TRUE)
           = resetTabs(clearAll(clearSelection(resetBackBufferScrollPos(AllRows(on0)))))
      /\ useAltScreen(u, FALSE)
           = resetTabs(clearSelection(resetBackBufferScrollPos(AllRows(off0))))
  BY DEF useAltScreen
<1> HIDE DEF on0, off0
<1> QED BY <1>2, <1>3, CalmWhole

LEMMA ResetWhole ==
    ASSUME NEW u, NEW p, Frame(u)
    PROVE  Whole(resetTerminal(u, FALSE), p) /\ Whole(resetTerminal(u, TRUE), p)
<1> DEFINE Rest(v) == [AllRows(v) EXCEPT !.at = PlainAttribs(v.at),
                           !.saved = PlainAttribs(v.at), !.savedAlt = PlainAttribs(v.at),
                           !.alt = FALSE, !.replace = FALSE, !.newline = FALSE]
           home == [u EXCEPT !.main = <<>>, !.altBuf = <<>>, !.back = <<>>,
                             !.at.x = 1, !.at.y = 1]
<1>1. ASSUME NEW v, Frame(v) PROVE Frame(Rest(v))
  <2> DEFINE a == PlainAttribs(v.at)
             w == Rest(v)
  <2>1. DOMAIN a = AtFields /\ Spot(a)
    BY <1>1 DEF PlainAttribs, Frame, Shape, AtFields, Spot
  <2> HIDE DEF a
  <2>2. /\ DOMAIN w = Fields /\ w.at = a /\ w.saved = a /\ w.savedAlt = a
        /\ w.w = v.w /\ w.h = v.h /\ w.top = 1 /\ w.bottom = v.h /\ w.alt = FALSE
        /\ w.main = v.main /\ w.altBuf = v.altBuf /\ w.back = v.back /\ w.scroll = v.scroll
        /\ w.sel = v.sel
    BY <1>1 DEF a, AllRows, Frame, Shape, Fields
  <2> HIDE DEF w
  <2>3. v.h \in Nat
    BY <1>1 DEF Frame, Shape
  <2>4. Shape(w)
    <3>1. w.alt \in BOOLEAN
      BY <2>2
    <3>2. w.w \in Nat \ {0} /\ w.h \in Nat \ {0}
      BY <1>1, <2>2 DEF Frame, Shape
    <3> QED BY <2>1, <2>2, <3>1, <3>2 DEF Shape
  <2>5. Frame(w)
    BY <1>1, <2>1, <2>2, <2>3, <2>4 DEF Frame, Depth
  <2> QED BY <2>5 DEF w
<1>2. Frame(home)
  <2> DEFINE a == [u.at EXCEPT !.x = 1, !.y = 1]
             v == [u EXCEPT !.main = <<>>, !.altBuf = <<>>, !.back = <<>>, !.at = a]
  <2>1. DOMAIN a = AtFields /\ Spot(a)
    BY DEF Frame, Shape, AtFields, Spot
  <2>2. home = v
    BY DEF Frame, Shape, Fields, AtFields
  <2> HIDE DEF a
  <2>3. /\ DOMAIN v = Fields /\ v.at = a /\ v.saved = u.saved /\ v.savedAlt = u.savedAlt
        /\ v.w = u.w /\ v.h = u.h /\ v.top = u.top /\ v.bottom = u.bottom /\ v.alt = u.alt
        /\ v.main = <<>> /\ v.altBuf = <<>> /\ v.back = <<>> /\ v.scroll = u.scroll
        /\ v.sel = u.sel
    BY DEF Frame, Shape, Fields
  <2> HIDE DEF v
  <2>4. IsList(<<>>) /\ Len(<<>>) = 0 /\ 0 <= BackLimit
    <3>1. <<>> \in Seq({})
      OBVIOUS
    <3>2. 0 <= BackLimit
      BY LimitAssumption
    <3> QED BY <3>1, <3>2, ListOf
  <2>5. Frame(v)
    BY <2>1, <2>3, <2>4 DEF Frame, Shape, Depth
  <2> QED BY <2>2, <2>5
<1> HIDE DEF home
<1>3. /\ resetTerminal(u, FALSE) = resetTabs(clearSelection(resetBackBufferScrollPos(Rest(u))))
      /\ resetTerminal(u, TRUE) = resetTabs(clearSelection(resetBackBufferScrollPos(Rest(home))))
  BY DEF resetTerminal, home
<1>4. Frame(Rest(u)) /\ Frame(Rest(home))
  BY <1>1, <1>2
<1> HIDE DEF Rest
<1> QED BY <1>3, <1>4, CalmWhole

LEMMA MarginsFine ==
    ASSUME NEW u, NEW p, NEW ps \in Seq(Nat), Frame(u)
    PROVE  Fine(u, setMargins(u, ps), p)
<1> DEFINE a == IF Len(ps) < 2 \/ ps[1] < 1 THEN 1 ELSE ps[1]
           b == IF Len(ps) < 2 THEN u.h ELSE AtMost(ps[2], u.h)
           top == IF a >= b /\ a = u.h THEN b - 1 ELSE a
           bottom == IF a >= b /\ a # u.h THEN a + 1 ELSE b
           w == [u EXCEPT !.top = top, !.bottom = bottom]
<1>1. u.h \in Nat \ {0} /\ a \in Nat /\ b \in Nat
  <2>1. u.h \in Nat \ {0} /\ Len(ps) \in Nat /\ \A i \in 1 .. Len(ps) : ps[i] \in Nat
    BY DEF Frame, Shape
  <2> QED BY <2>1 DEF AtMost
<1>2. top \in Int /\ bottom \in Nat
  BY <1>1
<1>3. setMargins(u, ps) = setCursorPos(w, 1, top)
  BY DEF setMargins
<1> HIDE DEF top, bottom
<1>4. /\ DOMAIN w = Fields /\ w.at = u.at /\ w.w = u.w /\ w.h = u.h
      /\ w.top = top /\ w.bottom = bottom /\ w.saved = u.saved
      /\ w.savedAlt = u.savedAlt /\ w.alt = u.alt /\ w.main = u.main /\ w.altBuf = u.altBuf
      /\ w.back = u.back /\ w.scroll = u.scroll /\ w.sel = u.sel
  BY DEF Frame, Shape, Fields
<1>5. /\ DOMAIN u.at = AtFields /\ DOMAIN u.saved = AtFields /\ DOMAIN u.savedAlt = AtFields
      /\ Spot(u.at) /\ Spot(u.saved) /\ Spot(u.savedAlt)
  BY DEF Frame, Shape
<1> HIDE DEF w
<1>6. Fine(u, w, p)
  BY <1>2, <1>4, <1>5, OtherFine
<1> QED BY <1>3, <1>6, FineCursor

LEMMA SizeWhole ==
    ASSUME NEW u, NEW p, NEW w \in Nat \ {0}, NEW h \in Nat \ {0}, Whole(u, p)
    PROVE  Whole(setTermSize(u, w, h), p \cup (IF w < u.w \/ h < u.h THEN {"shrunk"} ELSE {}))
<1> DEFINE q == p \cup (IF w < u.w \/ h < u.h THEN {"shrunk"} ELSE {})
           v == [u EXCEPT !.w = w, !.h = h, !.top = 1, !.bottom = h]
<1>1. CASE w = u.w /\ h = u.h
  BY <1>1, MoreWhole DEF setTermSize
<1>2. CASE ~(w = u.w /\ h = u.h)
  <2>0. Frame(u) /\ Chosen(u, p) /\ Viewed(u, p)
    BY DEF Whole
  <2>1. /\ DOMAIN v = Fields /\ v.at = u.at /\ v.w = w /\ v.h = h
        /\ v.top = 1 /\ v.bottom = h /\ v.saved = u.saved
        /\ v.savedAlt = u.savedAlt /\ v.alt = u.alt /\ v.main = u.main /\ v.altBuf = u.altBuf
        /\ v.back = u.back /\ v.scroll = u.scroll /\ v.sel = u.sel
    BY <2>0 DEF Frame, Shape, Fields
  <2>2. setTermSize(u, w, h) = resetTabs(v)
    BY <1>2 DEF setTermSize
  <2> HIDE DEF v
  <2>3. Frame(v)
    BY <2>0, <2>1 DEF Frame, Shape, Depth
  <2>4. Chosen(v, q)
    <3> SUFFICES ASSUME "shrunk" \notin q, u.sel # NoSelection PROVE u.sel[2] <= h
      BY <2>1 DEF Chosen
    <3>1. "shrunk" \notin p /\ ~(h < u.h)
      OBVIOUS
    <3>2. u.sel[2] <= u.h /\ u.h \in Int
      BY <2>0, <3>1 DEF Chosen, Frame, Shape
    <3>3. u.sel[2] \in Int
      BY <2>0 DEF Frame, Rows
    <3> QED BY <3>1, <3>2, <3>3
  <2>5. Viewed(v, q)
    BY <2>0, <2>1 DEF Viewed, Depth
  <2>6. Whole(v, q) /\ Fine(v, resetTabs(v), q)
    BY <2>3, <2>4, <2>5, TabsFine DEF Whole
  <2> QED BY <2>2, <2>6, FineWhole
<1> QED BY <1>1, <1>2

LEMMA SelectFine ==
    ASSUME NEW u, NEW p, NEW a \in Int, NEW b \in Int, Frame(u)
    PROVE  Fine(u, setSelection(u, a, b), p)
<1> DEFINE c == IF a < 1 THEN 1 ELSE a
           d == IF b > u.h THEN u.h ELSE b
           s == <<c, d>>
<1>1. c \in Int /\ 1 <= c /\ d \in Int /\ d <= u.h
  BY DEF Frame, Shape
<1>2. setSelection(u, a, b) = [u EXCEPT !.sel = s]
  BY DEF setSelection
<1> HIDE DEF c, d
<1>3. Rows(s) /\ s[2] <= u.h
  BY <1>1 DEF Rows
<1> HIDE DEF s
<1> QED BY <1>2, <1>3, WholeSel DEF Fine

LEMMA DoWhole ==
    ASSUME NEW u, NEW p, Become(u, p), Whole(u, past \cup p)
    PROVE  Whole(t, past)'
<1>1. t' = u /\ past' = past \cup p
  BY DEF Become
<1>2. Whole(t, past)' <=> Whole(t', past')
  BY DEF Whole, Frame, Shape, Chosen, Viewed, Depth
<1> QED BY <1>1, <1>2

LEMMA FineDo ==
    ASSUME NEW u, Whole(t, past), Do(u), Frame(t) => Fine(t, u, past)
    PROVE  Whole(t, past)'
<1>1. Whole(u, past)
  BY FineWhole DEF Whole
<1>2. Whole(u, past \cup {})
  BY <1>1, MoreWhole
<1> QED BY <1>2, DoWhole DEF Do

(* Taking lines out of the history while it is seen is remembered.            *)
LEMMA TakeWhole ==
    ASSUME NEW u, Whole(t, past), Take(u), Partly(t, u, past)
    PROVE  Whole(t, past)'
<1> DEFINE q == past \cup Taken(u)
           b == t.back
           c == u.back
<1>1. Frame(u) /\ Chosen(u, past) /\ u.scroll = t.scroll /\ u.alt = t.alt
  BY DEF Whole, Partly
<1>2. Chosen(u, q)
  BY <1>1 DEF Chosen
<1>3. ASSUME "taken" \notin q PROVE u.scroll <= Depth(u) /\ (u.alt => u.scroll = 0)
  <2>1. ~(t.scroll > 0 /\ Len(c) < Len(b))
    BY <1>3 DEF Taken
  <2>2. t.scroll <= Len(b) /\ (t.alt => t.scroll = 0)
    BY <1>3 DEF Whole, Viewed, Depth
  <2>3. t.scroll \in Nat /\ Len(b) \in Nat /\ Len(c) \in Nat
    BY <1>1, WholeFrame DEF Whole, Frame, Depth
  <2>4. Depth(u) = Len(c)
    BY DEF Depth
  <2> HIDE DEF b, c
  <2>5. t.scroll <= Len(c)
    BY <2>1, <2>2, <2>3
  <2>6. u.alt => u.scroll = 0
    BY <1>1, <2>2
  <2> QED BY <1>1, <2>4, <2>5, <2>6
<1>4. Whole(u, q)
  BY <1>1, <1>2, <1>3 DEF Whole, Viewed
<1>5. Become(u, Taken(u))
  BY DEF Take
<1> HIDE DEF q
<1> QED BY <1>4, <1>5, DoWhole DEF q

LEMMA CharactersWhole == ASSUME Whole(t, past), Characters PROVE Whole(t, past)'
<1>1. CASE putChar
  BY <1>1, WritingFine, FineDo DEF putChar
<1>2. CASE lineFeed
  BY <1>2, WritingFine, FineDo DEF lineFeed
<1>3. CASE carriageReturn
  BY <1>3, CursorFine, FineDo DEF carriageReturn
<1>4. CASE backspace
  BY <1>4, CursorFine, FineDo DEF backspace
<1>5. CASE tabForward(1)
  BY <1>5, TabsFine, FineDo DEF tabForward
<1> QED BY <1>1, <1>2, <1>3, <1>4, <1>5 DEF Characters

LEMMA ParamsWhole == ASSUME Whole(t, past), Sequences1 PROVE Whole(t, past)'
<1> PICK ps \in ParamLists :
       \/ cursorUp(ps) \/ cursorDown(ps) \/ cursorFwd(ps) \/ cursorBack(ps)
       \/ cursorNextLine(ps) \/ cursorPrevLine(ps) \/ goToColumn(ps) \/ goToRow(ps)
       \/ cursorTo(ps) \/ eraseDisplay(ps) \/ eraseLine(ps) \/ eraseChars(ps)
       \/ deleteChars(ps) \/ insertChars(ps) \/ insertLines(ps) \/ deleteLines(ps)
       \/ scrollUpBy(ps) \/ scrollDownBy(ps) \/ tabClear(ps) \/ region(ps)
       \/ Len(ps) <= 1 /\ tabForward(Param(ps, 1))
       \/ Len(ps) <= 1 /\ tabBackward(Param(ps, 1))
  BY DEF Sequences1
<1>0. ps \in Seq(Nat) /\ Frame(t)
  BY ParamAssumption DEF Whole
<1>1. CASE cursorUp(ps) \/ cursorDown(ps) \/ cursorFwd(ps) \/ cursorBack(ps)
  BY <1>1, CursorFine, FineDo DEF cursorUp, cursorDown, cursorFwd, cursorBack
<1>2. CASE cursorNextLine(ps) \/ cursorPrevLine(ps) \/ goToColumn(ps) \/ goToRow(ps)
           \/ cursorTo(ps)
  BY <1>2, CursorFine, FineDo
     DEF cursorNextLine, cursorPrevLine, goToColumn, goToRow, cursorTo
<1>3. CASE eraseDisplay(ps) \/ eraseLine(ps) \/ eraseChars(ps)
  BY <1>0, <1>3, EditingFine, FineDo DEF eraseDisplay, eraseLine, eraseChars
<1>4. CASE deleteChars(ps) \/ insertChars(ps) \/ deleteLines(ps)
  BY <1>0, <1>4, EditingFine, FineDo DEF deleteChars, insertChars, deleteLines
<1>5. CASE insertLines(ps)
  BY <1>0, <1>5, TakingFine, TakeWhole DEF insertLines
<1>6. CASE scrollUpBy(ps) \/ scrollDownBy(ps)
  <2>1. p1(ps) \in Int /\ t.top \in Int
    BY <1>0, ParamNat DEF Frame
  <2>2. Fine(t, scrollUp(t, p1(ps)), past)
    BY <1>0, <2>1, UpFine DEF scrollUp
  <2>3. Fine(t, scrollDown(t, p1(ps)), past)
    BY <1>0, <2>1, DownFine DEF scrollDown
  <2> QED BY <1>6, <2>2, <2>3, FineDo DEF scrollUpBy, scrollDownBy
<1>7. CASE tabClear(ps)
  BY <1>7, TabsFine, FineDo DEF tabClear
<1>8. CASE region(ps)
  <2> DEFINE u == setMargins(t, ps)
             inside == 1 <= u.top /\ u.top <= u.bottom /\ u.bottom <= u.h
             p == IF inside THEN {} ELSE {"margins"}
  <2>1. Fine(t, u, past)
    BY <1>0, MarginsFine
  <2>2. Whole(u, past)
    BY <2>1, FineWhole
  <2>3. Become(u, p)
    BY <1>8 DEF region
  <2> HIDE DEF u, p
  <2>4. Whole(u, past \cup p)
    BY <2>2, MoreWhole
  <2> QED BY <2>3, <2>4, DoWhole
<1>9. CASE tabForward(Param(ps, 1))
  BY <1>9, TabsFine, FineDo DEF tabForward
<1>10. CASE tabBackward(Param(ps, 1))
  BY <1>10, TabsFine, FineDo DEF tabBackward
<1> QED BY <1>1, <1>2, <1>3, <1>4, <1>5, <1>6, <1>7, <1>8, <1>9, <1>10

LEMMA PlainWhole == ASSUME Whole(t, past), Sequences0 PROVE Whole(t, past)'
<1>0. Frame(t)
  BY DEF Whole
<1>1. CASE saveCursor \/ restoreCursor
  BY <1>1, SaveFine, FineDo DEF saveCursor, restoreCursor
<1>2. CASE tabSet
  BY <1>2, TabsFine, FineDo DEF tabSet
<1>3. CASE index \/ nextLineDown
  <2>1. 1 \in Int
    OBVIOUS
  <2>2. Fine(t, scrollFwd(t, 1, t.at.y), past) /\ Fine(t, nextLine(t), past)
    BY <1>0, <2>1, UpFine, WritingFine
  <2> QED BY <1>3, <2>2, FineDo DEF index, nextLineDown
<1>4. CASE reverseIndex
  <2>1. <<>> \in Seq(Nat)
    OBVIOUS
  <2>2. Partly(t, scrollBack(t, 1, t.at.y, TRUE), past)
    BY <1>0, <2>1, TakingFine
  <2> QED BY <1>4, <2>2, TakeWhole DEF reverseIndex
<1>5. ASSUME NEW u, NEW q, t' = u, past' = q, Whole(u, q) PROVE Whole(t, past)'
  <2>1. Whole(t, past)' <=> Whole(t', past')
    BY DEF Whole, Frame, Shape, Chosen, Viewed, Depth
  <2> QED BY <1>5, <2>1
<1>6. CASE softReset
  <2>1. t' = resetTerminal(t, FALSE) /\ past' = past \cup {}
    BY <1>6 DEF softReset, Do, Become
  <2>2. Whole(resetTerminal(t, FALSE), past \cup {})
    BY <1>0, ResetWhole
  <2> QED BY <2>1, <2>2, <1>5
<1>7. CASE fullReset
  <2>1. t' = resetTerminal(t, TRUE) /\ past' = {}
    BY <1>7 DEF fullReset
  <2>2. Whole(resetTerminal(t, TRUE), {})
    BY <1>0, ResetWhole
  <2> QED BY <2>1, <2>2, <1>5
<1>8. CASE alignmentTest
  BY <1>8, ErasingFine, FineDo DEF alignmentTest
<1>9. ASSUME NEW set \in BOOLEAN, altScreen(set) PROVE Whole(t, past)'
  <2>1. Become(useAltScreen(t, set), {})
    BY <1>9 DEF altScreen
  <2>2. Whole(useAltScreen(t, TRUE), past \cup {}) /\ Whole(useAltScreen(t, FALSE), past \cup {})
    BY <1>0, AltScreenWhole
  <2>3. CASE set = TRUE
    BY <2>1, <2>2, <2>3, DoWhole
  <2>4. CASE set = FALSE
    BY <2>1, <2>2, <2>4, DoWhole
  <2> QED BY <2>3, <2>4
<1>10. ASSUME NEW set \in BOOLEAN, NEW mode \in {"origin", "wrap", "replace", "newline"},
              modeSet(mode, set)
       PROVE  Whole(t, past)'
  BY <1>0, <1>10, ModeFine, FineDo DEF modeSet
<1>11. ASSUME NEW ps \in SgrLists, pen(ps) PROVE Whole(t, past)'
  <2> DEFINE q == handleSGR(t.at.pen, IF ps = <<>> THEN <<0>> ELSE ps)
  <2>1. Do([t EXCEPT !.at.pen = q])
    BY <1>0, <1>11 DEF pen, Frame, Shape, Fields, AtFields
  <2> HIDE DEF q
  <2>2. "wrap" \in {"origin", "wrap", "replace", "newline"}
    OBVIOUS
  <2>3. Fine(t, [t EXCEPT !.at.pen = q], past)
    BY <1>0, <2>2, ModeFine
  <2> QED BY <2>1, <2>3, FineDo
<1> QED BY <1>1, <1>2, <1>3, <1>4, <1>6, <1>7, <1>8, <1>9, <1>10, <1>11 DEF Sequences0

LEMMA UserWhole == ASSUME Whole(t, past), User PROVE Whole(t, past)'
<1>0. Frame(t) /\ t.h \in Nat
  BY DEF Whole, Frame, Shape
<1>1. ASSUME NEW s \in Sizes, resize(s[1], s[2]) PROVE Whole(t, past)'
  <2> DEFINE w == s[1]
             h == s[2]
             u == setTermSize(t, w, h)
             p == IF w < t.w \/ h < t.h THEN {"shrunk"} ELSE {}
  <2>1. w \in Nat \ {0} /\ h \in Nat \ {0}
    BY SizeAssumption
  <2> HIDE DEF w, h
  <2>2. Whole(u, past \cup p)
    BY <2>1, SizeWhole
  <2>3. Become(u, p)
    BY <1>1 DEF resize, w, h
  <2> HIDE DEF u, p
  <2> QED BY <2>2, <2>3, DoWhole
<1>2. ASSUME NEW escape \in BOOLEAN, keyPress(escape) PROVE Whole(t, past)'
  <2> DEFINE v == resetBackBufferScrollPos(t)
             u == IF escape THEN v ELSE clearSelection(v)
  <2>1. Fine(t, v, past)
    BY <1>0, FineSelf, FineViewReset
  <2> HIDE DEF v
  <2>2. Fine(t, u, past)
    BY <2>1, FineDeselected
  <2>3. Do(u)
    BY <1>2 DEF keyPress, v
  <2> HIDE DEF u
  <2> QED BY <2>2, <2>3, FineDo
<1>3. ASSUME NEW n \in ViewSteps, viewFwd(n) \/ viewBack(n) PROVE Whole(t, past)'
  <2>1. n \in Int
    BY StepAssumption
  <2> QED BY <1>0, <1>3, <2>1, ViewFine, FineDo DEF viewFwd, viewBack
<1>4. ASSUME NEW a \in 0..(t.h + 1), NEW b \in 0..(t.h + 1), select(a, b) PROVE Whole(t, past)'
  <2>1. a \in Int /\ b \in Int
    BY <1>0
  <2>2. Fine(t, setSelection(t, a, b), past)
    BY <1>0, <2>1, SelectFine
  <2> QED BY <1>4, <2>2, FineDo DEF select
<1>5. CASE deselect
  <2>1. Fine(t, clearSelection(t), past)
    BY <1>0, FineSelf, FineDeselected
  <2> QED BY <1>5, <2>1, FineDo DEF deselect
<1> QED BY <1>1, <1>2, <1>3, <1>4, <1>5 DEF User

LEMMA InitWhole == Init => Whole(t, past)
<1> SUFFICES ASSUME Init PROVE Whole(t, past)
  OBVIOUS
<1> PICK s \in Sizes : t = Fresh(s[1], s[2])
  BY DEF Init
<1>1. s[1] \in Nat \ {0} /\ s[2] \in Nat \ {0}
  BY SizeAssumption
<1>2. Shape(t) /\ ~t.alt
  BY <1>1 DEF Fresh, Shape, Fields, AtFields
<1>3. /\ Spot(t.at) /\ t.saved = t.at /\ t.savedAlt = t.at
      /\ t.top \in Int /\ t.bottom \in Nat /\ t.scroll = 0 /\ t.sel = NoSelection
      /\ t.main = <<>> /\ t.altBuf = <<>> /\ t.back = <<>>
  BY <1>1 DEF Fresh, Spot
<1>4. IsList(<<>>) /\ Len(<<>>) = 0
  <2>1. <<>> \in Seq({})
    OBVIOUS
  <2> QED BY <2>1, ListOf
<1>5. 0 <= BackLimit
  BY LimitAssumption
<1>6. Rows(NoSelection)
  BY DEF Rows
<1>7. Depth(t) = 0
  BY <1>3, <1>4 DEF Depth
<1>8. Frame(t)
  BY <1>2, <1>3, <1>4, <1>5, <1>6, <1>7 DEF Frame
<1>9. Chosen(t, past) /\ Viewed(t, past)
  BY <1>2, <1>3, <1>7 DEF Chosen, Viewed
<1> QED BY <1>8, <1>9 DEF Whole

(* Whatever happens, the record is whole.                                     *)
THEOREM AlwaysWhole == Spec => []Whole(t, past)
<1>1. Init => Whole(t, past)
  BY InitWhole
<1>2. Whole(t, past) /\ [Next]_vars => Whole(t, past)'
  <2> SUFFICES ASSUME Whole(t, past), [Next]_vars PROVE Whole(t, past)'
    OBVIOUS
  <2>1. CASE Next
    BY <2>1, CharactersWhole, ParamsWhole, PlainWhole, UserWhole DEF Next
  <2>2. CASE UNCHANGED vars
    BY <2>2 DEF vars, Whole, Frame, Shape, Chosen, Viewed, Depth
  <2> QED BY <2>1, <2>2
<1> QED BY <1>1, <1>2, PTL DEF Spec

(* However the screen is resized and scrolled, and whatever the limit of the  *)
(* history is, the history keeps it and the view starts in the history or at  *)
(* the screen, and at the screen when the second one is shown.                *)
THEOREM ViewAlwaysInHistory == Spec => []ViewInHistory
<1>1. Whole(t, past) => ViewInHistory
  <2> SUFFICES ASSUME Whole(t, past) PROVE ViewInHistory
    OBVIOUS
  <2>1. Depth(t) <= BackLimit /\ Depth(t) \in Nat /\ t.scroll \in Nat
    BY WholeFrame DEF Whole, Frame
  <2>2. "taken" \notin past => t.scroll \in 0 .. Depth(t) /\ (t.alt => t.scroll = 0)
    BY <2>1 DEF Whole, Viewed
  <2> QED BY <2>1, <2>2 DEF ViewInHistory, Depth
<1> QED BY <1>1, AlwaysWhole, PTL

LEMMA SameLists ==
    ASSUME NEW a, NEW b, IsList(a), IsList(b), Len(a) = Len(b),
           \A i \in 1 .. Len(a) : a[i] = b[i]
    PROVE  a = b
<1>1. a \in [1 .. Len(a) -> Range(a)] /\ b \in [1 .. Len(b) -> Range(b)]
  BY LenProperties DEF IsList
<1> QED BY <1>1

LEMMA NoRow == \A i : Row(<<>>, i) = <<>>
<1>1. Len(<<>>) = 0
  OBVIOUS
<1> QED BY <1>1 DEF Row

LEMMA NewestAll ==
    ASSUME NEW b, IsList(b), Len(b) <= BackLimit
    PROVE  Newest(b) = b
<1>1. Len(b) \in Nat /\ BackLimit \in Nat
  BY ListHas, LimitAssumption
<1>2. Newest(b) = SubSeq(b, 1, Len(b))
  <2>1. Len(b) - Len(b) + 1 = 1 /\ ~(Len(b) > BackLimit)
    BY <1>1
  <2> QED BY <2>1 DEF Newest
<1> DEFINE q == SubSeq(b, 1, Len(b))
<1>3. IsList(q) /\ Len(q) = Len(b) /\ \A i \in 1 .. Len(b) : q[i] = b[i]
  <2>1. /\ IsList(q) /\ Len(q) = IF 1 <= Len(b) THEN Len(b) - 1 + 1 ELSE 0
        /\ \A i \in 1 .. Len(b) - 1 + 1 : q[i] = b[1 + i - 1]
    BY <1>1, PartGives
  <2> HIDE DEF q
  <2>2. Len(b) - 1 + 1 = Len(b) /\ \A i \in 1 .. Len(b) : 1 + i - 1 = i
    BY <1>1
  <2> QED BY <1>1, <2>1, <2>2
<1> HIDE DEF q
<1>4. q = b
  BY <1>3, SameLists
<1> QED BY <1>2, <1>4 DEF q

(* A scroll up of a region that reaches down to the bottom margin.            *)
LEMMA RegionUp ==
    ASSUME Frame(t), NEW at \in Int, at \in 1 .. t.bottom, NEW n \in Nat, n > 0
    PROVE  LET v == scrollFwd(t, n, at)
           IN  /\ RowsMove(v, at, t.bottom, n, <<>>)
               /\ v.back = HistoryWith([k \in 1 .. n |-> RowIn(at + k - 1, at, t.bottom)])
<1> DEFINE b == Buf(t)
           back == t.back
           alt == t.alt
           bottom == t.bottom
           v == scrollFwd(t, n, at)
           left == [k \in 1 .. n |-> RowIn(at + k - 1, at, bottom)]
<1>1. IsList(b) /\ IsList(back) /\ Len(b) \in Nat /\ Len(back) \in Nat /\ bottom \in Nat
      /\ Len(back) <= BackLimit
  BY WholeFrame, ListHas DEF Frame, Depth
<1>2. PICK r : UpResult(b, back, alt, bottom, n, at, r) /\ Buf(v) = r[1] /\ v.back = Newest(r[2])
  BY UpFields
<1>3. at \in 1 .. bottom
  OBVIOUS
<1> HIDE DEF v, bottom, back, alt
<1>4. ASSUME NEW i \in Int
      PROVE  Row(Buf(v), i) = IF i \notin at .. bottom THEN Row(b, i)
                              ELSE IF i + n > bottom THEN <<>> ELSE Row(b, i + n)
  <2> HIDE DEF b
  <2>1. Row(Buf(v), i) = IF i \in at .. bottom THEN FromBelow(b, bottom, i + n) ELSE Row(b, i)
    BY <1>2, <1>3 DEF UpResult
  <2>2. i + n > bottom <=> ~(i + n <= bottom)
    BY <1>1
  <2> QED BY <2>1, <2>2 DEF FromBelow
<1>5. RowsMove(v, at, bottom, n, <<>>)
  <2> DEFINE limit == Len(Buf(t)) + Len(Buf(v))
  <2> SUFFICES ASSUME NEW i \in 1 .. limit
               PROVE  LET from == i + n
                          enters(k) == Row(<<>>, Len(<<>>) + 1 - k)
                      IN  Row(Buf(v), i) = IF i \notin at .. bottom THEN Row(b, i)
                                           ELSE IF from < at THEN enters(at - from)
                                           ELSE IF from > bottom THEN enters(from - bottom)
                                           ELSE Row(b, from)
    BY DEF RowsMove
  <2>1. i \in Int
    OBVIOUS
  <2>2. i \in at .. bottom => ~(i + n < at)
    BY <1>1, <2>1
  <2> HIDE DEF b, limit
  <2> QED BY <1>4, <2>1, <2>2, NoRow
<1>6. v.back = HistoryWith(left)
  <2> DEFINE c == r[2]
             whole == back \o left
  <2>1. IsList(left) /\ Len(left) = n
    BY Listed
  <2>2. \A k \in 1 .. n : left[k] = RowIn(at + k - 1, at, bottom)
    OBVIOUS
  <2> HIDE DEF left
  <2>3. IsList(c) /\ (alt => c = back) /\ (~alt => Len(c) = Len(back) + n)
        /\ \A j \in 1 .. Len(c) : c[j] = IF j <= Len(back) THEN back[j]
                                         ELSE FromBelow(b, bottom, at + j - Len(back) - 1)
    BY <1>2, <1>3 DEF UpResult
  <2>4. CASE alt
    <3> HIDE DEF c
    <3>1. v.back = back
      BY <1>1, <1>2, <2>3, <2>4, NewestAll DEF c
    <3> QED BY <2>4, <3>1 DEF HistoryWith, alt, back
  <2>5. CASE ~alt
    <3>1. /\ IsList(whole) /\ Len(whole) = Len(back) + n
          /\ \A i \in 1 .. Len(back) + n :
                whole[i] = IF i <= Len(back) THEN back[i] ELSE left[i - Len(back)]
      BY <1>1, <2>1, ConcatGives
    <3> HIDE DEF c, whole, b
    <3>2. ASSUME NEW i \in 1 .. Len(c) PROVE c[i] = whole[i]
      <4>0. Len(c) = Len(back) + n /\ i \in 1 .. Len(back) + n
        BY <2>3, <2>5
      <4>1. CASE i <= Len(back)
        BY <2>3, <3>1, <4>0, <4>1
      <4>2. CASE ~(i <= Len(back))
        <5> DEFINE k == i - Len(back)
                   j == at + k - 1
        <5>1. k \in 1 .. n /\ at + i - Len(back) - 1 = j /\ j \in Int /\ j >= at
          BY <1>1, <4>0, <4>2
        <5> HIDE DEF k
        <5>2. whole[i] = RowIn(j, at, bottom) /\ c[i] = FromBelow(b, bottom, j)
          BY <2>2, <2>3, <3>1, <4>0, <4>2, <5>1 DEF k
        <5> HIDE DEF j
        <5>3. RowIn(j, at, bottom) = IF j <= bottom THEN Row(b, j) ELSE <<>>
          BY <1>1, <5>1 DEF RowIn, b
        <5> QED BY <5>2, <5>3 DEF FromBelow
      <4> QED BY <4>1, <4>2
    <3>3. c = whole
      <4>1. Len(c) = Len(whole)
        BY <2>3, <2>5, <3>1
      <4> QED BY <2>3, <3>1, <3>2, <4>1, SameLists
    <3>4. v.back = Newest(whole)
      BY <1>2, <3>3 DEF c
    <3> QED BY <2>5, <3>4 DEF HistoryWith, alt, back, whole
  <2> QED BY <2>4, <2>5
<1> QED BY <1>5, <1>6 DEF v, bottom

(* A scroll down of a region that ends at the bottom margin, or before it     *)
(* with the lines there are.                                                  *)
LEMMA RegionDown ==
    ASSUME Frame(t), NEW at \in Int, at \in 1 .. t.bottom, NEW n \in Nat, n > 0, NEW history
    PROVE  RowsMove(scrollBack(t, n, at, history), at, AtMost(t.bottom, Len(Buf(t))), -n,
                    Lent(t.back, t.alt, history))
<1> DEFINE b == Buf(t)
           bottom == t.bottom
           end == AtMost(bottom, Len(b))
           v == scrollBack(t, n, at, history)
           lent == Lent(t.back, t.alt, history)
<1>1. Len(b) \in Nat /\ bottom \in Nat
  BY WholeFrame, ListHas DEF Frame
<1>2. PICK r : DownResult(b, t.back, t.alt, bottom, n, at, history, r) /\ Buf(v) = r[1]
  BY DownFields
<1>3. at \in 1 .. bottom
  OBVIOUS
<1> HIDE DEF v, bottom, b
<1>4. end \in Int
  BY <1>1 DEF AtMost
<1>5. ASSUME NEW i \in Int
      PROVE  Row(Buf(v), i) = IF i \in at .. end THEN FromAbove(b, at, lent, i - n) ELSE Row(b, i)
  BY <1>2, <1>3 DEF DownResult
<1> HIDE DEF end, lent
<1>6. RowsMove(v, at, end, -n, lent)
  <2> DEFINE limit == Len(Buf(t)) + Len(Buf(v))
  <2> SUFFICES ASSUME NEW i \in 1 .. limit
               PROVE  LET from == i + -n
                          enters(k) == Row(lent, Len(lent) + 1 - k)
                      IN  Row(Buf(v), i) = IF i \notin at .. end THEN Row(b, i)
                                           ELSE IF from < at THEN enters(at - from)
                                           ELSE IF from > end THEN enters(from - end)
                                           ELSE Row(b, from)
    BY DEF RowsMove, b
  <2>1. i \in Int /\ i + -n = i - n
    OBVIOUS
  <2>2. i \in at .. end => ~(i - n > end) /\ (i - n >= at <=> ~(i - n < at))
    BY <1>4, <2>1
  <2> HIDE DEF limit
  <2> QED BY <1>5, <2>1, <2>2 DEF FromAbove, FromEnd
<1> QED BY <1>6 DEF v, bottom, b, end, lent

(* One line, from a row below the bottom margin: the first step of the        *)
(* recursive functions.                                                       *)
LEMMA PutRows ==
    ASSUME NEW a, IsList(a), NEW l, NEW p \in 1 .. Len(a) + 1, NEW i \in Int
    PROVE  Row(Put(a, p, l), i) = IF i < p THEN Row(a, i) ELSE IF i = p THEN l ELSE Row(a, i - 1)
<1> DEFINE b == Put(a, p, l)
<1>1. Len(a) \in Nat /\ p \in Int
  BY ListHas
<1>2. /\ Len(b) = Len(a) + 1
      /\ \A j \in 1 .. Len(a) + 1 : b[j] = IF j < p THEN a[j] ELSE IF j = p THEN l ELSE a[j - 1]
  BY <1>1, PutGives
<1> HIDE DEF b
<1>3. CASE i \in 1 .. Len(a) + 1
  <2>1. b[i] = IF i < p THEN a[i] ELSE IF i = p THEN l ELSE a[i - 1]
    BY <1>2, <1>3
  <2>2. (i < p => i \in 1 .. Len(a)) /\ (i > p => i - 1 \in 1 .. Len(a))
    BY <1>1, <1>3
  <2> QED BY <1>1, <1>2, <1>3, <2>1, <2>2 DEF Row, b
<1>4. CASE i \notin 1 .. Len(a) + 1
  <2>1. i # p /\ (i < p => i \notin 1 .. Len(a)) /\ (i > p => i - 1 \notin 1 .. Len(a))
    BY <1>1, <1>4
  <2> QED BY <1>1, <1>2, <1>4, <2>1 DEF Row, b
<1> QED BY <1>3, <1>4

LEMMA UpBelow ==
    ASSUME NEW u, IsList(Buf(u)), IsList(u.back), u.bottom \in Nat, NEW at \in Int, at > u.bottom
    PROVE  LET r == ScrolledUp(u, 1, at)
               b == Buf(u)
           IN  /\ \A i \in Int : Row(r[1], i) = IF i \in u.bottom + 1 .. at - 1
                                                THEN (IF i - 1 > u.bottom THEN Row(b, i - 1) ELSE <<>>)
                                                ELSE Row(b, i)
               /\ r[2] = IF u.alt THEN u.back
                         ELSE Append(u.back, IF at - 1 > u.bottom THEN Row(b, at - 1) ELSE <<>>)
<1> PICK h : Steps(h, 1, "up", u, at, FALSE) /\ ScrolledUp(u, 1, at) = h[1]
  BY UpSteps
<1> DEFINE b == Buf(u)
           back == u.back
           alt == u.alt
           bottom == u.bottom
           a == Pad(b, bottom)
           p == bottom + 1
           x == Put(a, p, <<>>)
           c == Drop(x, at)
           r == h[1]
<1>1. h[0] = <<a, back>> /\ h[1] = UpLine(alt, back, bottom, at, h[0])
  <2>1. 0 \in 0 .. 1 /\ 1 \in 0 .. 1 /\ 1 - 1 = 0
    OBVIOUS
  <2> QED BY <2>1 DEF Steps, Step, First, UpStep
<1>2. IsList(b) /\ IsList(back) /\ bottom \in Nat /\ at > bottom
  OBVIOUS
<1> HIDE DEF b, bottom, back, alt
<1>3. IsList(a) /\ Len(a) \in Nat /\ Len(a) >= bottom /\ \A i : Row(a, i) = Row(b, i)
  <2>1. Len(b) \in Nat
    BY <1>2, ListHas
  <2>2. IsList(a) /\ Len(a) = (IF bottom > Len(b) THEN bottom ELSE Len(b)) /\ \A i : Row(a, i) = Row(b, i)
    BY <1>2, PadGives
  <2> HIDE DEF a
  <2> QED BY <1>2, <2>1, <2>2
<1>4. r[1] = c /\ r[2] = IF alt THEN back ELSE Append(back, Row(x, at))
  BY <1>1 DEF UpLine
<1> HIDE DEF a
<1>5. p \in 1 .. Len(a) + 1 /\ p <= at
  BY <1>2, <1>3
<1> HIDE DEF p
<1>6. \A i \in Int : Row(x, i) = IF i < p THEN Row(a, i) ELSE IF i = p THEN <<>> ELSE Row(a, i - 1)
  BY <1>3, <1>5, PutRows
<1>7. ASSUME NEW i \in Int
      PROVE  Row(c, i) = IF i \in p .. at - 1 THEN (IF i - 1 > bottom THEN Row(b, i - 1) ELSE <<>>)
                         ELSE Row(b, i)
  <2>1. CASE at <= Len(a) + 1
    <3>1. at \in 1 .. Len(a) + 1
      BY <1>3, <1>5, <2>1
    <3>2. Slid(a, p, at, <<>>, c)
      BY <1>3, <1>5, <3>1, Slide
    <3> HIDE DEF c
    <3>3. /\ p <= i /\ i < at => Row(c, i) = IF i = p THEN <<>> ELSE Row(a, i - 1)
          /\ ~(p <= i /\ i < at) /\ ~(at <= i /\ i < p) => Row(c, i) = Row(a, i)
      BY <3>2 DEF Slid
    <3>4. (p <= i /\ i < at <=> i \in p .. at - 1) /\ ~(at <= i /\ i < p)
          /\ (i \in p .. at - 1 => (i = p <=> ~(i - 1 > bottom)))
      BY <1>2, <1>5 DEF p
    <3> QED BY <1>3, <3>3, <3>4
  <2>2. CASE ~(at <= Len(a) + 1)
    <3>1. Len(x) = Len(a) + 1
      BY <1>3, <1>5, PutGives
    <3> HIDE DEF x
    <3>2. c = x
      BY <1>3, <2>2, <3>1 DEF Drop
    <3>3. Row(x, i) = IF i < p THEN Row(a, i) ELSE IF i = p THEN <<>> ELSE Row(a, i - 1)
      BY <1>6
    <3>4. CASE i \in p .. at - 1
      <4>1. ~(i < p) /\ (i = p <=> ~(i - 1 > bottom))
        BY <1>2, <1>5, <3>4 DEF p
      <4> QED BY <1>3, <3>2, <3>3, <3>4, <4>1
    <3>5. CASE i < p
      <4>1. i \notin p .. at - 1
        BY <1>5, <3>5
      <4> QED BY <1>3, <3>2, <3>3, <3>5, <4>1
    <3>6. CASE i >= at
      <4>1. i \notin p .. at - 1 /\ ~(i < p) /\ i - 1 \notin 1 .. Len(a) /\ i \notin 1 .. Len(a)
        BY <1>3, <1>5, <2>2, <3>6
      <4>2. Row(x, i) = <<>> /\ Row(a, i) = <<>>
        BY <3>3, <4>1 DEF Row
      <4> QED BY <1>3, <3>2, <4>1, <4>2
    <3> QED BY <1>5, <3>4, <3>5, <3>6
  <2> QED BY <2>1, <2>2
<1>8. Row(x, at) = IF at - 1 > bottom THEN Row(b, at - 1) ELSE <<>>
  <2>1. Row(x, at) = IF at < p THEN Row(a, at) ELSE IF at = p THEN <<>> ELSE Row(a, at - 1)
    BY <1>6
  <2>2. ~(at < p) /\ (at = p <=> ~(at - 1 > bottom))
    BY <1>2, <1>5 DEF p
  <2> QED BY <1>3, <2>1, <2>2
<1> HIDE DEF c, x, r
<1>9. /\ \A i \in Int : Row(r[1], i) = IF i \in bottom + 1 .. at - 1
                                       THEN (IF i - 1 > bottom THEN Row(b, i - 1) ELSE <<>>)
                                       ELSE Row(b, i)
      /\ r[2] = IF alt THEN back ELSE Append(back, IF at - 1 > bottom THEN Row(b, at - 1) ELSE <<>>)
  BY <1>4, <1>7, <1>8 DEF p
<1> QED BY <1>9 DEF r, b, back, alt, bottom

LEMMA DownBelow ==
    ASSUME NEW u, IsList(Buf(u)), IsList(u.back), u.bottom \in Nat, NEW at \in Int, at > u.bottom,
           NEW history
    PROVE  LET r == ScrolledDown(u, 1, at, history)
               b == Buf(u)
               end == AtMost(at - 1, Len(b))
           IN  \A i \in Int : Row(r[1], i) = IF i \in u.bottom + 1 .. end
                                             THEN (IF i + 1 > end
                                                   THEN FromEnd(Lent(u.back, u.alt, history), 1)
                                                   ELSE Row(b, i + 1))
                                             ELSE Row(b, i)
<1> PICK h : Steps(h, 1, "down", u, at, history) /\ ScrolledDown(u, 1, at, history) = h[1]
  BY DownSteps
<1> DEFINE b == Buf(u)
           back == u.back
           alt == u.alt
           bottom == u.bottom
           end == AtMost(at - 1, Len(b))
           lent == Lent(back, alt, history)
           taken == history /\ ~alt /\ back # <<>>
           l == IF taken THEN Last(back) ELSE <<>>
           x == Put(b, at, l)
           out == IF bottom >= Len(x) THEN Len(x) ELSE bottom + 1
           c == Drop(x, out)
           p == AtMost(at, Len(b) + 1)
           r == h[1]
<1>1. h[0] = <<b, back>> /\ h[1] = DownLine(alt, bottom, at, history, h[0])
  <2>1. 0 \in 0 .. 1 /\ 1 \in 0 .. 1 /\ 1 - 1 = 0
    OBVIOUS
  <2> QED BY <2>1 DEF Steps, Step, First, DownStep
<1>2. IsList(b) /\ IsList(back) /\ bottom \in Nat /\ at > bottom /\ Len(b) \in Nat /\ Len(back) \in Nat
  BY ListHas
<1> HIDE DEF b, bottom, back, alt
<1>3. r[1] = c
  BY <1>1 DEF DownLine
<1>4. l = FromEnd(lent, 1)
  <2>1. Less(back, 0, back) /\ 0 + 1 = 1
    BY <1>2 DEF Less
  <2>2. back # <<>> => Last(back) = FromEnd(back, 1)
    BY <1>2, <2>1, NextLent
  <2>3. back = <<>> => FromEnd(back, 1) = <<>>
    BY NoRow DEF FromEnd
  <2>4. FromEnd(<<>>, 1) = <<>>
    BY NoRow DEF FromEnd
  <2> QED BY <2>2, <2>3, <2>4 DEF Lent
<1> HIDE DEF l, lent
<1>5. p \in 1 .. Len(b) + 1 /\ p = (IF at > Len(b) + 1 THEN Len(b) + 1 ELSE at) /\ x = Put(b, p, l)
  <2>1. p \in 1 .. Len(b) + 1 /\ p = IF at > Len(b) + 1 THEN Len(b) + 1 ELSE at
    BY <1>2 DEF AtMost
  <2>2. Bound(at, 1, Len(b) + 1) = p /\ Bound(p, 1, Len(b) + 1) = p
    BY <1>2, <2>1 DEF Bound
  <2> QED BY <2>1, <2>2 DEF Put
<1> HIDE DEF p
<1>6. Len(x) = Len(b) + 1
  BY <1>2, <1>5, PutGives
<1> HIDE DEF x
<1>7. /\ out \in 1 .. Len(b) + 1 /\ out <= p
      /\ end \in Int
      /\ \A i \in Int : /\ out <= i /\ i < p <=> i \in bottom + 1 .. end
                        /\ out <= i /\ i < p => (i = p - 1 <=> i + 1 > end)
  <2>1. end = p - 1 /\ end \in Int
    BY <1>2, <1>5 DEF AtMost
  <2>2. out = IF bottom >= Len(b) + 1 THEN Len(b) + 1 ELSE bottom + 1
    BY <1>6
  <2> HIDE DEF out, end
  <2>3. out \in 1 .. Len(b) + 1 /\ out <= p
    BY <1>2, <1>5, <2>2
  <2>4. ASSUME NEW i \in Int
        PROVE  /\ out <= i /\ i < p <=> i \in bottom + 1 .. end
               /\ out <= i /\ i < p => (i = p - 1 <=> i + 1 > end)
    <3>1. CASE bottom >= Len(b) + 1
      BY <1>2, <1>5, <2>1, <2>2, <3>1
    <3>2. CASE ~(bottom >= Len(b) + 1)
      BY <1>2, <1>5, <2>1, <2>2, <3>2
    <3> QED BY <3>1, <3>2
  <2> QED BY <2>1, <2>3, <2>4
<1> HIDE DEF out, end
<1>8. Slid(b, p, out, l, c)
  BY <1>2, <1>5, <1>7, Slide
<1> HIDE DEF c, r
<1>9. ASSUME NEW i \in Int
      PROVE  Row(r[1], i) = IF i \in bottom + 1 .. end
                            THEN (IF i + 1 > end THEN FromEnd(lent, 1) ELSE Row(b, i + 1))
                            ELSE Row(b, i)
  <2>1. /\ out <= i /\ i < p => Row(c, i) = IF i = p - 1 THEN l ELSE Row(b, i + 1)
        /\ ~(p <= i /\ i < out) /\ ~(out <= i /\ i < p) => Row(c, i) = Row(b, i)
    BY <1>8 DEF Slid
  <2>2. ~(p <= i /\ i < out)
    BY <1>2, <1>5, <1>7
  <2> QED BY <1>3, <1>4, <1>7, <2>1, <2>2
<1> QED BY <1>9 DEF r, b, bottom, end, lent, back, alt

LEMMA RegionBelow ==
    ASSUME Frame(t), NEW at \in Int, at > t.bottom, NEW history
    PROVE  LET up == scrollFwd(t, 1, at)
               down == scrollBack(t, 1, at, history)
           IN  /\ RowsMove(up, t.bottom + 1, at - 1, -1, <<>>)
               /\ up.back = HistoryWith(<<RowIn(at - 1, t.bottom + 1, at - 1)>>)
               /\ RowsMove(down, t.bottom + 1, AtMost(at - 1, Len(Buf(t))), 1,
                           Lent(t.back, t.alt, history))
<1> DEFINE b == Buf(t)
           back == t.back
           alt == t.alt
           bottom == t.bottom
           up == scrollFwd(t, 1, at)
           down == scrollBack(t, 1, at, history)
           end == AtMost(at - 1, Len(b))
           lent == Lent(back, alt, history)
           left == RowIn(at - 1, bottom + 1, at - 1)
           r == ScrolledUp(t, 1, at)
           q == ScrolledDown(t, 1, at, history)
<1>1. /\ IsList(b) /\ IsList(back) /\ Len(b) \in Nat /\ Len(back) \in Nat /\ bottom \in Nat
      /\ at > bottom /\ Len(back) <= BackLimit
  <2>1. IsList(b) /\ IsList(back) /\ bottom \in Nat /\ Len(back) <= BackLimit
    <3> HIDE DEF b, up, down, r, q
    <3>1. IsList(b)
      BY WholeFrame DEF b
    <3> QED BY <3>1 DEF Frame, Depth
  <2>2. at > bottom
    OBVIOUS
  <2> HIDE DEF b, back, bottom
  <2> QED BY <2>1, <2>2, ListHas
<1>2. Buf(up) = r[1] /\ up.back = Newest(r[2])
  <2> DEFINE n == 1
  <2>1. n \in Nat /\ n > 0 /\ Frame(t)
    OBVIOUS
  <2>2. r = ScrolledUp(t, n, at) /\ up = scrollFwd(t, n, at)
    OBVIOUS
  <2> HIDE DEF n, r, up
  <2> QED BY <2>1, <2>2, UpFields
<1>3. Buf(down) = q[1]
  <2> DEFINE n == 1
  <2>1. n \in Nat /\ n > 0 /\ Frame(t)
    OBVIOUS
  <2>2. q = ScrolledDown(t, n, at, history) /\ down = scrollBack(t, n, at, history)
    OBVIOUS
  <2> HIDE DEF n, q, down
  <2> QED BY <2>1, <2>2, DownFields
<1>4. /\ \A i \in Int : Row(r[1], i) = IF i \in bottom + 1 .. at - 1
                                       THEN (IF i - 1 > bottom THEN Row(b, i - 1) ELSE <<>>)
                                       ELSE Row(b, i)
      /\ r[2] = IF alt THEN back ELSE Append(back, IF at - 1 > bottom THEN Row(b, at - 1) ELSE <<>>)
  BY <1>1, UpBelow
<1>5. \A i \in Int : Row(q[1], i) = IF i \in bottom + 1 .. end
                                    THEN (IF i + 1 > end THEN FromEnd(lent, 1) ELSE Row(b, i + 1))
                                    ELSE Row(b, i)
  BY <1>1, DownBelow
<1>6. end \in Int
  BY <1>1 DEF AtMost
<1> HIDE DEF up, down, r, q, b, back, alt, bottom, end, lent
<1>7. RowsMove(up, bottom + 1, at - 1, -1, <<>>)
  <2> DEFINE limit == Len(Buf(t)) + Len(Buf(up))
             lo == bottom + 1
             hi == at - 1
  <2> SUFFICES ASSUME NEW i \in 1 .. limit
               PROVE  LET from == i + -1
                          enters(k) == Row(<<>>, Len(<<>>) + 1 - k)
                      IN  Row(Buf(up), i) = IF i \notin lo .. hi THEN Row(b, i)
                                            ELSE IF from < lo THEN enters(lo - from)
                                            ELSE IF from > hi THEN enters(from - hi)
                                            ELSE Row(b, from)
    BY DEF RowsMove, b
  <2>1. i \in Int /\ i + -1 = i - 1
    OBVIOUS
  <2>2. i \in lo .. hi => ~(i - 1 > hi) /\ (i - 1 > bottom <=> ~(i - 1 < lo))
    BY <1>1, <2>1
  <2> HIDE DEF limit
  <2> QED BY <1>2, <1>4, <2>1, <2>2, NoRow
<1>8. up.back = HistoryWith(<<left>>)
  <2>1. left = IF at - 1 > bottom THEN Row(b, at - 1) ELSE <<>>
    <3>1. at - 1 \in bottom + 1 .. at - 1 <=> at - 1 > bottom
      BY <1>1
    <3> QED BY <3>1 DEF RowIn, b
  <2> HIDE DEF left
  <2>2. CASE alt
    <3>1. up.back = back
      BY <1>1, <1>2, <1>4, <2>2, NewestAll
    <3> QED BY <2>2, <3>1 DEF HistoryWith, alt, back
  <2>3. CASE ~alt
    <3> DEFINE one == <<left>>
               x == Append(back, left)
               y == back \o one
    <3>1. IsList(one) /\ Len(one) = 1 /\ one[1] = left
      BY OneGives
    <3>2. IsList(x) /\ Len(x) = Len(back) + 1
          /\ \A i \in 1 .. Len(back) + 1 : x[i] = IF i <= Len(back) THEN back[i] ELSE left
      BY <1>1, AppendGives
    <3> HIDE DEF one, x
    <3>3. IsList(y) /\ Len(y) = Len(back) + 1
          /\ \A i \in 1 .. Len(back) + 1 : y[i] = IF i <= Len(back) THEN back[i] ELSE one[i - Len(back)]
      BY <1>1, <3>1, ConcatGives
    <3> HIDE DEF y
    <3>4. ASSUME NEW i \in 1 .. Len(x) PROVE x[i] = y[i]
      <4>1. i \in 1 .. Len(back) + 1 /\ (~(i <= Len(back)) => i - Len(back) = 1)
        BY <1>1, <3>2
      <4> QED BY <3>1, <3>2, <3>3, <4>1
    <3>5. x = y
      BY <3>2, <3>3, <3>4, SameLists
    <3>6. up.back = Newest(y)
      BY <1>2, <1>4, <2>1, <2>3, <3>5 DEF x
    <3> QED BY <2>3, <3>6 DEF HistoryWith, alt, back, y, one
  <2> QED BY <2>2, <2>3
<1>9. RowsMove(down, bottom + 1, end, 1, lent)
  <2> DEFINE limit == Len(Buf(t)) + Len(Buf(down))
             lo == bottom + 1
  <2> SUFFICES ASSUME NEW i \in 1 .. limit
               PROVE  LET from == i + 1
                          enters(k) == Row(lent, Len(lent) + 1 - k)
                      IN  Row(Buf(down), i) = IF i \notin lo .. end THEN Row(b, i)
                                              ELSE IF from < lo THEN enters(lo - from)
                                              ELSE IF from > end THEN enters(from - end)
                                              ELSE Row(b, from)
    BY DEF RowsMove, b
  <2>1. i \in Int
    OBVIOUS
  <2>2. i \in lo .. end => ~(i + 1 < lo) /\ (i + 1 > end => (i + 1) - end = 1)
    BY <1>1, <1>6, <2>1
  <2> HIDE DEF limit
  <2> QED BY <1>3, <1>5, <2>1, <2>2 DEF FromEnd
<1> QED BY <1>7, <1>8, <1>9 DEF up, down, b, back, alt, bottom, end, lent

(* What a scroll down leaves of the history.                                  *)
LEMMA HistoryAfter ==
    ASSUME Frame(t), NEW at \in Int, NEW n \in Nat, n > 0
    PROVE  /\ scrollBack(t, n, at, TRUE).back = HistoryLess(n)
           /\ scrollBack(t, n, at, FALSE).back = t.back
<1> DEFINE b == Buf(t)
           back == t.back
           alt == t.alt
           bottom == t.bottom
           yes == TRUE
           no == FALSE
<1>1. IsList(back) /\ Len(back) \in Nat
  BY WholeFrame, ListHas DEF Frame
<1> HIDE DEF yes, no
<1>2. PICK q : DownResult(b, back, alt, bottom, n, at, yes, q) /\ scrollBack(t, n, at, yes).back = q[2]
  BY DownFields
<1>3. PICK r : DownResult(b, back, alt, bottom, n, at, no, r) /\ scrollBack(t, n, at, no).back = r[2]
  BY DownFields
<1> HIDE DEF b, back, alt, bottom
<1>4. r[2] = back
  BY <1>3 DEF DownResult, no
<1>5. q[2] = IF alt THEN back ELSE SubSeq(back, 1, Len(back) - n)
  <2>1. CASE alt
    BY <1>2, <2>1 DEF DownResult
  <2>2. CASE ~alt
    <3> DEFINE d == q[2]
               m == Len(back) - n
               e == SubSeq(back, 1, m)
    <3>1. IsList(d) /\ Less(back, n, d)
      BY <1>2, <2>2 DEF DownResult, yes
    <3>2. Len(d) = (IF n > Len(back) THEN 0 ELSE m) /\ \A j \in 1 .. Len(d) : d[j] = back[j]
      BY <3>1 DEF Less
    <3> HIDE DEF d
    <3>3. m \in Int /\ m <= Len(back)
      BY <1>1
    <3>4. /\ IsList(e) /\ Len(e) = (IF 1 <= m THEN m - 1 + 1 ELSE 0)
          /\ \A i \in 1 .. m - 1 + 1 : e[i] = back[1 + i - 1]
      <4> HIDE DEF m
      <4> QED BY <1>1, <3>3, PartGives
    <3> HIDE DEF e
    <3>5. Len(d) = Len(e) /\ \A i \in 1 .. Len(d) : i \in 1 .. m - 1 + 1 /\ 1 + i - 1 = i
      BY <1>1, <3>2, <3>4
    <3>6. d = e
      <4> HIDE DEF m
      <4> QED BY <3>1, <3>2, <3>4, <3>5, SameLists
    <3> QED BY <2>2, <3>6 DEF d, e
  <2> QED BY <2>1, <2>2
<1> QED BY <1>2, <1>3, <1>4, <1>5 DEF HistoryLess, back, alt, yes, no

(* On screens and histories of any length, for any margins, a scroll from a   *)
(* row of the screen moves its region and no other row, and the history gets  *)
(* and gives what ScrollMovesRegion says; a screen that holds fewer lines     *)
(* than its bottom margin loses the last ones in a scroll down.               *)
THEOREM ScrollAlwaysMovesRegion == Spec => []ScrollMovesRegion
<1>1. Whole(t, past) => ScrollMovesRegion
  <2> SUFFICES ASSUME Whole(t, past), NEW at \in Margins(t) \cup 1 .. t.h, NEW n \in 1 .. t.h
               PROVE  LET length == Len(Buf(t))
                          bottom == t.bottom
                          lent(history) == IF history /\ ~t.alt THEN t.back ELSE <<>>
                          up == scrollFwd(t, n, at)
                          down(history) == scrollBack(t, n, at, history)
                      IN  /\ at \in 1..bottom =>
                               /\ RowsMove(up, at, bottom, n, <<>>)
                               /\ up.back = HistoryWith([k \in 1..n |-> RowIn(at + k - 1, at, bottom)])
                               /\ \A history \in BOOLEAN :
                                     RowsMove(down(history), at, AtMost(bottom, length), -n, lent(history))
                          /\ at > bottom /\ n = 1 =>
                               /\ RowsMove(up, bottom + 1, at - 1, -1, <<>>)
                               /\ up.back = HistoryWith(<<RowIn(at - 1, bottom + 1, at - 1)>>)
                               /\ \A history \in BOOLEAN :
                                     RowsMove(down(history), bottom + 1, AtMost(at - 1, length), 1,
                                              lent(history))
                          /\ down(TRUE).back = HistoryLess(n) /\ down(FALSE).back = t.back
    BY Zenon DEF ScrollMovesRegion
  <2>1. Frame(t) /\ t.top \in Int /\ t.bottom \in Int /\ t.h \in Nat
    BY DEF Whole, Frame, Shape
  <2>2. at \in Int /\ n \in Nat /\ n > 0
    BY <2>1 DEF Margins
  <2>3. ASSUME at \in 1 .. t.bottom
        PROVE  /\ RowsMove(scrollFwd(t, n, at), at, t.bottom, n, <<>>)
               /\ scrollFwd(t, n, at).back
                     = HistoryWith([k \in 1 .. n |-> RowIn(at + k - 1, at, t.bottom)])
               /\ \A history \in BOOLEAN :
                     RowsMove(scrollBack(t, n, at, history), at, AtMost(t.bottom, Len(Buf(t))), -n,
                              Lent(t.back, t.alt, history))
    BY <2>1, <2>2, <2>3, RegionUp, RegionDown, Zenon
  <2>4. ASSUME at > t.bottom
        PROVE  /\ RowsMove(scrollFwd(t, 1, at), t.bottom + 1, at - 1, -1, <<>>)
               /\ scrollFwd(t, 1, at).back = HistoryWith(<<RowIn(at - 1, t.bottom + 1, at - 1)>>)
               /\ \A history \in BOOLEAN :
                     RowsMove(scrollBack(t, 1, at, history), t.bottom + 1, AtMost(at - 1, Len(Buf(t))), 1,
                              Lent(t.back, t.alt, history))
    BY <2>1, <2>2, <2>4, RegionBelow, Zenon
  <2>5. /\ scrollBack(t, n, at, TRUE).back = HistoryLess(n)
        /\ scrollBack(t, n, at, FALSE).back = t.back
    BY <2>1, <2>2, HistoryAfter, Zenon
  <2> QED BY <2>3, <2>4, <2>5, Zenon DEF Lent
<1> QED BY <1>1, AlwaysWhole, PTL

--------------------------------------------------------------------------------
(* The selection moves with its text.                                         *)

LEMMA SelectionMoves ==
    ASSUME NEW u, NEW w, NEW v, NEW m \in Int, m # 0, NEW c \in Int, NEW d \in Int,
           u.sel = <<c, d>>, w.sel = u.sel, DOMAIN w = Fields, w.h \in Int,
           1 <= c + m, d + m <= w.h, v.sel = adjustSelectionPosition(w, m).sel,
           \A i \in c .. d : Seen(v, i + m) = Seen(u, i)
    PROVE  selectedText(v) = selectedText(u)
<1> DEFINE s == <<c + m, d + m>>
           gone == d + m < 1 \/ c + m > w.h
<1>1. w.sel # NoSelection /\ u.sel # NoSelection /\ w.sel[1] = c /\ w.sel[2] = d
      /\ u.sel[1] = c /\ u.sel[2] = d
  BY DEF NoSelection
<1>2. adjustSelectionPosition(w, m) = IF gone THEN clearSelection(w) ELSE [w EXCEPT !.sel = s]
  <2>1. ~(c + m < 1) /\ ~(d + m > w.h)
    OBVIOUS
  <2> QED BY <1>1, <2>1 DEF adjustSelectionPosition
<1>3. v.sel = IF gone THEN NoSelection ELSE s
  BY <1>2 DEF clearSelection, Fields
<1>4. selectedText(u) = [i \in 0 .. (d - c) |-> Seen(u, c + i)]
  BY <1>1 DEF selectedText
<1>5. CASE gone
  <2>1. d - c < 0 /\ d - c \in Int
    BY <1>5
  <2>2. selectedText(u) = <<>>
    BY <1>4, <2>1 
  <2>3. selectedText(v) = <<>>
    BY <1>3, <1>5 DEF selectedText
  <2> QED BY <2>2, <2>3
<1>6. CASE ~gone
  <2>1. s # NoSelection /\ s[1] = c + m /\ s[2] = d + m
    BY DEF NoSelection
  <2>2. v.sel = s
    BY <1>3, <1>6
  <2>3. (d + m) - (c + m) = d - c
    OBVIOUS
  <2> HIDE DEF s
  <2>4. selectedText(v) = [i \in 0 .. (d - c) |-> Seen(v, (c + m) + i)]
    BY <2>1, <2>2, <2>3 DEF selectedText
  <2>5. ASSUME NEW i \in 0 .. (d - c) PROVE Seen(v, (c + m) + i) = Seen(u, c + i)
    <3>1. c + i \in c .. d /\ (c + i) + m = (c + m) + i
      OBVIOUS
    <3>2. Seen(v, (c + i) + m) = Seen(u, c + i)
      BY <3>1
    <3> QED BY <3>1, <3>2
  <2> QED BY <1>4, <2>4, <2>5
<1> QED BY <1>5, <1>6

(* The view moves over the history, and the selection with it.                *)
LEMMA ViewMoves ==
    ASSUME NEW u, Frame(u), ~u.alt, NEW m \in Int, m # 0, NEW s \in Nat, s = u.scroll + m,
           NEW c \in Int, NEW d \in Int, u.sel = <<c, d>>, 1 <= c + m, d + m <= u.h
    PROVE  selectedText(adjustSelectionPosition([u EXCEPT !.scroll = s], m)) = selectedText(u)
<1> DEFINE w == [u EXCEPT !.scroll = s]
           v == adjustSelectionPosition(w, m)
           back == u.back
<1>1. /\ DOMAIN w = Fields /\ w.h = u.h /\ w.sel = u.sel /\ w.scroll = s
      /\ w.alt = u.alt /\ w.back = back /\ w.main = u.main /\ w.altBuf = u.altBuf
  BY DEF Frame, Shape, Fields
<1>2. Frame(w)
  BY WholeScroll
<1> HIDE DEF w
<1>3. /\ v.scroll = s /\ v.alt = u.alt /\ v.back = back /\ v.main = u.main /\ v.altBuf = u.altBuf
  <2>1. CASE v = w
    BY <1>1, <2>1
  <2>2. CASE \E x : Rows(x) /\ (x = NoSelection \/ x[2] <= w.h) /\ v = [w EXCEPT !.sel = x]
    BY <1>1, <2>2 DEF Fields
  <2> QED BY <1>2, <2>1, <2>2, AdjustGives
<1>4. u.h \in Int /\ w.h \in Int /\ Len(back) \in Nat /\ u.scroll \in Nat
  BY <1>1, WholeFrame DEF Frame, Shape, Depth
<1>5. v.sel = adjustSelectionPosition(w, m).sel
  OBVIOUS
<1> HIDE DEF v, back
<1>6. ASSUME NEW i \in c .. d PROVE Seen(v, i + m) = Seen(u, i)
  <2>1. (i + m) - s = i - u.scroll
    <3> DEFINE scroll == u.scroll
    <3>1. scroll \in Nat /\ s = scroll + m
      BY <1>4
    <3> HIDE DEF scroll
    <3>2. (i + m) - s = i - scroll
      BY <3>1
    <3> QED BY <3>2 DEF scroll
  <2>2. Buf(v) = Buf(u)
    BY <1>3 DEF Buf
  <2> QED BY <1>3, <2>1, <2>2 DEF Seen, back
<1>7. d + m <= w.h
  BY <1>1
<1>8. selectedText(v) = selectedText(u)
  <2>1. w.sel = u.sel /\ DOMAIN w = Fields /\ w.h \in Int
    BY <1>1, <1>4
  <2> QED BY <1>5, <1>6, <1>7, <2>1, SelectionMoves
<1> QED BY <1>8 DEF v, w

(* The whole screen scrolls below the selection, and the first screen gives   *)
(* its lines to the history.                                                  *)
LEMMA ScrollKeepsText ==
    ASSUME NEW u, Frame(u), u.scroll <= Depth(u), u.alt => u.scroll = 0, u.top = 1,
           u.bottom = u.h, NEW n \in Nat, n > 0, NEW c \in Int, NEW d \in Int,
           u.sel = <<c, d>>, n < c, d <= u.h
    PROVE  selectedText(scrollFwd(u, n, 1)) = selectedText(u)
<1> DEFINE w == u
           m == -n
           b == Buf(u)
           back == u.back
           bottom == u.bottom
           scroll == u.scroll
           v == scrollFwd(u, n, 1)
           r == ScrolledUp(u, n, 1)
<1>1. /\ UpResult(b, back, u.alt, bottom, n, 1, r)
      /\ v.scroll = scroll /\ v.alt = u.alt /\ v.back = Newest(r[2])
      /\ v.sel = adjustSelectionPosition(u, -n).sel /\ Buf(v) = r[1]
  <2>1. UpResult(b, back, u.alt, bottom, n, 1, r)
    BY UpFields
  <2>2. v.scroll = scroll /\ v.back = Newest(r[2])
    BY UpFields
  <2>3. v.alt = u.alt
    BY UpFields, Zenon
  <2>4. v.sel = adjustSelectionPosition(u, -n).sel
    BY UpFields
  <2>5. Buf(v) = r[1]
    BY UpFields
  <2> QED BY <2>1, <2>2, <2>3, <2>4, <2>5, Zenon
<1> HIDE DEF r
<1>2. /\ u.h \in Int /\ bottom = u.h /\ bottom \in Int /\ DOMAIN u = Fields
      /\ Len(back) \in Nat /\ scroll \in Nat /\ scroll <= Len(back)
      /\ IsList(back) /\ IsList(b) /\ Len(b) \in Nat
  <2>1. IsList(back) /\ IsList(b)
    BY WholeFrame
  <2>2. u.h \in Int /\ bottom = u.h /\ bottom \in Int /\ DOMAIN u = Fields
        /\ scroll \in Nat /\ scroll <= Len(back)
    BY DEF Frame, Shape, Depth
  <2> HIDE DEF b, back, bottom, scroll
  <2> QED BY <2>1, <2>2, ListHas
<1>3. c \in Int /\ 1 <= c + m /\ d + m <= u.h /\ m # 0 /\ m \in Int
  BY <1>2
<1>4. ASSUME NEW i \in c .. d PROVE Seen(v, i + m) = Seen(u, i)
  <2> DEFINE j == i + m
             after == v.back
             new == r[2]
             rows == r[1]
  <2>1. i \in Int /\ j \in Int /\ j = i - n /\ 1 <= j /\ i <= bottom /\ j + n = i
    BY <1>2
  <2>2. 1 \in 1 .. bottom
    BY <1>2, <2>1
  <2>3. /\ IsList(rows) /\ IsList(new)
        /\ ~u.alt => Len(new) = Len(back) + n
        /\ \A x \in Int : Row(rows, x) = IF x \in 1 .. bottom THEN FromBelow(b, bottom, x + n)
                                         ELSE Row(b, x)
        /\ \A x \in 1 .. Len(new) :
              new[x] = IF x <= Len(back) THEN back[x]
                       ELSE FromBelow(b, bottom, 1 + x - Len(back) - 1)
    BY <1>1, <2>2 DEF UpResult
  <2>4. after = Newest(new) /\ Buf(v) = rows /\ v.scroll = scroll /\ v.alt = u.alt
    BY <1>1
  <2> HIDE DEF j, after, new, rows, v, b, back, bottom, scroll, m
  <2>5. CASE u.alt
    <3>1. Row(rows, j) = FromBelow(b, bottom, j + n)
      BY <1>2, <2>1, <2>3
    <3>2. Row(rows, j) = Row(b, i)
      BY <2>1, <3>1 DEF FromBelow
    <3>3. u.scroll = 0 /\ v.scroll = 0 /\ j - 0 = j /\ i - 0 = i
      BY <2>1, <2>4, <2>5 DEF scroll
    <3>4. Seen(v, j) = Row(rows, j) /\ Seen(u, i) = Row(b, i)
      BY <2>4, <2>5, <3>3 DEF Seen, b
    <3> QED BY <3>2, <3>4 DEF j
  <2>6. CASE ~u.alt
    <3> DEFINE lb == Len(back)
               la == Len(after)
               ln == Len(new)
               k == lb - scroll + i
               q == la - scroll + j
    <3>1. /\ IsList(after) /\ ln \in Nat /\ la \in Nat
          /\ la = IF ln > BackLimit THEN BackLimit ELSE ln
          /\ \A x \in 1 .. la : after[x] = new[ln - la + x]
      BY <2>3, <2>4, NewestGives
    <3>2. ln = lb + n /\ lb <= BackLimit /\ BackLimit \in Nat /\ lb \in Nat
      BY <1>2, <2>3, <2>6, WholeFrame DEF Frame, Depth, back
    <3>3. Seen(u, i) = IF k <= lb THEN Row(back, k) ELSE Row(b, k - lb)
      <4>1. k - lb = i - scroll /\ lb + (i - scroll) = k /\ (i - scroll > 0 <=> ~(k <= lb))
        BY <1>2, <2>1
      <4> HIDE DEF k, lb
      <4>2. Seen(u, i) = IF i - scroll > 0 THEN Row(b, i - scroll)
                         ELSE Row(back, lb + (i - scroll))
        BY <2>6 DEF Seen, back, b, scroll, lb
      <4> QED BY <4>1, <4>2
    <3>4. Seen(v, j) = IF q <= la THEN Row(after, q) ELSE Row(rows, q - la)
      <4>1. q - la = j - scroll /\ la + (j - scroll) = q /\ (j - scroll > 0 <=> ~(q <= la))
        BY <1>2, <2>1, <3>1
      <4> HIDE DEF q, la
      <4>2. Seen(v, j) = IF j - scroll > 0 THEN Row(rows, j - scroll)
                         ELSE Row(after, la + (j - scroll))
        BY <2>4, <2>6 DEF Seen, after, la
      <4> QED BY <4>1, <4>2
    <3>5. scroll \in Nat /\ scroll <= lb
      BY <1>2
    <3>6. \A x \in 1 .. ln :
             new[x] = IF x <= lb THEN back[x] ELSE FromBelow(b, bottom, 1 + x - lb - 1)
      BY <2>3
    <3>7. /\ \A x \in 1 .. lb : Row(back, x) = back[x]
          /\ \A x \in 1 .. la : Row(after, x) = after[x]
      BY DEF Row
    <3> HIDE DEF lb, la, ln
    <3>8. lb <= la /\ la <= ln
      BY <3>1, <3>2
    <3>9. bottom \in Int
      BY <1>2
    <3>10. /\ k \in Int /\ q \in Int /\ 1 <= k /\ 1 <= q /\ ln - la + q = k
           /\ k - lb \in Int /\ k - lb <= bottom /\ 1 + k - lb - 1 = k - lb
           /\ q - la \in Int /\ (q - la) + n = k - lb /\ k <= ln + bottom
      BY <2>1, <3>1, <3>2, <3>5, <3>8, <3>9
    <3> HIDE DEF k, q
    <3>11. CASE q <= la
      <4>1. q \in 1 .. la /\ k \in 1 .. ln
        BY <3>1, <3>2, <3>8, <3>10, <3>11
      <4>2. Row(after, q) = new[k]
        BY <3>1, <3>7, <3>10, <4>1
      <4>3. new[k] = IF k <= lb THEN back[k] ELSE FromBelow(b, bottom, k - lb)
        BY <3>6, <3>10, <4>1
      <4>4. FromBelow(b, bottom, k - lb) = Row(b, k - lb)
        BY <3>10 DEF FromBelow
      <4>5. k <= lb => Row(back, k) = back[k]
        BY <3>2, <3>7, <3>10
      <4> QED BY <3>3, <3>4, <3>11, <4>2, <4>3, <4>4, <4>5 DEF j
    <3>12. CASE ~(q <= la)
      <4>1. ~(k <= lb) /\ 1 <= q - la /\ q - la <= bottom
        <5>1. la \in Nat /\ lb \in Nat /\ ln \in Nat
          BY <3>1, <3>2
        <5>2. lb < k /\ la < q
          BY <3>8, <3>10, <3>12, <5>1
        <5> QED BY <3>9, <3>10, <5>1, <5>2
      <4>2. q - la \in 1 .. bottom
        BY <3>9, <3>10, <4>1
      <4>3. Row(rows, q - la) = FromBelow(b, bottom, (q - la) + n)
        BY <2>3, <3>10, <4>2
      <4>4. Row(rows, q - la) = Row(b, k - lb)
        BY <3>10, <4>3 DEF FromBelow
      <4> QED BY <3>3, <3>4, <3>12, <4>1, <4>4 DEF j
    <3> QED BY <3>11, <3>12 DEF j
  <2> QED BY <2>5, <2>6
<1>5. v.sel = adjustSelectionPosition(u, m).sel
  BY <1>1
<1> HIDE DEF m, v
<1>6. selectedText(v) = selectedText(u)
  <2>1. DOMAIN u = Fields /\ u.h \in Int
    BY <1>2
  <2>2. m \in Int /\ m # 0 /\ 1 <= c + m /\ d + m <= u.h
    BY <1>3
  <2> HIDE DEF w, bottom, b, back, scroll
  <2> QED BY <1>4, <1>5, <2>1, <2>2, SelectionMoves
<1> QED BY <1>6 DEF v

LEMMA BackKeepsText ==
    ASSUME NEW u, Frame(u), u.alt => u.scroll = 0, NEW n \in Int, NEW c \in Int, NEW d \in Int,
           u.sel = <<c, d>>, 1 <= c, d <= u.h, u.scroll + n <= Depth(u), d + n <= u.h
    PROVE  selectedText(scrollBackBufferBack(u, n)) = selectedText(u)
<1>1. CASE n <= 0 \/ u.alt
  BY <1>1 DEF scrollBackBufferBack
<1>2. CASE n > 0 /\ ~u.alt
  <2> DEFINE s == u.scroll + n
  <2>1. s \in Nat /\ ~(s > Depth(u)) /\ Depth(u) \in Nat /\ 1 <= c + n /\ n # 0
    BY <1>2, WholeFrame DEF Frame
  <2>2. scrollBackBufferBack(u, n) = adjustSelectionPosition([u EXCEPT !.scroll = s], n)
    BY <1>2, <2>1 DEF scrollBackBufferBack, Depth
  <2> HIDE DEF s
  <2>3. s = u.scroll + n
    BY DEF s
  <2> QED BY <1>2, <2>1, <2>2, <2>3, ViewMoves
<1> QED BY <1>1, <1>2

LEMMA FwdKeepsText ==
    ASSUME NEW u, Frame(u), NEW n \in Int, NEW c \in Int, NEW d \in Int,
           u.sel = <<c, d>>, d <= u.h, n <= u.scroll, n < c
    PROVE  selectedText(scrollBackBufferFwd(u, n)) = selectedText(u)
<1>1. CASE n <= 0 \/ u.alt
  BY <1>1 DEF scrollBackBufferFwd
<1>2. CASE n > 0 /\ ~u.alt
  <2> DEFINE s == u.scroll - n
             m == -n
  <2>1. /\ s \in Nat /\ ~(u.scroll < n) /\ m \in Int /\ m # 0 /\ s = u.scroll + m
        /\ 1 <= c + m /\ d + m <= u.h
    BY <1>2 DEF Frame, Shape
  <2>2. scrollBackBufferFwd(u, n) = adjustSelectionPosition([u EXCEPT !.scroll = s], m)
    BY <1>2, <2>1 DEF scrollBackBufferFwd
  <2> HIDE DEF s, m
  <2> QED BY <1>2, <2>1, <2>2, ViewMoves
<1> QED BY <1>1, <1>2

(* However much history there is and wherever the view is in it, a selection  *)
(* that stays wholly in view keeps its text when the user scrolls the view,   *)
(* not further than there is history, and when the whole screen scrolls below *)
(* it.  What SelectionKeepsText leaves out: one that is cut off at the edge.  *)
THEOREM SelectionAlwaysKeepsText == Spec => []SelectionKeepsText
<1>1. Whole(t, past) => SelectionKeepsText
  <2> SUFFICES ASSUME Whole(t, past), t.sel # NoSelection, past = {}, NEW n \in ViewSteps
               PROVE  /\ t.scroll + n <= Len(t.back) /\ t.sel[2] + n <= t.h
                            => selectedText(scrollBackBufferBack(t, n)) = selectedText(t)
                      /\ t.scroll >= n /\ t.sel[1] > n
                            => selectedText(scrollBackBufferFwd(t, n)) = selectedText(t)
                      /\ t.top = 1 /\ t.bottom = t.h /\ t.sel[1] > n
                            => selectedText(scrollUp(t, n)) = selectedText(t)
    BY DEF SelectionKeepsText
  <2>1. n \in Int
    BY StepAssumption
  <2>2. Frame(t) /\ (t.alt => t.scroll = 0) /\ t.scroll <= Depth(t)
    BY DEF Whole, Viewed
  <2>3. Rows(t.sel) /\ t.sel[2] <= t.h
    BY <2>2 DEF Whole, Chosen, Frame
  <2>4. PICK c \in Int, d \in Int : t.sel = <<c, d>> /\ 1 <= c
    BY <2>3 DEF Rows
  <2>5. t.sel[1] = c /\ t.sel[2] = d /\ d <= t.h
    BY <2>3, <2>4
  <2>6. ASSUME t.scroll + n <= Len(t.back), t.sel[2] + n <= t.h
        PROVE  selectedText(scrollBackBufferBack(t, n)) = selectedText(t)
    BY <2>1, <2>2, <2>4, <2>5, <2>6, BackKeepsText DEF Depth
  <2>7. ASSUME t.scroll >= n, t.sel[1] > n
        PROVE  selectedText(scrollBackBufferFwd(t, n)) = selectedText(t)
    <3>1. n <= t.scroll /\ n < c
      BY <2>1, <2>2, <2>5, <2>7 DEF Frame
    <3> QED BY <2>1, <2>2, <2>4, <2>5, <3>1, FwdKeepsText
  <2>8. ASSUME t.top = 1, t.bottom = t.h, t.sel[1] > n
        PROVE  selectedText(scrollUp(t, n)) = selectedText(t)
    <3>1. CASE n <= 0
      BY <3>1 DEF scrollUp, scrollFwd
    <3>2. CASE n > 0
      <4>1. n \in Nat /\ n < c
        BY <2>1, <2>5, <2>8, <3>2
      <4>2. scrollUp(t, n) = scrollFwd(t, n, 1)
        BY <2>8 DEF scrollUp
      <4> QED BY <2>2, <2>4, <2>5, <2>8, <3>2, <4>1, <4>2, ScrollKeepsText
    <3> QED BY <2>1, <3>1, <3>2
  <2> QED BY <2>6, <2>7, <2>8
<1> QED BY <1>1, AlwaysWhole, PTL

================================================================================
