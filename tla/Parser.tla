-------------------------------- MODULE Parser --------------------------------
(***************************************************************************)
(* The colours and attributes of the terminal's pen, and the sequence that *)
(* changes them (src/Parser.cpp).  A colour is an index of the table of    *)
(* 256, or stands for a colour given by its components: 256 when the lowest *)
(* bit of its blue component is 0, 257 when it is 1.                       *)
(***************************************************************************)
EXTENDS Integers, Sequences

DefaultPen == [fg |-> 7, bg |-> 0, attrs |-> {}]

(* The test fg & BoldAttribute reads the lowest bit of the colour's blue, not *)
(* an attribute.  Blue is odd in (235,235,235), (127,127,127), every 255 and, *)
(* in the colour cube, every step but the first.                              *)
LowBitSet(c) ==
    \/ c \in {7, 8, 12, 13, 14, 15, 257}
    \/ c \in 16..231 /\ (c - 16) % 6 # 0

(* Attributes that a parameter sets, and those that one clears. *)
Sets(p)   == CASE p = 1 -> {"bold"}     [] p = 3 -> {"italic"}
               [] p = 4 -> {"underline"} [] p \in {5, 6} -> {"blink"}
               [] p = 7 -> {"negative"} [] OTHER -> {}
Clears(p) == IF p = 22 THEN {"bold"} ELSE Sets(p - 20)
Ignored == {2, 8, 9, 21, 28, 29}

Failed(s) == [s EXCEPT !.ok = FALSE]

(* 38 and 48: an index of the table after 5, three components after 2.        *)
ExtendedColour(s, ps, foreground) ==
    LET n == Len(ps) - s.next       \* parameters after the first
        Paint(t, c) == IF foreground THEN [t EXCEPT !.pen.fg = c]
                                     ELSE [t EXCEPT !.pen.bg = c]
        Bright(c) == IF foreground /\ c < 9 /\ "bold" \in s.pen.attrs THEN c + 8 ELSE c
    IN  IF n < 1 THEN Failed(s)
        ELSE CASE ps[s.next + 1] = 5 ->
                      IF n < 2 \/ ps[s.next + 2] \notin 0..255 THEN Failed(s)
                      ELSE Paint([s EXCEPT !.next = @ + 3], Bright(ps[s.next + 2]))
               [] ps[s.next + 1] = 2 ->
                      IF n < 4 \/ \E i \in 2..4 : ps[s.next + i] \notin 0..255 THEN Failed(s)
                      ELSE Paint([s EXCEPT !.next = @ + 5], 256 + (ps[s.next + 4] % 2))
               [] OTHER -> Failed(s)

(* One round of the loop: s.next is the index of the parameter to read.       *)
Parameter(s, ps) ==
    LET p == ps[s.next]
        t == [s EXCEPT !.next = @ + 1]
    IN  CASE p = 0               -> [t EXCEPT !.pen = DefaultPen]
          [] Sets(p) # {}        -> [t EXCEPT !.pen.attrs = @ \cup Sets(p)]
          [] p \in 22..27        -> [t EXCEPT !.pen.attrs = @ \ Clears(p)]
          [] p \in Ignored       -> t
          [] p \in 30..37        -> [t EXCEPT !.pen.fg =
                                        p - 30 + (IF LowBitSet(@) THEN 8 ELSE 0)]
          [] p = 39              -> [t EXCEPT !.pen.fg = DefaultPen.fg]
          [] p \in 40..47        -> [t EXCEPT !.pen.bg = p - 40]
          [] p = 49              -> [t EXCEPT !.pen.bg = DefaultPen.bg]
          [] p \in 90..107 /\ p \notin {98, 99} ->
                                    [t EXCEPT !.pen.fg = 8 + (IF p < 98 THEN p - 90 ELSE p - 100)]
          [] p \in {38, 48}      -> ExtendedColour(s, ps, p = 38)
          [] OTHER               -> Failed(t)

(* The pen after the parameters ps: those before a malformed one count.       *)
handleSGR(pen, ps) ==
    LET run[k \in 0..Len(ps)] ==
            IF k = 0 THEN [pen |-> pen, next |-> 1, ok |-> TRUE]
            ELSE IF run[k - 1].ok /\ run[k - 1].next <= Len(ps)
                 THEN Parameter(run[k - 1], ps)
                 ELSE run[k - 1]
    IN  run[Len(ps)].pen
===============================================================================
