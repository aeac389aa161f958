----------------------------- MODULE LineScreen -----------------------------
(***************************************************************************)
(* What the line editor (lib/wrappers/linenoise/linenoise.c) writes to the *)
(* terminal.  A view is the terminal's screen and cursor together with the *)
(* two fields of linenoiseState that remember the last refresh.  The cells *)
(* of the screen are numbered row by row; every character of a line is one *)
(* cell wide.  A cursor in column Cols has just written the last column and*)
(* moves to the next row with the next character, as a VT100 does.         *)
(***************************************************************************)
EXTENDS Integers, Sequences

CONSTANTS Rows, Cols,      \* of the terminal
          Prompt, Hint,    \* the prompt, and what the hints callback answers
          Blank

ASSUME ScreenAssumption == /\ Rows \in Nat /\ Cols \in Nat
                           /\ Len(Prompt) \in 1 .. Cols - 1
(* They are texts of any characters.                                       *)
ASSUME TextsAssumption == \A s \in {Prompt, Hint} :
                            Len(s) \in Nat /\ s = [i \in 1 .. Len(s) |-> s[i]]

plen  == Len(Prompt)
Cells == 0 .. Rows * Cols - 1

Least(a, b)   == IF a <= b THEN a ELSE b
Largest(a, b) == IF a >= b THEN a ELSE b
Left(s, n)    == SubSeq(s, 1, Least(Len(s), n))

-----------------------------------------------------------------------------
(* The terminal's answers to what the code sends.                          *)

Text(v, s) ==
  IF s = << >> THEN v
  ELSE LET start == v.row * Cols + v.col
           last  == start + Len(s) - 1
       IN  [v EXCEPT !.cell = [i \in Cells |-> IF i \in start .. last THEN s[i - start + 1]
                                               ELSE v.cell[i]],
                     !.row = last \div Cols,
                     !.col = last - Cols * (last \div Cols) + 1]

CarriageReturn(v) == [v EXCEPT !.col = 0]
LineFeed(v)       == [v EXCEPT !.row = Least(v.row + 1, Rows - 1)]

(* CUU, CUD, CUF and EL; a move by 0 is a move by 1.                       *)
Up(v, n)      == [v EXCEPT !.row = Largest(v.row - Largest(n, 1), 0), !.col = Least(@, Cols - 1)]
Down(v, n)    == [v EXCEPT !.row = Least(v.row + Largest(n, 1), Rows - 1),
                           !.col = Least(@, Cols - 1)]
Forward(v, n) == [v EXCEPT !.col = Least(v.col + Largest(n, 1), Cols - 1)]
EraseRight(v) ==
  LET start == v.row * Cols + v.col
  IN  [v EXCEPT !.cell = [i \in Cells |-> IF i \in start .. (v.row + 1) * Cols - 1 THEN Blank
                                          ELSE v.cell[i]]]

(* CUP and ED: linenoiseClearScreen.                                       *)
ClearScreen(v) == [v EXCEPT !.cell = [i \in Cells |-> Blank], !.row = 0, !.col = 0]

-----------------------------------------------------------------------------
(* The refresh of a line of cols columns: b is l->buf, n l->len, p l->pos. *)

HintFor(n, cols, hints) ==
  IF hints /\ plen + n < cols THEN Left(Hint, cols - (plen + n))
  ELSE << >>

(* The line scrolls so that the cursor stays in the last column.           *)
Skipped(p, cols) == IF plen + p >= cols THEN plen + p - cols + 1 ELSE 0

refreshSingleLine(v, cols, b, n, p, hints) ==
  LET skip   == Skipped(p, cols)
      m      == Least(n - skip, cols - plen)
      window == SubSeq(b, skip + 1, skip + m)
      text   == Prompt \o window \o HintFor(n, cols, hints)
  IN  Forward(CarriageReturn(EraseRight(Text(CarriageReturn(v), text))), plen + p - skip)

(* From the last row used so far up to the first one, clearing each.       *)
Cleared(v, rpos) ==
  LET bottom == IF v.maxrows - rpos > 0 THEN Down(v, v.maxrows - rpos) ELSE v
      up[j \in 0 .. Largest(v.maxrows - 1, 0)] ==
        IF j = 0 THEN bottom ELSE Up(EraseRight(CarriageReturn(up[j - 1])), 1)
  IN  EraseRight(CarriageReturn(up[Largest(v.maxrows - 1, 0)]))

(* Mutant: the cursor's row is taken to be the present one.                *)
OldRow_Present(v, cols, p) == (plen + p + cols) \div cols
OldRow(v, cols, p) == (plen + v.oldpos + cols) \div cols

refreshMultiLine(v, cols, b, n, p, hints) ==
  LET text   == Text(Cleared(v, OldRow(v, cols, p)), Prompt \o b \o HintFor(n, cols, hints))
      break  == p # 0 /\ p = n /\ (p + plen) % cols = 0
      ended  == IF break THEN CarriageReturn(LineFeed(text)) ELSE text
      rows   == (plen + n + cols - 1) \div cols + (IF break THEN 1 ELSE 0)
      rpos2  == (plen + p + cols) \div cols
      placed == CarriageReturn(IF rows - rpos2 > 0 THEN Up(ended, rows - rpos2) ELSE ended)
      col    == (plen + p) % cols
  IN  [(IF col > 0 THEN Forward(placed, col) ELSE placed)
         EXCEPT !.oldpos = p, !.maxrows = Largest(@, rows)]

refreshLine(v, mlmode, cols, b, n, p, hints) ==
  IF mlmode THEN refreshMultiLine(v, cols, b, n, p, hints)
  ELSE refreshSingleLine(v, cols, b, n, p, hints)

-----------------------------------------------------------------------------
(* What the terminal should show from row `origin' on: a text, then blanks,*)
(* with the cursor on a character of it or behind it; the rows above are as*)
(* they were.                                                              *)
Displays(v, origin, text, cursor, above) ==
  /\ \A i \in Cells :
       v.cell[i] = IF i < origin * Cols THEN above
                   ELSE IF i - origin * Cols < Len(text) THEN text[i - origin * Cols + 1]
                   ELSE Blank
  /\ v.row * Cols + v.col = origin * Cols + cursor

(* In multi line mode the whole line is shown, in single line mode a part  *)
(* of it that has the cursor in it and wastes no column.                   *)
ShowsLine(v, origin, mlmode, b, p, hints, above) ==
  LET hint == HintFor(Len(b), Cols, hints)
  IN  IF mlmode THEN Displays(v, origin, Prompt \o b \o hint, plen + p, above)
      ELSE \E skip \in 0 .. p :
             /\ skip > 0 => plen + p - skip = Cols - 1
             /\ plen + p - skip < Cols
             /\ Displays(v, origin,
                         Left(Prompt \o SubSeq(b, skip + 1, Len(b)) \o hint, Cols),
                         plen + p - skip, above)
=============================================================================
