----------------------------- MODULE LineEditor -----------------------------
(***************************************************************************)
(* Editing one line: linenoiseEdit of lib/wrappers/linenoise/linenoise.c   *)
(* and what it calls.  A key is read, handled completely and the line shown*)
(* again before the next key is read; nothing runs in between.             *)
(***************************************************************************)
EXTENDS LineHistory, LineScreen, FiniteSets

CONSTANTS Letters, Accents,    \* characters below and from 0x80, one byte each
          Space,
          Offers,              \* what the completion callback may answer
          Above                \* stands for what the screen showed before

VARIABLES pc, key,                               \* key: returned by completeLine
          buf, len, pos, cols, history_index,    \* struct linenoiseState
          view, origin,                          \* the terminal; the line's first row
          lc, choice,                            \* completeLine's list and i
          history, history_max_len, mlmode,
          hints,                                 \* hintsCallback # NULL
          result                                 \* what linenoise() returns

line     == <<buf, len, pos>>
complete == <<lc, choice>>
settings == <<cols, history_max_len, mlmode, hints>>
editor   == <<pc, key, line, complete, settings, view, origin, history, history_index, result>>

buflen == MaxLine - 1          \* after l.buflen--
Chars  == Letters \cup Accents \cup {Space}
Lines  == UNION {[1 .. n -> Chars] : n \in 0 .. buflen}

(* The completions fit into the buffer.                                    *)
ASSUME OffersAssumption == Offers \subseteq Seq(UNION {[1 .. n -> Chars] : n \in 0 .. buflen - 1})
ASSUME CharsAssumption == Letters \cap Accents = {} /\ Space \notin Letters \cup Accents

-----------------------------------------------------------------------------
(* Keys.  An escape sequence is read whole; one that is not known is eaten.*)

Arrow == [A |-> "CTRL_P", B |-> "CTRL_N", C |-> "CTRL_F", D |-> "CTRL_B", H |-> "CTRL_A",
          F |-> "CTRL_E"]
Decode(s) ==
  CASE s[1] = "[" /\ s[2] \in DOMAIN Arrow            -> Arrow[s[2]]
    [] s[1] = "[" /\ s[2] = "3" /\ s[3] = "~"         -> "DELETE"
    [] s[1] = "O" /\ s[2] \in {"H", "F"}              -> Arrow[s[2]]
    [] OTHER                                          -> "NONE"
Escaped == {Decode(s) : s \in [1 .. 3 -> DOMAIN Arrow \cup {"[", "O", "3", "~"}]}

Controls == {"CTRL_A", "CTRL_B", "CTRL_C", "CTRL_D", "CTRL_E", "CTRL_F", "CTRL_K", "CTRL_L",
             "ENTER", "CTRL_N", "CTRL_P", "CTRL_T", "CTRL_U", "CTRL_W", "BACKSPACE"}

(* The next key to handle is k: just read, or read by completeLine.        *)
Press(k) == \/ pc = "key" /\ k \in Controls \cup Escaped
            \/ pc = "handle" /\ (key = k \/ (key = "ESC" /\ k \in Escaped))
Type(c)  == pc = "key" \/ (pc = "handle" /\ key = c)

Handled == pc' = "key" /\ key' = "NONE" /\ UNCHANGED <<complete, settings, result>>
Return(status, b) == /\ pc' = "leave" /\ key' = "NONE"
                     /\ result' = [status |-> status, line |-> b]

(* The screen is followed only if the terminal has told its width.         *)
Screen(v) == IF cols = Cols THEN v ELSE view
Refreshed(v, b, n, p) == Screen(refreshLine(v, mlmode, cols, b, n, p, hints))
Show(b, n, p) == /\ buf' = b /\ len' = n /\ pos' = p
                 /\ view' = Refreshed(view, b, n, p)
Same == UNCHANGED <<line, view>>

Kept == UNCHANGED <<origin, history, history_index>>

-----------------------------------------------------------------------------
(* Editing.                                                                *)

Inserted(c) == SubSeq(buf, 1, pos) \o <<c>> \o SubSeq(buf, pos + 1, Len(buf))
Full == len >= buflen
(* A character at the end of a short line is written as it is.             *)
WrittenAsIs == pos = len /\ ~mlmode /\ plen + len + 1 < cols /\ ~hints
linenoiseEditInsert(c) ==
  /\ Type(c)
  /\ IF Full THEN Same
     ELSE IF WrittenAsIs THEN /\ buf' = Inserted(c) /\ len' = len + 1 /\ pos' = pos + 1
                              /\ view' = Screen(Text(view, <<c>>))
     ELSE Show(Inserted(c), len + 1, pos + 1)
  /\ Handled /\ Kept
(* The write of that character fails.                                      *)
InsertFails(c) ==
  /\ Type(c) /\ ~Full /\ WrittenAsIs
  /\ buf' = Inserted(c) /\ len' = len + 1 /\ pos' = pos + 1
  /\ Return("failed", << >>)
  /\ Kept /\ UNCHANGED <<view, complete, settings>>

MoveTo(k, p) ==
  /\ Press(k)
  /\ IF p # pos THEN Show(buf, len, p) ELSE Same
  /\ Handled /\ Kept
linenoiseEditMoveLeft  == MoveTo("CTRL_B", Largest(pos - 1, 0))
linenoiseEditMoveRight == MoveTo("CTRL_F", IF pos # len THEN pos + 1 ELSE pos)
linenoiseEditMoveHome  == MoveTo("CTRL_A", 0)
linenoiseEditMoveEnd   == MoveTo("CTRL_E", len)

Without(i) == SubSeq(buf, 1, i - 1) \o SubSeq(buf, i + 1, Len(buf))
Deletion == IF len > 0 /\ pos < len THEN Show(Without(pos + 1), len - 1, pos) ELSE Same
linenoiseEditDelete == /\ Press("DELETE") \/ (Press("CTRL_D") /\ len > 0)
                       /\ Deletion /\ Handled /\ Kept
linenoiseEditBackspace ==
  /\ Press("BACKSPACE")
  /\ IF pos > 0 /\ len > 0 THEN Show(Without(pos), len - 1, pos - 1) ELSE Same
  /\ Handled /\ Kept

(* The start of the word before the cursor: the spaces, then the others.   *)
spaces == Cardinality({i \in 1 .. pos : \A j \in i .. pos : buf[j] = Space})
letters == Cardinality({i \in 1 .. pos - spaces : \A j \in i .. pos - spaces : buf[j] # Space})
linenoiseEditDeletePrevWord ==
  /\ Press("CTRL_W")
  /\ LET diff == spaces + letters
     IN  Show(SubSeq(buf, 1, pos - diff) \o SubSeq(buf, pos + 1, Len(buf)), len - diff, pos - diff)
  /\ Handled /\ Kept

SwapCharacters ==
  /\ Press("CTRL_T")
  /\ IF pos > 0 /\ pos < len
     THEN Show([buf EXCEPT ![pos] = buf[pos + 1], ![pos + 1] = buf[pos]],
               len, IF pos # len - 1 THEN pos + 1 ELSE pos)
     ELSE Same
  /\ Handled /\ Kept
DeleteLine  == Press("CTRL_U") /\ Show(<< >>, 0, 0) /\ Handled /\ Kept
DeleteToEnd == Press("CTRL_K") /\ Show(SubSeq(buf, 1, pos), pos, pos) /\ Handled /\ Kept
ClearAll    == /\ Press("CTRL_L")
               /\ view' = Refreshed(ClearScreen(view), buf, len, pos) /\ origin' = 0
               /\ Handled /\ UNCHANGED <<line, history, history_index>>
UnknownEscape == Press("NONE") /\ Same /\ Handled /\ Kept

-----------------------------------------------------------------------------
(* linenoiseEditHistoryNext as a function of the history h, the index i and*)
(* the buffer b: dir is 1 for the previous (older) line, -1 for the next.  *)

(* Mutant: the line being left is not stored.                              *)
Recall_Forget(h, i, b, dir) ==
  IF Len(h) > 1 /\ i + dir \in 0 .. Len(h) - 1
  THEN LET r == h[Len(h) - (i + dir)]
       IN  [h |-> h, i |-> i + dir, b |-> Left(r, buflen - 1)]
  ELSE [h |-> h, i |-> i, b |-> b]
(* Mutant: the line being left is stored one slot too late.                *)
Recall_Slot(h, i, b, dir) ==
  LET stored == [h EXCEPT ![Len(h) - Largest(i - 1, 0)] = b]
  IN  IF Len(h) > 1 /\ i + dir \in 0 .. Len(h) - 1
      THEN LET r == stored[Len(h) - (i + dir)]
           IN  [h |-> stored, i |-> i + dir, b |-> Left(r, buflen - 1)]
      ELSE [h |-> h, i |-> i, b |-> b]
Recall(h, i, b, dir) ==
  IF Len(h) <= 1 THEN [h |-> h, i |-> i, b |-> b]
  ELSE LET stored == [h EXCEPT ![Len(h) - i] = b]
       IN  IF i + dir \in 0 .. Len(h) - 1
           THEN LET r == stored[Len(h) - (i + dir)]
                IN  [h |-> stored, i |-> i + dir, b |-> Left(r, buflen - 1)]
           ELSE [h |-> stored, i |-> i, b |-> b]

linenoiseEditHistoryNext(k, dir) ==
  /\ Press(k)
  /\ LET r == Recall(history, history_index, buf, dir)
     IN  /\ history' = r.h /\ history_index' = r.i
         /\ IF r.i # history_index THEN Show(r.b, Len(r.b), Len(r.b)) ELSE Same
  /\ Handled /\ UNCHANGED origin

-----------------------------------------------------------------------------
(* completeLine.  Choice number Len(lc) is the line as it was typed.       *)

Shown(i) == IF i < Len(lc') THEN Refreshed(view, lc'[i + 1], Len(lc'[i + 1]), Len(lc'[i + 1]))
            ELSE Refreshed(view, buf, len, pos)
Choosing == /\ UNCHANGED <<line, settings, result>> /\ Kept
completeLine ==
  /\ pc = "key"
  /\ \E offer \in Offers : lc' = offer
  /\ IF lc' = << >> THEN pc' = "key" /\ UNCHANGED view ELSE pc' = "choose" /\ view' = Shown(0)
  /\ choice' = 0
  /\ UNCHANGED key /\ Choosing
NextChoice ==
  /\ pc = "choose"
  /\ choice' = (choice + 1) % (Len(lc) + 1)
  /\ UNCHANGED lc /\ view' = Shown(choice')
  /\ UNCHANGED <<pc, key>> /\ Choosing
Forgotten == lc' = << >> /\ choice' = 0
CancelChoice ==
  /\ pc = "choose"
  /\ pc' = "handle" /\ key' = "ESC"
  /\ view' = IF choice < Len(lc) THEN Refreshed(view, buf, len, pos) ELSE view
  /\ Forgotten /\ Choosing
(* The key goes on to linenoiseEdit as a char, where a negative one is     *)
(* taken for an error and ends the line.                                   *)
(* Mutant: the cursor stays where it was.                                  *)
AcceptChoice_Cursor(k) ==
  /\ pc = "choose" /\ choice < Len(lc) /\ k \notin Accents
  /\ buf' = lc[choice + 1] /\ len' = Len(lc[choice + 1]) /\ pos' = pos
  /\ pc' = "handle" /\ key' = k /\ UNCHANGED result
  /\ Forgotten /\ Kept /\ UNCHANGED <<view, settings>>
AcceptChoice(k) ==
  /\ pc = "choose"
  /\ IF choice < Len(lc)
     THEN LET c == lc[choice + 1]
          IN  buf' = Left(c, buflen - 1) /\ len' = Len(c) /\ pos' = Len(c)
     ELSE UNCHANGED line
  /\ IF k \in Accents THEN Return("line", buf')
     ELSE pc' = "handle" /\ key' = k /\ UNCHANGED result
  /\ Forgotten /\ Kept /\ UNCHANGED <<view, settings>>

-----------------------------------------------------------------------------
(* The end of the line.                                                    *)

EndOfInput ==
  /\ pc \in {"key", "choose"}
  /\ Return("line", buf)
  /\ Forgotten /\ Kept /\ UNCHANGED <<line, view, settings>>
(* Only these two drop the history's slot of the line.                     *)
Dropped == SubSeq(history, 1, Len(history) - 1)
Enter ==
  /\ Press("ENTER")
  /\ history' = Dropped
  /\ pos' = IF mlmode THEN len ELSE pos
  /\ LET moved == IF pos' # pos THEN Refreshed(view, buf, len, pos') ELSE view
     IN  view' = IF hints THEN Screen(refreshLine(moved, mlmode, cols, buf, len, pos', FALSE))
                 ELSE moved
  /\ Return("entered", buf)
  /\ UNCHANGED <<buf, len, origin, history_index, complete, settings>>
CtrlD ==
  /\ Press("CTRL_D") /\ len = 0
  /\ history' = Dropped
  /\ Return("ctrl_D", << >>)
  /\ UNCHANGED <<line, view, origin, history_index, complete, settings>>
CtrlC ==
  /\ Press("CTRL_C")
  /\ Return("ctrl_C", << >>)
  /\ Kept /\ UNCHANGED <<line, view, complete, settings>>

Edit ==
  \/ \E c \in Chars : linenoiseEditInsert(c) \/ InsertFails(c)
  \/ linenoiseEditMoveLeft \/ linenoiseEditMoveRight \/ linenoiseEditMoveHome
  \/ linenoiseEditMoveEnd \/ linenoiseEditDelete \/ linenoiseEditBackspace
  \/ linenoiseEditDeletePrevWord \/ SwapCharacters \/ DeleteLine \/ DeleteToEnd
  \/ ClearAll \/ UnknownEscape
  \/ linenoiseEditHistoryNext("CTRL_P", 1) \/ linenoiseEditHistoryNext("CTRL_N", -1)
  \/ completeLine \/ NextChoice \/ CancelChoice
  \/ \E k \in Chars \cup Controls : AcceptChoice(k)
  \/ EndOfInput \/ Enter \/ CtrlD \/ CtrlC
=============================================================================
