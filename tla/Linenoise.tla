------------------------------ MODULE Linenoise ------------------------------
(***************************************************************************)
(* The line reader (lib/wrappers/linenoise/linenoise.c) as a program uses  *)
(* it: terminal modes, the calls that read a line from a terminal, a       *)
(* terminal without escape sequences or a file, and the calls between them.*)
(***************************************************************************)
EXTENDS LineEditor

CONSTANTS DefaultCols,         \* assumed when the terminal does not answer (80)
          FirstRoom,           \* linenoiseNoTTY's first size (16)
          MaxRoom,             \* bound: on the length of a line of a file
          MaxHistory,          \* bound: on history_max_len
          Inputs               \* lines of a terminal without escape sequences

ASSUME InputsAssumption == Inputs \subseteq Seq(Chars)
ASSUME LimitAssumption == MaxHistory \in Nat /\ MaxHistory > 0 /\ FirstRoom \in Nat /\ FirstRoom > 0

VARIABLES device,              \* of stdin: "tty", "dumb" or "file"
          tty, orig_termios, rawmode, atexit_registered,
          room,                \* linenoiseNoTTY's len and maxlen
          lines, unread, fresh,\* the history file, what of it is unread, the reader is new
          matched              \* how much of `quit' linenoisePrintKeyCodes has seen

modes == <<tty, orig_termios, rawmode, atexit_registered>>
file  == <<lines, unread, fresh>>
vars  == <<editor, device, modes, room, file, matched>>

NoRoom    == [len |-> 0, maxlen |-> 0]
NoLine    == [status |-> "none", line |-> << >>]
FreshView == [cell |-> [i \in Cells |-> IF i < Cols THEN Above ELSE Blank],
              row |-> 1, col |-> 0, oldpos |-> 0, maxrows |-> 0]
(* linenoiseEdit's variables when no call is active.                       *)
Forget == /\ key' = "NONE" /\ buf' = << >> /\ len' = 0 /\ pos' = 0 /\ lc' = << >> /\ choice' = 0
          /\ cols' = Cols /\ view' = FreshView /\ origin' = 1 /\ history_index' = 0
Init ==
  /\ pc = "out" /\ key = "NONE" /\ result = NoLine
  /\ buf = << >> /\ len = 0 /\ pos = 0 /\ lc = << >> /\ choice = 0
  /\ cols = Cols /\ view = FreshView /\ origin = 1 /\ history_index = 0
  /\ history = << >> /\ history_max_len \in 1 .. MaxHistory
  /\ mlmode \in BOOLEAN /\ hints \in BOOLEAN
  /\ device \in {"tty", "dumb", "file"}
  /\ tty = "cooked" /\ orig_termios = "unset" /\ rawmode = FALSE /\ atexit_registered = FALSE
  /\ room = NoRoom /\ lines = << >> /\ unread = << >> /\ fresh = FALSE /\ matched = 0

-----------------------------------------------------------------------------
(* Terminal modes.                                                         *)

(* Mutant: the modes are saved after they have been changed.               *)
enableRawMode_Late(next) ==
  /\ atexit_registered' = TRUE
  /\ \/ UNCHANGED <<orig_termios, tty, rawmode>> /\ pc' = "out"
     \/ orig_termios' = "raw" /\ tty' = "raw" /\ rawmode' = TRUE /\ pc' = next
(* tcgetattr or tcsetattr may fail.                                        *)
enableRawMode(next) ==
  /\ atexit_registered' = TRUE
  /\ \/ UNCHANGED <<orig_termios, tty, rawmode>> /\ pc' = "out"
     \/ orig_termios' = tty /\ UNCHANGED <<tty, rawmode>> /\ pc' = "out"
     \/ orig_termios' = tty /\ tty' = "raw" /\ rawmode' = TRUE /\ pc' = next
(* Mutant: the flag is cleared whether or not the modes could be restored. *)
disableRawMode_Clear == tty' \in {tty, IF rawmode THEN orig_termios ELSE tty} /\ rawmode' = FALSE
disableRawMode ==
  \/ rawmode /\ tty' = orig_termios /\ rawmode' = FALSE
  \/ UNCHANGED <<tty, rawmode>>              \* nothing to restore, or it fails

-----------------------------------------------------------------------------
(* Reading a line.                                                         *)

Outside == pc = "out" /\ UNCHANGED <<key, line, complete, view, origin, history_index, cols>>

linenoiseRaw ==
  /\ Outside /\ device = "tty"
  /\ enableRawMode("start")
  /\ result' = IF pc' = "out" THEN [status |-> "failed", line |-> << >>] ELSE NoLine
  /\ UNCHANGED <<history, history_max_len, mlmode, hints, device, room, file, matched>>

(* The terminal tells its width, or does not answer and may leave the      *)
(* cursor at the right margin.                                             *)
getColumns == {[cols |-> Cols, view |-> FreshView], [cols |-> DefaultCols, view |-> FreshView],
               [cols |-> DefaultCols, view |-> Forward(FreshView, Cols)]}
linenoiseEdit ==
  /\ pc = "start"
  /\ history' = HistoryAdd(history, history_max_len, << >>)
  /\ \E answer \in getColumns :
       /\ cols' = answer.cols
       /\ \/ view' = Text(answer.view, Prompt) /\ pc' = "key" /\ UNCHANGED result
          \/ view' = answer.view /\ Return("failed", << >>)
  /\ UNCHANGED <<key, line, complete, origin, history_index, history_max_len, mlmode, hints>>
  /\ UNCHANGED <<device, modes, room, file, matched>>
EditKey == Edit /\ UNCHANGED <<device, modes, room, file, matched>>
Leave ==
  /\ pc = "leave" /\ pc' = "out" /\ Forget
  /\ disableRawMode /\ UNCHANGED <<orig_termios, atexit_registered>>
  /\ UNCHANGED <<result, history, history_max_len, mlmode, hints, device, room, file, matched>>

(* A terminal on the list of unsupported ones: fgets, and the line break is*)
(* cut off.                                                                *)
DumbLine ==
  /\ Outside /\ device = "dumb"
  /\ result' \in {[status |-> "line", line |-> l] : l \in Inputs}
                   \cup {[status |-> "failed", line |-> << >>]}
  /\ UNCHANGED <<pc, history, history_max_len, mlmode, hints, device, modes, room, file, matched>>

(* linenoiseNoTTY: a file is read character by character into a block that *)
(* is doubled when it is full.  The characters are not modelled.           *)
Reading == /\ UNCHANGED <<key, line, complete, view, origin, history, history_index, settings>>
           /\ UNCHANGED <<device, modes, file, matched>>
Answer(status) == pc' = "out" /\ room' = NoRoom /\ result' = [status |-> status, line |-> << >>]
linenoiseNoTTY == /\ pc = "out" /\ device = "file" /\ pc' = "file" /\ UNCHANGED <<result, room>>
                  /\ Reading
(* The block is doubled, or there is no memory.                            *)
Grow ==
  /\ pc = "file" /\ room.len = room.maxlen
  /\ \/ /\ room' = [room EXCEPT !.maxlen = 2 * IF room.maxlen = 0 THEN FirstRoom ELSE @]
        /\ UNCHANGED <<pc, result>>
     \/ Answer("failed")
  /\ Reading
(* Mutant: a character is stored before the block is enlarged.             *)
FileChar_Unguarded ==
  /\ pc = "file"
  /\ \/ room.len < MaxRoom /\ room' = [room EXCEPT !.len = @ + 1] /\ UNCHANGED <<pc, result>>
     \/ Answer("line")
  /\ Reading
FileChar ==
  /\ pc = "file" /\ room.len # room.maxlen
  /\ \/ room.len < MaxRoom /\ room' = [room EXCEPT !.len = @ + 1] /\ UNCHANGED <<pc, result>>
     \/ Answer("line")                                    \* a line break
     \/ Answer(IF room.len = 0 THEN "failed" ELSE "line") \* the end of the file
  /\ Reading

(* linenoisePrintKeyCodes, until `quit' is typed; an input that has ended  *)
(* is read again and again.  Bound: before there is a history.             *)
Quit == <<"q", "u", "i", "t">>
linenoisePrintKeyCodes ==
  /\ Outside /\ device = "tty" /\ history = << >>
  /\ enableRawMode("codes") /\ matched' = 0
  /\ UNCHANGED <<result, history, history_max_len, mlmode, hints, device, room, file>>
KeyCode ==
  /\ pc = "codes"
  /\ \E c \in {"q", "u", "i", "t", "other"} :
       LET m == IF c = Quit[matched + 1] THEN matched + 1 ELSE IF c = "q" THEN 1 ELSE 0
       IN  IF m = 4 THEN pc' = "out" /\ matched' = 0 /\ disableRawMode
           ELSE matched' = m /\ UNCHANGED <<pc, tty, rawmode>>
  /\ UNCHANGED <<key, line, complete, settings, view, origin, history, history_index, result>>
  /\ UNCHANGED <<device, orig_termios, atexit_registered, room, file>>

-----------------------------------------------------------------------------
(* What a program may do between two calls.                                *)

Between == pc = "out" /\ Outside /\ UNCHANGED <<pc, device, modes, room, file, matched>>
(* readLineFromStdin (lib/impure/rdstdin.nim) adds the line it has read.   *)
linenoiseHistoryAdd ==
  /\ Between /\ result.line # << >>
  /\ history' = HistoryAdd(history, history_max_len, result.line) /\ result' = NoLine
  /\ UNCHANGED <<history_max_len, mlmode, hints>>
linenoiseHistorySetMaxLen ==
  /\ Between
  /\ history_max_len' \in 1 .. MaxHistory
  /\ history' = HistorySetMaxLen(history, history_max_len')
  /\ UNCHANGED <<result, mlmode, hints>>
linenoiseSetMultiLine ==
  Between /\ mlmode' \in BOOLEAN /\ UNCHANGED <<result, history, history_max_len, hints>>
linenoiseSetHintsCallback ==
  Between /\ hints' \in BOOLEAN /\ UNCHANGED <<result, history, history_max_len, mlmode>>
(* The history is saved, one line per entry, and then loaded line by line  *)
(* by a new process or by this one.                                        *)
linenoiseHistorySave ==
  /\ pc = "out" /\ Outside /\ pc' = "load"
  /\ lines' = history /\ unread' = history
  /\ fresh' \in BOOLEAN /\ history' = IF fresh' THEN << >> ELSE history
  /\ UNCHANGED <<result, history_max_len, mlmode, hints, device, modes, room, matched>>
Loading == /\ pc = "load" /\ UNCHANGED <<key, line, complete, settings, view, origin>>
           /\ UNCHANGED <<history_index, result, device, modes, room, matched>>
(* Mutant: an empty line is not added.                                     *)
linenoiseHistoryLoad_Empty ==
  /\ Loading /\ unread # << >>
  /\ history' = IF FirstPiece(unread) = << >> THEN history
                ELSE HistoryAdd(history, history_max_len, FirstPiece(unread))
  /\ unread' = AfterPiece(unread)
  /\ UNCHANGED <<pc, lines, fresh>>
linenoiseHistoryLoad ==
  /\ Loading /\ unread # << >>
  /\ history' = HistoryAdd(history, history_max_len, FirstPiece(unread))
  /\ unread' = AfterPiece(unread)
  /\ UNCHANGED <<pc, lines, fresh>>
LoadDone == /\ Loading /\ unread = << >> /\ pc' = "out"
            /\ lines' = << >> /\ unread' = << >> /\ fresh' = FALSE /\ UNCHANGED history

(* The program may end at any time, in a callback for example.             *)
linenoiseAtExit ==
  /\ pc # "exited" /\ pc' = "exited" /\ Forget
  /\ lines' = << >> /\ unread' = << >> /\ fresh' = FALSE /\ room' = NoRoom /\ matched' = 0
  /\ IF atexit_registered THEN disableRawMode /\ history' = << >>
     ELSE UNCHANGED <<tty, rawmode, history>>
  /\ UNCHANGED <<result, history_max_len, mlmode, hints, orig_termios, atexit_registered, device>>
Ended == pc = "exited" /\ UNCHANGED vars

Next ==
  \/ linenoiseRaw \/ linenoiseEdit \/ EditKey \/ Leave
  \/ DumbLine \/ linenoiseNoTTY \/ Grow \/ FileChar
  \/ linenoisePrintKeyCodes \/ KeyCode
  \/ linenoiseHistoryAdd \/ linenoiseHistorySetMaxLen \/ linenoiseSetMultiLine
  \/ linenoiseSetHintsCallback
  \/ linenoiseHistorySave \/ linenoiseHistoryLoad \/ LoadDone
  \/ linenoiseAtExit \/ Ended

(* Nothing has to happen: the user may stop typing, the program calling.   *)
Spec == Init /\ [][Next]_vars

-----------------------------------------------------------------------------
Editing == pc \in {"key", "handle", "choose"}

(* Every variable stays within its values; in particular the editor never  *)
(* leaves the buffer.                                                      *)
TypeOK ==
  /\ pc \in {"out", "start", "key", "handle", "choose", "leave", "file", "codes", "load", "exited"}
  /\ buf \in Seq(Chars) /\ len \in 0 .. buflen /\ pos \in 0 .. buflen
  /\ history_max_len \in 1 .. MaxHistory
  /\ history \in Seq(Seq(Chars)) /\ history_index \in Nat
  /\ mlmode \in BOOLEAN /\ hints \in BOOLEAN /\ rawmode \in BOOLEAN
  /\ tty \in {"cooked", "raw"} /\ orig_termios \in {"unset", "cooked", "raw"}
  /\ room.len <= room.maxlen /\ matched \in 0 .. 3

(* The three descriptions of the line agree after every operation: len is  *)
(* the length of the string in buf, which leaves room for its NUL, and the *)
(* cursor is on the line or just behind it.                                *)
LineConsistent == len = Len(buf) /\ len <= buflen /\ pos <= len

(* The history keeps to its limit and the slot of the line being edited,   *)
(* history[history_len - 1 - history_index], exists while there is a line. *)
HistorySlot == /\ Len(history) <= history_max_len
               /\ Editing => history_index < Len(history)

(* The screen shows the line, or the completion that is on offer, with the *)
(* cursor at its place whenever a key is awaited, and nothing else: no     *)
(* character is left over from an earlier, longer line or from a hint.  At *)
(* the end of the line the hint is gone.  A line just begun has no hint.   *)
ScreenShows ==
  cols = Cols =>
    /\ pc = "key" => \/ ShowsLine(view, origin, mlmode, buf, pos, hints, Above)
                     \/ buf = << >> /\ ShowsLine(view, origin, mlmode, buf, pos, FALSE, Above)
    /\ pc = "choose" =>
         IF choice < Len(lc)
         THEN ShowsLine(view, origin, mlmode, lc[choice + 1], Len(lc[choice + 1]), hints, Above)
         ELSE ShowsLine(view, origin, mlmode, buf, pos, hints, Above)
    /\ pc = "leave" /\ result.status = "entered" =>
         ShowsLine(view, origin, mlmode, buf, pos, FALSE, Above)

(* Going to the previous line of the history and back restores the line,   *)
(* if it is one character short of filling the buffer.                     *)
RecallRestores ==
  Editing /\ len < buflen /\ history_index + 1 < Len(history) =>
    LET older == Recall(history, history_index, buf, 1)
        back  == Recall(older.h, older.i, older.b, -1)
    IN  back.b = buf /\ back.i = history_index

(* Editing changes no line of the history but the one being edited: the    *)
(* others stay where they are until the call ends.                         *)
OnlySlotChanges ==
  [][Editing /\ Editing' => /\ Len(history') = Len(history)
                            /\ \A i \in 1 .. Len(history) :
                                 i # Len(history) - history_index => history'[i] = history[i]]_vars

(* A history that was saved is read back as it was, line for line, if none *)
(* fills the buffer and no two neighbours are equal.                       *)
LoadRestores ==
  /\ pc = "load" /\ fresh
  /\ \A i \in 1 .. Len(lines) : Len(lines[i]) < buflen
  /\ \A i \in 1 .. Len(lines) - 1 : lines[i] # lines[i + 1]
  => history = SubSeq(lines, 1, Len(lines) - Len(unread))

(* A program that ends leaves the terminal as it found it, unless restoring*)
(* the modes failed: then and there, or before a further call, which saves *)
(* the raw modes as the ones to restore; nothing else loses the modes.     *)
ModesRestored ==
  [][/\ pc' = "exited" /\ ~rawmode' /\ orig_termios' # "raw" => tty' = "cooked"
     /\ orig_termios # "raw" /\ orig_termios' = "raw" => rawmode]_vars
=============================================================================
