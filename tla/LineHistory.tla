---------------------------- MODULE LineHistory ----------------------------
(***************************************************************************)
(* The history of the line editor (lib/wrappers/linenoise/linenoise.c): an *)
(* array of lines, oldest first, of at most max entries.  A line is a      *)
(* sequence of characters without line breaks.  Memory does not run out.   *)
(***************************************************************************)
EXTENDS Integers, Sequences

CONSTANT MaxLine              \* LINENOISE_MAX_LINE, with the terminating NUL

ASSUME MaxLineAssumption == MaxLine \in Nat /\ MaxLine > 2

(* Mutant: the oldest line makes room too late.                            *)
HistoryAdd_Late(h, max, line) ==
  IF h # << >> /\ h[Len(h)] = line THEN h
  ELSE Append(IF Len(h) > max THEN Tail(h) ELSE h, line)
(* linenoiseHistoryAdd: a repeated line is not added, and a full history   *)
(* loses its oldest line.                                                  *)
HistoryAdd(h, max, line) ==
  IF h # << >> /\ h[Len(h)] = line THEN h
  ELSE Append(IF Len(h) = max THEN Tail(h) ELSE h, line)

(* linenoiseHistorySetMaxLen keeps the latest n lines.                     *)
HistorySetMaxLen(h, n) == IF n < Len(h) THEN SubSeq(h, Len(h) - n + 1, Len(h)) ELSE h

(* fgets reads at most MaxLine - 1 bytes, the line break included: a line  *)
(* that fills the buffer is read in pieces, the last ending in the break.  *)
Piece == MaxLine - 1
FirstPiece(lines) == SubSeq(lines[1], 1, IF Len(lines[1]) < Piece THEN Len(lines[1]) ELSE Piece)
AfterPiece(lines) ==
  IF Len(lines[1]) < Piece THEN Tail(lines)
  ELSE [lines EXCEPT ![1] = SubSeq(@, Piece + 1, Len(@))]
=============================================================================
