-------------------------- MODULE LinenoiseProofs --------------------------
(***************************************************************************)
(* Theorems about Linenoise, for every size of the buffer, the terminal and*)
(* the history, every set of characters and every completion that fits.    *)
(***************************************************************************)
EXTENDS Linenoise, SequenceTheorems, FiniteSetTheorems, TLAPS

Strings == Seq(Chars)

Fitting == UNION {[1 .. n -> Chars] : n \in 0 .. buflen - 1}

LineInv == /\ buf \in Seq(Chars) /\ len \in Nat /\ pos \in Nat /\ LineConsistent
           /\ lc \in Seq(Fitting) /\ choice \in Nat

HistoryInv == /\ history \in Seq(Strings) /\ history_index \in Nat
              /\ history_max_len \in 1 .. MaxHistory
              /\ HistorySlot
              /\ ~Editing /\ pc # "leave" => history_index = 0
              /\ result.line \in Strings /\ unread \in Seq(Strings)

IInv == LineInv /\ HistoryInv

(***************************************************************************)
(* Sequences.                                                              *)
(***************************************************************************)
LEMMA Part ==
  ASSUME NEW S, NEW s \in Seq(S), NEW m \in 1 .. Len(s) + 1, NEW n \in 0 .. Len(s), m <= n + 1
  PROVE  SubSeq(s, m, n) \in Seq(S) /\ Len(SubSeq(s, m, n)) = n - m + 1
<1>1. \A i \in m .. n : s[i] \in S
  BY ElementOfSeq
<1> QED BY <1>1, SubSeqProperties

LEMMA LastOff ==
  ASSUME NEW S, NEW s \in Seq(S), Len(s) > 0
  PROVE  SubSeq(s, 1, Len(s) - 1) \in Seq(S) /\ Len(SubSeq(s, 1, Len(s) - 1)) = Len(s) - 1
<1>1. PICK n \in 0 .. Len(s) : n = Len(s) - 1
  <2>1. Len(s) \in Nat
    BY LenProperties
  <2>2. Len(s) - 1 \in 0 .. Len(s)
    BY <2>1
  <2> QED BY <2>2
<1>2. SubSeq(s, 1, n) \in Seq(S) /\ Len(SubSeq(s, 1, n)) = n
  BY Part
<1> QED BY <1>1, <1>2

(* A line without the characters from m to n - 1.                          *)
LEMMA Splice ==
  ASSUME NEW S, NEW s \in Seq(S), NEW m \in 0 .. Len(s), NEW n \in m .. Len(s)
  PROVE  /\ SubSeq(s, 1, m) \o SubSeq(s, n + 1, Len(s)) \in Seq(S)
         /\ Len(SubSeq(s, 1, m) \o SubSeq(s, n + 1, Len(s))) = Len(s) - (n - m)
<1>1. SubSeq(s, 1, m) \in Seq(S) /\ Len(SubSeq(s, 1, m)) = m
  BY Part
<1>2. SubSeq(s, n + 1, Len(s)) \in Seq(S) /\ Len(SubSeq(s, n + 1, Len(s))) = Len(s) - n
  BY Part
<1> QED BY <1>1, <1>2, ConcatProperties

LEMMA LeftPart ==
  ASSUME NEW S, NEW s \in Seq(S), NEW n \in Nat
  PROVE  /\ Left(s, n) \in Seq(S) /\ Len(Left(s, n)) <= n /\ Len(Left(s, n)) <= Len(s)
         /\ Len(s) <= n => Left(s, n) = s
<1>1. Least(Len(s), n) \in 0 .. Len(s) /\ Least(Len(s), n) <= n
  BY DEF Least
<1>2. /\ Left(s, n) \in Seq(S) /\ Len(Left(s, n)) = Least(Len(s), n)
  BY <1>1, Part DEF Left
<1>3. ASSUME Len(s) <= n PROVE Left(s, n) = s
  BY <1>3, SubSeqFull DEF Left, Least
<1> QED BY <1>1, <1>2, <1>3

LEMMA BuflenFact == buflen \in Nat /\ buflen > 1
BY MaxLineAssumption DEF buflen

LEMMA FittingFact ==
  ASSUME NEW l \in Fitting
  PROVE  l \in Seq(Chars) /\ Len(l) <= buflen - 1
<1>1. PICK n \in 0 .. buflen - 1 : l \in [1 .. n -> Chars]
  BY DEF Fitting
<1>2. n \in Nat
  BY BuflenFact
<1> QED BY <1>1, <1>2, BuflenFact

(***************************************************************************)
(* The history.                                                            *)
(***************************************************************************)
LEMMA AddFact ==
  ASSUME NEW S, NEW h \in Seq(S), NEW max \in Nat \ {0}, Len(h) <= max, NEW l \in S
  PROVE  HistoryAdd(h, max, l) \in Seq(S) /\ Len(HistoryAdd(h, max, l)) \in 1 .. max
<1>1. CASE h # << >> /\ h[Len(h)] = l
  BY <1>1 DEF HistoryAdd
<1>2. CASE ~(h # << >> /\ h[Len(h)] = l) /\ Len(h) = max
  <2>1. h # << >>
    BY <1>2
  <2>2. Tail(h) \in Seq(S) /\ Len(Tail(h)) = max - 1
    BY <1>2, <2>1, HeadTailProperties
  <2>3. HistoryAdd(h, max, l) = Append(Tail(h), l)
    BY <1>2 DEF HistoryAdd
  <2> QED BY <2>2, <2>3, AppendProperties
<1>3. CASE ~(h # << >> /\ h[Len(h)] = l) /\ Len(h) # max
  <2>1. HistoryAdd(h, max, l) = Append(h, l)
    BY <1>3 DEF HistoryAdd
  <2> QED BY <1>3, <2>1, AppendProperties
<1> QED BY <1>1, <1>2, <1>3

LEMMA SetMaxLenFact ==
  ASSUME NEW S, NEW h \in Seq(S), NEW n \in Nat \ {0}
  PROVE  HistorySetMaxLen(h, n) \in Seq(S) /\ Len(HistorySetMaxLen(h, n)) <= n
BY Part DEF HistorySetMaxLen

LEMMA PieceFact ==
  ASSUME NEW S, NEW ls \in Seq(Seq(S)), ls # << >>
  PROVE  FirstPiece(ls) \in Seq(S) /\ AfterPiece(ls) \in Seq(Seq(S))
<1>1. ls[1] \in Seq(S) /\ Piece \in Nat /\ Len(ls[1]) \in Nat
  BY ElementOfSeq, MaxLineAssumption DEF Piece
<1>2. FirstPiece(ls) \in Seq(S)
  BY <1>1, Part DEF FirstPiece
<1>3. CASE Len(ls[1]) < Piece
  BY <1>2, <1>3, HeadTailProperties DEF AfterPiece
<1>4. CASE ~(Len(ls[1]) < Piece)
  <2>1. SubSeq(ls[1], Piece + 1, Len(ls[1])) \in Seq(S)
    BY <1>1, <1>4, Part
  <2>2. AfterPiece(ls) = [ls EXCEPT ![1] = SubSeq(ls[1], Piece + 1, Len(ls[1]))]
    BY <1>4 DEF AfterPiece
  <2>3. 1 \in 1 .. Len(ls)
    OBVIOUS
  <2> QED BY <1>2, <2>1, <2>2, <2>3, ExceptSeq
<1> QED BY <1>2, <1>3, <1>4

(* A step through the history stays in it, keeps the other lines, and what *)
(* is recalled fits into the buffer.                                       *)
LEMMA RecallFact ==
  ASSUME NEW h \in Seq(Strings), NEW i \in Nat, i < Len(h), NEW b \in Strings, NEW dir \in {-1, 1},
         NEW r, r = Recall(h, i, b, dir)
  PROVE  /\ r.h \in Seq(Strings) /\ Len(r.h) = Len(h)
         /\ \A j \in 1 .. Len(h) : j # Len(h) - i => r.h[j] = h[j]
         /\ r.i \in Nat /\ r.i < Len(h)
         /\ r.b \in Strings /\ (r.i # i => Len(r.b) <= buflen)
<1> DEFINE stored == [h EXCEPT ![Len(h) - i] = b]
<1>1. CASE Len(h) <= 1
  BY <1>1 DEF Recall
<1>2. CASE ~(Len(h) <= 1)
  <2>1. /\ stored \in Seq(Strings) /\ Len(stored) = Len(h)
        /\ \A j \in 1 .. Len(h) : j # Len(h) - i => stored[j] = h[j]
    <3>1. Len(h) - i \in 1 .. Len(h)
      OBVIOUS
    <3> QED BY <3>1, ExceptSeq
  <2>2. CASE i + dir \in 0 .. Len(h) - 1
    <3>1. Len(h) - (i + dir) \in 1 .. Len(h)
      BY <2>2
    <3>2. stored[Len(h) - (i + dir)] \in Strings
      BY <2>1, <3>1, ElementOfSeq
    <3> DEFINE old == stored[Len(h) - (i + dir)]
    <3>3. Left(old, buflen - 1) \in Strings /\ Len(Left(old, buflen - 1)) <= buflen
      <4>1. buflen - 1 \in Nat
        BY BuflenFact
      <4>2. old \in Seq(Chars)
        BY <3>2 DEF Strings
      <4> HIDE DEF old
      <4>3. Left(old, buflen - 1) \in Seq(Chars) /\ Len(Left(old, buflen - 1)) <= buflen - 1
        BY <4>1, <4>2, LeftPart
      <4> QED BY <4>3, BuflenFact, LenProperties DEF Strings
    <3>4. r = [h |-> stored, i |-> i + dir, b |-> Left(old, buflen - 1)]
      BY <1>2, <2>2 DEF Recall
    <3>5. /\ r.h = stored /\ r.i = i + dir /\ r.b = Left(old, buflen - 1)
      BY <3>4
    <3> HIDE DEF stored, old
    <3> QED BY <2>1, <2>2, <3>3, <3>5
  <2>3. CASE ~(i + dir \in 0 .. Len(h) - 1)
    <3>1. r = [h |-> stored, i |-> i, b |-> b]
      BY <1>2, <2>3 DEF Recall
    <3>2. /\ r.h = stored /\ r.i = i /\ r.b = b
      BY <3>1
    <3> HIDE DEF stored
    <3> QED BY <2>1, <3>2
  <2> QED BY <2>2, <2>3
<1> QED BY <1>1, <1>2

(***************************************************************************)
(* The operations of the editor keep the line consistent.                  *)
(***************************************************************************)
Edited == /\ buf' \in Seq(Chars) /\ len' \in Nat /\ pos' \in Nat
          /\ len' = Len(buf') /\ len' <= buflen /\ pos' <= len'

LEMMA InsertedFact ==
  ASSUME LineInv, NEW c \in Chars
  PROVE  Inserted(c) \in Seq(Chars) /\ Len(Inserted(c)) = len + 1
<1>1. /\ buf \in Seq(Chars) /\ pos \in 0 .. Len(buf) /\ len = Len(buf)
  BY DEF LineInv, LineConsistent
<1>2. SubSeq(buf, 1, pos) \in Seq(Chars) /\ Len(SubSeq(buf, 1, pos)) = pos
  BY <1>1, Part
<1>3. /\ SubSeq(buf, pos + 1, Len(buf)) \in Seq(Chars)
      /\ Len(SubSeq(buf, pos + 1, Len(buf))) = len - pos
  BY <1>1, Part
<1>4. <<c>> \in Seq(Chars) /\ Len(<<c>>) = 1
  OBVIOUS
<1>5. SubSeq(buf, 1, pos) \o <<c>> \in Seq(Chars) /\ Len(SubSeq(buf, 1, pos) \o <<c>>) = pos + 1
  BY <1>1, <1>2, <1>4, ConcatProperties
<1> DEFINE before == SubSeq(buf, 1, pos) \o <<c>>
           after  == SubSeq(buf, pos + 1, Len(buf))
<1>6. Inserted(c) = before \o after
  BY DEF Inserted
<1>7. before \in Seq(Chars) /\ Len(before) = pos + 1 /\ after \in Seq(Chars) /\ Len(after) = len - pos
  BY <1>3, <1>5
<1> HIDE DEF before, after
<1>8. before \o after \in Seq(Chars) /\ Len(before \o after) = Len(before) + Len(after)
  BY <1>7, ConcatProperties
<1> QED BY <1>1, <1>6, <1>7, <1>8

LEMMA WithoutFact ==
  ASSUME LineInv, NEW i \in 1 .. len
  PROVE  Without(i) \in Seq(Chars) /\ Len(Without(i)) = len - 1
<1>1. /\ buf \in Seq(Chars) /\ i - 1 \in 0 .. Len(buf) /\ i \in i - 1 .. Len(buf) /\ len = Len(buf)
  BY DEF LineInv, LineConsistent
<1>2. SubSeq(buf, 1, i - 1) \o SubSeq(buf, i + 1, Len(buf)) \in Seq(Chars)
  BY <1>1, Splice
<1>3. Len(SubSeq(buf, 1, i - 1) \o SubSeq(buf, i + 1, Len(buf))) = Len(buf) - (i - (i - 1))
  BY <1>1, Splice
<1> DEFINE rest == SubSeq(buf, 1, i - 1) \o SubSeq(buf, i + 1, Len(buf))
<1>4. Without(i) = rest
  BY DEF Without
<1>5. rest \in Seq(Chars) /\ Len(rest) = len - 1
  <2> HIDE DEF rest
  <2>1. rest \in Seq(Chars) /\ Len(rest) = Len(buf) - (i - (i - 1))
    BY <1>2, <1>3 DEF rest
  <2> QED BY <1>1, <2>1
<1> QED BY <1>4, <1>5

LEMMA CountFact ==
  ASSUME NEW n \in Nat, NEW T \in SUBSET (1 .. n)
  PROVE  Cardinality(T) \in Nat /\ Cardinality(T) <= n
<1>1. IsFiniteSet(1 .. n) /\ Cardinality(1 .. n) = n
  BY FS_Interval
<1>2. IsFiniteSet(T) /\ Cardinality(T) <= Cardinality(1 .. n)
  BY <1>1, FS_Subset
<1>3. Cardinality(T) \in Nat
  BY <1>2, FS_CardinalityType
<1> QED BY <1>1, <1>2, <1>3

(* The word before the cursor does not begin before the line.              *)
LEMMA WordFact ==
  ASSUME LineInv
  PROVE  spaces \in Nat /\ letters \in Nat /\ spaces + letters <= pos
<1> DEFINE A == {i \in 1 .. pos : \A j \in i .. pos : buf[j] = Space}
           B == {i \in 1 .. pos - spaces : \A j \in i .. pos - spaces : buf[j] # Space}
<1>1. pos \in Nat
  BY DEF LineInv
<1>2. A \in SUBSET (1 .. pos) /\ spaces = Cardinality(A)
  BY Zenon DEF spaces
<1>3. spaces \in Nat /\ spaces <= pos
  <2> HIDE DEF A
  <2> QED BY <1>1, <1>2, CountFact
<1>4. B \in SUBSET (1 .. pos - spaces) /\ letters = Cardinality(B)
  BY Zenon DEF letters
<1>5. pos - spaces \in Nat
  BY <1>1, <1>3
<1>6. letters \in Nat /\ letters <= pos - spaces
  <2> HIDE DEF B
  <2> QED BY <1>4, <1>5, CountFact
<1> QED BY <1>1, <1>3, <1>6

LEMMA EditKeepsLine ==
  ASSUME LineInv, HistoryInv, Edit
  PROVE  LineInv'
<1> USE DEF LineInv, LineConsistent
<1>0. /\ buf \in Seq(Chars) /\ len = Len(buf) /\ len \in 0 .. buflen /\ pos \in 0 .. len
      /\ buflen \in Nat
  BY BuflenFact
<1>1. SUFFICES Edited /\ lc' \in Seq(Fitting) /\ choice' \in Nat
  BY DEF Edited
<1>2. ASSUME NEW c \in Chars, linenoiseEditInsert(c)
      PROVE  Edited /\ lc' \in Seq(Fitting) /\ choice' \in Nat
  <2>1. Inserted(c) \in Seq(Chars) /\ Len(Inserted(c)) = len + 1
    BY InsertedFact
  <2>2. lc' = lc /\ choice' = choice
    BY <1>2 DEF linenoiseEditInsert, Handled, complete
  <2>3. CASE Full
    BY <1>0, <1>2, <2>2, <2>3 DEF linenoiseEditInsert, Same, line, Edited
  <2>4. CASE ~Full
    <3>1. buf' = Inserted(c) /\ len' = len + 1 /\ pos' = pos + 1
      BY <1>2, <2>4 DEF linenoiseEditInsert, Show
    <3> QED BY <1>0, <2>1, <2>2, <2>4, <3>1 DEF Full, Edited
  <2> QED BY <2>3, <2>4
<1>3. ASSUME NEW c \in Chars, InsertFails(c)
      PROVE  Edited /\ lc' \in Seq(Fitting) /\ choice' \in Nat
  <2>1. Inserted(c) \in Seq(Chars) /\ Len(Inserted(c)) = len + 1
    BY InsertedFact
  <2> QED BY <1>0, <1>3, <2>1 DEF InsertFails, complete, Full, Edited
<1>4. ASSUME NEW k, NEW p \in 0 .. len, MoveTo(k, p)
      PROVE  Edited /\ lc' \in Seq(Fitting) /\ choice' \in Nat
  BY <1>0, <1>4 DEF MoveTo, Show, Same, line, Handled, complete, Edited
<1>5. CASE linenoiseEditMoveLeft
  <2>1. Largest(pos - 1, 0) \in 0 .. len
    BY <1>0 DEF Largest
  <2> QED BY <1>4, <1>5, <2>1 DEF linenoiseEditMoveLeft
<1>6. CASE linenoiseEditMoveRight
  <2>1. (IF pos # len THEN pos + 1 ELSE pos) \in 0 .. len
    BY <1>0
  <2> QED BY <1>4, <1>6, <2>1 DEF linenoiseEditMoveRight
<1>7. CASE linenoiseEditMoveHome
  <2>1. 0 \in 0 .. len
    BY <1>0
  <2> QED BY <1>4, <1>7, <2>1 DEF linenoiseEditMoveHome
<1>8. CASE linenoiseEditMoveEnd
  <2>1. len \in 0 .. len
    BY <1>0
  <2> QED BY <1>4, <1>8, <2>1 DEF linenoiseEditMoveEnd
<1>9. CASE linenoiseEditDelete
  <2>1. CASE len > 0 /\ pos < len
    <3>1. Without(pos + 1) \in Seq(Chars) /\ Len(Without(pos + 1)) = len - 1
      BY <1>0, <2>1, WithoutFact
    <3> QED BY <1>0, <1>9, <2>1, <3>1
            DEF linenoiseEditDelete, Deletion, Show, Handled, complete, Edited
  <2>2. CASE ~(len > 0 /\ pos < len)
    BY <1>0, <1>9, <2>2 DEF linenoiseEditDelete, Deletion, Same, line, Handled, complete, Edited
  <2> QED BY <2>1, <2>2
<1>10. CASE linenoiseEditBackspace
  <2>1. CASE pos > 0 /\ len > 0
    <3>1. Without(pos) \in Seq(Chars) /\ Len(Without(pos)) = len - 1
      BY <1>0, <2>1, WithoutFact
    <3> QED BY <1>0, <1>10, <2>1, <3>1
            DEF linenoiseEditBackspace, Show, Handled, complete, Edited
  <2>2. CASE ~(pos > 0 /\ len > 0)
    BY <1>0, <1>10, <2>2 DEF linenoiseEditBackspace, Same, line, Handled, complete, Edited
  <2> QED BY <2>1, <2>2
<1>11. CASE linenoiseEditDeletePrevWord
  <2> DEFINE diff == spaces + letters
             rest == SubSeq(buf, 1, pos - diff) \o SubSeq(buf, pos + 1, Len(buf))
  <2>1. diff \in 0 .. pos /\ pos - diff \in 0 .. Len(buf) /\ pos \in pos - diff .. Len(buf)
    BY <1>0, WordFact
  <2>2. buf' = rest /\ len' = len - diff /\ pos' = pos - diff /\ lc' = lc /\ choice' = choice
    BY <1>11 DEF linenoiseEditDeletePrevWord, Show, Handled, complete
  <2> HIDE DEF diff
  <2>3. rest \in Seq(Chars) /\ Len(rest) = Len(buf) - (pos - (pos - diff))
    BY <1>0, <2>1, Splice
  <2> HIDE DEF rest
  <2> QED BY <1>0, <2>1, <2>2, <2>3 DEF Edited
<1>12. CASE SwapCharacters
  <2>1. CASE pos > 0 /\ pos < len
    <3>1. pos \in 1 .. Len(buf) /\ pos + 1 \in 1 .. Len(buf) /\ pos + 1 \in 1 .. len
      BY <1>0, <2>1
    <3>2. buf[pos] \in Chars /\ buf[pos + 1] \in Chars
      BY <1>0, <3>1, ElementOfSeq
    <3> DEFINE half == [buf EXCEPT ![pos] = buf[pos + 1]]
               both == [half EXCEPT ![pos + 1] = buf[pos]]
    <3>3. half \in Seq(Chars) /\ Len(half) = Len(buf)
      BY <1>0, <3>1, <3>2, ExceptSeq
    <3>4. both \in Seq(Chars) /\ Len(both) = Len(buf)
      <4> HIDE DEF half
      <4> QED BY <3>1, <3>2, <3>3, ExceptSeq
    <3>5. buf' = both /\ len' = len /\ pos' = (IF pos # len - 1 THEN pos + 1 ELSE pos)
          /\ lc' = lc /\ choice' = choice
      BY <1>12, <2>1 DEF SwapCharacters, Show, Handled, complete
    <3> HIDE DEF both
    <3> QED BY <1>0, <2>1, <3>4, <3>5 DEF Edited
  <2>2. CASE ~(pos > 0 /\ pos < len)
    BY <1>0, <1>12, <2>2 DEF SwapCharacters, Same, line, Handled, complete, Edited
  <2> QED BY <2>1, <2>2
<1>13. CASE DeleteLine
  BY <1>0, <1>13 DEF DeleteLine, Show, Handled, complete, Edited
<1>14. CASE DeleteToEnd
  <2>1. SubSeq(buf, 1, pos) \in Seq(Chars) /\ Len(SubSeq(buf, 1, pos)) = pos
    BY <1>0, Part
  <2> QED BY <1>0, <1>14, <2>1 DEF DeleteToEnd, Show, Handled, complete, Edited
<1>15. CASE ClearAll \/ UnknownEscape
  BY <1>0, <1>15 DEF ClearAll, UnknownEscape, Same, line, Handled, complete, Edited
<1>16. ASSUME NEW k, NEW dir \in {-1, 1}, Editing, linenoiseEditHistoryNext(k, dir)
       PROVE  Edited /\ lc' \in Seq(Fitting) /\ choice' \in Nat
  <2>1. PICK r : r = Recall(history, history_index, buf, dir)
    OBVIOUS
  <2>2. r.b \in Strings /\ (r.i # history_index => Len(r.b) <= buflen)
    BY <1>0, <1>16, <2>1, RecallFact DEF HistoryInv, HistorySlot, Strings
  <2>3. CASE r.i = history_index
    BY <1>0, <1>16, <2>1, <2>3
       DEF linenoiseEditHistoryNext, Same, line, Handled, complete, Edited
  <2>4. CASE r.i # history_index
    BY <1>0, <1>16, <2>1, <2>2, <2>4, LenProperties
       DEF linenoiseEditHistoryNext, Show, Handled, complete, Edited, Strings
  <2> QED BY <2>3, <2>4
<1>17. CASE completeLine
  <2>1. Offers \subseteq Seq(Fitting)
    BY OffersAssumption DEF Fitting
  <2> QED BY <1>0, <1>17, <2>1 DEF completeLine, Choosing, line, Edited
<1>18. CASE NextChoice
  <2>1. Len(lc) \in Nat
    BY LenProperties
  <2>2. (choice + 1) % (Len(lc) + 1) \in Nat
    BY <2>1
  <2> QED BY <1>0, <1>18, <2>2 DEF NextChoice, Choosing, line, Edited
<1>19. CASE CancelChoice
  BY <1>0, <1>19 DEF CancelChoice, Choosing, Forgotten, line, Edited
<1>20. ASSUME NEW k, AcceptChoice(k)
       PROVE  Edited /\ lc' \in Seq(Fitting) /\ choice' \in Nat
  <2>1. lc' = << >> /\ choice' = 0
    BY <1>20 DEF AcceptChoice, Forgotten
  <2>2. CASE choice < Len(lc)
    <3>1. choice + 1 \in 1 .. Len(lc)
      BY <2>2, LenProperties
    <3>2. lc[choice + 1] \in Fitting
      BY <3>1, ElementOfSeq
    <3>3. lc[choice + 1] \in Seq(Chars) /\ Len(lc[choice + 1]) <= buflen - 1
      BY <3>2, FittingFact
    <3>4. Left(lc[choice + 1], buflen - 1) = lc[choice + 1]
      BY <3>3, BuflenFact, LeftPart
    <3>5. /\ buf' = lc[choice + 1] /\ len' = Len(lc[choice + 1])
          /\ pos' = Len(lc[choice + 1])
      BY <1>20, <2>2, <3>4 DEF AcceptChoice
    <3> QED BY <1>0, <2>1, <3>3, <3>5, LenProperties DEF Edited
  <2>3. CASE ~(choice < Len(lc))
    BY <1>0, <1>20, <2>1, <2>3 DEF AcceptChoice, line, Edited
  <2> QED BY <2>2, <2>3
<1>21. CASE EndOfInput
  BY <1>0, <1>21 DEF EndOfInput, Forgotten, line, Edited
<1>22. CASE Enter
  BY <1>0, <1>22 DEF Enter, complete, Edited
<1>23. CASE CtrlD \/ CtrlC
  BY <1>0, <1>23 DEF CtrlD, CtrlC, line, complete, Edited
<1>24. CASE linenoiseEditHistoryNext("CTRL_P", 1) \/ linenoiseEditHistoryNext("CTRL_N", -1)
  <2>1. Editing
    BY <1>24 DEF linenoiseEditHistoryNext, Press, Editing
  <2> QED BY <1>16, <1>24, <2>1
<1> QED
  BY <1>2, <1>3, <1>5, <1>6, <1>7, <1>8, <1>9, <1>10, <1>11, <1>12, <1>13, <1>14, <1>15, <1>17,
     <1>18, <1>19, <1>20, <1>21, <1>22, <1>23, <1>24 DEF Edit

(***************************************************************************)
(* The operations of the editor keep the history's shape, and all its lines*)
(* but the one in the slot of the present line.                            *)
(***************************************************************************)
HistoryKept == /\ history' = history /\ history_index' = history_index

LEMMA EditKeepsHistory ==
  ASSUME IInv, Edit
  PROVE  /\ history' \in Seq(Strings) /\ history_index' \in Nat
         /\ history_max_len' = history_max_len
         /\ Len(history') <= history_max_len
         /\ Editing' => /\ history_index' < Len(history') /\ Len(history') = Len(history)
                        /\ \A i \in 1 .. Len(history) :
                             i # Len(history) - history_index => history'[i] = history[i]
         /\ Editing /\ (Editing' \/ pc' = "leave")
         /\ result'.line \in Strings
<1> USE DEF IInv, HistoryInv, HistorySlot
<1>1. Editing
  BY DEF Edit, Editing, linenoiseEditInsert, InsertFails, linenoiseEditMoveLeft,
         linenoiseEditMoveRight, linenoiseEditMoveHome, linenoiseEditMoveEnd, MoveTo,
         linenoiseEditDelete, linenoiseEditBackspace, linenoiseEditDeletePrevWord,
         SwapCharacters, DeleteLine, DeleteToEnd, ClearAll, UnknownEscape,
         linenoiseEditHistoryNext, completeLine, NextChoice, CancelChoice, AcceptChoice,
         EndOfInput, Enter, CtrlD, CtrlC, Press, Type
<1>2. history_max_len' = history_max_len
  BY DEF Edit, linenoiseEditInsert, InsertFails, linenoiseEditMoveLeft,
         linenoiseEditMoveRight, linenoiseEditMoveHome, linenoiseEditMoveEnd, MoveTo,
         linenoiseEditDelete, linenoiseEditBackspace, linenoiseEditDeletePrevWord,
         SwapCharacters, DeleteLine, DeleteToEnd, ClearAll, UnknownEscape,
         linenoiseEditHistoryNext, completeLine, NextChoice, CancelChoice, AcceptChoice,
         EndOfInput, Enter, CtrlD, CtrlC, Handled, Choosing, settings
<1>3. Editing' \/ pc' = "leave"
  BY DEF Edit, Editing, linenoiseEditInsert, InsertFails, linenoiseEditMoveLeft,
         linenoiseEditMoveRight, linenoiseEditMoveHome, linenoiseEditMoveEnd, MoveTo,
         linenoiseEditDelete, linenoiseEditBackspace, linenoiseEditDeletePrevWord,
         SwapCharacters, DeleteLine, DeleteToEnd, ClearAll, UnknownEscape,
         linenoiseEditHistoryNext, completeLine, NextChoice, CancelChoice, AcceptChoice,
         EndOfInput, Enter, CtrlD, CtrlC, Handled, Return
<1>4. result'.line \in Strings
  <2>1. LineInv'
    BY EditKeepsLine
  <2>2. buf \in Seq(Chars) /\ buf' \in Seq(Chars) /\ << >> \in Seq(Chars)
    BY <2>1 DEF LineInv
  <2>3. ASSUME NEW st, NEW b \in {buf, buf', << >>}, Return(st, b)
        PROVE  result'.line \in Strings
    BY <2>2, <2>3 DEF Return, Strings
  <2>4. \/ result' = result
        \/ \E c \in Chars : InsertFails(c)
        \/ \E k \in Chars \cup Controls : AcceptChoice(k)
        \/ EndOfInput \/ Enter \/ CtrlD \/ CtrlC
    BY DEF Edit, linenoiseEditInsert, linenoiseEditMoveLeft,
           linenoiseEditMoveRight, linenoiseEditMoveHome, linenoiseEditMoveEnd, MoveTo,
           linenoiseEditDelete, linenoiseEditBackspace, linenoiseEditDeletePrevWord,
           SwapCharacters, DeleteLine, DeleteToEnd, ClearAll, UnknownEscape,
           linenoiseEditHistoryNext, completeLine, NextChoice, CancelChoice, Handled, Choosing
  <2>5. ASSUME NEW k, AcceptChoice(k)
        PROVE  result' = result \/ Return("line", buf')
    BY <2>5 DEF AcceptChoice
  <2> QED BY <2>3, <2>4, <2>5 DEF InsertFails, EndOfInput, Enter, CtrlD, CtrlC
<1>5. ASSUME NEW k, NEW dir \in {-1, 1}, linenoiseEditHistoryNext(k, dir)
      PROVE  /\ history' \in Seq(Strings) /\ history_index' \in Nat
             /\ Len(history') <= history_max_len
             /\ history_index' < Len(history') /\ Len(history') = Len(history)
             /\ \A i \in 1 .. Len(history) :
                  i # Len(history) - history_index => history'[i] = history[i]
  <2>1. buf \in Strings
    BY DEF LineInv, Strings
  <2>2. PICK r : r = Recall(history, history_index, buf, dir)
    OBVIOUS
  <2>3. /\ history \in Seq(Strings) /\ history_index \in Nat /\ history_index < Len(history)
    BY <1>1
  <2>4. /\ r.h \in Seq(Strings) /\ Len(r.h) = Len(history)
        /\ \A j \in 1 .. Len(history) : j # Len(history) - history_index => r.h[j] = history[j]
        /\ r.i \in Nat /\ r.i < Len(history)
    BY <1>5, <2>1, <2>2, <2>3, RecallFact
  <2>5. history' = r.h /\ history_index' = r.i
    BY <1>5, <2>2 DEF linenoiseEditHistoryNext
  <2> QED BY <2>4, <2>5
<1>6. CASE Enter \/ CtrlD
  <2>1. history \in Seq(Strings) /\ Len(history) > 0
    BY <1>1
  <2>2. Dropped \in Seq(Strings) /\ Len(Dropped) = Len(history) - 1
    BY <2>1, LastOff DEF Dropped
  <2>3. pc' = "leave" /\ history' = Dropped /\ history_index' = history_index
    BY <1>6 DEF Enter, CtrlD, Return
  <2> QED BY <1>1, <1>2, <1>4, <2>1, <2>2, <2>3 DEF Editing
<1>7. CASE HistoryKept
  BY <1>1, <1>2, <1>3, <1>4, <1>7 DEF HistoryKept
<1>8. HistoryKept \/ Enter \/ CtrlD \/ linenoiseEditHistoryNext("CTRL_P", 1)
        \/ linenoiseEditHistoryNext("CTRL_N", -1)
  BY DEF Edit, linenoiseEditInsert, InsertFails, linenoiseEditMoveLeft,
         linenoiseEditMoveRight, linenoiseEditMoveHome, linenoiseEditMoveEnd, MoveTo,
         linenoiseEditDelete, linenoiseEditBackspace, linenoiseEditDeletePrevWord,
         SwapCharacters, DeleteLine, DeleteToEnd, ClearAll, UnknownEscape,
         completeLine, NextChoice, CancelChoice, AcceptChoice,
         EndOfInput, CtrlC, Choosing, Kept, HistoryKept
<1>9. CASE linenoiseEditHistoryNext("CTRL_P", 1) \/ linenoiseEditHistoryNext("CTRL_N", -1)
  BY <1>1, <1>2, <1>3, <1>4, <1>5, <1>9
<1> QED BY <1>6, <1>7, <1>8, <1>9

(***************************************************************************)
(* The inductive invariant.                                                *)
(***************************************************************************)
LEMMA InitIInv == Init => IInv
BY LimitAssumption, BuflenFact
   DEF Init, IInv, LineInv, HistoryInv, LineConsistent, HistorySlot, Editing, NoLine, Strings

(* Outside the editor the line is not touched, or forgotten.               *)
LEMMA OutsideKeepsLine ==
  ASSUME LineInv, UNCHANGED <<line, complete>>
  PROVE  LineInv'
BY DEF LineInv, LineConsistent, line, complete

LEMMA ForgetMakesLine == Forget => LineInv'
BY BuflenFact DEF Forget, LineInv, LineConsistent

LEMMA NextIInv == IInv /\ [Next]_vars => IInv'
<1> SUFFICES ASSUME IInv, [Next]_vars PROVE IInv'
  OBVIOUS
<1> USE DEF IInv
<1>0. /\ history \in Seq(Strings) /\ history_index \in Nat
      /\ history_max_len \in 1 .. MaxHistory /\ history_max_len \in Nat \ {0}
      /\ Len(history) <= history_max_len /\ << >> \in Strings /\ << >> \in Seq(Strings)
  BY LimitAssumption DEF HistoryInv, HistorySlot, Strings
<1>1. CASE linenoiseRaw
  <2>1. LineInv'
    BY <1>1, OutsideKeepsLine DEF linenoiseRaw, Outside
  <2>2. pc' \in {"out", "start"} /\ result'.line = << >> /\ pc = "out"
    BY <1>1 DEF linenoiseRaw, Outside, enableRawMode, NoLine
  <2> QED BY <1>0, <1>1, <2>1, <2>2
          DEF linenoiseRaw, Outside, HistoryInv, HistorySlot, Editing, file
<1>2. CASE linenoiseEdit
  <2>1. LineInv'
    BY <1>2, OutsideKeepsLine DEF linenoiseEdit
  <2>2. history' \in Seq(Strings) /\ Len(history') \in 1 .. history_max_len
    BY <1>0, <1>2, AddFact DEF linenoiseEdit
  <2>3. /\ history_index = 0 /\ history_index' = 0 /\ history_max_len' = history_max_len
        /\ unread' = unread
    BY <1>2 DEF linenoiseEdit, HistoryInv, Editing, file
  <2>4. result' = result \/ result'.line = << >>
    BY <1>2 DEF linenoiseEdit, Return
  <2> QED BY <1>0, <2>1, <2>2, <2>3, <2>4 DEF HistoryInv, HistorySlot
<1>3. CASE EditKey
  <2>1. LineInv'
    BY <1>3, EditKeepsLine DEF EditKey
  <2>2. /\ history' \in Seq(Strings) /\ history_index' \in Nat
        /\ history_max_len' = history_max_len
        /\ Len(history') <= history_max_len
        /\ Editing' => history_index' < Len(history')
        /\ Editing' \/ pc' = "leave"
        /\ result'.line \in Strings
    BY <1>3, EditKeepsHistory DEF EditKey
  <2>3. unread' = unread
    BY <1>3 DEF EditKey, file
  <2> QED BY <1>0, <2>1, <2>2, <2>3 DEF HistoryInv, HistorySlot
<1>4. CASE Leave
  <2>1. LineInv'
    BY <1>4, ForgetMakesLine DEF Leave
  <2> QED BY <1>0, <1>4, <2>1 DEF Leave, Forget, HistoryInv, HistorySlot, Editing, file
<1>5. CASE DumbLine
  <2>1. LineInv'
    BY <1>5, OutsideKeepsLine DEF DumbLine, Outside
  <2>2. result'.line \in Strings
    <3>1. \/ \E l \in Inputs : result' = [status |-> "line", line |-> l]
          \/ result' = [status |-> "failed", line |-> << >>]
      BY <1>5 DEF DumbLine
    <3>2. Inputs \subseteq Strings
      BY InputsAssumption DEF Strings
    <3>3. ASSUME NEW l \in Strings, NEW st, result' = [status |-> st, line |-> l]
          PROVE  result'.line \in Strings
      BY <3>3
    <3> QED BY <1>0, <3>1, <3>2, <3>3
  <2> QED BY <1>0, <1>5, <2>1, <2>2 DEF DumbLine, Outside, HistoryInv, HistorySlot, Editing, file
<1>6. CASE linenoiseNoTTY \/ Grow \/ FileChar
  <2>1. Reading /\ pc \in {"out", "file"} /\ pc' \in {"out", "file"}
    BY <1>6 DEF linenoiseNoTTY, Grow, FileChar, Answer
  <2>2. LineInv'
    BY <2>1, OutsideKeepsLine DEF Reading
  <2>3. result' = result \/ result'.line = << >>
    BY <1>6 DEF linenoiseNoTTY, Grow, FileChar, Answer
  <2> QED BY <1>0, <2>1, <2>2, <2>3 DEF Reading, HistoryInv, HistorySlot, Editing, file, settings
<1>7. CASE linenoisePrintKeyCodes
  <2>1. LineInv'
    BY <1>7, OutsideKeepsLine DEF linenoisePrintKeyCodes, Outside
  <2>2. pc' \in {"out", "codes"} /\ pc = "out"
    BY <1>7 DEF linenoisePrintKeyCodes, Outside, enableRawMode
  <2> QED BY <1>0, <1>7, <2>1, <2>2
          DEF linenoisePrintKeyCodes, Outside, HistoryInv, HistorySlot, Editing, file
<1>8. CASE KeyCode
  <2>1. LineInv'
    BY <1>8, OutsideKeepsLine DEF KeyCode
  <2>2. pc' \in {"out", "codes"} /\ pc = "codes"
    BY <1>8 DEF KeyCode
  <2> QED BY <1>0, <1>8, <2>1, <2>2 DEF KeyCode, HistoryInv, HistorySlot, Editing, file, settings
<1>9. CASE linenoiseHistoryAdd
  <2>1. LineInv'
    BY <1>9, OutsideKeepsLine DEF linenoiseHistoryAdd, Between, Outside
  <2>2. history' \in Seq(Strings) /\ Len(history') \in 1 .. history_max_len
    BY <1>0, <1>9, AddFact DEF linenoiseHistoryAdd, HistoryInv
  <2> QED BY <1>0, <1>9, <2>1, <2>2
          DEF linenoiseHistoryAdd, Between, Outside, HistoryInv, HistorySlot, Editing, file, NoLine
<1>10. CASE linenoiseHistorySetMaxLen
  <2>1. LineInv'
    BY <1>10, OutsideKeepsLine DEF linenoiseHistorySetMaxLen, Between, Outside
  <2>2. history_max_len' \in 1 .. MaxHistory /\ history_max_len' \in Nat \ {0}
    BY <1>10, LimitAssumption DEF linenoiseHistorySetMaxLen
  <2>3. history' \in Seq(Strings) /\ Len(history') <= history_max_len'
    BY <1>0, <1>10, <2>2, SetMaxLenFact DEF linenoiseHistorySetMaxLen
  <2> QED BY <1>0, <1>10, <2>1, <2>2, <2>3
          DEF linenoiseHistorySetMaxLen, Between, Outside, HistoryInv, HistorySlot, Editing, file
<1>11. CASE linenoiseSetMultiLine \/ linenoiseSetHintsCallback
  <2>1. LineInv'
    BY <1>11, OutsideKeepsLine
       DEF linenoiseSetMultiLine, linenoiseSetHintsCallback, Between, Outside
  <2> QED BY <1>0, <1>11, <2>1
          DEF linenoiseSetMultiLine, linenoiseSetHintsCallback, Between, Outside, HistoryInv,
              HistorySlot, Editing, file
<1>12. CASE linenoiseHistorySave
  <2>1. LineInv'
    BY <1>12, OutsideKeepsLine DEF linenoiseHistorySave, Outside
  <2>2. unread' = history /\ history' \in {<< >>, history}
    BY <1>12 DEF linenoiseHistorySave
  <2>3. Len(<< >>) = 0
    OBVIOUS
  <2> QED BY <1>0, <1>12, <2>1, <2>2, <2>3
          DEF linenoiseHistorySave, Outside, HistoryInv, HistorySlot, Editing
<1>13. CASE linenoiseHistoryLoad
  <2>1. LineInv'
    BY <1>13, OutsideKeepsLine DEF linenoiseHistoryLoad, Loading
  <2>2. FirstPiece(unread) \in Strings /\ AfterPiece(unread) \in Seq(Strings)
    BY <1>13, PieceFact DEF linenoiseHistoryLoad, HistoryInv, Strings
  <2>3. history' \in Seq(Strings) /\ Len(history') \in 1 .. history_max_len
    BY <1>0, <1>13, <2>2, AddFact DEF linenoiseHistoryLoad
  <2> QED BY <1>0, <1>13, <2>1, <2>2, <2>3
          DEF linenoiseHistoryLoad, Loading, HistoryInv, HistorySlot, Editing, settings
<1>14. CASE LoadDone
  <2>1. LineInv'
    BY <1>14, OutsideKeepsLine DEF LoadDone, Loading
  <2> QED BY <1>0, <1>14, <2>1 DEF LoadDone, Loading, HistoryInv, HistorySlot, Editing, settings
<1>15. CASE linenoiseAtExit
  <2>1. LineInv'
    BY <1>15, ForgetMakesLine DEF linenoiseAtExit
  <2>2. /\ history' = << >> \/ history' = history
        /\ history_max_len' = history_max_len /\ result' = result
        /\ history_index' = 0 /\ unread' = << >> /\ pc' = "exited"
    BY <1>15 DEF linenoiseAtExit, Forget
  <2>3. Len(<< >>) = 0
    OBVIOUS
  <2>4. history' \in Seq(Strings) /\ Len(history') <= history_max_len'
    <3>1. CASE history' = << >>
      <4>1. Len(history') = 0
        BY <2>3, <3>1
      <4> QED BY <1>0, <2>2, <3>1, <4>1
    <3>2. CASE history' = history
      BY <1>0, <2>2, <3>2
    <3> QED BY <2>2, <3>1, <3>2
  <2> QED BY <1>0, <2>1, <2>2, <2>4 DEF HistoryInv, HistorySlot, Editing
<1>16. CASE Ended \/ UNCHANGED vars
  BY <1>0, <1>16 DEF Ended, vars, editor, line, complete, settings, file, LineInv, LineConsistent,
                     HistoryInv, HistorySlot, Editing
<1> QED BY <1>1, <1>2, <1>3, <1>4, <1>5, <1>6, <1>7, <1>8, <1>9, <1>10, <1>11, <1>12, <1>13,
           <1>14, <1>15, <1>16 DEF Next

LEMMA Invariance == Spec => []IInv
BY InitIInv, NextIInv, PTL DEF Spec

(***************************************************************************)
(* The length, the buffer and the cursor agree: no operation of the editor *)
(* reads or writes outside the line or lets it outgrow its buffer.         *)
(***************************************************************************)
THEOREM LineStaysConsistent == Spec => []LineConsistent
<1>1. IInv => LineConsistent
  BY DEF IInv, LineInv
<1> QED BY <1>1, Invariance, PTL

(***************************************************************************)
(* The history never exceeds its limit, and the index of the line that is  *)
(* edited never leaves it.                                                 *)
(***************************************************************************)
THEOREM HistoryStaysInBounds == Spec => []HistorySlot
<1>1. IInv => HistorySlot
  BY DEF IInv, HistoryInv
<1> QED BY <1>1, Invariance, PTL

(***************************************************************************)
(* Whatever happens while a line is edited, the lines of the history in the*)
(* other slots stay as they are.                                           *)
(***************************************************************************)
THEOREM OtherSlotsKept == Spec => OnlySlotChanges
<1> DEFINE A == Editing /\ Editing' =>
                  /\ Len(history') = Len(history)
                  /\ \A i \in 1 .. Len(history) :
                       i # Len(history) - history_index => history'[i] = history[i]
<1>1. IInv /\ [Next]_vars => [A]_vars
  <2> SUFFICES ASSUME IInv, Next, Editing, Editing'
               PROVE  /\ Len(history') = Len(history)
                      /\ \A i \in 1 .. Len(history) :
                           i # Len(history) - history_index => history'[i] = history[i]
    OBVIOUS
  <2>1. EditKey
    BY DEF Next, Editing, linenoiseRaw, Outside, linenoiseEdit, Leave, DumbLine, linenoiseNoTTY,
           Grow, FileChar, linenoisePrintKeyCodes, KeyCode, linenoiseHistoryAdd, Between,
           linenoiseHistorySetMaxLen, linenoiseSetMultiLine, linenoiseSetHintsCallback,
           linenoiseHistorySave, linenoiseHistoryLoad, LoadDone, Loading, linenoiseAtExit, Ended
  <2> QED BY <2>1, EditKeepsHistory DEF EditKey
<1> QED BY <1>1, Invariance, PTL DEF Spec, OnlySlotChanges

(***************************************************************************)
(* Going to an older line and back restores the line that was typed, unless*)
(* it fills the buffer.                                                    *)
(***************************************************************************)
THEOREM RecallIsUndone == Spec => []RecallRestores
<1>1. IInv => RecallRestores
  <2> SUFFICES ASSUME IInv, Editing, len < buflen, history_index + 1 < Len(history)
               PROVE  LET older == Recall(history, history_index, buf, 1)
                          back  == Recall(older.h, older.i, older.b, -1)
                      IN  back.b = buf /\ back.i = history_index
    BY DEF RecallRestores
  <2> DEFINE n == Len(history)
             i == history_index
             stored == [history EXCEPT ![n - i] = buf]
             old == stored[n - (i + 1)]
             seen == Left(old, buflen - 1)
             again == [stored EXCEPT ![n - (i + 1)] = seen]
  <2>1. /\ history \in Seq(Strings) /\ i \in Nat /\ n \in Nat /\ i + 1 < n /\ buf \in Strings
        /\ buf \in Seq(Chars) /\ Len(buf) <= buflen - 1 /\ buflen - 1 \in Nat
    BY BuflenFact, LenProperties DEF IInv, LineInv, LineConsistent, HistoryInv, Strings
  <2>2. /\ n - i \in 1 .. n /\ n - (i + 1) \in 1 .. n /\ n - (i + 1) # n - i
        /\ i + 1 \in 0 .. n - 1 /\ (i + 1) + -1 = i /\ i \in 0 .. n - 1 /\ ~(n <= 1)
    BY <2>1
  <2>3. stored \in Seq(Strings) /\ Len(stored) = n /\ stored[n - i] = buf
    BY <2>1, <2>2, ExceptSeq
  <2>4. old \in Seq(Chars)
    <3> HIDE DEF stored
    <3> QED BY <2>2, <2>3, ElementOfSeq DEF Strings
  <2>5. seen \in Strings
    <3> HIDE DEF old
    <3> QED BY <2>1, <2>4, LeftPart DEF Strings
  <2>6. again \in Seq(Strings) /\ Len(again) = n /\ again[n - i] = buf
    <3> HIDE DEF stored, seen
    <3> QED BY <2>2, <2>3, <2>5, ExceptSeq
  <2>7. Recall(history, i, buf, 1) = [h |-> stored, i |-> i + 1, b |-> seen]
    BY <2>2 DEF Recall
  <2>8. Left(buf, buflen - 1) = buf
    BY <2>1, LeftPart
  <2>9. Recall(stored, i + 1, seen, -1) = [h |-> again, i |-> i, b |-> buf]
    <3> HIDE DEF stored, seen
    <3> QED BY <2>2, <2>3, <2>6, <2>8 DEF Recall
  <2> HIDE DEF stored, seen, again
  <2> QED BY <2>7, <2>9
<1> QED BY <1>1, Invariance, PTL

(***************************************************************************)
(* The terminal's modes and the variables of the other readers.            *)
(***************************************************************************)
PCs == {"out", "start", "key", "handle", "choose", "leave", "file", "codes", "load", "exited"}

(* The terminal is raw only between enableRawMode and disableRawMode, or if*)
(* raw modes were saved as the ones to restore.                            *)
ModeInv == /\ tty \in {"cooked", "raw"} /\ orig_termios \in {"unset", "cooked", "raw"}
           /\ rawmode \in BOOLEAN
           /\ rawmode => orig_termios # "unset"
           /\ tty = "raw" => rawmode \/ orig_termios = "raw"

(* linenoiseNoTTY stores a character only where there is room for it.      *)
RoomInv == /\ room.len \in Nat /\ room.maxlen \in Nat /\ room = [len |-> room.len, maxlen |-> room.maxlen]
           /\ room.len <= room.maxlen

OtherInv == /\ pc \in PCs /\ mlmode \in BOOLEAN /\ hints \in BOOLEAN /\ matched \in 0 .. 3
            /\ ModeInv /\ RoomInv

LEMMA EnableKeepsModes ==
  ASSUME ModeInv, NEW next, enableRawMode(next)
  PROVE  ModeInv' /\ (orig_termios # "raw" /\ orig_termios' = "raw" => rawmode)
<1>1. CASE UNCHANGED <<orig_termios, tty, rawmode>>
  BY <1>1 DEF ModeInv
<1>2. CASE orig_termios' = tty /\ UNCHANGED <<tty, rawmode>>
  BY <1>2 DEF ModeInv
<1>3. CASE orig_termios' = tty /\ tty' = "raw" /\ rawmode' = TRUE
  BY <1>3 DEF ModeInv
<1> QED BY <1>1, <1>2, <1>3 DEF enableRawMode

LEMMA DisableKeepsModes ==
  ASSUME ModeInv, disableRawMode, UNCHANGED orig_termios
  PROVE  ModeInv'
<1>1. CASE rawmode /\ tty' = orig_termios /\ rawmode' = FALSE
  BY <1>1 DEF ModeInv
<1>2. CASE UNCHANGED <<tty, rawmode>>
  BY <1>2 DEF ModeInv
<1> QED BY <1>1, <1>2 DEF disableRawMode

LEMMA EditKeepsOther ==
  ASSUME Edit
  PROVE  pc' \in {"key", "handle", "choose", "leave"} /\ UNCHANGED <<mlmode, hints>>
<1>1. pc' \in {"key", "handle", "choose", "leave"}
  BY DEF Edit, linenoiseEditInsert, InsertFails, linenoiseEditMoveLeft,
         linenoiseEditMoveRight, linenoiseEditMoveHome, linenoiseEditMoveEnd, MoveTo,
         linenoiseEditDelete, linenoiseEditBackspace, linenoiseEditDeletePrevWord,
         SwapCharacters, DeleteLine, DeleteToEnd, ClearAll, UnknownEscape,
         linenoiseEditHistoryNext, completeLine, NextChoice, CancelChoice, AcceptChoice,
         EndOfInput, Enter, CtrlD, CtrlC, Handled, Return
<1>2. UNCHANGED <<mlmode, hints>>
  BY DEF Edit, linenoiseEditInsert, InsertFails, linenoiseEditMoveLeft,
         linenoiseEditMoveRight, linenoiseEditMoveHome, linenoiseEditMoveEnd, MoveTo,
         linenoiseEditDelete, linenoiseEditBackspace, linenoiseEditDeletePrevWord,
         SwapCharacters, DeleteLine, DeleteToEnd, ClearAll, UnknownEscape,
         linenoiseEditHistoryNext, completeLine, NextChoice, CancelChoice, AcceptChoice,
         EndOfInput, Enter, CtrlD, CtrlC, Handled, Choosing, settings
<1> QED BY <1>1, <1>2

LEMMA InitOther == Init => OtherInv
<1> SUFFICES ASSUME Init PROVE OtherInv
  OBVIOUS
<1>1. ModeInv
  <2>1. tty = "cooked" /\ orig_termios = "unset" /\ rawmode = FALSE
    BY DEF Init
  <2> QED BY <2>1 DEF ModeInv
<1>2. RoomInv
  BY DEF Init, RoomInv, NoRoom
<1> QED BY <1>1, <1>2 DEF Init, OtherInv, PCs

LEMMA NextOther == OtherInv /\ [Next]_vars => OtherInv'
<1> SUFFICES ASSUME OtherInv, [Next]_vars PROVE OtherInv'
  OBVIOUS
<1>1. pc' \in PCs
  <2>1. CASE linenoiseRaw \/ linenoisePrintKeyCodes
    BY <2>1 DEF linenoiseRaw, linenoisePrintKeyCodes, enableRawMode, PCs
  <2>2. CASE EditKey
    BY <2>2, EditKeepsOther DEF EditKey, PCs
  <2>3. CASE linenoiseEdit \/ Leave \/ DumbLine
    BY <2>3 DEF OtherInv, PCs, linenoiseEdit, Return, Leave, DumbLine, Outside
  <2>4. CASE linenoiseNoTTY \/ Grow \/ FileChar \/ KeyCode
    BY <2>4 DEF OtherInv, PCs, linenoiseNoTTY, Grow, FileChar, Answer, KeyCode
  <2>5. CASE linenoiseHistoryAdd \/ linenoiseHistorySetMaxLen \/ linenoiseSetMultiLine
               \/ linenoiseSetHintsCallback \/ linenoiseHistorySave
    BY <2>5 DEF OtherInv, PCs, linenoiseHistoryAdd, linenoiseHistorySetMaxLen, linenoiseSetMultiLine,
                linenoiseSetHintsCallback, linenoiseHistorySave, Between
  <2>6. CASE linenoiseHistoryLoad \/ LoadDone \/ linenoiseAtExit \/ Ended \/ UNCHANGED vars
    BY <2>6 DEF OtherInv, PCs, linenoiseHistoryLoad, LoadDone, linenoiseAtExit, Ended, vars, editor
  <2> QED BY <2>1, <2>2, <2>3, <2>4, <2>5, <2>6 DEF Next
<1>2. mlmode' \in BOOLEAN /\ hints' \in BOOLEAN
  <2>1. CASE EditKey
    BY <2>1, EditKeepsOther DEF EditKey, OtherInv
  <2>2. CASE linenoiseRaw \/ linenoiseEdit \/ Leave \/ DumbLine \/ linenoiseNoTTY \/ Grow
               \/ FileChar \/ linenoisePrintKeyCodes \/ KeyCode
    BY <2>2 DEF OtherInv, linenoiseRaw, linenoiseEdit, Leave, DumbLine, linenoiseNoTTY, Grow,
                FileChar, linenoisePrintKeyCodes, KeyCode, Reading, settings
  <2>3. CASE linenoiseHistoryAdd \/ linenoiseHistorySetMaxLen \/ linenoiseSetMultiLine
               \/ linenoiseSetHintsCallback \/ linenoiseHistorySave
    BY <2>3 DEF OtherInv, linenoiseHistoryAdd, linenoiseHistorySetMaxLen, linenoiseSetMultiLine,
                linenoiseSetHintsCallback, linenoiseHistorySave
  <2>4. CASE linenoiseHistoryLoad \/ LoadDone \/ linenoiseAtExit \/ Ended \/ UNCHANGED vars
    BY <2>4 DEF OtherInv, linenoiseHistoryLoad, LoadDone, Loading, linenoiseAtExit, Ended, vars,
                editor, settings
  <2> QED BY <2>1, <2>2, <2>3, <2>4 DEF Next
<1>3. ModeInv'
  <2> USE DEF OtherInv
  <2>1. CASE linenoiseRaw \/ linenoisePrintKeyCodes
    BY <2>1, EnableKeepsModes DEF linenoiseRaw, linenoisePrintKeyCodes
  <2>2. CASE Leave
    BY <2>2, DisableKeepsModes DEF Leave
  <2>3. CASE KeyCode \/ linenoiseAtExit
    <3>1. disableRawMode \/ UNCHANGED <<tty, rawmode>>
      BY <2>3 DEF KeyCode, linenoiseAtExit
    <3>2. UNCHANGED orig_termios
      BY <2>3 DEF KeyCode, linenoiseAtExit
    <3>3. disableRawMode
      BY <3>1 DEF disableRawMode
    <3> QED BY <3>2, <3>3, DisableKeepsModes
  <2>4. CASE UNCHANGED modes
    BY <2>4 DEF modes, ModeInv
  <2>5. UNCHANGED modes \/ linenoiseRaw \/ linenoisePrintKeyCodes \/ Leave \/ KeyCode
          \/ linenoiseAtExit
    BY DEF Next, vars, linenoiseEdit, EditKey, DumbLine, linenoiseNoTTY, Grow, FileChar, Reading,
           linenoiseHistoryAdd, linenoiseHistorySetMaxLen, linenoiseSetMultiLine,
           linenoiseSetHintsCallback, Between, linenoiseHistorySave, linenoiseHistoryLoad, LoadDone,
           Loading, Ended
  <2> QED BY <2>1, <2>2, <2>3, <2>4, <2>5
<1>4. RoomInv'
  <2> USE DEF OtherInv
  <2>1. CASE UNCHANGED room
    BY <2>1 DEF RoomInv
  <2>2. CASE room' = NoRoom
    BY <2>2 DEF RoomInv, NoRoom
  <2>3. CASE Grow
    <3>1. CASE room' = [room EXCEPT !.maxlen = 2 * IF room.maxlen = 0 THEN FirstRoom ELSE @]
      <4>1. PICK n \in Nat : n = 2 * IF room.maxlen = 0 THEN FirstRoom ELSE room.maxlen
        BY LimitAssumption DEF RoomInv
      <4>2. n >= room.maxlen
        BY <4>1, LimitAssumption DEF RoomInv
      <4>3. room' = [len |-> room.len, maxlen |-> n]
        BY <3>1, <4>1 DEF RoomInv
      <4> QED BY <4>2, <4>3 DEF RoomInv
    <3> QED BY <2>2, <2>3, <3>1 DEF Grow, Answer
  <2>4. CASE FileChar
    <3>1. CASE room' = [room EXCEPT !.len = @ + 1]
      <4>1. room' = [len |-> room.len + 1, maxlen |-> room.maxlen]
        BY <3>1 DEF RoomInv
      <4>2. room.len + 1 \in Nat /\ room.len + 1 <= room.maxlen
        BY <2>4 DEF FileChar, RoomInv
      <4> QED BY <4>1, <4>2 DEF RoomInv
    <3> QED BY <2>2, <2>4, <3>1 DEF FileChar, Answer
  <2>5. UNCHANGED room \/ room' = NoRoom \/ Grow \/ FileChar
    BY DEF Next, vars, linenoiseRaw, linenoiseEdit, EditKey, Leave, DumbLine, linenoiseNoTTY,
           linenoisePrintKeyCodes, KeyCode,
           linenoiseHistoryAdd, linenoiseHistorySetMaxLen, linenoiseSetMultiLine,
           linenoiseSetHintsCallback, Between, linenoiseHistorySave, linenoiseHistoryLoad, LoadDone,
           Loading, linenoiseAtExit, Ended
  <2> QED BY <2>1, <2>2, <2>3, <2>4, <2>5
<1>5. matched' \in 0 .. 3
  <2>1. CASE KeyCode
    BY <2>1 DEF KeyCode, OtherInv
  <2>2. matched' = matched \/ matched' = 0 \/ KeyCode
    BY DEF Next, vars, linenoiseRaw, linenoiseEdit, EditKey, Leave, DumbLine, linenoiseNoTTY, Grow,
           FileChar, Reading, linenoisePrintKeyCodes,
           linenoiseHistoryAdd, linenoiseHistorySetMaxLen, linenoiseSetMultiLine,
           linenoiseSetHintsCallback, Between, linenoiseHistorySave, linenoiseHistoryLoad, LoadDone,
           Loading, linenoiseAtExit, Ended
  <2> QED BY <2>1, <2>2 DEF OtherInv
<1> QED BY <1>1, <1>2, <1>3, <1>4, <1>5 DEF OtherInv

LEMMA OtherInvariance == Spec => []OtherInv
BY InitOther, NextOther, PTL DEF Spec

(***************************************************************************)
(* Every variable stays within its values: linenoiseNoTTY never stores a   *)
(* character behind its block, and linenoisePrintKeyCodes, which is about  *)
(* to compare four characters, has seen at most three.                     *)
(***************************************************************************)
THEOREM LinenoiseTyped == Spec => []TypeOK
<1>1. IInv /\ OtherInv => TypeOK
  BY BuflenFact DEF IInv, OtherInv, PCs, ModeInv, RoomInv, LineInv, LineConsistent, HistoryInv,
                    Strings, TypeOK
<1> QED BY <1>1, Invariance, OtherInvariance, PTL

(***************************************************************************)
(* However a program ends, linenoiseAtExit leaves the terminal in the modes*)
(* in which the first call found it, unless restoring failed.              *)
(***************************************************************************)
THEOREM ExitRestoresModes == Spec => ModesRestored
<1> DEFINE A == /\ pc' = "exited" /\ ~rawmode' /\ orig_termios' # "raw" => tty' = "cooked"
                /\ orig_termios # "raw" /\ orig_termios' = "raw" => rawmode
<1>1. OtherInv /\ OtherInv' /\ [Next]_vars => [A]_vars
  <2> SUFFICES ASSUME OtherInv, OtherInv', Next PROVE A
    OBVIOUS
  <2>1. tty' = "raw" => rawmode' \/ orig_termios' = "raw"
    BY DEF OtherInv, ModeInv
  <2>2. tty' \in {"cooked", "raw"}
    BY DEF OtherInv, ModeInv
  <2>3. CASE linenoiseRaw \/ linenoisePrintKeyCodes
    BY <2>1, <2>2, <2>3, EnableKeepsModes DEF linenoiseRaw, linenoisePrintKeyCodes, OtherInv
  <2>4. UNCHANGED orig_termios \/ linenoiseRaw \/ linenoisePrintKeyCodes
    BY DEF Next, vars, modes, linenoiseEdit, EditKey, Leave, DumbLine, linenoiseNoTTY, Grow,
           FileChar, Reading, KeyCode,
           linenoiseHistoryAdd, linenoiseHistorySetMaxLen, linenoiseSetMultiLine,
           linenoiseSetHintsCallback, Between, linenoiseHistorySave, linenoiseHistoryLoad, LoadDone,
           Loading, linenoiseAtExit, Ended
  <2> QED BY <2>1, <2>2, <2>3, <2>4
<1> QED BY <1>1, OtherInvariance, PTL DEF Spec, ModesRestored

(***************************************************************************)
(* Loading a history.                                                      *)
(***************************************************************************)
(* What is unread is the end of the file.                                  *)
Unread == /\ Len(unread) <= Len(lines)
          /\ \A i \in 1 .. Len(unread) : unread[i] = lines[Len(lines) - Len(unread) + i]
Plain == /\ \A i \in 1 .. Len(lines) : Len(lines[i]) < buflen
         /\ \A i \in 1 .. Len(lines) - 1 : lines[i] # lines[i + 1]
LoadInv == /\ pc = "load" => lines \in Seq(Strings) /\ Len(lines) <= history_max_len
           /\ pc = "load" /\ fresh /\ Plain =>
                Unread /\ history = SubSeq(lines, 1, Len(lines) - Len(unread))

LEMMA InitLoad == Init => LoadInv
BY DEF Init, LoadInv

LEMMA NextLoad == IInv /\ LoadInv /\ [Next]_vars => LoadInv'
<1> SUFFICES ASSUME IInv, LoadInv, [Next]_vars PROVE LoadInv'
  OBVIOUS
<1>0. /\ history \in Seq(Strings) /\ Len(history) <= history_max_len
      /\ history_max_len \in Nat /\ unread \in Seq(Strings)
  BY LimitAssumption DEF IInv, HistoryInv, HistorySlot
<1>1. CASE linenoiseHistorySave
  <2>1. /\ lines' = history /\ unread' = history /\ history_max_len' = history_max_len
        /\ fresh' => history' = << >>
    BY <1>1 DEF linenoiseHistorySave
  <2>2. SubSeq(history, 1, 0) = << >>
    BY <1>0, SubSeqProperties
  <2>3. Len(history) - Len(history) = 0 /\ \A i \in 1 .. Len(history) : 0 + i = i
    BY <1>0, LenProperties
  <2>4. Len(lines') = Len(history) /\ Len(unread') = Len(history)
    BY <2>1
  <2>5. Unread'
    <3>1. Len(history) \in Nat
      BY <1>0, LenProperties
    <3> QED BY <2>1, <2>3, <2>4, <3>1 DEF Unread
  <2>6. fresh' => history' = SubSeq(lines', 1, Len(lines') - Len(unread'))
    <3>1. SubSeq(lines', 1, Len(lines') - Len(unread')) = << >>
      BY <2>1, <2>2, <2>3, <2>4
    <3> QED BY <2>1, <3>1
  <2> QED BY <1>0, <2>1, <2>5, <2>6 DEF LoadInv
<1>2. CASE linenoiseHistoryLoad
  <2>1. /\ pc = "load" /\ unread # << >> /\ lines' = lines /\ history_max_len' = history_max_len
        /\ fresh' = fresh /\ unread' = AfterPiece(unread)
        /\ history' = HistoryAdd(history, history_max_len, FirstPiece(unread))
    BY <1>2 DEF linenoiseHistoryLoad, Loading, settings
  <2>2. lines \in Seq(Strings) /\ Len(lines) <= history_max_len
    BY <2>1 DEF LoadInv
  <2>3. SUFFICES ASSUME fresh, Plain
                 PROVE  Unread' /\ history' = SubSeq(lines, 1, Len(lines) - Len(unread'))
    BY <2>1, <2>2 DEF LoadInv, Plain
  <2>4. Unread /\ history = SubSeq(lines, 1, Len(lines) - Len(unread))
    BY <2>1, <2>3 DEF LoadInv
  <2>5. Len(unread) \in Nat /\ Len(lines) \in Nat /\ 1 \in 1 .. Len(unread)
    BY <1>0, <2>1, <2>2, LenProperties
  <2>6. PICK k \in Nat : k = Len(lines) - Len(unread) /\ k < Len(lines)
    BY <2>4, <2>5 DEF Unread
  <2>7. k + 1 \in 1 .. Len(lines) /\ unread[1] = lines[k + 1]
    BY <2>4, <2>5, <2>6 DEF Unread
  <2>8. unread[1] \in Seq(Chars) /\ Len(unread[1]) < Piece /\ Len(unread[1]) \in Nat
    <3>1. unread[1] \in Seq(Chars)
      BY <1>0, <2>5, ElementOfSeq DEF Strings
    <3>2. Len(unread[1]) < buflen
      BY <2>3, <2>7 DEF Plain
    <3> QED BY <3>1, <3>2, LenProperties DEF Piece, buflen
  <2>9. FirstPiece(unread) = lines[k + 1]
    <3>1. FirstPiece(unread) = SubSeq(unread[1], 1, Len(unread[1]))
      BY <2>8 DEF FirstPiece
    <3> QED BY <2>7, <2>8, <3>1, SubSeqFull
  <2>10. unread' = Tail(unread)
    BY <2>1, <2>8 DEF AfterPiece
  <2>11. Len(unread') = Len(unread) - 1 /\ \A i \in 1 .. Len(unread') : unread'[i] = unread[i + 1]
    BY <1>0, <2>1, <2>10, HeadTailProperties
  <2>12. Unread'
    <3>1. ASSUME NEW i \in 1 .. Len(unread')
          PROVE  unread'[i] = lines[Len(lines) - Len(unread') + i]
      <4>1. i + 1 \in 1 .. Len(unread)
        BY <2>5, <2>11
      <4>2. Len(lines) - Len(unread) + (i + 1) = Len(lines) - Len(unread') + i
        BY <2>5, <2>11
      <4>3. unread[i + 1] = lines[Len(lines) - Len(unread) + (i + 1)]
        BY <2>4, <4>1 DEF Unread
      <4> QED BY <2>11, <4>2, <4>3
    <3>2. Len(unread') <= Len(lines)
      BY <2>4, <2>5, <2>11 DEF Unread
    <3> QED BY <2>1, <3>1, <3>2 DEF Unread
  <2>13. history = SubSeq(lines, 1, k) /\ Len(history) = k
    BY <2>2, <2>4, <2>6, Part
  <2>14. ASSUME history # << >> PROVE history[Len(history)] # lines[k + 1]
    <3>1. k \in 1 .. Len(lines) - 1
      BY <1>0, <2>5, <2>6, <2>13, <2>14, EmptySeq
    <3>2. history[k] = lines[k]
      BY <2>2, <2>13, <3>1, SubSeqProperties
    <3> QED BY <2>3, <2>13, <3>1, <3>2 DEF Plain
  <2>15. history' = Append(history, lines[k + 1])
    <3>1. Len(history) # history_max_len
      BY <1>0, <2>2, <2>5, <2>6, <2>13
    <3> QED BY <2>1, <2>9, <2>14, <3>1 DEF HistoryAdd
  <2>16. Append(SubSeq(lines, 1, k), lines[k + 1]) = SubSeq(lines, 1, k + 1)
    BY <2>2, <2>6, <2>7, <2>5, SubSeqRecursiveSecond
  <2>17. Len(lines) - Len(unread') = k + 1
    BY <2>5, <2>6, <2>11
  <2> QED BY <2>12, <2>13, <2>15, <2>16, <2>17
<1>3. CASE pc' # "load"
  BY <1>3 DEF LoadInv
<1>4. CASE UNCHANGED vars
  BY <1>4 DEF vars, editor, settings, file, LoadInv, Unread, Plain
<1>5. pc' # "load" \/ linenoiseHistorySave \/ linenoiseHistoryLoad \/ UNCHANGED vars
  BY EditKeepsOther
     DEF Next, linenoiseRaw, enableRawMode, linenoiseEdit, Return, EditKey, Leave, DumbLine,
         linenoiseNoTTY, Grow, FileChar, Answer, linenoisePrintKeyCodes, KeyCode, Outside,
         linenoiseHistoryAdd, linenoiseHistorySetMaxLen, linenoiseSetMultiLine,
         linenoiseSetHintsCallback, Between, LoadDone, Loading, linenoiseAtExit, Ended
<1> QED BY <1>1, <1>2, <1>3, <1>4, <1>5

(***************************************************************************)
(* A history that is saved and loaded into a new process is the same again,*)
(* as far as it has been read.                                             *)
(***************************************************************************)
THEOREM LoadingRestores == Spec => []LoadRestores
<1>1. LoadInv => LoadRestores
  BY DEF LoadInv, LoadRestores, Plain
<1>2. Spec => []LoadInv
  BY InitLoad, NextLoad, Invariance, PTL DEF Spec
<1> QED BY <1>1, <1>2, PTL

(***************************************************************************)
(* Induction up to a number, with a set in place of a predicate.           *)
(***************************************************************************)
LEMMA LeastNumber ==
  ASSUME NEW T \in SUBSET Nat, T # {}
  PROVE  \E n \in T : \A k \in T : n <= k
<1> DEFINE R == OpToRel(<, Nat)
<1>1. IsWellFoundedOn(R, Nat)
  BY NatLessThanWellFounded
<1> HIDE DEF R
<1>2. PICK n \in T : \A k \in T : ~(<<k, n>> \in R)
  BY <1>1, WFMin
<1>3. ASSUME NEW k \in T PROVE n <= k
  <2>1. ~(<<k, n>> \in R) /\ k \in Nat /\ n \in Nat
    BY <1>2
  <2>2. CASE k < n
    <3>1. <<k, n>> \in R
      BY <2>1, <2>2 DEF R, OpToRel
    <3> QED BY <2>1, <3>1
  <2> QED BY <2>1, <2>2
<1> QED BY <1>3

LEMMA UpTo ==
  ASSUME NEW N \in Nat, NEW T, 0 \in T, \A n \in 0 .. N - 1 : n \in T => n + 1 \in T
  PROVE  \A n \in 0 .. N : n \in T
<1> SUFFICES ASSUME NEW n \in 0 .. N, n \notin T PROVE FALSE
  OBVIOUS
<1> DEFINE B == {k \in 0 .. N : k \notin T}
<1>1. PICK m \in B : \A k \in B : m <= k
  <2>1. B \in SUBSET Nat /\ B # {}
    OBVIOUS
  <2> HIDE DEF B
  <2> QED BY <2>1, LeastNumber
<1>2. m \in 1 .. N /\ m \notin T
  OBVIOUS
<1>3. m - 1 \in 0 .. N - 1 /\ m - 1 \in T
  BY <1>1, <1>2
<1>4. (m - 1) + 1 \in T /\ (m - 1) + 1 = m
  BY <1>2, <1>3
<1> QED BY <1>2, <1>4

(* A function may be defined by what it is at 0 and its steps.             *)
Iterates(S, N, step, s, g) ==
  g \in [0 .. N -> S] /\ g[0] = s /\ \A i \in 1 .. N : g[i] = step[<<g[i - 1], i>>]
LEMMA Iteration ==
  ASSUME NEW S, NEW N \in Nat, NEW step \in [S \X (1 .. N) -> S], NEW s \in S
  PROVE  \E g : Iterates(S, N, step, s, g)
<1> DEFINE Good(g, n) == g \in [0 .. n -> S] /\ g[0] = s
           /\ \A i \in 1 .. n : g[i] = step[<<g[i-1], i>>]
           T == {n \in 0 .. N : \E g : Good(g, n)}
<1>1. 0 \in T
  <2>1. Good([i \in 0 .. 0 |-> s], 0)
    OBVIOUS
  <2>2. \E g : Good(g, 0)
    BY <2>1
  <2> QED BY <2>2
<1>2. ASSUME NEW n \in 0 .. N - 1, n \in T PROVE n + 1 \in T
  <2>1. PICK g : Good(g, n)
    BY <1>2
  <2>2. g \in [0 .. n -> S] /\ g[n] \in S /\ g[0] = s
    BY <2>1
  <2>3. PICK x \in S : x = step[<<g[n], n + 1>>]
    BY <2>2
  <2> DEFINE h == [i \in 0 .. n + 1 |-> IF i <= n THEN g[i] ELSE x]
  <2>4. h \in [0 .. n + 1 -> S] /\ h[0] = s
    BY <2>2
  <2>5. ASSUME NEW i \in 1 .. n + 1 PROVE h[i] = step[<<h[i-1], i>>]
    <3>1. h[i-1] = g[i-1]
      OBVIOUS
    <3>2. CASE i = n + 1
      <4>1. i - 1 = n /\ h[i] = x /\ h[i - 1] = g[n]
        BY <2>2, <3>2
      <4> HIDE DEF h
      <4> QED BY <2>3, <3>2, <4>1
    <3>3. CASE i # n + 1
      <4>1. g[i] = step[<<g[i-1], i>>]
        BY <2>1, <3>3
      <4> QED BY <3>1, <3>3, <4>1
    <3> QED BY <3>2, <3>3
  <2>6. Good(h, n + 1)
    <3> HIDE DEF h
    <3> QED BY <2>4, <2>5
  <2>7. \E f : Good(f, n + 1)
    BY <2>6
  <2> QED BY <2>7
<1>3. N \in T
  <2> HIDE DEF T
  <2>1. \A n \in 0 .. N : n \in T
    BY <1>1, <1>2, UpTo
  <2> QED BY <2>1
<1>4. PICK g : Good(g, N)
  BY <1>3
<1>5. Iterates(S, N, step, s, g)
  BY <1>4 DEF Iterates
<1> QED BY <1>5

(***************************************************************************)
(* The terminal.                                                           *)
(***************************************************************************)
(* What a cell may hold, and what a view may be.                           *)
Marks == Chars \cup {Prompt[i] : i \in 1 .. plen} \cup {Hint[i] : i \in 1 .. Len(Hint)}
           \cup {Above, Blank}
Views == [cell : [Cells -> Marks], row : Nat, col : Nat, oldpos : Nat, maxrows : Nat]

LEMMA ColsFact == Cols \in Nat \ {0} /\ Rows \in Nat /\ plen \in Nat /\ 0 < plen /\ plen < Cols
BY ScreenAssumption DEF plen

LEMMA TextsFact ==
  /\ Prompt \in Seq(Marks) /\ Hint \in Seq(Marks) /\ Seq(Chars) \subseteq Seq(Marks)
  /\ Len(Prompt) = plen /\ Above \in Marks /\ Blank \in Marks
<1>1. ASSUME NEW s, NEW n \in Nat, s = [i \in 1 .. n |-> s[i]], \A i \in 1 .. n : s[i] \in Marks
      PROVE  s \in Seq(Marks)
  <2>1. [i \in 1 .. n |-> s[i]] \in Seq(Marks)
    BY <1>1
  <2> QED BY <1>1, <2>1
<1>2. Prompt \in Seq(Marks) /\ Len(Prompt) = plen
  <2>1. plen \in Nat /\ Prompt = [i \in 1 .. plen |-> Prompt[i]]
        /\ \A i \in 1 .. plen : Prompt[i] \in Marks
    BY TextsAssumption DEF plen, Marks
  <2> QED BY <1>1, <2>1 DEF plen
<1>3. Hint \in Seq(Marks)
  <2>1. Len(Hint) \in Nat /\ Hint = [i \in 1 .. Len(Hint) |-> Hint[i]]
        /\ \A i \in 1 .. Len(Hint) : Hint[i] \in Marks
    BY TextsAssumption DEF Marks
  <2> QED BY <1>1, <2>1
<1>4. Seq(Chars) \subseteq Seq(Marks)
  <2>1. Chars \subseteq Marks
    BY DEF Marks
  <2> QED BY <2>1
<1> QED BY <1>2, <1>3, <1>4 DEF Marks

LEMMA DivMod ==
  ASSUME NEW k \in Nat, NEW c \in Nat \ {0}
  PROVE  \E q \in Nat, r \in 0 .. c - 1 : q = k \div c /\ r = k % c /\ k = c * q + r
<1>1. k \div c \in Nat /\ k % c \in 0 .. c - 1 /\ k = c * (k \div c) + (k % c)
  OBVIOUS
<1> QED BY <1>1, Zenon

LEMMA DivUnique ==
  ASSUME NEW c \in Nat \ {0}, NEW q \in Nat, NEW r \in 0 .. c - 1
  PROVE  (q * c + r) \div c = q /\ (q * c + r) % c = r
OBVIOUS

(* Cells before row p come at least a row before row p ends.               *)
LEMMA RowsApart ==
  ASSUME NEW c \in Nat \ {0}, NEW q \in Nat, NEW p \in Nat, q < p
  PROVE  q * c \in Nat /\ p * c \in Nat /\ q * c + c <= p * c
OBVIOUS

LEMMA RowEnds ==
  ASSUME NEW q \in Nat
  PROVE  q * Cols \in Nat /\ (q + 1) * Cols = q * Cols + Cols
BY ColsFact

LEMMA CellsFact == Cells \subseteq Nat
<1>1. Rows * Cols \in Nat
  BY ColsFact
<1> QED BY <1>1 DEF Cells

(* What the text s leaves of the cells.                                    *)
Inked(v, w, start, s) ==
  \A i \in Cells : w.cell[i] = IF i \in start .. start + Len(s) - 1 THEN s[i - start + 1]
  ELSE v.cell[i]

LEMMA TextDoes ==
  ASSUME NEW v \in Views, NEW s \in Seq(Marks), Len(s) > 0, NEW start, start = v.row * Cols + v.col,
         NEW w, w = Text(v, s)
  PROVE  /\ w \in Views /\ Inked(v, w, start, s)
         /\ w.oldpos = v.oldpos /\ w.maxrows = v.maxrows
         /\ w.row = (start + Len(s) - 1) \div Cols
         /\ w.col = start + Len(s) - 1 - Cols * w.row + 1
<1>1. start \in Nat /\ Len(s) \in Nat /\ s # << >> /\ Cols \in Nat \ {0}
  BY ColsFact DEF Views
<1>2. PICK last \in Nat : last = start + Len(s) - 1
  BY <1>1
<1>3. last \div Cols \in Nat /\ last - Cols * (last \div Cols) + 1 \in Nat
  <2>1. PICK C \in Nat \ {0} : C = Cols
    BY <1>1
  <2>2. PICK q \in Nat, r \in 0 .. C - 1 : q = last \div C /\ last = C * q + r
    BY DivMod, Zenon
  <2>3. last - C * q + 1 = r + 1
    BY <2>2
  <2> QED BY <2>1, <2>2, <2>3
<1> DEFINE c == [i \in Cells |-> IF i \in start .. last THEN s[i - start + 1] ELSE v.cell[i]]
<1>4. c \in [Cells -> Marks]
  <2> SUFFICES ASSUME NEW i \in Cells PROVE c[i] \in Marks
    OBVIOUS
  <2>1. v.cell[i] \in Marks /\ i \in Int
    BY CellsFact DEF Views
  <2>2. CASE i \in start .. last
    <3>1. i - start + 1 \in 1 .. Len(s)
      BY <1>1, <1>2, <2>2
    <3> QED BY <3>1, <2>2, ElementOfSeq
  <2> QED BY <2>1, <2>2
<1>5. w = [v EXCEPT !.cell = c, !.row = last \div Cols, !.col = last - Cols * (last \div Cols) + 1]
  BY <1>1, <1>2 DEF Text
<1> HIDE DEF c
<1>6. /\ w \in Views /\ w.cell = c /\ w.row = last \div Cols /\ w.oldpos = v.oldpos
         /\ w.maxrows = v.maxrows
      /\ w.col = last - Cols * (last \div Cols) + 1
  BY <1>3, <1>4, <1>5 DEF Views
<1>7. Inked(v, w, start, s)
  <2>1. \A i \in Cells : i \in Nat
    BY CellsFact
  <2>2. \A i \in Cells : i \in start .. last <=> i \in start .. start + Len(s) - 1
    BY <1>2
  <2> SUFFICES ASSUME NEW i \in Cells
               PROVE  w.cell[i] = IF i \in start .. start + Len(s) - 1 THEN s[i - start + 1]
                      ELSE v.cell[i]
    BY DEF Inked
  <2>3. w.cell[i] = IF i \in start .. last THEN s[i - start + 1] ELSE v.cell[i]
    BY <1>6 DEF c
  <2> QED BY <2>2, <2>3
<1>8. last = start + Len(s) - 1 /\ last - Cols * w.row + 1 = start + Len(s) - 1 - Cols * w.row + 1
  <2>1. last = start + Len(s) - 1
    BY <1>1, <1>2
  <2>2. PICK x \in Nat : x = Cols * w.row
    BY <1>1, <1>3, <1>6
  <2>3. last - x + 1 = start + Len(s) - 1 - x + 1
    BY <1>1, <1>2
  <2> QED BY <2>1, <2>2, <2>3
<1> QED BY <1>6, <1>7, <1>8

(* A text that ends in the row where it begins.                            *)
LEMMA TextInRow ==
  ASSUME NEW v \in Views, NEW s \in Seq(Marks), Len(s) > 0, v.col + Len(s) <= Cols,
         NEW w, w = Text(v, s)
  PROVE  /\ w \in Views /\ Inked(v, w, v.row * Cols + v.col, s)
         /\ w.oldpos = v.oldpos /\ w.maxrows = v.maxrows
         /\ w.row = v.row /\ w.col = v.col + Len(s)
<1>1. v.row \in Nat /\ v.col \in Nat /\ Len(s) \in Nat /\ Cols \in Nat \ {0}
  BY ColsFact DEF Views
<1>2. PICK r \in 0 .. Cols - 1 : r = v.col + Len(s) - 1
  BY <1>1
<1>3. PICK q \in Nat, C \in Nat \ {0} : q = v.row /\ C = Cols
  BY <1>1
<1>4. (q * C + r) \div C = q /\ q * C \in Nat /\ C * q = q * C
  <2>1. r \in 0 .. C - 1
    BY <1>3
  <2>2. (q * C + r) \div C = q
    BY <2>1, DivUnique, Zenon
  <2> QED BY <2>2
<1>5. PICK start \in Nat : start = q * C + v.col
  BY <1>1, <1>4
<1>6. start + Len(s) - 1 = q * C + r
  <2>1. PICK x \in Nat : x = q * C
    BY <1>4
  <2>2. PICK y \in Nat, k \in Nat : y = v.col /\ k = Len(s)
    BY <1>1
  <2>3. start = x + y /\ r = y + k - 1
    BY <1>2, <1>5, <2>1, <2>2
  <2>4. start + k - 1 = x + r
    BY <2>3
  <2> QED BY <2>1, <2>2, <2>4
<1>7. /\ w \in Views /\ Inked(v, w, start, s) /\ w.oldpos = v.oldpos /\ w.maxrows = v.maxrows
      /\ w.row = (start + Len(s) - 1) \div Cols /\ w.col = start + Len(s) - 1 - Cols * w.row + 1
  <2>1. start = v.row * Cols + v.col
    BY <1>3, <1>5
  <2> QED BY <2>1, TextDoes
<1>8. w.row = q
  BY <1>3, <1>4, <1>6, <1>7
<1>9. w.col = r + 1
  <2>1. Cols * w.row = q * C
    BY <1>3, <1>4, <1>8
  <2>2. PICK x \in Nat : x = q * C
    BY <1>4
  <2>3. w.col = start + Len(s) - 1 - q * C + 1
    BY <1>7, <2>1
  <2>4. w.col = x + r - x + 1
    BY <1>6, <2>2, <2>3
  <2> QED BY <1>1, <2>4
<1>10. w.col = v.col + Len(s)
  BY <1>1, <1>2, <1>9
<1>11. start = v.row * Cols + v.col
  BY <1>3, <1>5
<1> QED BY <1>3, <1>7, <1>8, <1>10, <1>11

(* A text that begins a row.                                               *)
LEMMA TextFromRow ==
  ASSUME NEW v \in Views, NEW s \in Seq(Marks), Len(s) > 0, v.col = 0, NEW w, w = Text(v, s)
  PROVE  /\ w \in Views /\ Inked(v, w, v.row * Cols, s)
         /\ w.oldpos = v.oldpos /\ w.maxrows = v.maxrows
         /\ w.row = v.row + (Len(s) - 1) \div Cols
<1>1. v.row \in Nat /\ Len(s) \in Nat /\ Cols \in Nat \ {0}
  BY ColsFact DEF Views
<1>2. PICK k \in Nat : k = Len(s) - 1
  BY <1>1
<1>3. PICK o \in Nat, C \in Nat \ {0} : o = v.row /\ C = Cols
  BY <1>1
<1>4. PICK q \in Nat, r \in 0 .. C - 1 : q = k \div C /\ k = C * q + r
  <2>1. \E q \in Nat, r \in 0 .. C - 1 : q = k \div C /\ r = k % C /\ k = C * q + r
    BY DivMod
  <2> QED BY <2>1
<1>5. (o + q) * C + r = o * C + k /\ o * C \in Nat /\ o + q \in Nat
  BY <1>4
<1>6. ((o + q) * C + r) \div C = o + q
  BY <1>5, DivUnique
<1>7. PICK start \in Nat : start = o * C
  BY <1>5
<1>8. start = v.row * Cols + v.col /\ start + Len(s) - 1 = o * C + k
  BY <1>1, <1>2, <1>3, <1>5, <1>7
<1>9. /\ w \in Views /\ Inked(v, w, start, s) /\ w.oldpos = v.oldpos /\ w.maxrows = v.maxrows
      /\ w.row = (start + Len(s) - 1) \div Cols
  BY <1>8, TextDoes
<1>10. w.row = o + q
  BY <1>3, <1>5, <1>6, <1>8, <1>9
<1> QED BY <1>2, <1>3, <1>4, <1>7, <1>9, <1>10

(* Only the cursor has moved.                                             *)
Moved(v, w) == w \in Views /\ w.cell = v.cell /\ w.oldpos = v.oldpos /\ w.maxrows = v.maxrows

LEMMA CarriageReturnDoes ==
  ASSUME NEW v \in Views, NEW w, w = CarriageReturn(v)
  PROVE  Moved(v, w) /\ w.row = v.row /\ w.col = 0
BY DEF Views, Moved, CarriageReturn

LEMMA LineFeedDoes ==
  ASSUME NEW v \in Views, NEW w, w = LineFeed(v), v.row + 1 < Rows
  PROVE  Moved(v, w) /\ w.row = v.row + 1 /\ w.col = v.col
<1>1. v.row + 1 \in Nat /\ Least(v.row + 1, Rows - 1) = v.row + 1
  BY ColsFact DEF Least, Views
<1> QED BY <1>1 DEF Views, Moved, LineFeed

LEMMA ForwardDoes ==
  ASSUME NEW v \in Views, v.col = 0, NEW n \in 1 .. Cols - 1, NEW w, w = Forward(v, n)
  PROVE  Moved(v, w) /\ w.row = v.row /\ w.col = n
<1>1. n \in Nat /\ Least(0 + Largest(n, 1), Cols - 1) = n
  BY ColsFact DEF Least, Largest
<1>2. w = [v EXCEPT !.col = n]
  BY <1>1 DEF Forward
<1> QED BY <1>1, <1>2 DEF Views, Moved

LEMMA UpDoes ==
  ASSUME NEW v \in Views, NEW n \in Nat, n > 0, NEW w, w = Up(v, n)
  PROVE  Moved(v, w) /\ w.row = Largest(v.row - n, 0)
<1>1. Largest(n, 1) = n /\ Largest(v.row - n, 0) \in Nat /\ Least(v.col, Cols - 1) \in Nat
  BY ColsFact DEF Largest, Least, Views
<1>2. PICK r \in Nat, c \in Nat : r = Largest(v.row - n, 0) /\ c = Least(v.col, Cols - 1)
  BY <1>1
<1>3. w = [v EXCEPT !.row = r, !.col = c]
  BY <1>1, <1>2 DEF Up, Views
<1>4. Moved(v, w) /\ w.row = r
  BY <1>2, <1>3 DEF Views, Moved
<1> QED BY <1>2, <1>4

LEMMA DownDoes ==
  ASSUME NEW v \in Views, NEW n \in Nat, n > 0, v.row + n < Rows, NEW w, w = Down(v, n)
  PROVE  Moved(v, w) /\ w.row = v.row + n
<1>1. Largest(n, 1) = n /\ Least(v.row + n, Rows - 1) = v.row + n /\ v.row + n \in Nat
      /\ Least(v.col, Cols - 1) \in Nat
  BY ColsFact DEF Largest, Least, Views
<1>2. PICK r \in Nat, c \in Nat : r = v.row + n /\ c = Least(v.col, Cols - 1)
  BY <1>1
<1>3. w = [v EXCEPT !.row = r, !.col = c]
  BY <1>1, <1>2 DEF Down, Views
<1>4. Moved(v, w) /\ w.row = r
  BY <1>2, <1>3 DEF Views, Moved
<1> QED BY <1>2, <1>4

LEMMA EraseDoes ==
  ASSUME NEW v \in Views, NEW w, w = EraseRight(v)
  PROVE  /\ w \in Views /\ w.row = v.row /\ w.col = v.col /\ w.oldpos = v.oldpos
            /\ w.maxrows = v.maxrows
         /\ \A i \in Cells :
              w.cell[i] = IF v.row * Cols + v.col <= i /\ i < v.row * Cols + Cols THEN Blank
                          ELSE v.cell[i]
<1>1. v.row \in Nat /\ v.col \in Nat /\ v.row * Cols \in Nat
      /\ (v.row + 1) * Cols = v.row * Cols + Cols /\ Cols \in Nat
  BY RowEnds, ColsFact DEF Views
<1> DEFINE c == [i \in Cells |-> IF i \in v.row * Cols + v.col .. (v.row + 1) * Cols - 1
           THEN Blank ELSE v.cell[i]]
<1>2. c \in [Cells -> Marks]
  BY TextsFact DEF Views
<1>3. w = [v EXCEPT !.cell = c]
  BY DEF EraseRight
<1>4. \A i \in Cells : c[i] = IF v.row * Cols + v.col <= i /\ i < v.row * Cols + Cols
      THEN Blank ELSE v.cell[i]
  BY <1>1 DEF Cells
<1> HIDE DEF c
<1> QED BY <1>2, <1>3, <1>4 DEF Views

(***************************************************************************)
(* Single line mode.                                                       *)
(***************************************************************************)
(* The screen shows a text that starts in row o, under what was above.     *)
Cell(o, text, i) == IF i < o * Cols THEN Above
                    ELSE IF i - o * Cols < Len(text) THEN text[i - o * Cols + 1] ELSE Blank
Seen(v, o, text) == \A i \in Cells : v.cell[i] = Cell(o, text, i)

(* The part of the line that fits after skipping skip characters.          *)
Window(b, skip, h) == Left(Prompt \o SubSeq(b, skip + 1, Len(b)) \o HintFor(Len(b), Cols, h), Cols)
SingleAt(v, o, b, p, h, skip) ==
  /\ skip > 0 => plen + p - skip = Cols - 1
  /\ plen + p - skip < Cols
  /\ Seen(v, o, Window(b, skip, h))
  /\ v.row = o /\ v.col = plen + p - skip
Single(v, o, b, p, h) == \E skip \in 0 .. p : SingleAt(v, o, b, p, h, skip)

LEMMA HintFits ==
  ASSUME NEW n \in Nat, NEW h, NEW H, H = HintFor(n, Cols, h)
  PROVE  /\ H \in Seq(Marks) /\ Len(H) \in Nat
         /\ H # << >> => plen + n < Cols /\ plen + n + Len(H) <= Cols
         /\ H = << >> => Len(H) = 0
<1>1. CASE h /\ plen + n < Cols
  <2>1. PICK m \in Nat : m = Cols - (plen + n)
    BY <1>1, ColsFact
  <2>2. H = Left(Hint, m)
    BY <1>1, <2>1 DEF HintFor
  <2>3. H \in Seq(Marks) /\ Len(H) <= m
    BY <2>2, TextsFact, LeftPart
  <2>4. Len(H) \in Nat /\ (H = << >> => Len(H) = 0)
    BY <2>3, LenProperties, EmptySeq
  <2>5. plen + n + Len(H) <= Cols
    BY <2>1, <2>3, <2>4, ColsFact
  <2> QED BY <1>1, <2>3, <2>4, <2>5
<1>2. CASE ~(h /\ plen + n < Cols)
  BY <1>2, EmptySeq DEF HintFor
<1> QED BY <1>1, <1>2

(* The first C characters of s \o t.                                       *)
Joins(s, t, k, m, C) ==
  LET r == s \o SubSeq(t, k + 1, k + m)
  IN  r \in Seq(Marks) /\ r = Left(s \o SubSeq(t, k + 1, Len(t)), C) /\ Len(r) = Len(s) + m
LEMMA LeftOfConcat ==
  ASSUME NEW s \in Seq(Marks), NEW t \in Seq(Marks), NEW k \in Nat, k <= Len(t), NEW C \in Nat,
         NEW m \in Nat, m <= Len(t) - k, m <= C - Len(s), m = Len(t) - k \/ m = C - Len(s),
         Len(s) <= C
  PROVE  Joins(s, t, k, m, C)
<1>1. PICK n \in Nat, l \in Nat : n = Len(t) /\ l = Len(s) /\ k <= n /\ l <= C
  BY LenProperties
<1>2. m \in Nat /\ m <= n - k /\ m <= C - l /\ (m = n - k \/ m = C - l)
  BY <1>1
<1> DEFINE a == SubSeq(t, k + 1, k + m)
           c == SubSeq(t, k + 1, n)
<1>3. a \in Seq(Marks) /\ Len(a) = m /\ \A i \in 1 .. m : a[i] = t[k + i]
  <2>1. \A i \in k + 1 .. k + m : t[i] \in Marks
    BY <1>1, <1>2, ElementOfSeq
  <2> QED BY <1>1, <1>2, <2>1, SubSeqProperties
<1>4. c \in Seq(Marks) /\ Len(c) = n - k /\ \A i \in 1 .. n - k : c[i] = t[k + i]
  <2>1. \A i \in k + 1 .. n : t[i] \in Marks
    BY <1>1, <1>2, ElementOfSeq
  <2> QED BY <1>1, <1>2, <2>1, SubSeqProperties
<1> HIDE DEF a, c
<1>5. s \o a \in Seq(Marks) /\ Len(s \o a) = l + m
      /\ \A i \in 1 .. l + m : (s \o a)[i] = IF i <= l THEN s[i] ELSE a[i - l]
  <2>1. /\ s \o a \in Seq(Marks) /\ Len(s \o a) = Len(s) + Len(a)
        /\ \A i \in 1 .. Len(s) + Len(a) : (s \o a)[i] = IF i <= Len(s) THEN s[i] ELSE a[i - Len(s)]
    BY <1>3, ConcatProperties
  <2>2. Len(s) = l /\ Len(a) = m
    BY <1>1, <1>3
  <2> QED BY <2>1, <2>2, Zenon
<1>6. s \o c \in Seq(Marks) /\ Len(s \o c) = l + (n - k)
      /\ \A i \in 1 .. l + (n - k) : (s \o c)[i] = IF i <= l THEN s[i] ELSE c[i - l]
  <2>1. /\ s \o c \in Seq(Marks) /\ Len(s \o c) = Len(s) + Len(c)
        /\ \A i \in 1 .. Len(s) + Len(c) : (s \o c)[i] = IF i <= Len(s) THEN s[i] ELSE c[i - Len(s)]
    BY <1>4, ConcatProperties
  <2>2. Len(s) = l /\ Len(c) = n - k
    BY <1>1, <1>4
  <2> QED BY <2>1, <2>2, Zenon
<1>7. Least(Len(s \o c), C) = l + m
  <2>1. PICK x : x = Len(s \o c)
    OBVIOUS
  <2>2. x = l + (n - k) /\ k \in Nat
    BY <1>6, <2>1
  <2>3. Least(x, C) = l + m
    BY <1>1, <1>2, <2>2 DEF Least
  <2> QED BY <2>1, <2>3
<1>8. Left(s \o c, C) = SubSeq(s \o c, 1, l + m)
  BY <1>7 DEF Left
<1>9. /\ Left(s \o c, C) \in Seq(Marks) /\ Len(Left(s \o c, C)) = l + m
      /\ \A i \in 1 .. l + m : Left(s \o c, C)[i] = (s \o c)[i]
  <2>1. PICK u \in Seq(Marks) : u = s \o c /\ Len(u) = l + (n - k)
    BY <1>6
  <2>2. \A i \in 1 .. l + m : i \in 1 .. Len(u)
    BY <1>1, <1>2, <2>1
  <2>3. \A i \in 1 .. l + m : u[i] \in Marks
    BY <2>2, ElementOfSeq
  <2>4. /\ SubSeq(u, 1, l + m) \in Seq(Marks) /\ Len(SubSeq(u, 1, l + m)) = l + m
        /\ \A i \in 1 .. l + m : SubSeq(u, 1, l + m)[i] = u[i]
    <3>1. PICK x \in Nat : x = l + m
      BY <1>1, <1>2
    <3>2. \A i \in 1 .. x : u[i] \in Marks
      BY <2>3, <3>1
    <3>3. x - 1 + 1 = x
      BY <3>1
    <3>4. /\ SubSeq(u, 1, x) \in Seq(Marks) /\ Len(SubSeq(u, 1, x)) = x
          /\ \A i \in 1 .. x : SubSeq(u, 1, x)[i] = u[i]
      BY <3>2, <3>3, SubSeqProperties
    <3> QED BY <3>1, <3>4
  <2> QED BY <1>8, <2>1, <2>4
<1>10. \A i \in 1 .. l + m : (s \o a)[i] = Left(s \o c, C)[i]
  <2> SUFFICES ASSUME NEW i \in 1 .. l + m PROVE (s \o a)[i] = (s \o c)[i]
    BY <1>9
  <2>1. CASE i <= l
    BY <1>1, <1>2, <1>5, <1>6, <2>1
  <2>2. CASE i > l
    <3>1. i - l \in 1 .. m /\ i - l \in 1 .. n - k /\ i \in 1 .. l + (n - k) /\ ~(i <= l)
      BY <1>1, <1>2, <2>2
    <3>2. a[i - l] = t[k + (i - l)] /\ c[i - l] = t[k + (i - l)]
      BY <1>3, <1>4, <3>1
    <3> QED BY <1>5, <1>6, <3>1, <3>2
  <2>3. i <= l \/ i > l
    BY <1>1, <1>2
  <2> QED BY <2>1, <2>2, <2>3
<1>11. s \o a = Left(s \o c, C)
  BY <1>5, <1>9, <1>10, SeqEqual
<1> QED BY <1>1, <1>2, <1>5, <1>11 DEF a, c, Joins

LEMMA Width ==
  ASSUME NEW p \in Nat, NEW m \in Nat, NEW l \in Nat, NEW c \in Nat, 0 < p, p + m + l <= c
  PROVE  p + m + l \in 1 .. c /\ p + m + 0 = p + m
OBVIOUS

(* What refreshSingleLine writes is what the row has to show.              *)
LEMMA WindowFact ==
  ASSUME NEW b \in Seq(Chars), NEW skip \in Nat, skip <= Len(b), NEW h,
         plen + Len(b) < Cols => skip = 0,
         NEW m, m = Least(Len(b) - skip, Cols - plen),
         NEW text, text = Prompt \o SubSeq(b, skip + 1, skip + m) \o HintFor(Len(b), Cols, h)
  PROVE  /\ text = Window(b, skip, h) /\ text \in Seq(Marks) /\ Len(text) \in 1 .. Cols
<1>1. PICK n \in Nat : n = Len(b)
  BY LenProperties
<1>2. PICK H : H = HintFor(n, Cols, h)
  OBVIOUS
<1>3. /\ H \in Seq(Marks) /\ Len(H) \in Nat
      /\ H # << >> => plen + n < Cols /\ plen + n + Len(H) <= Cols
      /\ H = << >> => Len(H) = 0
  BY <1>2, HintFits
<1>4. b \in Seq(Marks) /\ Prompt \in Seq(Marks) /\ Len(Prompt) = plen /\ plen \in Nat
      /\ plen > 0 /\ plen < Cols /\ Cols \in Nat
  BY TextsFact, ColsFact
<1>41. plen \in Nat /\ plen > 0 /\ plen < Cols /\ Cols \in Nat
  BY ColsFact
<1> DEFINE a == Prompt \o SubSeq(b, skip + 1, skip + m)
           c == Prompt \o SubSeq(b, skip + 1, n)
<1>5. a = Left(c, Cols) /\ a \in Seq(Marks) /\ Len(a) = plen + m /\ m \in Nat
  <2>1. /\ skip \in Nat /\ skip <= Len(b) /\ Cols \in Nat /\ m \in Nat /\ m <= Len(b) - skip
        /\ m <= Cols - Len(Prompt) /\ (m = Len(b) - skip \/ m = Cols - Len(Prompt))
        /\ Len(Prompt) <= Cols
    BY <1>1, <1>4 DEF Least
  <2>2. Joins(Prompt, b, skip, m, Cols)
    BY <1>4, <2>1, LeftOfConcat
  <2> QED BY <1>1, <1>4, <2>1, <2>2, Zenon DEF Joins
<1>6. m <= Cols - plen /\ m <= n - skip /\ (n - skip <= Cols - plen => m = n - skip)
  BY <1>1, <1>4 DEF Least
<1>7. text = a \o H /\ Window(b, skip, h) = Left(c \o H, Cols)
  BY <1>1, <1>2 DEF Window
<1>8. text \in Seq(Marks) /\ Len(text) = plen + m + Len(H)
  <2> HIDE DEF a
  <2>1. a \o H \in Seq(Marks) /\ Len(a \o H) = Len(a) + Len(H)
    BY <1>3, <1>5, ConcatProperties
  <2> QED BY <1>5, <1>7, <2>1
<1>9. CASE H = << >>
  <2>1. c \in Seq(Marks)
    <3>1. SubSeq(b, skip + 1, n) \in Seq(Marks)
      <4>1. \A i \in skip + 1 .. n : b[i] \in Marks
        BY <1>1, <1>4, ElementOfSeq
      <4> QED BY <1>1, <4>1, SubSeqProperties
    <3> QED BY <1>4, <3>1, ConcatProperties
  <2> HIDE DEF a, c
  <2>2. text = a /\ c \o H = c
    BY <1>5, <1>7, <1>9, <2>1, ConcatEmptySeq
  <2>3. text = Window(b, skip, h)
    BY <1>5, <1>7, <2>2
  <2>4. Len(text) \in 1 .. Cols
    <3>1. Len(H) = 0 /\ Len(H) \in Nat /\ m \in Nat /\ Cols \in Nat /\ plen \in Nat
      BY <1>3, <1>4, <1>5, <1>9
    <3>2. plen + m + Len(H) <= Cols
      BY <1>41, <1>6, <3>1
    <3>3. plen + m + Len(H) \in 1 .. Cols
      BY <1>41, <3>1, <3>2, Width, Zenon
    <3> QED BY <1>8, <3>3
  <2> QED BY <1>8, <2>3, <2>4
<1>10. CASE H # << >>
  <2>1. skip = 0 /\ m = n /\ a = c
    <3>1. skip = 0 /\ n - 0 <= Cols - plen
      BY <1>1, <1>3, <1>4, <1>10
    <3>2. m = n - skip
      BY <1>6, <3>1
    <3>3. m = n /\ skip + m = n
      BY <3>1, <3>2
    <3> QED BY <3>1, <3>3
  <2>2. text = c \o H /\ Len(text) <= Cols
    BY <1>3, <1>4, <1>7, <1>8, <1>10, <2>1
  <2> HIDE DEF a, c
  <2>3. Left(text, Cols) = text
    BY <1>4, <1>8, <2>2, LeftPart
  <2>4. text = Window(b, skip, h)
    BY <1>7, <2>2, <2>3
  <2>5. Len(text) \in 1 .. Cols
    <3>1. Len(H) \in Nat /\ m \in Nat /\ Cols \in Nat /\ plen \in Nat
      BY <1>3, <1>4, <1>5
    <3>2. plen + m + Len(H) \in 1 .. Cols
      <4>1. plen + m + Len(H) <= Cols
        BY <1>8, <2>2
      <4> QED BY <1>41, <3>1, <4>1, Width, Zenon
    <3> QED BY <1>8, <3>2
  <2> QED BY <1>8, <2>4, <2>5
<1> QED BY <1>9, <1>10

(* Nothing is left over in the rows that the line does not use.            *)
Clean(v, o, end) == \A i \in Cells : /\ i < o * Cols => v.cell[i] = Above
                                     /\ i >= end => v.cell[i] = Blank

LEMMA SingleDoes ==
  ASSUME NEW v \in Views, NEW o \in {0, 1}, v.row = o, Clean(v, o, o * Cols + Cols),
         NEW b \in Seq(Chars), NEW p \in Nat, p <= Len(b), NEW h,
         NEW w, w = refreshSingleLine(v, Cols, b, Len(b), p, h)
  PROVE  w \in Views /\ Single(w, o, b, p, h)
<1>1. Cols \in Nat \ {0} /\ plen \in Nat /\ plen > 0 /\ plen < Cols /\ Len(b) \in Nat
  BY ColsFact, LenProperties
<1>2. PICK skip \in 0 .. p : /\ skip = Skipped(p, Cols)
                             /\ skip > 0 => plen + p - skip = Cols - 1
                             /\ plen + p - skip \in 1 .. Cols - 1
                             /\ plen + Len(b) < Cols => skip = 0
  <2>1. CASE plen + p >= Cols
    <3>1. PICK s \in Nat : s = plen + p - Cols + 1
      BY <1>1, <2>1
    <3>2. s = Skipped(p, Cols) /\ s \in 0 .. p /\ plen + p - s = Cols - 1
          /\ ~(plen + Len(b) < Cols) /\ Cols - 1 \in 1 .. Cols - 1
      BY <1>1, <2>1, <3>1 DEF Skipped
    <3> QED BY <3>2
  <2>2. CASE ~(plen + p >= Cols)
    <3>1. 0 = Skipped(p, Cols) /\ 0 \in 0 .. p /\ plen + p - 0 \in 1 .. Cols - 1
      BY <1>1, <2>2 DEF Skipped
    <3> QED BY <3>1
  <2> QED BY <2>1, <2>2
<1>3. PICK m : m = Least(Len(b) - skip, Cols - plen)
  OBVIOUS
<1>4. PICK text : text = Prompt \o SubSeq(b, skip + 1, skip + m) \o HintFor(Len(b), Cols, h)
  OBVIOUS
<1>5. text = Window(b, skip, h) /\ text \in Seq(Marks) /\ Len(text) \in 1 .. Cols
  <2>1. skip \in Nat /\ skip <= Len(b)
    BY <1>1
  <2> QED BY <1>2, <1>3, <1>4, <2>1, WindowFact
<1>6. PICK v1 : v1 = CarriageReturn(v)
  OBVIOUS
<1>7. PICK v2 : v2 = Text(v1, text)
  OBVIOUS
<1>8. PICK v3 : v3 = EraseRight(v2)
  OBVIOUS
<1>9. PICK v4 : v4 = CarriageReturn(v3)
  OBVIOUS
<1>10. w = Forward(v4, plen + p - skip)
  BY <1>2, <1>3, <1>4, <1>6, <1>7, <1>8, <1>9 DEF refreshSingleLine
<1>11. v1 \in Views /\ v1.col = 0 /\ v1.row = o /\ v1.cell = v.cell
  BY <1>6, CarriageReturnDoes DEF Moved
<1>12. /\ v2 \in Views /\ Inked(v1, v2, v1.row * Cols + v1.col, text)
       /\ v2.row = o /\ v2.col = Len(text)
  BY <1>5, <1>7, <1>11, TextInRow
<1>13. /\ v3 \in Views /\ v3.row = o
       /\ \A i \in Cells : v3.cell[i] = IF v2.row * Cols + v2.col <= i /\ i < v2.row * Cols + Cols
                                        THEN Blank ELSE v2.cell[i]
  BY <1>8, <1>12, EraseDoes
<1>14. v4 \in Views /\ v4.row = o /\ v4.col = 0 /\ v4.cell = v3.cell
  BY <1>9, <1>13, CarriageReturnDoes DEF Moved
<1>15. w \in Views /\ w.row = o /\ w.col = plen + p - skip /\ w.cell = v3.cell
  <2>1. PICK n \in 1 .. Cols - 1 : n = plen + p - skip
    BY <1>2
  <2>2. Moved(v4, w) /\ w.row = v4.row /\ w.col = n
    BY <1>10, <1>14, <2>1, ForwardDoes
  <2> QED BY <1>14, <2>1, <2>2 DEF Moved
<1>16. Seen(w, o, text)
  <2> SUFFICES ASSUME NEW i \in Cells PROVE v3.cell[i] = Cell(o, text, i)
    BY <1>15 DEF Seen
  <2>1. PICK s \in Nat, l \in 1 .. Cols : s = o * Cols /\ l = Len(text)
    <3>1. o * Cols \in Nat
      BY <1>1
    <3> QED BY <1>5, <3>1
  <2>2. s + 0 = s /\ i \in Nat /\ l \in Nat /\ Cols \in Nat
    BY <1>1, <2>1, CellsFact
  <2>3. v2.cell[i] = IF i \in s .. s + l - 1 THEN text[i - s + 1] ELSE v.cell[i]
    BY <1>11, <1>12, <2>1, <2>2 DEF Inked
  <2>4. v3.cell[i] = IF s + l <= i /\ i < s + Cols THEN Blank ELSE v2.cell[i]
    BY <1>12, <1>13, <2>1
  <2>5. (i < s => v.cell[i] = Above) /\ (i >= s + Cols => v.cell[i] = Blank)
    BY <2>1 DEF Clean
  <2>6. Cell(o, text, i) = IF i < s THEN Above ELSE IF i - s < l THEN text[i - s + 1] ELSE Blank
    BY <2>1 DEF Cell
  <2>7. \/ i < s /\ ~(i \in s .. s + l - 1) /\ ~(s + l <= i)
        \/ ~(i < s) /\ i \in s .. s + l - 1 /\ i - s < l /\ ~(s + l <= i)
        \/ ~(i < s) /\ ~(i \in s .. s + l - 1) /\ ~(i - s < l) /\ s + l <= i /\ i < s + Cols
        \/ ~(i < s) /\ ~(i \in s .. s + l - 1) /\ ~(i - s < l) /\ i >= s + Cols /\ ~(i < s + Cols)
    BY <2>2
  <2> QED BY <2>3, <2>4, <2>5, <2>6, <2>7, Zenon
<1>17. SingleAt(w, o, b, p, h, skip)
  BY <1>1, <1>2, <1>5, <1>15, <1>16 DEF SingleAt
<1> QED BY <1>15, <1>17 DEF Single

(***************************************************************************)
(* Multi line mode.                                                        *)
(***************************************************************************)
(* How many rows the line has used so far.                                 *)
Taken(v) == Largest(v.maxrows, 1)

(* When linenoise has gone up j rows from the last of R, clearing each.    *)
Wiped(u, v, o, R, j) ==
  /\ u \in Views /\ u.oldpos = v.oldpos /\ u.maxrows = v.maxrows
  /\ Clean(u, o, u.row * Cols + Cols)
  /\ o <= u.row /\ u.row <= o + R - 1 - j /\ (u.row = o + R - 1 - j \/ o = 0)

LEMMA WipedRow ==
  ASSUME NEW v \in Views, NEW o \in {0, 1}, NEW R \in Nat, NEW j \in Nat, j < R,
         NEW u, Wiped(u, v, o, R, j),
         NEW w, w = EraseRight(CarriageReturn(u))
  PROVE  /\ w \in Views /\ w.row = u.row /\ w.col = 0 /\ w.oldpos = v.oldpos
            /\ w.maxrows = v.maxrows
         /\ Clean(w, o, u.row * Cols)
<1>1. PICK c : c = CarriageReturn(u)
  OBVIOUS
<1>2. u \in Views
  BY DEF Wiped
<1>3. c \in Views /\ c.row = u.row /\ c.col = 0 /\ c.cell = u.cell /\ c.oldpos = u.oldpos
      /\ c.maxrows = u.maxrows
  BY <1>1, <1>2, CarriageReturnDoes DEF Moved
<1>4. /\ w \in Views /\ w.row = c.row /\ w.col = c.col /\ w.oldpos = c.oldpos
         /\ w.maxrows = c.maxrows
      /\ \A i \in Cells :
           w.cell[i] = IF c.row * Cols + c.col <= i /\ i < c.row * Cols + Cols THEN Blank
                       ELSE c.cell[i]
  BY <1>1, <1>3, EraseDoes
<1>5. Clean(w, o, u.row * Cols)
  <2> SUFFICES ASSUME NEW i \in Cells
               PROVE  /\ i < o * Cols => w.cell[i] = Above
                      /\ i >= u.row * Cols => w.cell[i] = Blank
    BY DEF Clean
  <2>1. PICK s \in Nat, e \in Nat : s = u.row * Cols /\ e = o * Cols /\ e <= s /\ s + 0 = s
    <3>1. u.row \in Nat /\ o \in Nat /\ o <= u.row /\ Cols \in Nat
      BY <1>2, ColsFact DEF Views, Wiped
    <3> QED BY <3>1
  <2>2. (i < e => u.cell[i] = Above) /\ (i >= s + Cols => u.cell[i] = Blank)
    BY <2>1 DEF Wiped, Clean
  <2>3. w.cell[i] = IF s <= i /\ i < s + Cols THEN Blank ELSE u.cell[i]
    BY <1>3, <1>4, <2>1
  <2>4. i \in Nat /\ Cols \in Nat
    BY CellsFact, ColsFact
  <2> QED BY <2>1, <2>2, <2>3, <2>4
<1> QED BY <1>2, <1>3, <1>4, <1>5 DEF Wiped

LEMMA WipedNext ==
  ASSUME NEW v \in Views, NEW o \in {0, 1}, NEW R \in Nat, NEW j \in Nat, j + 1 < R,
         NEW u, Wiped(u, v, o, R, j),
         NEW w, w = Up(EraseRight(CarriageReturn(u)), 1)
  PROVE  Wiped(w, v, o, R, j + 1)
<1>1. PICK e : e = EraseRight(CarriageReturn(u))
  OBVIOUS
<1>2. /\ e \in Views /\ e.row = u.row /\ e.oldpos = v.oldpos /\ e.maxrows = v.maxrows
      /\ Clean(e, o, u.row * Cols)
  BY <1>1, WipedRow
<1>3. Moved(e, w) /\ w.row = Largest(e.row - 1, 0)
  BY <1>1, <1>2, UpDoes
<1>4. w \in Views /\ w.cell = e.cell /\ w.oldpos = e.oldpos /\ w.maxrows = e.maxrows
  BY <1>3 DEF Moved
<1>5. PICK k \in Nat : k = u.row /\ o <= k /\ k <= o + R - 1 - j /\ (k = o + R - 1 - j \/ o = 0)
  BY DEF Wiped, Views
<1>6. PICK r \in Nat : r = w.row /\ r = Largest(k - 1, 0)
  BY <1>2, <1>3, <1>5 DEF Largest
<1>7. o <= r /\ r <= o + R - 1 - (j + 1) /\ (r = o + R - 1 - (j + 1) \/ o = 0) /\ k <= r + 1
  BY <1>5, <1>6 DEF Largest
<1>8. Clean(w, o, w.row * Cols + Cols)
  <2>1. k * Cols <= r * Cols + Cols /\ k * Cols \in Nat /\ r * Cols + Cols \in Nat
    <3>1. r * Cols + Cols = (r + 1) * Cols
      BY <1>6, RowEnds
    <3>2. k * Cols <= (r + 1) * Cols
      BY <1>7, ColsFact
    <3> QED BY <3>1, <3>2, ColsFact
  <2>2. \A i \in Cells : i \in Nat
    BY CellsFact
  <2> QED BY <1>2, <1>4, <1>5, <1>6, <2>1, <2>2 DEF Clean
<1> QED BY <1>2, <1>4, <1>6, <1>7, <1>8 DEF Wiped
(* The cursor is where the last refresh has left it, or the screen is empty*)
(* and the line is to be shown in its first row.                           *)
Ready(v, o) ==
  /\ v \in Views /\ o \in {0, 1} /\ Taken(v) < Rows
  /\ Clean(v, o, (o + Taken(v)) * Cols)
  /\ \/ v.row = o + (plen + v.oldpos) \div Cols /\ v.row < o + Taken(v)
     \/ o = 0 /\ v.row = 0 /\ Clean(v, 0, 0)

LEMMA BottomDoes ==
  ASSUME NEW v, NEW o, Ready(v, o), NEW p, NEW d, d = v.maxrows - OldRow(v, Cols, p),
         NEW u, u = IF d > 0 THEN Down(v, d) ELSE v
  PROVE  Wiped(u, v, o, Taken(v), 0)
<1>1. v \in Views /\ o \in {0, 1} /\ v.row \in Nat /\ v.maxrows \in Nat /\ v.oldpos \in Nat
  BY DEF Ready, Views
<1>2. PICK R \in Nat \ {0} : R = Taken(v) /\ R < Rows /\ (v.maxrows = R \/ (v.maxrows = 0 /\ R = 1))
  BY <1>1 DEF Taken, Largest, Ready
<1>3. PICK q \in Nat : q = (plen + v.oldpos) \div Cols /\ OldRow(v, Cols, p) = q + 1
  <2>1. PICK C \in Nat \ {0}, k \in Nat : C = Cols /\ k = plen + v.oldpos
    BY <1>1, ColsFact
  <2>2. PICK q \in Nat, r \in 0 .. C - 1 : q = k \div C /\ k = C * q + r
    <3>1. \E q \in Nat, r \in 0 .. C - 1 : q = k \div C /\ r = k % C /\ k = C * q + r
      BY DivMod
    <3> QED BY <3>1
  <2>3. k + C = (q + 1) * C + r
    BY <2>2
  <2>4. (k + C) \div C = q + 1
    <3>1. q + 1 \in Nat
      OBVIOUS
    <3>2. ((q + 1) * C + r) \div C = q + 1
      BY <3>1, DivUnique
    <3> QED BY <2>3, <3>2
  <2> QED BY <2>1, <2>2, <2>4 DEF OldRow
<1>4. d = v.maxrows - (q + 1)
  BY <1>3
<1>5. u \in Views /\ u.cell = v.cell /\ u.oldpos = v.oldpos /\ u.maxrows = v.maxrows
      /\ u.row = IF d > 0 THEN v.row + d ELSE v.row
  <2>1. CASE d > 0
    <3>1. d \in Nat /\ v.row + d < Rows
      <4>1. v.row <= o + q
        BY <1>1, <1>3, ColsFact DEF Ready
      <4> QED BY <1>1, <1>2, <1>4, <2>1, <4>1, ColsFact
    <3>2. Moved(v, u) /\ u.row = v.row + d
      BY <1>1, <2>1, <3>1, DownDoes
    <3> QED BY <2>1, <3>2 DEF Moved
  <2>2. CASE ~(d > 0)
    BY <1>1, <2>2
  <2> QED BY <2>1, <2>2
<1>6. \/ v.row = o + q /\ v.row < o + R
      \/ o = 0 /\ v.row = 0 /\ Clean(v, 0, 0)
  BY <1>2, <1>3 DEF Ready
<1>7. CASE v.row = o + q /\ v.row < o + R
  <2>1. u.row = o + R - 1
    BY <1>1, <1>2, <1>4, <1>5, <1>7
  <2>2. PICK r \in Nat : r = u.row /\ r = o + R - 1 /\ r + 1 = o + R /\ o <= r
    BY <1>1, <1>2, <2>1
  <2>3. u.row * Cols + Cols = (o + Taken(v)) * Cols
    <3>1. (r + 1) * Cols = r * Cols + Cols
      BY RowEnds
    <3> QED BY <1>2, <2>2, <3>1
  <2>4. Clean(u, o, u.row * Cols + Cols)
    BY <1>5, <2>3 DEF Clean, Ready
  <2>5. u.row <= o + R - 1 - 0 /\ u.row = o + R - 1 - 0 /\ o <= u.row
    BY <1>1, <2>2
  <2> QED BY <1>2, <1>5, <2>4, <2>5 DEF Wiped
<1>8. CASE o = 0 /\ v.row = 0 /\ Clean(v, 0, 0)
  <2>1. u.row \in Nat /\ u.row <= o + R - 1 - 0 /\ o <= u.row
    BY <1>1, <1>2, <1>4, <1>5, <1>8
  <2>2. u.row * Cols + Cols \in Nat
    BY <2>1, ColsFact
  <2>3. 0 * Cols = 0
    BY ColsFact
  <2>4. Clean(u, 0, u.row * Cols + Cols)
    <3>1. \A i \in Cells : i \in Nat
      BY CellsFact
    <3>2. \A i \in Cells : i >= 0 /\ ~(i < 0)
      BY <3>1
    <3> QED BY <1>5, <1>8, <2>3, <3>2 DEF Clean
  <2> QED BY <1>2, <1>5, <1>8, <2>1, <2>4 DEF Wiped
<1> QED BY <1>6, <1>7, <1>8

LEMMA ClearedDoes ==
  ASSUME NEW v, NEW o, Ready(v, o), NEW p, NEW w, w = Cleared(v, OldRow(v, Cols, p))
  PROVE  /\ w \in Views /\ w.row = o /\ w.col = 0 /\ w.maxrows = v.maxrows /\ w.oldpos = v.oldpos
         /\ Clean(w, o, o * Cols)
<1> DEFINE m == Largest(v.maxrows - 1, 0)
           d == v.maxrows - OldRow(v, Cols, p)
           bottom == IF d > 0 THEN Down(v, d) ELSE v
           step == [q \in Views \X (1 .. m) |-> Up(EraseRight(CarriageReturn(q[1])), 1)]
           Rec(h) == [j \in 0 .. m |-> IF j = 0 THEN bottom
                                       ELSE Up(EraseRight(CarriageReturn(h[j - 1])), 1)]
           up == CHOOSE h : h = Rec(h)
<1>1. v \in Views /\ v.maxrows \in Nat /\ o \in {0, 1}
  BY DEF Ready, Views
<1>2. m \in Nat /\ Taken(v) = m + 1 /\ Taken(v) \in Nat
  BY <1>1 DEF Largest, Taken
<1>3. Wiped(bottom, v, o, Taken(v), 0)
  BY BottomDoes
<1>4. w = EraseRight(CarriageReturn(up[m]))
  BY DEF Cleared
<1> HIDE DEF m, bottom
<1>5. step \in [Views \X (1 .. m) -> Views]
  <2> SUFFICES ASSUME NEW z \in Views, NEW i \in 1 .. m
               PROVE  Up(EraseRight(CarriageReturn(z)), 1) \in Views
    OBVIOUS
  <2>1. PICK c \in Views : c = CarriageReturn(z)
    BY CarriageReturnDoes DEF Moved
  <2>2. PICK e \in Views : e = EraseRight(c)
    BY EraseDoes
  <2>3. Moved(e, Up(e, 1))
    BY UpDoes
  <2> QED BY <2>1, <2>2, <2>3 DEF Moved
<1>6. PICK g : Iterates(Views, m, step, bottom, g)
  <2>1. bottom \in Views
    BY <1>3 DEF Wiped
  <2> HIDE DEF step
  <2> QED BY <1>2, <1>5, <2>1, Iteration
<1>7. g \in [0 .. m -> Views] /\ g[0] = bottom /\ \A i \in 1 .. m : g[i] = step[<<g[i - 1], i>>]
  <2> HIDE DEF step
  <2> QED BY <1>6 DEF Iterates
<1>8. g = Rec(g)
  <2>1. \A i \in 1 .. m : g[i - 1] \in Views
    BY <1>2, <1>7
  <2>2. \A i \in 1 .. m : g[i] = Up(EraseRight(CarriageReturn(g[i - 1])), 1)
    BY <1>7, <2>1
  <2> HIDE DEF step
  <2> QED BY <1>7, <2>2
<1>9. up = Rec(up)
  <2> HIDE DEF Rec
  <2> QED BY <1>8
<1>10. up[0] = bottom /\ \A j \in 1 .. m : up[j] = Up(EraseRight(CarriageReturn(up[j - 1])), 1)
  <2> HIDE DEF up
  <2> QED BY <1>2, <1>9
<1> HIDE DEF up
<1> DEFINE U == {j \in 0 .. m : Wiped(up[j], v, o, Taken(v), j)}
<1>11. 0 \in U
  BY <1>2, <1>3, <1>10
<1>12. ASSUME NEW j \in 0 .. m - 1, j \in U PROVE j + 1 \in U
  <2>1. j \in Nat /\ j + 1 \in 1 .. m /\ j + 1 \in 0 .. m /\ (j + 1) - 1 = j /\ j + 1 < Taken(v)
    BY <1>2
  <2>2. PICK z : z = up[j] /\ Wiped(z, v, o, Taken(v), j)
    BY <1>12
  <2>3. up[j + 1] = Up(EraseRight(CarriageReturn(z)), 1)
    BY <1>10, <2>1, <2>2
  <2>4. Wiped(up[j + 1], v, o, Taken(v), j + 1)
    BY <1>1, <1>2, <2>1, <2>2, <2>3, WipedNext
  <2> QED BY <2>1, <2>4
<1>13. Wiped(up[m], v, o, Taken(v), m)
  <2> HIDE DEF U
  <2>1. \A j \in 0 .. m : j \in U
    BY <1>2, <1>11, <1>12, UpTo
  <2>2. m \in U
    BY <1>2, <2>1
  <2> QED BY <2>2 DEF U
<1>14. PICK z : z = up[m] /\ Wiped(z, v, o, Taken(v), m)
  BY <1>13
<1>15. z.row = o
  BY <1>1, <1>2, <1>14 DEF Wiped, Views
<1>16. /\ w \in Views /\ w.row = z.row /\ w.col = 0 /\ w.oldpos = v.oldpos /\ w.maxrows = v.maxrows
       /\ Clean(w, o, z.row * Cols)
  <2>1. m < Taken(v)
    BY <1>2
  <2> QED BY <1>1, <1>2, <1>4, <1>14, <2>1, WipedRow
<1> QED BY <1>15, <1>16

(* Where the line ends and where its cursor is.                            *)
LEMMA NotBehind ==
  ASSUME NEW c \in Nat \ {0}, NEW q \in Nat, NEW p \in Nat, q * c < p * c + c
  PROVE  q <= p
<1> SUFFICES ASSUME p < q PROVE FALSE
  OBVIOUS
<1>1. p * c + c <= q * c /\ p * c \in Nat /\ q * c \in Nat
  BY RowsApart
<1> QED BY <1>1

(* The row A of the line's end, the row B of the cursor: what the code's   *)
(* divisions amount to.                                                    *)
Rowed(c, l, n, p, break, A, B, R) ==
  /\ A \in Nat /\ B \in Nat /\ A = (l + n - 1) \div c /\ B = (l + p) \div c
  /\ (l + n + c - 1) \div c = A + 1 /\ (l + p + c) \div c = B + 1
  /\ B <= A + (IF break THEN 1 ELSE 0) /\ A + (IF break THEN 1 ELSE 0) + 1 < R
  /\ l + n <= (A + 1) * c /\ break \in BOOLEAN
LEMMA RowsFact ==
  ASSUME NEW c \in Nat \ {0}, NEW l \in Nat, 0 < l, l < c, NEW n \in Nat, NEW p \in Nat, p <= n,
         NEW R \in Nat, c + l + n < R * c, NEW break, break = (p # 0 /\ p = n /\ (p + l) % c = 0)
  PROVE  \E A, B : Rowed(c, l, n, p, break, A, B, R)
<1>1. PICK k \in Nat : k = l + n - 1
  OBVIOUS
<1>2. PICK A \in Nat, r \in 0 .. c - 1 : A = k \div c /\ k = c * A + r
  <2>1. \E q \in Nat, s \in 0 .. c - 1 : q = k \div c /\ s = k % c /\ k = c * q + s
    BY DivMod
  <2> QED BY <2>1
<1>3. PICK j \in Nat : j = l + p
  OBVIOUS
<1>4. PICK B \in Nat, t \in 0 .. c - 1 : B = j \div c /\ t = j % c /\ j = c * B + t
  BY DivMod
<1>5. (l + n + c - 1) \div c = A + 1
  <2>1. l + n + c - 1 = (A + 1) * c + r
    BY <1>1, <1>2
  <2>2. A + 1 \in Nat
    OBVIOUS
  <2>3. ((A + 1) * c + r) \div c = A + 1
    BY <2>2, DivUnique
  <2> QED BY <2>1, <2>3
<1>6. (l + p + c) \div c = B + 1
  <2>1. l + p + c = (B + 1) * c + t
    BY <1>3, <1>4
  <2>2. B + 1 \in Nat
    OBVIOUS
  <2>3. ((B + 1) * c + t) \div c = B + 1
    BY <2>2, DivUnique
  <2> QED BY <2>1, <2>3
<1>7. PICK a \in Nat, b \in Nat, e \in Nat :
        /\ a = A * c /\ a = c * A /\ b = B * c /\ b = c * B /\ e = R * c
        /\ (A + 1) * c = a + c /\ (A + 2) * c = a + c + c
  OBVIOUS
<1>8. l + n <= (A + 1) * c
  BY <1>1, <1>2, <1>7
<1>9. break \in BOOLEAN
  OBVIOUS
<1>10. CASE break
  <2>00. p = n /\ (p + l) % c = 0
    BY <1>10, Zenon
  <2>0. p = n /\ (p + l) % c = 0 /\ p + l = j
    BY <1>3, <2>00
  <2>01. t = 0
    BY <1>4, <2>0
  <2>1. p = n /\ t = 0 /\ b = a + r + 1
    BY <1>1, <1>2, <1>3, <1>4, <1>7, <2>0, <2>01
  <2>2. B <= A + 1
    <3>1. B * c < (A + 1) * c + c
      BY <1>2, <1>7, <2>1
    <3>2. A + 1 \in Nat
      OBVIOUS
    <3> QED BY <3>1, <3>2, NotBehind
  <2>3. A + 1 + 1 < R
    <3>1. A + 1 <= B
      <4>1. A * c < b
        BY <1>2, <1>7, <2>1
      <4>2. ~(B <= A)
        <5> SUFFICES ASSUME B <= A PROVE FALSE
          OBVIOUS
        <5>1. B * c <= A * c
          OBVIOUS
        <5> QED BY <1>7, <4>1, <5>1
      <4> QED BY <4>2
    <3>2. B + 1 < R
      <4> SUFFICES ASSUME R <= B + 1 PROVE FALSE
        OBVIOUS
      <4>1. R * c <= (B + 1) * c /\ (B + 1) * c = b + c
        BY <1>7
      <4> QED BY <1>3, <1>4, <1>7, <2>1, <4>1
    <3> QED BY <3>1, <3>2
  <2> QED BY <1>1, <1>2, <1>3, <1>4, <1>5, <1>6, <1>8, <1>9, <1>10, <2>2, <2>3 DEF Rowed
<1>11. CASE ~break
  <2>1. B <= A
    <3>1. B * c < A * c + c
      <4>1. CASE p < n
        BY <1>1, <1>2, <1>3, <1>4, <1>7, <4>1
      <4>2. CASE p = n /\ p = 0
        <5>1. b + t = l /\ a + r = l - 1
          BY <1>1, <1>2, <1>3, <1>4, <1>7, <4>2
        <5> QED BY <1>2, <1>4, <1>7, <5>1
      <4>3. CASE p = n /\ p # 0
        <5>0. p + l = j
          BY <1>3
        <5>1. (p + l) % c # 0 /\ p + l = j
          BY <1>11, <4>3, <5>0
        <5>11. t # 0
          BY <1>4, <5>1
        <5>2. t # 0 /\ b + t = a + r + 1
          BY <1>1, <1>2, <1>3, <1>4, <1>7, <4>3, <5>11
        <5> QED BY <1>2, <1>4, <1>7, <5>2
      <4> QED BY <4>1, <4>2, <4>3
    <3> QED BY <3>1, NotBehind
  <2>2. A + 1 < R
    <3> SUFFICES ASSUME R <= A + 1 PROVE FALSE
      OBVIOUS
    <3>1. R * c <= (A + 1) * c
      OBVIOUS
    <3> QED BY <1>1, <1>2, <1>7, <3>1
  <2>3. A + (IF break THEN 1 ELSE 0) = A
    BY <1>11
  <2> QED BY <1>1, <1>2, <1>3, <1>4, <1>5, <1>6, <1>8, <1>9, <2>1, <2>2, <2>3 DEF Rowed
<1> QED BY <1>10, <1>11
(* The line, with its hint, on the screen, and the cursor where the next   *)
(* refresh will look for it.                                               *)
LineText(b, h) == Prompt \o b \o HintFor(Len(b), Cols, h)
MultiAt(v, o, p) ==
  /\ v.row = o + (plen + p) \div Cols /\ v.col = (plen + p) % Cols /\ v.oldpos = p
  /\ v.row < o + Taken(v) /\ Taken(v) < Rows
Multi(v, o, b, p, h) ==
  Seen(v, o, LineText(b, h)) /\ MultiAt(v, o, p) /\ plen + Len(b) <= Taken(v) * Cols

(* A line of n characters is L cells long, its hint included.              *)
Long(c, l, n, L) == L \in Nat \ {0} /\ (L = l + n \/ (l + n < c /\ L <= c /\ l + n <= L))

LEMMA LineTextFact ==
  ASSUME NEW b \in Seq(Chars), NEW h
  PROVE  LineText(b, h) \in Seq(Marks) /\ Long(Cols, plen, Len(b), Len(LineText(b, h)))
<1>1. PICK n \in Nat : n = Len(b)
  BY LenProperties
<1>2. PICK H : H = HintFor(n, Cols, h)
  OBVIOUS
<1>3. /\ H \in Seq(Marks) /\ Len(H) \in Nat
      /\ H # << >> => plen + n < Cols /\ plen + n + Len(H) <= Cols
      /\ H = << >> => Len(H) = 0
  BY <1>2, HintFits
<1>4. b \in Seq(Marks) /\ Prompt \in Seq(Marks) /\ Len(Prompt) = plen
  BY TextsFact
<1>5. PICK a : a = Prompt \o b /\ a \in Seq(Marks) /\ Len(a) = plen + n
  BY <1>1, <1>4, ConcatProperties
<1>6. a \o H \in Seq(Marks) /\ Len(a \o H) = plen + n + Len(H)
  BY <1>3, <1>5, ConcatProperties
<1>7. LineText(b, h) = a \o H
  BY <1>1, <1>2, <1>5 DEF LineText
<1>8. PICK L, k \in Nat : L = Len(LineText(b, h)) /\ k = Len(H) /\ L = plen + n + k
  BY <1>3, <1>6, <1>7
<1>9. k = 0 \/ (plen + n < Cols /\ plen + n + k <= Cols)
  BY <1>3, <1>8
<1>10. Long(Cols, plen, n, L)
  <2>1. plen \in Nat /\ plen > 0
    BY ColsFact
  <2> QED BY <1>8, <1>9, <2>1 DEF Long
<1> QED BY <1>1, <1>6, <1>7, <1>8, <1>10

LEMMA LongFact ==
  ASSUME NEW c \in Nat \ {0}, NEW l \in Nat, 0 < l, NEW n \in Nat, NEW L, Long(c, l, n, L)
  PROVE  (L - 1) \div c = (l + n - 1) \div c
<1>1. CASE L = l + n
  BY <1>1
<1>2. CASE L # l + n
  <2>1. PICK x \in 0 .. c - 1, y \in 0 .. c - 1 : x = L - 1 /\ y = l + n - 1
    BY <1>2 DEF Long
  <2>2. 0 \in Nat /\ 0 * c + x = x /\ 0 * c + y = y
    OBVIOUS
  <2>3. (0 * c + x) \div c = 0 /\ (0 * c + y) \div c = 0
    BY <2>2, DivUnique
  <2> QED BY <2>1, <2>2, <2>3
<1> QED BY <1>1, <1>2

(* The line of which a refresh has been left can be shown again.           *)
LEMMA LongEnds ==
  ASSUME NEW c \in Nat \ {0}, NEW l \in Nat, NEW n \in Nat, NEW L, Long(c, l, n, L),
         NEW R \in Nat \ {0}, l + n <= R * c
  PROVE  L <= R * c
<1>1. c <= R * c /\ R * c \in Nat
  OBVIOUS
<1> QED BY <1>1 DEF Long

LEMMA SeenClean ==
  ASSUME NEW v \in Views, NEW o \in {0, 1}, NEW text, NEW L \in Nat, L = Len(text),
         Seen(v, o, text), NEW R \in Nat, L <= R * Cols
  PROVE  Clean(v, o, (o + R) * Cols)
<1>1. PICK s \in Nat, e \in Nat : s = o * Cols /\ e = R * Cols /\ (o + R) * Cols = s + e
  BY ColsFact
<1> SUFFICES ASSUME NEW i \in Cells
             PROVE  (i < s => v.cell[i] = Above) /\ (i >= s + e => v.cell[i] = Blank)
  BY <1>1 DEF Clean
<1>2. v.cell[i] = IF i < s THEN Above ELSE IF i - s < L THEN text[i - s + 1] ELSE Blank
  BY <1>1 DEF Seen, Cell
<1>3. i \in Nat /\ (i >= s + e => ~(i < s) /\ ~(i - s < L))
  BY <1>1, CellsFact
<1> QED BY <1>2, <1>3

LEMMA InkedSeen ==
  ASSUME NEW v \in Views, NEW o \in {0, 1}, Clean(v, o, o * Cols), NEW w, NEW text,
         NEW L \in Nat, L = Len(text),
         Inked(v, w, o * Cols, text)
  PROVE  Seen(w, o, text)
<1>1. PICK s \in Nat : s = o * Cols
  BY ColsFact
<1> SUFFICES ASSUME NEW i \in Cells PROVE w.cell[i] = Cell(o, text, i)
  BY DEF Seen
<1>2. w.cell[i] = IF i \in s .. s + L - 1 THEN text[i - s + 1] ELSE v.cell[i]
  BY <1>1 DEF Inked
<1>3. Cell(o, text, i) = IF i < s THEN Above ELSE IF i - s < L THEN text[i - s + 1] ELSE Blank
  BY <1>1 DEF Cell
<1>4. (i < s => v.cell[i] = Above) /\ (i >= s => v.cell[i] = Blank)
  BY <1>1 DEF Clean
<1>5. i \in Nat
  BY CellsFact
<1>6. CASE i < s
  <2>1. ~(i \in s .. s + L - 1)
    BY <1>5, <1>6
  <2> QED BY <1>2, <1>3, <1>4, <1>6, <2>1, Zenon
<1>7. CASE ~(i < s) /\ i - s < L
  <2>1. i \in s .. s + L - 1
    BY <1>5, <1>7
  <2> QED BY <1>2, <1>3, <1>7, <2>1, Zenon
<1>8. CASE ~(i < s) /\ ~(i - s < L)
  <2>1. ~(i \in s .. s + L - 1) /\ i >= s
    BY <1>5, <1>8
  <2> QED BY <1>2, <1>3, <1>4, <1>8, <2>1, Zenon
<1> QED BY <1>6, <1>7, <1>8

LEMMA MultiDoes ==
  ASSUME NEW v, NEW o, Ready(v, o), NEW b \in Seq(Chars), NEW p \in Nat, p <= Len(b), NEW h,
         Cols + plen + Len(b) < Rows * Cols,
         NEW w, w = refreshMultiLine(v, Cols, b, Len(b), p, h)
  PROVE  w \in Views /\ Multi(w, o, b, p, h)
<1>1. PICK n \in Nat : n = Len(b) /\ p <= n
  BY LenProperties
<1>2. PICK break : break = (p # 0 /\ p = n /\ (p + plen) % Cols = 0)
  OBVIOUS
<1>3. PICK A, B : Rowed(Cols, plen, n, p, break, A, B, Rows)
  BY <1>1, <1>2, ColsFact, RowsFact
<1>4. PICK x \in {0, 1} : x = IF break THEN 1 ELSE 0
  OBVIOUS
<1>5. A \in Nat /\ B \in Nat /\ B <= A + x /\ A + x + 1 < Rows /\ Rows \in Nat
  BY <1>3, <1>4, ColsFact DEF Rowed
<1>51. /\ A = (plen + n - 1) \div Cols /\ B = (plen + p) \div Cols
       /\ (plen + n + Cols - 1) \div Cols = A + 1 /\ (plen + p + Cols) \div Cols = B + 1
  BY <1>3 DEF Rowed
<1>52. plen + n <= (A + 1) * Cols /\ break \in BOOLEAN
  BY <1>3 DEF Rowed
<1>6. v \in Views /\ o \in {0, 1} /\ Taken(v) < Rows
  BY DEF Ready
<1>7. PICK t : t = LineText(b, h)
  OBVIOUS
<1>8. PICK L \in Nat \ {0} : t \in Seq(Marks) /\ L = Len(t) /\ Long(Cols, plen, n, L)
  BY <1>1, <1>7, LineTextFact DEF Long
<1>9. PICK c : c = Cleared(v, OldRow(v, Cols, p))
  OBVIOUS
<1>10. /\ c \in Views /\ c.row = o /\ c.col = 0 /\ c.maxrows = v.maxrows /\ Clean(c, o, o * Cols)
  BY <1>9, ClearedDoes
<1>11. PICK s : s = Text(c, t)
  OBVIOUS
<1>12. s \in Views /\ Inked(c, s, o * Cols, t) /\ s.maxrows = c.maxrows
       /\ s.row = o + (L - 1) \div Cols
  BY <1>8, <1>10, <1>11, TextFromRow
<1>13. s.row = o + A
  <2>1. Cols \in Nat \ {0} /\ plen \in Nat /\ 0 < plen
    BY ColsFact
  <2>2. ASSUME NEW C \in Nat \ {0}, NEW l \in Nat, 0 < l, Long(C, l, n, L)
        PROVE  (L - 1) \div C = (l + n - 1) \div C
    BY <2>2, LongFact, Zenon
  <2>3. (L - 1) \div Cols = (plen + n - 1) \div Cols
    BY <1>8, <2>1, <2>2
  <2> QED BY <1>12, <1>51, <2>3, Zenon
<1>14. Seen(s, o, t)
  BY <1>6, <1>8, <1>10, <1>12, InkedSeen
<1>15. PICK e : e = IF break THEN CarriageReturn(LineFeed(s)) ELSE s
  OBVIOUS
<1>16. e \in Views /\ e.cell = s.cell /\ e.maxrows = s.maxrows /\ e.row = o + A + x
  <2>1. CASE break
    <3>1. PICK f : f = LineFeed(s)
      OBVIOUS
    <3>2. x = 1 /\ s.row + 1 < Rows /\ s.row + 1 = o + A + x
      BY <1>4, <1>5, <1>6, <1>13, <2>1, ColsFact
    <3>3. Moved(s, f) /\ f.row = s.row + 1
      BY <1>12, <3>1, <3>2, LineFeedDoes
    <3>4. Moved(f, e) /\ e.row = f.row
      BY <1>15, <2>1, <3>1, <3>3, CarriageReturnDoes DEF Moved
    <3> QED BY <3>2, <3>3, <3>4 DEF Moved
  <2>2. CASE ~break
    <3>1. e = s /\ x = 0
      BY <1>4, <1>15, <2>2
    <3> QED BY <1>5, <1>6, <1>12, <1>13, <3>1
  <2> QED BY <2>1, <2>2
<1>17. PICK d : d = A + 1 + x - (B + 1)
  OBVIOUS
<1>18. PICK u : u = IF d > 0 THEN Up(e, d) ELSE e
  OBVIOUS
<1>19. u \in Views /\ u.cell = e.cell /\ u.maxrows = e.maxrows /\ u.row = o + B
  <2>0. A \in Nat /\ B \in Nat /\ x \in Nat /\ B <= A + x /\ o \in Nat /\ e.row = o + A + x
    BY <1>5, <1>6, <1>16
  <2>1. d \in Nat /\ d = A + x - B
    BY <1>17, <2>0
  <2>2. CASE d > 0
    <3>1. Moved(e, u) /\ u.row = Largest(e.row - d, 0)
      BY <1>16, <1>18, <2>1, <2>2, UpDoes
    <3>2. Largest(e.row - d, 0) = o + B
      BY <2>0, <2>1 DEF Largest
    <3> QED BY <3>1, <3>2 DEF Moved
  <2>3. CASE ~(d > 0)
    <3>1. u = e /\ e.row = o + B
      BY <1>18, <2>0, <2>1, <2>3
    <3> QED BY <1>16, <3>1
  <2> QED BY <2>2, <2>3
<1>20. PICK pl : pl = CarriageReturn(u)
  OBVIOUS
<1>21. pl \in Views /\ pl.cell = u.cell /\ pl.maxrows = u.maxrows /\ pl.row = u.row /\ pl.col = 0
  BY <1>19, <1>20, CarriageReturnDoes DEF Moved
<1>22. PICK col \in 0 .. Cols - 1 : col = (plen + p) % Cols
  <2>1. PICK C \in Nat \ {0}, k \in Nat : C = Cols /\ k = plen + p
    BY ColsFact
  <2>2. k % C \in 0 .. C - 1
    OBVIOUS
  <2> QED BY <2>1, <2>2
<1>23. PICK z : z = IF col > 0 THEN Forward(pl, col) ELSE pl
  OBVIOUS
<1>24. z \in Views /\ z.cell = pl.cell /\ z.maxrows = pl.maxrows /\ z.row = pl.row /\ z.col = col
  <2>1. CASE col > 0
    <3>1. col \in 1 .. Cols - 1
      BY <2>1
    <3>2. Moved(pl, z) /\ z.row = pl.row /\ z.col = col
      BY <1>21, <1>23, <2>1, <3>1, ForwardDoes
    <3> QED BY <3>2 DEF Moved
  <2>2. CASE ~(col > 0)
    BY <1>21, <1>22, <1>23, <2>2
  <2> QED BY <2>1, <2>2
<1>25. w = [z EXCEPT !.oldpos = p, !.maxrows = Largest(z.maxrows, A + 1 + x)]
  <2>1. w = [z
               EXCEPT !.oldpos = p,
                      !.maxrows = Largest(@, (plen + n + Cols - 1) \div Cols
                                               + (IF break THEN 1 ELSE 0))]
    <3>1. d = ((plen + n + Cols - 1) \div Cols + (IF break THEN 1 ELSE 0))
          - (plen + p + Cols) \div Cols
      <4>1. A + 1 + x - (B + 1) = ((A + 1) + x) - (B + 1)
        BY <1>5
      <4> QED BY <1>4, <1>51, <1>17, <4>1, Zenon
    <3>2. t = Prompt \o b \o HintFor(n, Cols, h)
      BY <1>1, <1>7 DEF LineText
    <3> DEFINE rows == (plen + n + Cols - 1) \div Cols + (IF break THEN 1 ELSE 0)
               rpos2 == (plen + p + Cols) \div Cols
    <3>3. w = [(IF (plen + p) % Cols > 0
                THEN Forward(CarriageReturn(IF rows - rpos2 > 0 THEN Up(e, rows - rpos2) ELSE e),
                             (plen + p) % Cols)
                ELSE CarriageReturn(IF rows - rpos2 > 0 THEN Up(e, rows - rpos2) ELSE e))
                 EXCEPT !.oldpos = p, !.maxrows = Largest(@, rows)]
      BY <1>1, <1>2, <1>9, <1>11, <1>15, <3>2, Zenon DEF refreshMultiLine
    <3>4. d = rows - rpos2
      BY <3>1
    <3> HIDE DEF rows, rpos2
    <3>5. w = [(IF col > 0 THEN Forward(pl, col) ELSE pl)
          EXCEPT !.oldpos = p, !.maxrows = Largest(@, rows)]
      BY <1>18, <1>20, <1>22, <3>3, <3>4
    <3>6. w = [z EXCEPT !.oldpos = p, !.maxrows = Largest(@, rows)]
      BY <1>23, <3>5
    <3> QED BY <3>6 DEF rows
  <2> QED BY <1>4, <1>51, <2>1
<1>250. z.maxrows = v.maxrows /\ v.maxrows \in Nat
  <2>1. z.maxrows = v.maxrows
    BY <1>10, <1>12, <1>16, <1>19, <1>21, <1>24, Zenon
  <2> QED BY <1>6, <2>1 DEF Views
<1>26. PICK M \in Nat : M = Largest(z.maxrows, A + 1 + x) /\ A + x + 1 <= M
                        /\ (M = v.maxrows \/ M = A + x + 1)
  <2>1. Largest(z.maxrows, A + 1 + x) \in Nat
    BY <1>5, <1>250 DEF Largest
  <2> QED BY <1>5, <1>250, <2>1 DEF Largest
<1>27. w \in Views /\ w.cell = s.cell /\ w.row = o + B /\ w.col = col /\ w.oldpos = p
       /\ w.maxrows = M
  BY <1>16, <1>19, <1>21, <1>24, <1>25, <1>26 DEF Views
<1>28. Taken(w) = M /\ M < Rows /\ A + x + 1 <= M
  <2>1. v.maxrows < Rows
    BY <1>5, <1>6, <1>250 DEF Taken, Largest
  <2>2. M < Rows
    BY <1>5, <1>26, <2>1
  <2>3. M >= 1
    BY <1>5, <1>26
  <2>4. Taken(w) = M
    BY <1>26, <1>27, <2>3 DEF Taken, Largest
  <2> QED BY <1>26, <2>2, <2>4
<1>29. MultiAt(w, o, p)
  <2>1. w.row < o + Taken(w)
    <3>1. o + B < o + M
      BY <1>5, <1>6, <1>26
    <3> QED BY <1>27, <1>28, <3>1
  <2>2. w.row = o + (plen + p) \div Cols /\ w.col = (plen + p) % Cols
    BY <1>22, <1>27, <1>51, Zenon
  <2>3. Taken(w) < Rows
    BY <1>28
  <2> QED BY <1>27, <2>1, <2>2, <2>3, Zenon DEF MultiAt
<1>30. Seen(w, o, LineText(b, h))
  BY <1>7, <1>14, <1>27 DEF Seen
<1>31. plen + Len(b) <= Taken(w) * Cols
  <2>1. PICK C \in Nat \ {0} : C = Cols
    BY ColsFact
  <2>2. (A + 1) * C <= M * C /\ M * C \in Nat /\ (A + 1) * C \in Nat
    <3>1. A + 1 <= M /\ A + 1 \in Nat
      BY <1>5, <1>28
    <3> QED BY <3>1
  <2>3. PICK k \in Nat : k = plen + n
      BY ColsFact
    <2> QED BY <1>1, <1>28, <1>52, <2>1, <2>2, <2>3
<1> QED BY <1>27, <1>29, <1>30, <1>31 DEF Multi

(***************************************************************************)
(* Both modes.                                                             *)
(***************************************************************************)
ShowsAt(v, o, ml, b, p, h) == IF ml THEN Multi(v, o, b, p, h) ELSE Single(v, o, b, p, h)
(* What a refresh needs to find.                                           *)
CanShow(v, o, ml) ==
  IF ml THEN Ready(v, o)
  ELSE v \in Views /\ o \in {0, 1} /\ v.row = o /\ Clean(v, o, o * Cols + Cols)

LEMMA WindowEnds ==
  ASSUME NEW b \in Seq(Chars), NEW skip \in Nat, skip <= Len(b), NEW h
  PROVE  Len(Window(b, skip, h)) \in Nat /\ Len(Window(b, skip, h)) <= Cols
<1>1. PICK n \in Nat : n = Len(b)
  BY LenProperties
<1>2. PICK a : a = SubSeq(b, skip + 1, n) /\ a \in Seq(Marks)
  <2>1. \A i \in skip + 1 .. n : b[i] \in Marks
    BY <1>1, TextsFact, ElementOfSeq
  <2>2. SubSeq(b, skip + 1, n) \in Seq(Marks)
    BY <1>1, <2>1, SubSeqProperties
  <2> QED BY <2>2
<1>3. PICK H : H = HintFor(n, Cols, h) /\ H \in Seq(Marks)
  BY HintFits
<1>4. PICK x : x = Prompt \o a /\ x \in Seq(Marks)
  BY <1>2, TextsFact, ConcatProperties
<1>5. PICK y : y = x \o H /\ y \in Seq(Marks)
  BY <1>3, <1>4, ConcatProperties
<1>6. Window(b, skip, h) = Left(y, Cols)
  BY <1>1, <1>2, <1>3, <1>4, <1>5 DEF Window
<1>7. Left(y, Cols) \in Seq(Marks) /\ Len(Left(y, Cols)) <= Cols
  BY <1>5, LeftPart, ColsFact
<1> QED BY <1>6, <1>7, LenProperties

(* Where a line is shown another one can be.                               *)
LEMMA ShownCan ==
  ASSUME NEW v \in Views, NEW o \in {0, 1}, NEW ml, NEW b \in Seq(Chars),
         NEW p \in Nat, p <= Len(b), NEW h,
         ShowsAt(v, o, ml, b, p, h)
  PROVE  CanShow(v, o, ml)
<1>1. CASE ml
  <2>1. Multi(v, o, b, p, h)
    BY <1>1 DEF ShowsAt
  <2>2. PICK t, L : t = LineText(b, h) /\ L = Len(t)
    OBVIOUS
  <2>3. Long(Cols, plen, Len(b), L) /\ L \in Nat
    BY <2>2, LineTextFact DEF Long
  <2>4. PICK R \in Nat \ {0} : R = Taken(v)
    BY DEF Taken, Largest, Views
  <2>5. L <= R * Cols
    <3>1. plen + Len(b) <= R * Cols
      BY <2>1, <2>4 DEF Multi
    <3>2. Cols \in Nat \ {0} /\ plen \in Nat /\ Len(b) \in Nat
      BY ColsFact, LenProperties
    <3>3. ASSUME NEW C \in Nat \ {0}, NEW l \in Nat, NEW n \in Nat, Long(C, l, n, L), l + n <= R * C
          PROVE  L <= R * C
      BY <3>3, LongEnds, Zenon
    <3> QED BY <2>3, <3>1, <3>2, <3>3
  <2>6. Clean(v, o, (o + Taken(v)) * Cols)
    <3>1. Seen(v, o, t)
      BY <2>1, <2>2 DEF Multi
    <3>2. Clean(v, o, (o + R) * Cols)
      BY <2>2, <2>3, <2>5, <3>1, SeenClean
    <3> QED BY <2>4, <3>2
  <2>7. MultiAt(v, o, p)
    BY <2>1 DEF Multi
  <2>8. Ready(v, o)
    BY <2>6, <2>7 DEF MultiAt, Ready
  <2> QED BY <1>1, <2>8 DEF CanShow
<1>2. CASE ~ml
  <2>1. PICK skip \in 0 .. p : SingleAt(v, o, b, p, h, skip)
    BY <1>2 DEF ShowsAt, Single
  <2>20. skip \in Nat /\ skip <= Len(b)
    BY LenProperties
  <2>21. Len(Window(b, skip, h)) \in Nat /\ Len(Window(b, skip, h)) <= Cols
    BY <2>20, WindowEnds, Zenon
  <2>22. PICK t : t = Window(b, skip, h)
    OBVIOUS
  <2>2. PICK L \in Nat : t = Window(b, skip, h) /\ L = Len(t) /\ L <= Cols
    BY <2>21, <2>22
  <2>3. Seen(v, o, t) /\ v.row = o
    BY <2>1, <2>2 DEF SingleAt
  <2>4. L <= 1 * Cols /\ (o + 1) * Cols = o * Cols + Cols
    BY <2>2, ColsFact
  <2>5. Clean(v, o, (o + 1) * Cols)
    BY <2>2, <2>3, <2>4, SeenClean
  <2> QED BY <1>2, <2>3, <2>4, <2>5 DEF CanShow
<1> QED BY <1>1, <1>2

LEMMA RefreshDoes ==
  ASSUME NEW v, NEW o, NEW ml, CanShow(v, o, ml), NEW b \in Seq(Chars),
         NEW p \in Nat, p <= Len(b), NEW h,
         Cols + plen + Len(b) < Rows * Cols,
         NEW w, w = refreshLine(v, ml, Cols, b, Len(b), p, h)
  PROVE  w \in Views /\ ShowsAt(w, o, ml, b, p, h)
<1>1. CASE ml
  <2>1. Ready(v, o) /\ w = refreshMultiLine(v, Cols, b, Len(b), p, h)
    BY <1>1 DEF CanShow, refreshLine
  <2>2. w \in Views /\ Multi(w, o, b, p, h)
    BY <2>1, MultiDoes
  <2> QED BY <1>1, <2>2 DEF ShowsAt
<1>2. CASE ~ml
  <2>1. /\ v \in Views /\ o \in {0, 1} /\ v.row = o /\ Clean(v, o, o * Cols + Cols)
        /\ w = refreshSingleLine(v, Cols, b, Len(b), p, h)
    BY <1>2 DEF CanShow, refreshLine
  <2>2. w \in Views /\ Single(w, o, b, p, h)
    BY <2>1, SingleDoes
  <2> QED BY <1>2, <2>2 DEF ShowsAt
<1> QED BY <1>1, <1>2

LEMMA ClearScreenDoes ==
  ASSUME NEW v, NEW o, NEW ml, CanShow(v, o, ml), NEW w, w = ClearScreen(v)
  PROVE  CanShow(w, 0, ml)
<1>1. v \in Views
  BY DEF CanShow, Ready
<1>2. /\ w \in Views /\ w.row = 0 /\ w.maxrows = v.maxrows
      /\ \A i \in Cells : w.cell[i] = Blank
  BY <1>1, TextsFact DEF ClearScreen, Views
<1>3. 0 * Cols = 0 /\ \A i \in Cells : i \in Nat
  BY ColsFact, CellsFact
<1>4. ASSUME NEW end PROVE Clean(w, 0, end)
  BY <1>2, <1>3 DEF Clean
<1>5. CASE ml
  <2>1. Taken(w) < Rows
    BY <1>2, <1>5 DEF CanShow, Ready, Taken
  <2> QED BY <1>2, <1>4, <1>5, <2>1 DEF CanShow, Ready
<1>6. CASE ~ml
  BY <1>2, <1>4, <1>6 DEF CanShow
<1> QED BY <1>5, <1>6

(* What is shown is what the line has to look like.                        *)
LEMMA ShowsIt ==
  ASSUME NEW v \in Views, NEW o \in {0, 1}, NEW ml, NEW b \in Seq(Chars),
         NEW p \in Nat, p <= Len(b), NEW h,
         ShowsAt(v, o, ml, b, p, h)
  PROVE  ShowsLine(v, o, ml, b, p, h, Above)
<1>1. CASE ml
  <2>1. Multi(v, o, b, p, h)
    BY <1>1 DEF ShowsAt
  <2>2. Seen(v, o, LineText(b, h)) /\ v.row = o + (plen + p) \div Cols /\ v.col = (plen + p) % Cols
    BY <2>1 DEF Multi, MultiAt
  <2>3. v.row * Cols + v.col = o * Cols + (plen + p)
    <3>1. PICK C \in Nat \ {0}, k \in Nat : C = Cols /\ k = plen + p
      BY ColsFact
    <3>2. PICK q \in Nat, r \in 0 .. C - 1 : q = k \div C /\ r = k % C /\ k = C * q + r
      BY DivMod
    <3>3. (o + q) * C + r = o * C + k
      BY <3>2
    <3> QED BY <2>2, <3>1, <3>2, <3>3
  <2>4. Displays(v, o, LineText(b, h), plen + p, Above)
    BY <2>2, <2>3 DEF Displays, Seen, Cell
  <2> QED BY <1>1, <2>4 DEF ShowsLine, LineText
<1>2. CASE ~ml
  <2>1. PICK skip \in 0 .. p : SingleAt(v, o, b, p, h, skip)
    BY <1>2 DEF ShowsAt, Single
  <2>2. Displays(v, o, Window(b, skip, h), plen + p - skip, Above)
    BY <2>1 DEF SingleAt, Displays, Seen, Cell
  <2>3. (skip > 0 => plen + p - skip = Cols - 1) /\ plen + p - skip < Cols
    BY <2>1 DEF SingleAt
  <2> QED BY <1>2, <2>2, <2>3 DEF ShowsLine, Window
<1> QED BY <1>1, <1>2
(* A line without its hint that fits into the row.                         *)
LEMMA PlainWindow ==
  ASSUME NEW b \in Seq(Chars), plen + Len(b) <= Cols
  PROVE  /\ Window(b, 0, FALSE) = Prompt \o b /\ LineText(b, FALSE) = Prompt \o b
         /\ Prompt \o b \in Seq(Marks) /\ Len(Prompt \o b) = plen + Len(b)
<1>1. PICK t : t = Prompt \o b /\ t \in Seq(Marks) /\ Len(t) = plen + Len(b)
  BY TextsFact, ConcatProperties
<1>2. SubSeq(b, 0 + 1, Len(b)) = b
  BY SubSeqFull
<1>3. HintFor(Len(b), Cols, FALSE) = << >> /\ t \o << >> = t
  BY <1>1, ConcatEmptySeq DEF HintFor
<1>4. Left(t, Cols) = t
  BY <1>1, ColsFact, LeftPart
<1> QED BY <1>1, <1>2, <1>3, <1>4 DEF Window, LineText

LEMMA AsIsShows ==
  ASSUME NEW v \in Views, NEW o \in {0, 1}, NEW b \in Seq(Chars), Single(v, o, b, Len(b), FALSE),
         plen + Len(b) + 1 < Cols, NEW c \in Chars,
         NEW b2, b2 = SubSeq(b, 1, Len(b)) \o <<c>> \o SubSeq(b, Len(b) + 1, Len(b)),
         NEW w, w = Text(v, <<c>>)
  PROVE  w \in Views /\ Single(w, o, b2, Len(b) + 1, FALSE)
<1>1. PICK n \in Nat : n = Len(b) /\ plen + n + 1 < Cols
  BY LenProperties
<1>2. plen \in Nat /\ Cols \in Nat \ {0} /\ o \in Nat
  BY ColsFact
<1>3. PICK skip \in 0 .. n : SingleAt(v, o, b, n, FALSE, skip)
  BY <1>1 DEF Single
<1>4. skip = 0
  BY <1>1, <1>2, <1>3 DEF SingleAt
<1>5. PICK t : t = Prompt \o b /\ t \in Seq(Marks) /\ Len(t) = plen + n /\ Window(b, 0, FALSE) = t
  <2>1. plen + Len(b) <= Cols
    BY <1>1, <1>2
  <2> QED BY <1>1, <2>1, PlainWindow
<1>6. Seen(v, o, t) /\ v.row = o /\ v.col = plen + n
  <2>1. SingleAt(v, o, b, n, FALSE, 0)
    BY <1>3, <1>4
  <2>2. Seen(v, o, Window(b, 0, FALSE)) /\ v.row = o /\ v.col = plen + n - 0
    BY <2>1, Zenon DEF SingleAt
  <2>3. plen + n - 0 = plen + n
    BY <1>2
  <2> QED BY <1>5, <2>2, <2>3, Zenon
<1>7. <<c>> \in Seq(Chars) /\ <<c>> \in Seq(Marks) /\ Len(<<c>>) = 1 /\ <<c>>[1] = c
  <2>1. <<c>> \in Seq(Chars)
    OBVIOUS
  <2> QED BY <2>1, TextsFact
<1>8. b2 = b \o <<c>>
  <2>1. SubSeq(b, 1, Len(b)) = b /\ SubSeq(b, Len(b) + 1, Len(b)) = << >>
    BY SubSeqFull, SubSeqProperties
  <2>2. b \o <<c>> \in Seq(Chars)
    BY <1>7, ConcatProperties
  <2>3. (b \o <<c>>) \o << >> = b \o <<c>>
    BY <2>2, ConcatEmptySeq
  <2> QED BY <2>1, <2>3
<1>9. b2 \in Seq(Chars) /\ Len(b2) = n + 1
  BY <1>1, <1>7, <1>8, ConcatProperties
<1>10. Prompt \o b2 = t \o <<c>>
  <2>1. b \in Seq(Marks) /\ Prompt \in Seq(Marks)
    BY TextsFact
  <2>2. (Prompt \o b) \o <<c>> = Prompt \o (b \o <<c>>)
    <3>1. \A s, y, u \in Seq(Marks) : (s \o y) \o u = s \o (y \o u)
      BY ConcatAssociative
    <3>2. PICK u : u = <<c>> /\ u \in Seq(Marks)
      BY <1>7
    <3>3. (Prompt \o b) \o u = Prompt \o (b \o u)
      BY <2>1, <3>1, <3>2, Zenon
    <3> QED BY <3>2, <3>3, Zenon
  <2> QED BY <1>5, <1>8, <2>2, Zenon
<1>11. PICK x : x = t \o <<c>> /\ x \in Seq(Marks) /\ Len(x) = plen + n + 1 /\ x[plen + n + 1] = c
                /\ \A i \in 1 .. plen + n : x[i] = t[i]
  <2>1. PICK k \in Nat : k = plen + n /\ Len(t) = k
    BY <1>1, <1>2, <1>5
  <2>2. /\ t \o <<c>> \in Seq(Marks) /\ Len(t \o <<c>>) = k + 1
        /\ \A i \in 1 .. k + 1 : (t \o <<c>>)[i] = IF i <= k THEN t[i] ELSE <<c>>[i - k]
    <3>1. PICK y : y = <<c>> /\ y \in Seq(Marks) /\ Len(y) = 1
      BY <1>7
    <3>2. /\ t \o y \in Seq(Marks) /\ Len(t \o y) = Len(t) + Len(y)
          /\ \A i \in 1 .. Len(t) + Len(y) :
               (t \o y)[i] = IF i <= Len(t) THEN t[i] ELSE y[i - Len(t)]
      BY <1>5, <3>1, ConcatProperties, Zenon
    <3>3. Len(t) = k /\ Len(y) = 1
      BY <2>1, <3>1
    <3> QED BY <3>1, <3>2, <3>3, Zenon
  <2>3. k + 1 \in 1 .. k + 1 /\ ~(k + 1 <= k) /\ (k + 1) - k = 1
        /\ \A i \in 1 .. k : i \in 1 .. k + 1 /\ i <= k
    BY <2>1
  <2>4. (t \o <<c>>)[k + 1] = c
    BY <1>7, <2>2, <2>3
  <2>5. \A i \in 1 .. k : (t \o <<c>>)[i] = t[i]
    BY <2>2, <2>3
  <2> QED BY <2>1, <2>2, <2>4, <2>5
<1>12. Window(b2, 0, FALSE) = x
  <2>1. plen + Len(b2) <= Cols
    BY <1>1, <1>2, <1>9
  <2> QED BY <1>9, <1>10, <1>11, <2>1, PlainWindow
<1>13. /\ w \in Views /\ Inked(v, w, v.row * Cols + v.col, <<c>>) /\ w.row = v.row
          /\ w.col = v.col + 1
  <2>1. v.col + Len(<<c>>) <= Cols /\ Len(<<c>>) > 0
    BY <1>1, <1>2, <1>6, <1>7
  <2> QED BY <1>7, <2>1, TextInRow
<1>14. Seen(w, o, x)
  <2> SUFFICES ASSUME NEW i \in Cells PROVE w.cell[i] = Cell(o, x, i)
    BY DEF Seen
  <2>01. PICK s \in Nat : s = o * Cols
    BY <1>2
  <2>02. PICK k \in Nat : k = plen + n
    BY <1>2
  <2>1. s = o * Cols /\ k = plen + n
    BY <2>01, <2>02
  <2>2. i \in Nat
    BY CellsFact
  <2>3. w.cell[i] = IF i \in s + k .. s + k + 1 - 1 THEN <<c>>[i - (s + k) + 1] ELSE v.cell[i]
    BY <1>6, <1>7, <1>13, <2>1 DEF Inked
  <2>4. v.cell[i] = IF i < s THEN Above ELSE IF i - s < k THEN t[i - s + 1] ELSE Blank
    BY <1>5, <1>6, <2>1 DEF Seen, Cell
  <2>5. Cell(o, x, i) = IF i < s THEN Above ELSE IF i - s < k + 1 THEN x[i - s + 1] ELSE Blank
    BY <1>11, <2>1 DEF Cell
  <2>6. CASE i < s
    <3>1. ~(i \in s + k .. s + k + 1 - 1)
      BY <2>2, <2>6
    <3> QED BY <2>3, <2>4, <2>5, <2>6, <3>1, Zenon
  <2>7. CASE ~(i < s) /\ i - s < k
    <3>1. ~(i \in s + k .. s + k + 1 - 1) /\ i - s < k + 1 /\ i - s + 1 \in 1 .. k
      BY <2>1, <2>2, <2>7
    <3>2. x[i - s + 1] = t[i - s + 1]
      BY <1>11, <2>1, <3>1
    <3> QED BY <2>3, <2>4, <2>5, <2>7, <3>1, <3>2, Zenon
  <2>8. CASE ~(i < s) /\ i - s = k
    <3>1. i \in s + k .. s + k + 1 - 1 /\ i - s < k + 1 /\ i - s + 1 = k + 1 /\ i - (s + k) + 1 = 1
      BY <2>1, <2>2, <2>8
    <3>2. x[k + 1] = c
      BY <1>11, <2>1
    <3> QED BY <1>7, <2>3, <2>5, <2>8, <3>1, <3>2
  <2>9. CASE ~(i < s) /\ ~(i - s < k + 1)
    <3>1. ~(i \in s + k .. s + k + 1 - 1) /\ ~(i - s < k)
      BY <2>1, <2>2, <2>9
    <3> QED BY <2>3, <2>4, <2>5, <2>9, <3>1, Zenon
  <2>10. i < s \/ (~(i < s) /\ i - s < k) \/ (~(i < s) /\ i - s = k)
         \/ (~(i < s) /\ ~(i - s < k + 1))
    BY <2>1, <2>2
  <2> QED BY <2>6, <2>7, <2>8, <2>9, <2>10
<1>15. SingleAt(w, o, b2, n + 1, FALSE, 0)
  <2>1. w.row = o /\ w.col = plen + (n + 1) - 0
    BY <1>2, <1>6, <1>13
  <2>2. plen + (n + 1) - 0 < Cols /\ ~(0 > 0)
    BY <1>1, <1>2
  <2> QED BY <1>12, <1>14, <2>1, <2>2, Zenon DEF SingleAt
<1>16. Single(w, o, b2, n + 1, FALSE)
  <2>1. 0 \in 0 .. n + 1
    OBVIOUS
  <2> QED BY <1>15, <2>1, Zenon DEF Single
<1> QED BY <1>1, <1>13, <1>16

LEMMA StartShows ==
  ASSUME 1 < Rows, NEW w, w = Text(FreshView, Prompt), NEW ml
  PROVE  FreshView \in Views /\ w \in Views /\ ShowsAt(w, 1, ml, << >>, 0, FALSE)
<1>1. /\ FreshView \in Views /\ FreshView.row = 1 /\ FreshView.col = 0
      /\ FreshView.oldpos = 0 /\ FreshView.maxrows = 0
      /\ \A i \in Cells : FreshView.cell[i] = IF i < Cols THEN Above ELSE Blank
  BY TextsFact DEF FreshView, Views
<1>2. plen \in Nat /\ Cols \in Nat \ {0} /\ 0 < plen /\ plen < Cols
  BY ColsFact
<1>3. /\ w \in Views /\ Inked(FreshView, w, 1 * Cols + 0, Prompt) /\ w.oldpos = 0 /\ w.maxrows = 0
      /\ w.row = 1 /\ w.col = plen
  BY <1>1, <1>2, TextsFact, TextInRow
<1>4. << >> \in Seq(Chars) /\ Len(<< >>) = 0
  OBVIOUS
<1>5. Window(<< >>, 0, FALSE) = Prompt /\ LineText(<< >>, FALSE) = Prompt
  <2>1. Prompt \o << >> = Prompt
    BY TextsFact, ConcatEmptySeq
  <2>2. plen + Len(<< >>) <= Cols
    BY <1>2, <1>4
  <2> QED BY <1>4, <2>1, <2>2, PlainWindow
<1>6. Seen(w, 1, Prompt)
  <2>1. 1 * Cols + 0 = 1 * Cols /\ 1 * Cols = Cols
    BY <1>2
  <2>2. Clean(FreshView, 1, 1 * Cols)
    <3>1. \A i \in Cells : i \in Nat
      BY CellsFact
    <3> QED BY <1>1, <1>2, <2>1, <3>1 DEF Clean
  <2>3. Inked(FreshView, w, 1 * Cols, Prompt)
    BY <1>3, <2>1
  <2> QED BY <1>1, <1>2, <2>2, <2>3, TextsFact, InkedSeen
<1>7. CASE ml
  <2>1. Taken(w) = 1
    BY <1>3 DEF Taken, Largest
  <2>2. (plen + 0) \div Cols = 0 /\ (plen + 0) % Cols = plen
    <3>1. PICK C \in Nat \ {0} : \E r \in 0 .. C - 1 : C = Cols /\ r = plen
      BY <1>2
    <3>11. PICK r \in 0 .. C - 1 : r = plen
      BY <3>1
    <3>2. 0 \in Nat /\ 0 * C + r = r
      OBVIOUS
    <3>3. (0 * C + r) \div C = 0 /\ (0 * C + r) % C = r
      BY <3>2, DivUnique
    <3> QED BY <3>1, <3>11, <3>2, <3>3
  <2>3. MultiAt(w, 1, 0)
    BY <1>3, <2>1, <2>2 DEF MultiAt
  <2>4. plen + Len(<< >>) <= Taken(w) * Cols
    BY <1>2, <1>4, <2>1
  <2>5. Multi(w, 1, << >>, 0, FALSE)
    BY <1>5, <1>6, <2>3, <2>4 DEF Multi
  <2> QED BY <1>1, <1>3, <1>7, <2>5 DEF ShowsAt
<1>8. CASE ~ml
  <2>1. SingleAt(w, 1, << >>, 0, FALSE, 0)
    <3>1. plen + 0 - 0 = plen /\ ~(0 > 0)
      BY <1>2
    <3> QED BY <1>2, <1>3, <1>5, <1>6, <3>1, Zenon DEF SingleAt
  <2>2. Single(w, 1, << >>, 0, FALSE)
    <3>1. 0 \in 0 .. 0
      OBVIOUS
    <3> QED BY <2>1, <3>1, Zenon DEF Single
  <2> QED BY <1>1, <1>3, <1>8, <2>2 DEF ShowsAt
<1> QED BY <1>7, <1>8

(***************************************************************************)
(* What the screen shows between two keys.                                 *)
(***************************************************************************)
(* The longest line and the cursor behind it end above the last row, from  *)
(* whichever row the call has found the cursor in.                         *)
Fits == Cols + plen + buflen < Rows * Cols

LEMMA FitsFact ==
  ASSUME Fits
  PROVE  1 < Rows /\ \A n \in Nat : n <= buflen => Cols + plen + n < Rows * Cols
<1>1. PICK C \in Nat \ {0}, l \in Nat, R \in Nat, B \in Nat : C = Cols /\ l = plen /\ R = Rows
      /\ B = buflen
  BY ColsFact, BuflenFact
<1>2. PICK a \in Nat : a = R * C
  BY <1>1
<1>3. C + l + B < a
  BY <1>1, <1>2 DEF Fits
<1>4. 1 < R
  <2>1. ASSUME R = 0 PROVE FALSE
    BY <1>2, <1>3, <2>1
  <2>2. ASSUME R = 1 PROVE FALSE
    BY <1>2, <1>3, <2>2
  <2> QED BY <2>1, <2>2
<1> QED BY <1>1, <1>2, <1>3, <1>4

(* The screen shows the line being edited, perhaps just begun and still    *)
(* without its hint, or what completeLine offers.                          *)
Shows(b, p, h) == ShowsAt(view, origin, mlmode, b, p, h)
Current == Shows(buf, pos, hints) \/ (buf = << >> /\ Shows(buf, pos, FALSE))
Offered == IF choice < Len(lc) THEN Shows(lc[choice + 1], Len(lc[choice + 1]), hints)
           ELSE Shows(buf, pos, hints)
Idle == ~Editing /\ pc # "leave"
(* The inductive invariant.                                                *)
ScreenInv ==
  /\ origin \in {0, 1} /\ (Idle => origin = 1 /\ buf = << >> /\ pos = 0)
  /\ cols = Cols =>
       /\ view \in Views
       /\ pc \in {"key", "handle"} => Current
       /\ pc = "choose" => Offered
       /\ pc = "leave" /\ result.status = "entered" => Shows(buf, pos, FALSE)

LEMMA LineFacts ==
  ASSUME LineInv
  PROVE  /\ buf \in Seq(Chars) /\ len = Len(buf) /\ len <= buflen /\ pos \in Nat /\ pos <= Len(buf)
         /\ len \in Nat /\ Len(buf) <= buflen
BY DEF LineInv, LineConsistent

LEMMA OfferFacts ==
  ASSUME LineInv, choice < Len(lc), NEW c, c = lc[choice + 1]
  PROVE  c \in Seq(Chars) /\ Len(c) \in Nat /\ Len(c) <= buflen /\ Left(c, buflen - 1) = c
<1>1. lc \in Seq(Fitting) /\ choice + 1 \in 1 .. Len(lc)
  BY DEF LineInv
<1>2. c \in Fitting
  BY <1>1, ElementOfSeq
<1>3. c \in Seq(Chars) /\ Len(c) <= buflen - 1
  BY <1>2, FittingFact
<1>4. Left(c, buflen - 1) = c
  BY <1>3, BuflenFact, LeftPart
<1> QED BY <1>3, <1>4, BuflenFact, LenProperties

LEMMA CurrentCan ==
  ASSUME LineInv, view \in Views, origin \in {0, 1}, Current \/ Shows(buf, pos, hints)
  PROVE  CanShow(view, origin, mlmode)
<1>1. PICK h : Shows(buf, pos, h)
  BY DEF Current
<1> QED BY <1>1, LineFacts, ShownCan DEF Shows

LEMMA OfferedCan ==
  ASSUME LineInv, view \in Views, origin \in {0, 1}, Offered
  PROVE  CanShow(view, origin, mlmode)
<1>1. CASE choice < Len(lc)
  <2>1. PICK c : c = lc[choice + 1] /\ c \in Seq(Chars) /\ Len(c) \in Nat
    BY <1>1, OfferFacts
  <2>2. ShowsAt(view, origin, mlmode, c, Len(c), hints)
    BY <1>1, <2>1 DEF Offered, Shows
  <2> QED BY <2>1, <2>2, ShownCan
<1>2. CASE ~(choice < Len(lc))
  BY <1>2, CurrentCan DEF Offered
<1> QED BY <1>1, <1>2

LEMMA RefreshedShows ==
  ASSUME Fits, cols = Cols, NEW v, NEW o, CanShow(v, o, mlmode),
         NEW b \in Seq(Chars), Len(b) <= buflen, NEW n, n = Len(b), NEW p \in Nat, p <= Len(b),
         NEW w, w = Refreshed(v, b, n, p)
  PROVE  w \in Views /\ ShowsAt(w, o, mlmode, b, p, hints)
<1>1. w = refreshLine(v, mlmode, Cols, b, Len(b), p, hints)
  BY DEF Refreshed, Screen
<1>2. Cols + plen + Len(b) < Rows * Cols
  BY FitsFact, LenProperties
<1> QED BY <1>1, <1>2, RefreshDoes

(* A key that changes the line or the cursor shows the line again.         *)
Redraws == /\ pc \in {"key", "handle"} /\ pc' = "key" /\ origin' = origin
           /\ \/ buf' = buf /\ pos' = pos /\ view' = view
              \/ view' = Refreshed(view, buf', len', pos')
Quits == /\ pc' = "leave" /\ result'.status # "entered"
         /\ view' = view /\ origin' = origin
Writes(c) == /\ pc \in {"key", "handle"} /\ pc' = "key" /\ origin' = origin
             /\ WrittenAsIs /\ buf' = Inserted(c) /\ pos' = pos + 1
             /\ view' = Screen(Text(view, <<c>>))

LEMMA EditCases ==
  ASSUME Edit
  PROVE  \/ Redraws \/ Quits \/ \E c \in Chars : Writes(c)
         \/ ClearAll \/ completeLine \/ NextChoice \/ CancelChoice
         \/ \E k : AcceptChoice(k) /\ pc' = "handle"
         \/ Enter
<1>1. ASSUME NEW c \in Chars, linenoiseEditInsert(c)
      PROVE  Redraws \/ Writes(c)
  BY <1>1 DEF linenoiseEditInsert, Type, Same, Show, Handled, Kept, Redraws, Writes, line
<1>2. ASSUME NEW c \in Chars, InsertFails(c)
      PROVE  Quits
  BY <1>2 DEF InsertFails, Return, Kept, Quits
<1>3. ASSUME NEW k, NEW p, MoveTo(k, p)
      PROVE  Redraws
  BY <1>3 DEF MoveTo, Press, Same, Show, Handled, Kept, Redraws, line
<1>4. CASE linenoiseEditMoveLeft \/ linenoiseEditMoveRight \/ linenoiseEditMoveHome
           \/ linenoiseEditMoveEnd
  BY <1>3, <1>4
  DEF linenoiseEditMoveLeft, linenoiseEditMoveRight, linenoiseEditMoveHome, linenoiseEditMoveEnd
<1>5. CASE linenoiseEditDelete \/ linenoiseEditBackspace
  BY <1>5 DEF linenoiseEditDelete, Deletion, linenoiseEditBackspace, Press, Same, Show, Handled,
     Kept, Redraws, line
<1>6. CASE linenoiseEditDeletePrevWord \/ SwapCharacters \/ DeleteLine \/ DeleteToEnd
           \/ UnknownEscape
  BY <1>6 DEF linenoiseEditDeletePrevWord, SwapCharacters, DeleteLine, DeleteToEnd, UnknownEscape,
              Press, Same, Show, Handled, Kept, Redraws, line
<1>7. ASSUME NEW k, NEW dir, linenoiseEditHistoryNext(k, dir)
      PROVE  Redraws
  BY <1>7 DEF linenoiseEditHistoryNext, Press, Same, Show, Handled, Redraws, line
<1>8. ASSUME NEW k, AcceptChoice(k)
      PROVE  pc' = "handle" \/ Quits
  BY <1>8 DEF AcceptChoice, Return, Kept, Quits
<1>9. CASE EndOfInput \/ CtrlD \/ CtrlC
  BY <1>9 DEF EndOfInput, CtrlD, CtrlC, Return, Kept, Quits
<1> QED BY <1>1, <1>2, <1>4, <1>5, <1>6, <1>7, <1>8, <1>9 DEF Edit
LEMMA RedrawsShows ==
  ASSUME Fits, LineInv, LineInv', cols = Cols, view \in Views, origin \in {0, 1}, Current, Redraws,
         UNCHANGED <<mlmode, hints>>
  PROVE  view' \in Views /\ Current'
<1>1. CASE buf' = buf /\ pos' = pos /\ view' = view
  BY <1>1 DEF Current, Shows, Redraws
<1>2. CASE view' = Refreshed(view, buf', len', pos')
  <2>1. /\ buf' \in Seq(Chars) /\ len' = Len(buf') /\ Len(buf') <= buflen
        /\ pos' \in Nat /\ pos' <= Len(buf')
    BY DEF LineInv, LineConsistent
  <2>2. CanShow(view, origin, mlmode)
    BY CurrentCan
  <2>3. view' \in Views /\ ShowsAt(view', origin, mlmode, buf', pos', hints)
    BY <1>2, <2>1, <2>2, RefreshedShows
  <2> QED BY <2>3 DEF Current, Shows, Redraws
<1> QED BY <1>1, <1>2 DEF Redraws

LEMMA WritesShows ==
  ASSUME LineInv, cols = Cols, view \in Views, origin \in {0, 1}, Current, hints \in BOOLEAN,
         NEW c \in Chars, Writes(c), UNCHANGED <<mlmode, hints>>
  PROVE  view' \in Views /\ Current'
<1>1. /\ pos = Len(buf) /\ ~mlmode /\ hints = FALSE /\ plen + Len(buf) + 1 < Cols
      /\ buf' = SubSeq(buf, 1, Len(buf)) \o <<c>> \o SubSeq(buf, Len(buf) + 1, Len(buf))
      /\ view' = Text(view, <<c>>) /\ pos' = Len(buf) + 1
  BY LineFacts DEF Writes, WrittenAsIs, Inserted, Screen
<1>2. Single(view, origin, buf, Len(buf), FALSE)
  BY <1>1 DEF Current, Shows, ShowsAt
<1>3. view' \in Views /\ Single(view', origin, buf', Len(buf) + 1, FALSE)
  BY <1>1, <1>2, LineFacts, AsIsShows
<1>4. Shows(buf, pos, hints)'
  BY <1>1, <1>3 DEF Shows, ShowsAt, Writes
<1> QED BY <1>3, <1>4 DEF Current

LEMMA ClearAllShows ==
  ASSUME Fits, LineInv, cols = Cols, view \in Views, origin \in {0, 1}, Current, ClearAll,
         UNCHANGED <<mlmode, hints>>
  PROVE  view' \in Views /\ Current' /\ origin' = 0
<1>1. CanShow(view, origin, mlmode)
  BY CurrentCan
<1>2. CanShow(ClearScreen(view), 0, mlmode)
  BY <1>1, ClearScreenDoes
<1>3. view' = Refreshed(ClearScreen(view), buf, len, pos) /\ origin' = 0 /\ buf' = buf /\ pos' = pos
  BY DEF ClearAll, line
<1>4. view' \in Views /\ ShowsAt(view', 0, mlmode, buf, pos, hints)
  BY <1>2, <1>3, LineFacts, RefreshedShows
<1> QED BY <1>3, <1>4 DEF Current, Shows

LEMMA NextIndex ==
  ASSUME NEW k \in Nat, NEW m \in Nat, k < m
  PROVE  k + 1 \in 1 .. m
OBVIOUS

LEMMA ChoiceShows ==
  ASSUME Fits, LineInv, LineInv', cols = Cols, view \in Views, origin \in {0, 1},
         CanShow(view, origin, mlmode), view' = Shown(choice'),
         UNCHANGED <<line, mlmode, hints, origin>>
  PROVE  view' \in Views /\ Offered'
<1>0. buf' = buf /\ pos' = pos /\ len' = len
  BY DEF line
<1>1. CASE choice' < Len(lc')
  <2>1. PICK c : c = lc'[choice' + 1] /\ c \in Seq(Chars) /\ Len(c) \in Nat /\ Len(c) <= buflen
    <3>0. lc' \in Seq(Fitting) /\ choice' \in Nat
      BY DEF LineInv
    <3>01. Len(lc') \in Nat
      BY <3>0, LenProperties
    <3>1. lc' \in Seq(Fitting) /\ choice' + 1 \in 1 .. Len(lc')
      BY <1>1, <3>0, <3>01, NextIndex, Zenon
    <3>2. PICK c \in Fitting : c = lc'[choice' + 1]
      BY <3>1, ElementOfSeq
    <3>3. c \in Seq(Chars) /\ Len(c) <= buflen - 1
      BY FittingFact
    <3>4. Len(c) \in Nat /\ Len(c) <= buflen
      BY <3>3, BuflenFact, LenProperties
    <3> QED BY <3>2, <3>3, <3>4
  <2>2. view' = Refreshed(view, c, Len(c), Len(c))
    BY <1>1, <2>1 DEF Shown
  <2>3. view' \in Views /\ ShowsAt(view', origin, mlmode, c, Len(c), hints)
    BY <2>1, <2>2, RefreshedShows
  <2> QED BY <1>1, <2>1, <2>3 DEF Offered, Shows
<1>2. CASE ~(choice' < Len(lc'))
  <2>1. view' = Refreshed(view, buf, len, pos)
    BY <1>2 DEF Shown
  <2>2. view' \in Views /\ ShowsAt(view', origin, mlmode, buf, pos, hints)
    BY <2>1, LineFacts, RefreshedShows
  <2> QED BY <1>0, <1>2, <2>2 DEF Offered, Shows
<1> QED BY <1>1, <1>2

LEMMA CancelShows ==
  ASSUME Fits, LineInv, cols = Cols, view \in Views, origin \in {0, 1}, Offered, CancelChoice,
         UNCHANGED <<mlmode, hints>>
  PROVE  view' \in Views /\ Current' /\ origin' = origin
<1>1. /\ origin' = origin /\ buf' = buf /\ pos' = pos
      /\ view' = IF choice < Len(lc) THEN Refreshed(view, buf, len, pos) ELSE view
  BY DEF CancelChoice, Choosing, Kept, line
<1>2. view' \in Views /\ ShowsAt(view', origin, mlmode, buf, pos, hints)
  <2>1. CASE choice < Len(lc)
    <3>1. view' = Refreshed(view, buf, len, pos)
      BY <1>1, <2>1
    <3> QED BY <3>1, LineFacts, OfferedCan, RefreshedShows
  <2>2. CASE ~(choice < Len(lc))
    BY <1>1, <2>2 DEF Offered, Shows
  <2> QED BY <2>1, <2>2
<1> QED BY <1>1, <1>2 DEF Current, Shows

LEMMA AcceptShows ==
  ASSUME LineInv, view \in Views, origin \in {0, 1}, Offered, NEW k, AcceptChoice(k),
         UNCHANGED <<mlmode, hints>>
  PROVE  view' \in Views /\ Current' /\ origin' = origin
<1>1. view' = view /\ origin' = origin
  BY DEF AcceptChoice, Kept
<1>2. CASE choice < Len(lc)
  <2>1. PICK c : c = lc[choice + 1]
    OBVIOUS
  <2>2. buf' = c /\ pos' = Len(c)
    BY <1>2, <2>1, OfferFacts DEF AcceptChoice
  <2>3. ShowsAt(view, origin, mlmode, c, Len(c), hints)
    BY <1>2, <2>1 DEF Offered, Shows
  <2> QED BY <1>1, <2>2, <2>3 DEF Current, Shows
<1>3. CASE ~(choice < Len(lc))
  <2>1. buf' = buf /\ pos' = pos
    BY <1>3 DEF AcceptChoice, line
  <2> QED BY <1>1, <1>3, <2>1 DEF Offered, Current, Shows
<1> QED BY <1>2, <1>3

LEMMA EnterShows ==
  ASSUME Fits, LineInv, cols = Cols, view \in Views, origin \in {0, 1}, Current, hints \in BOOLEAN,
         Enter, UNCHANGED mlmode
  PROVE  view' \in Views /\ Shows(buf, pos, FALSE)' /\ origin' = origin
<1>1. PICK moved : moved = IF pos' # pos THEN Refreshed(view, buf, len, pos') ELSE view
  OBVIOUS
<1>2. /\ origin' = origin /\ buf' = buf /\ pos' = (IF mlmode THEN len ELSE pos)
      /\ view' = IF hints
         THEN Screen(refreshLine(moved, mlmode, cols, buf, len, pos', FALSE)) ELSE moved
  BY <1>1 DEF Enter
<1>3. pos' \in Nat /\ pos' <= Len(buf)
  BY <1>2, LineFacts
<1>4. moved \in Views /\ \E h : ShowsAt(moved, origin, mlmode, buf, pos', h) 
                              /\ (~hints => h = FALSE)
  <2>1. CASE pos' # pos
    <3>1. moved = Refreshed(view, buf, len, pos')
      BY <1>1, <2>1
    <3>2. moved \in Views /\ ShowsAt(moved, origin, mlmode, buf, pos', hints)
      BY <1>3, <3>1, CurrentCan, LineFacts, RefreshedShows
    <3> QED BY <3>2
  <2>2. CASE pos' = pos
    BY <1>1, <2>2 DEF Current, Shows
  <2> QED BY <2>1, <2>2
<1>5. CASE hints
  <2>1. CanShow(moved, origin, mlmode)
    BY <1>3, <1>4, LineFacts, ShownCan
  <2>2. view' = refreshLine(moved, mlmode, Cols, buf, Len(buf), pos', FALSE)
    BY <1>2, <1>5, LineFacts DEF Screen
  <2>3. Cols + plen + Len(buf) < Rows * Cols
    BY FitsFact, LineFacts
  <2>4. view' \in Views /\ ShowsAt(view', origin, mlmode, buf, pos', FALSE)
    BY <1>3, <2>1, <2>2, <2>3, LineFacts, RefreshDoes
  <2> QED BY <1>2, <2>4 DEF Shows
<1>6. CASE ~hints
  BY <1>2, <1>4, <1>6 DEF Shows
<1> QED BY <1>5, <1>6

LEMMA EditKeepsScreen ==
  ASSUME Fits, IInv, OtherInv, ScreenInv, Edit
  PROVE  ScreenInv'
<1>1. /\ LineInv /\ LineInv' /\ UNCHANGED <<mlmode, hints>> /\ hints \in BOOLEAN
      /\ pc' \in {"key", "handle", "choose", "leave"}
  BY EditKeepsLine, EditKeepsOther DEF IInv, OtherInv
<1>2. cols' = cols
  BY DEF Edit, linenoiseEditInsert, InsertFails, linenoiseEditMoveLeft,
         linenoiseEditMoveRight, linenoiseEditMoveHome, linenoiseEditMoveEnd, MoveTo,
         linenoiseEditDelete, linenoiseEditBackspace, linenoiseEditDeletePrevWord,
         SwapCharacters, DeleteLine, DeleteToEnd, ClearAll, UnknownEscape,
         linenoiseEditHistoryNext, completeLine, NextChoice, CancelChoice, AcceptChoice,
         EndOfInput, Enter, CtrlD, CtrlC, Handled, Choosing, settings
<1>3. ~Idle'
  BY <1>1 DEF Idle, Editing
<1>4. origin' \in {0, 1}
  <2>1. origin' = origin \/ ClearAll
    BY EditCases
    DEF Redraws, Quits, Writes, completeLine, NextChoice, CancelChoice, AcceptChoice, Enter,
                     Choosing, Kept
  <2> QED BY <2>1 DEF ScreenInv, ClearAll
<1>5. SUFFICES ASSUME cols = Cols
               PROVE  /\ view' \in Views
                      /\ pc' \in {"key", "handle"} => Current'
                      /\ pc' = "choose" => Offered'
                      /\ pc' = "leave" /\ result'.status = "entered" => Shows(buf, pos, FALSE)'
  BY <1>2, <1>3, <1>4 DEF ScreenInv
<1>6. /\ view \in Views /\ origin \in {0, 1} /\ (pc \in {"key", "handle"} => Current)
      /\ (pc = "choose" => Offered)
  BY <1>5 DEF ScreenInv
<1>7. CASE Redraws
  BY <1>1, <1>5, <1>6, <1>7, RedrawsShows DEF Redraws
<1>8. CASE Quits
  BY <1>6, <1>8 DEF Quits
<1>9. CASE \E c \in Chars : Writes(c)
  BY <1>1, <1>5, <1>6, <1>9, WritesShows DEF Writes
<1>10. CASE ClearAll
  <2>1. Current /\ pc' = "key"
    BY <1>6, <1>10 DEF ClearAll, Press, Handled
  <2> QED BY <1>1, <1>5, <1>6, <1>10, <2>1, ClearAllShows
<1>11. CASE completeLine
  <2>1. Current /\ UNCHANGED <<line, origin, result>> /\ pc' \in {"key", "choose"}
    BY <1>6, <1>11 DEF completeLine, Choosing, Kept
  <2>2. CASE lc' = << >>
    <3>1. pc' = "key" /\ view' = view /\ buf' = buf /\ pos' = pos
      BY <1>11, <2>1, <2>2 DEF completeLine, line
    <3> QED BY <1>1, <1>6, <2>1, <3>1 DEF Current, Shows
  <2>3. CASE lc' # << >>
    <3>1. pc' = "choose" /\ view' = Shown(choice')
      BY <1>11, <2>3 DEF completeLine
    <3>2. view' \in Views /\ Offered'
      BY <1>1, <1>5, <1>6, <2>1, <3>1, CurrentCan, ChoiceShows
    <3> QED BY <3>1, <3>2
  <2> QED BY <2>2, <2>3
<1>12. CASE NextChoice
  <2>1. Offered /\ UNCHANGED <<line, origin>> /\ pc' = "choose" /\ view' = Shown(choice')
    BY <1>6, <1>12 DEF NextChoice, Choosing, Kept
  <2>2. view' \in Views /\ Offered'
    BY <1>1, <1>5, <1>6, <2>1, OfferedCan, ChoiceShows
  <2> QED BY <2>1, <2>2
<1>13. CASE CancelChoice
  <2>1. Offered /\ pc' = "handle"
    BY <1>6, <1>13 DEF CancelChoice
  <2> QED BY <1>1, <1>5, <1>6, <1>13, <2>1, CancelShows
<1>14. CASE \E k : AcceptChoice(k) /\ pc' = "handle"
  <2>1. PICK k : AcceptChoice(k) /\ pc' = "handle"
    BY <1>14
  <2>2. Offered
    BY <1>6, <2>1 DEF AcceptChoice
  <2> QED BY <1>1, <1>6, <2>1, <2>2, AcceptShows
<1>15. CASE Enter
  <2>1. Current /\ pc' = "leave"
    BY <1>6, <1>15 DEF Enter, Press, Return
  <2> QED BY <1>1, <1>5, <1>6, <1>15, <2>1, EnterShows
<1> QED BY <1>7, <1>8, <1>9, <1>10, <1>11, <1>12, <1>13, <1>14, <1>15, EditCases

LEMMA InitScreen == Fits /\ Init => ScreenInv
<1> SUFFICES ASSUME Fits, Init PROVE ScreenInv
  OBVIOUS
<1>1. FreshView \in Views
  BY FitsFact, StartShows
<1>2. pc = "out" /\ origin = 1 /\ buf = << >> /\ pos = 0 /\ view = FreshView
  BY DEF Init
<1> QED BY <1>1, <1>2 DEF ScreenInv

(* The terminal has the width that is assumed of one that does not answer, *)
(* and the cursor was left at its right margin when the width was asked.   *)
MarginLeft == pc = "start" /\ pc' = "key" /\ cols' = Cols /\ view' # Text(FreshView, Prompt)

LEMMA NextScreen == Fits /\ IInv /\ OtherInv /\ ScreenInv /\ [Next]_vars /\ [~MarginLeft]_vars
=> ScreenInv'
<1> SUFFICES ASSUME Fits, IInv, OtherInv, ScreenInv, [Next]_vars, [~MarginLeft]_vars
             PROVE  ScreenInv'
  OBVIOUS
<1>1. CASE EditKey
  BY <1>1, EditKeepsScreen DEF EditKey
<1>2. CASE linenoiseEdit
  <2>1. pc = "start" /\ origin = 1 /\ buf = << >> /\ pos = 0 /\ Idle
    BY <1>2 DEF linenoiseEdit, ScreenInv, Idle, Editing
  <2>2. origin' = 1 /\ buf' = << >> /\ pos' = 0 /\ mlmode' = mlmode /\ pc' \in {"key", "leave"}
        /\ (pc' = "leave" => result'.status = "failed")
    BY <1>2, <2>1 DEF linenoiseEdit, line, Return
  <2>3. PICK answer \in getColumns :
          /\ cols' = answer.cols
          /\ \/ view' = Text(answer.view, Prompt) /\ pc' = "key"
             \/ view' = answer.view /\ pc' = "leave"
    BY <1>2 DEF linenoiseEdit, Return
  <2>4. CASE cols' = Cols
    <3>1. FreshView \in Views /\ Text(FreshView, Prompt) \in Views
          /\ ShowsAt(Text(FreshView, Prompt), 1, mlmode, << >>, 0, FALSE)
      BY FitsFact, StartShows
    <3>2. Forward(FreshView, Cols) \in Views
      <4>1. FreshView.col = 0 /\ Cols \in Nat \ {0, 1}
        BY ColsFact DEF FreshView
      <4>2. Forward(FreshView, Cols) = [FreshView EXCEPT !.col = Cols - 1]
        BY <4>1 DEF Forward, Least, Largest
      <4> QED BY <3>1, <4>1, <4>2 DEF Views
    <3>3. CASE pc' = "key"
      <4>1. view' = Text(FreshView, Prompt)
        BY <2>1, <2>4, <3>3 DEF MarginLeft, vars, editor
      <4> QED BY <2>2, <2>4, <3>1, <3>3, <4>1 DEF ScreenInv, Current, Shows, Idle, Editing
    <3>4. CASE pc' = "leave"
      <4>1. view' = answer.view
        BY <2>3, <3>4
      <4>2. answer.view \in {FreshView, Forward(FreshView, Cols)}
        BY <2>3 DEF getColumns
      <4> QED BY <2>2, <3>1, <3>2, <3>4, <4>1, <4>2 DEF ScreenInv, Idle, Editing
    <3> QED BY <2>2, <3>3, <3>4
  <2>5. CASE cols' # Cols
    BY <2>2, <2>5 DEF ScreenInv, Idle, Editing
  <2> QED BY <2>4, <2>5
<1>3. CASE Leave \/ linenoiseAtExit
  <2>1. FreshView \in Views
    BY FitsFact, StartShows
  <2>2. pc' \in {"out", "exited"} /\ origin' = 1 /\ buf' = << >> /\ pos' = 0 /\ view' = FreshView
    BY <1>3 DEF Leave, linenoiseAtExit, Forget
  <2> QED BY <2>1, <2>2 DEF ScreenInv
<1>4. CASE UNCHANGED vars
  BY <1>4
  DEF vars, editor, line, complete, settings, ScreenInv, Idle, Editing, Current, Offered, Shows
<1>5. CASE Idle /\ Idle' /\ UNCHANGED <<view, cols, origin, buf, pos>>
  BY <1>5 DEF ScreenInv, Idle, Editing
<1>6. \/ EditKey \/ linenoiseEdit \/ Leave \/ linenoiseAtExit \/ UNCHANGED vars
      \/ Idle /\ Idle' /\ UNCHANGED <<view, cols, origin, buf, pos>>
  <2>1. CASE linenoiseRaw \/ DumbLine \/ linenoisePrintKeyCodes
    BY <2>1
    DEF linenoiseRaw, DumbLine, linenoisePrintKeyCodes, Outside, enableRawMode, Idle, Editing, line
  <2>2. CASE linenoiseNoTTY \/ Grow \/ FileChar
    BY <2>2 DEF linenoiseNoTTY, Grow, FileChar, Reading, Answer, Idle, Editing, line, settings
  <2>3. CASE KeyCode
    BY <2>3 DEF KeyCode, Idle, Editing, line, settings
  <2>4. CASE linenoiseHistoryAdd \/ linenoiseHistorySetMaxLen \/ linenoiseSetMultiLine
               \/ linenoiseSetHintsCallback \/ linenoiseHistorySave
    BY <2>4 DEF linenoiseHistoryAdd, linenoiseHistorySetMaxLen, linenoiseSetMultiLine,
                linenoiseSetHintsCallback, linenoiseHistorySave, Between, Outside, Idle, Editing,
                line
  <2>5. CASE linenoiseHistoryLoad \/ LoadDone
    BY <2>5 DEF linenoiseHistoryLoad, LoadDone, Loading, Idle, Editing, line, settings
  <2>6. CASE Ended
    BY <2>6 DEF Ended
  <2> QED BY <2>1, <2>2, <2>3, <2>4, <2>5, <2>6 DEF Next
<1> QED BY <1>1, <1>2, <1>3, <1>4, <1>5, <1>6

(***************************************************************************)
(* Whenever a key is awaited, and when a line has been entered, the screen *)
(* shows the line with the cursor at its place, and what linenoise did not *)
(* write is as it was: every refresh, move and completion cleans up after  *)
(* the one before.  In both modes, for every width, prompt, hint and line  *)
(* that the screen has room for (the modelled terminal does not scroll),   *)
(* unless the terminal did not answer and was left with the cursor at its  *)
(* right margin.                                                           *)
(***************************************************************************)
THEOREM ScreenShowsLine ==
  ASSUME Fits
  PROVE  Spec /\ [][~MarginLeft]_vars => []ScreenShows
<1>1. IInv /\ ScreenInv => ScreenShows
  <2> SUFFICES ASSUME IInv, ScreenInv, cols = Cols PROVE ScreenShows
    BY DEF ScreenShows
  <2>1. /\ view \in Views /\ origin \in {0, 1} /\ LineInv
        /\ (pc \in {"key", "handle"} => Current) /\ (pc = "choose" => Offered)
        /\ (pc = "leave" /\ result.status = "entered" => Shows(buf, pos, FALSE))
    BY DEF ScreenInv, IInv
  <2>2. ASSUME NEW h, Shows(buf, pos, h)
        PROVE  ShowsLine(view, origin, mlmode, buf, pos, h, Above)
    BY <2>1, <2>2, LineFacts, ShowsIt DEF Shows
  <2>3. ASSUME choice < Len(lc), Shows(lc[choice + 1], Len(lc[choice + 1]), hints)
        PROVE  ShowsLine(view, origin, mlmode, lc[choice + 1], Len(lc[choice + 1]), hints, Above)
    <3>1. PICK c : c = lc[choice + 1] /\ c \in Seq(Chars) /\ Len(c) \in Nat
      BY <2>1, <2>3, OfferFacts
    <3>2. ShowsAt(view, origin, mlmode, c, Len(c), hints)
      BY <2>3, <3>1 DEF Shows
    <3> QED BY <2>1, <3>1, <3>2, ShowsIt
  <2> QED BY <2>1, <2>2, <2>3 DEF Current, Offered, ScreenShows
<1>2. Init => ScreenInv
  BY InitScreen
<1>3. IInv /\ OtherInv /\ ScreenInv /\ [Next]_vars /\ [~MarginLeft]_vars => ScreenInv'
  BY NextScreen
<1> QED BY <1>1, <1>2, <1>3, Invariance, OtherInvariance, PTL DEF Spec

(***************************************************************************)
(* If the assumed width is not that of the terminal, the screen is followed*)
(* only when the terminal has told its width, and then it always shows the *)
(* line.                                                                   *)
(***************************************************************************)
THEOREM ToldWidthShowsLine ==
  ASSUME Fits, DefaultCols # Cols
  PROVE  Spec => []ScreenShows
<1>1. IInv /\ OtherInv /\ [Next]_vars => [~MarginLeft]_vars
  <2> SUFFICES ASSUME IInv, OtherInv, Next, MarginLeft PROVE FALSE
    OBVIOUS
  <2>1. ~EditKey
    <3>1. ASSUME Edit PROVE FALSE
      <4>1. CASE \E k : AcceptChoice(k) /\ pc' = "handle"
        BY <4>1 DEF MarginLeft
      <4> QED
        BY <3>1, <4>1, EditCases
        DEF MarginLeft, Redraws, Quits, Writes, ClearAll, Press, completeLine, NextChoice,
            CancelChoice, Enter, Choosing, Return
    <3> QED BY <3>1 DEF EditKey
  <2>2. linenoiseEdit
    BY <2>1
    DEF MarginLeft, Next, linenoiseRaw, Leave, DumbLine, linenoiseNoTTY, Grow, FileChar, Outside,
        linenoisePrintKeyCodes, KeyCode, linenoiseHistoryAdd, linenoiseHistorySetMaxLen, Answer,
        linenoiseSetMultiLine, linenoiseSetHintsCallback, linenoiseHistorySave, Between,
        linenoiseHistoryLoad, LoadDone, linenoiseAtExit, Ended
  <2> QED BY <2>2 DEF linenoiseEdit, getColumns, MarginLeft, Return
<1> QED BY <1>1, ScreenShowsLine, Invariance, OtherInvariance, PTL DEF Spec
=============================================================================
