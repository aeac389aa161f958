---------------------------- MODULE MCLinenoise ----------------------------
(* A terminal of three columns, two characters, and lines of at most three *)
(* of them: lines scroll, wrap into a second row and fill the buffer.      *)
EXTENDS Linenoise

MCPrompt == <<">">>
MCHint   == <<"h">>
MCOffers == {<< >>, << <<"e", " ">>, <<"e">> >>}
MCInputs == {<< >>, <<"e">>, <<"e", " ", "e">>}

(* Bound: a history that can be browsed comes on a terminal that tells its *)
(* width and restores its modes, without hints and clearing of the screen; *)
(* one of three lines has short lines and no second row.                   *)
Bound  ==
  /\ history_max_len > 1 => /\ ~hints /\ orig_termios # "raw" /\ device = "tty"
                            /\ cols = Cols /\ origin = 1
  /\ history_max_len > 2 => ~mlmode /\ \A i \in 1 .. Len(history) : Len(history[i]) < 2
MCInit == Init /\ Bound
MCSpec == MCInit /\ [][Next /\ Bound']_vars
=============================================================================
