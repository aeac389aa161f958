------------------------------ MODULE Futures ------------------------------
(***************************************************************************)
(* Futures of one thread (lib/pure/asyncfutures.nim) and the queue of      *)
(* callbacks that the event loop is to call.  The state s is a record with *)
(* at least                                                                *)
(*   futs    the futures made so far, a future being its place in futs     *)
(*   ready   the dispatcher's callbacks, the next one to call first        *)
(*   order   history: the finished futures, in the order they finished.    *)
(* A future has an answer, "none" until it finishes, and callbacks.  As in *)
(* a release build, a future that is finished twice is not refused.        *)
(***************************************************************************)
EXTENDS Naturals, Sequences

NewFuture(s, future) == [s EXCEPT !.futs = Append(@, future)]
Finished(s, f) == s.futs[f].answer # "none"
Failed(s, f)   == s.futs[f].answer = "failed"

(* Mutant: what is scheduled last is called first.                         *)
Schedule_First(s, cbs) == [s EXCEPT !.ready = cbs \o @]
Schedule(s, cbs) == [s EXCEPT !.ready = @ \o cbs]
callSoon(s, cb)  == Schedule(s, <<cb>>)

(* Mutant: the list of callbacks stays after they have been scheduled.     *)
Finish_Kept(s, f, answer) ==
  Schedule([s EXCEPT !.futs[f].answer = answer, !.order = Append(@, f)], s.futs[f].callbacks)
(* complete and fail: the future gets its answer and its callbacks are     *)
(* scheduled, in the order they were added, and forgotten.                 *)
Finish(s, f, answer) ==
  Schedule([s EXCEPT !.futs[f] = [@ EXCEPT !.answer = answer, !.callbacks = << >>],
                     !.order = Append(@, f)], s.futs[f].callbacks)

addCallback(s, f, cb) ==
  IF Finished(s, f) THEN callSoon(s, cb) ELSE [s EXCEPT !.futs[f].callbacks = Append(@, cb)]

(* `callback=`: whoever added a callback before is forgotten.              *)
setCallback(s, f, cb) == addCallback([s EXCEPT !.futs[f].callbacks = << >>], f, cb)
=============================================================================
