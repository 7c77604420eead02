----------------------------- MODULE MCSignalFSM -----------------------------
(***************************************************************************)
(* SignalFSM on one symbol: symbols share no state in fsm.py.  The market  *)
(* shows the moments below: each takes advance down a branch of its own,   *)
(* and variants of the strong moments close one gate or raise one alarm    *)
(* while everything else still asks for a promotion.  advance treats both  *)
(* directions alike, so the SHORT side gets the few moments that open,     *)
(* promote, flip and close a signal, and the LONG side gets them all.      *)
(***************************************************************************)
EXTENDS SignalFSM

Quiet ==
  [dir |-> "LONG", fresh |-> TRUE, reject |-> "none", verdict |-> "wait",
   selected |-> FALSE, early |-> FALSE, backed |-> FALSE, score |-> 1,
   ready |-> "trade", sold |-> FALSE, limit |-> FALSE, reversed |-> FALSE,
   crossed |-> FALSE, moved |-> FALSE]

\* The watch gate is open; with score 3 the confirmation gate is too.
Rising == [Quiet EXCEPT !.selected = TRUE, !.backed = TRUE, !.score = 2,
                        !.ready = "deep", !.verdict = "allow"]

Strong == [Rising EXCEPT !.score = 3]

Rejected == [Quiet EXCEPT !.reject = "other", !.verdict = "absent"]

Moments ==
  { Quiet, Rising, Strong, Rejected,
    [Rejected EXCEPT !.fresh = FALSE],
    [Rejected EXCEPT !.reject = "too_late", !.limit = TRUE],
    [Rising EXCEPT !.reject = "too_late", !.verdict = "late"],
    [Quiet EXCEPT !.selected = TRUE],
    [Quiet EXCEPT !.score = 0],
    [Quiet EXCEPT !.limit = TRUE],
    [Quiet EXCEPT !.selected = TRUE, !.early = TRUE],
    [Quiet EXCEPT !.early = TRUE, !.reversed = TRUE],
    [Rising EXCEPT !.limit = TRUE],
    [Rising EXCEPT !.reversed = TRUE],
    [Rising EXCEPT !.verdict = "skip"],
    [Rising EXCEPT !.verdict = "invalidated"],
    [Rising EXCEPT !.ready = "none"],
    [Strong EXCEPT !.early = TRUE],
    [Strong EXCEPT !.backed = FALSE],
    [Strong EXCEPT !.ready = "trade"],
    [Strong EXCEPT !.verdict = "absent"],
    [Strong EXCEPT !.sold = TRUE],
    [Strong EXCEPT !.crossed = TRUE],
    [Strong EXCEPT !.moved = TRUE] }

ShortMoments == {Quiet, Rising, Strong, [Rejected EXCEPT !.fresh = FALSE]}

MCCandidates == Moments \cup {[m EXCEPT !.dir = "SHORT"] : m \in ShortMoments}

ASSUME \A c \in MCCandidates : Coherent(c)

=============================================================================
