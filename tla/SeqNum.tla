------------------------------- MODULE SeqNum -------------------------------
(***************************************************************************)
(* Sequence numbers and the reorder window of src/src/transport/utils.c.   *)
(*                                                                         *)
(* The resolution res is 2^k - 1 in the code, so "& res" is "% (res + 1)". *)
(* The window is kept as the set of the distances below its high-water     *)
(* mark that were seen; SnWindow shows that the words of bits in the code  *)
(* implement it.                                                           *)
(***************************************************************************)
EXTENDS Integers, FiniteSets

CONSTANTS SnRes,     \* _sn_res, agreed on in the handshake
          InitialSn  \* the first number of a channel

ASSUME SeqNumAssumption == SnRes \in Nat \ {0} /\ InitialSn \in 0 .. SnRes

Half(res) == res \div 2

Distance(res, from, to) == (to - from) % (res + 1)

Precedes(res, left, right) == Distance(res, left, right) \in 1 .. Half(res)

Consecutive(res, left, right) == Distance(res, left, right) = 1

Increment(res, sn) == (sn + 1) % (res + 1)

Decrement(res, sn) == (sn - 1) % (res + 1)

-----------------------------------------------------------------------------
(* The window: [high, seen], where seen \subseteq 0 .. size - 1.            *)

Capacity(res, size) == IF Half(res) + 1 < size THEN Half(res) + 1 ELSE size

ResetWindow(high) == [high |-> high, seen |-> {}]

Advance(seen, distance, size) == {d + distance : d \in seen} \cap (0 .. size - 1)

\* What _z_sn_window_observe returns for a number ...
Verdict(win, res, size, sn) ==
    LET behind == Distance(res, sn, win.high)
    IN  CASE Precedes(res, win.high, sn)    -> "ahead"
          [] OTHER -> IF behind >= Capacity(res, size) THEN "tooOld"
                      ELSE IF behind \in win.seen THEN "duplicate" ELSE "reordered"

\* ... and the window it leaves.
Observe(win, res, size, sn) ==
    CASE Verdict(win, res, size, sn) = "ahead" ->
             [high |-> sn,
              seen |-> {0} \cup Advance(win.seen, Distance(res, win.high, sn), size)]
      [] Verdict(win, res, size, sn) = "reordered" ->
             [win EXCEPT !.seen = @ \cup {Distance(res, sn, win.high)}]
      [] OTHER -> win
=============================================================================
