------------------------------ MODULE SnWindow ------------------------------
(***************************************************************************)
(* The reorder window of src/src/transport/utils.c as it is stored: words  *)
(* of bits, shifted when the high-water mark advances.  It implements the  *)
(* set of distances of SeqNum (SetWindow), and that set says the right     *)
(* thing about the unwrapped sequence numbers (Judged).                    *)
(*                                                                         *)
(* The environment numbers frames 0, 1, 2, ... and may deliver each of     *)
(* them any number of times, in any order, as long as it stays within half *)
(* the number space of the newest one delivered.                           *)
(***************************************************************************)
EXTENDS SeqNum, Sequences

CONSTANTS Size,      \* Z_BEST_EFFORT_REORDER_WINDOW
          WordBits,  \* _Z_SN_WINDOW_WORD_BITS
          MaxNum     \* bound on the frames

ASSUME SnWindowAssumption ==
    /\ Size \in Nat \ {0} /\ WordBits \in Nat \ {0} /\ MaxNum \in Nat

Words == (Size + WordBits - 1) \div WordBits

VARIABLES high,      \* _high_water
          seenWords, \* _seen
          newest,    \* the unwrapped number of high
          delivered, \* history: recent numbers accepted since the last reset
          judged     \* history: the last number observed and the verdict

windowVars == <<high, seenWords, newest, delivered, judged>>

Pow2[n \in Nat] == IF n = 0 THEN 1 ELSE 2 * Pow2[n - 1]

Bit(word, n) == (word \div Pow2[n]) % 2

WindowContains(s, distance) == Bit(s[distance \div WordBits], distance % WordBits) = 1

Mark(s, distance) ==
    [s EXCEPT ![distance \div WordBits] =
        IF WindowContains(s, distance) THEN @ ELSE @ + Pow2[distance % WordBits]]

NoneSeen == [w \in 0 .. Words - 1 |-> 0]

\* Mutant: the bits that leave a word are lost.
ShiftNoCarry(s, distance) ==
    LET words == distance \div WordBits
        bits  == distance % WordBits
    IN  [w \in 0 .. Words - 1 |->
            IF w < words THEN 0 ELSE (s[w - words] * Pow2[bits]) % Pow2[WordBits]]

Shift(s, distance) ==
    LET words == distance \div WordBits
        bits  == distance % WordBits
    IN  [w \in 0 .. Words - 1 |->
            IF w < words THEN 0
            ELSE ((s[w - words] * Pow2[bits]) % Pow2[WordBits])
                 + IF bits # 0 /\ w # words
                   THEN s[w - words - 1] \div Pow2[WordBits - bits] ELSE 0]

\* The last word keeps the bits below Size only.
Trim(s) ==
    [s EXCEPT ![Words - 1] = @ % Pow2[WordBits - (Words * WordBits - Size)]]

AdvanceWords(s, distance) == IF distance >= Size THEN NoneSeen ELSE Trim(Shift(s, distance))

\* Mutant: the newest number itself is not marked.
ObserveUnmarked(h, s, sn) ==
    LET behind == Distance(SnRes, sn, h)
    IN  CASE Precedes(SnRes, h, sn) ->
                <<"ahead", sn, AdvanceWords(s, Distance(SnRes, h, sn))>>
          [] ~Precedes(SnRes, h, sn) /\ behind >= Capacity(SnRes, Size) -> <<"tooOld", h, s>>
          [] OTHER -> IF WindowContains(s, behind) THEN <<"duplicate", h, s>>
                      ELSE <<"reordered", h, Mark(s, behind)>>

\* _z_sn_window_observe: the verdict, and the new high-water mark and words.
ObserveWords(h, s, sn) ==
    LET behind == Distance(SnRes, sn, h)
    IN  CASE Precedes(SnRes, h, sn) ->
                <<"ahead", sn, Mark(AdvanceWords(s, Distance(SnRes, h, sn)), 0)>>
          [] ~Precedes(SnRes, h, sn) /\ behind >= Capacity(SnRes, Size) -> <<"tooOld", h, s>>
          [] OTHER -> IF WindowContains(s, behind) THEN <<"duplicate", h, s>>
                      ELSE <<"reordered", h, Mark(s, behind)>>

-----------------------------------------------------------------------------
NoVerdict == [num |-> 0, verdict |-> "none", fresh |-> TRUE, behind |-> 0]

\* _z_transport_peer_unicast_add: the number before the first one.
WindowInit ==
    /\ newest = SnRes + InitialSn /\ high = Decrement(SnRes, InitialSn)
    /\ seenWords = NoneSeen /\ delivered = {} /\ judged = NoVerdict

Arrives(n) ==
    LET o == ObserveWords(high, seenWords, n % (SnRes + 1))
    IN  /\ n - newest <= Half(SnRes) /\ newest - n <= Half(SnRes)
        /\ high' = o[2] /\ seenWords' = o[3]
        /\ newest' = IF o[1] = "ahead" THEN n ELSE newest
        /\ delivered' = {m \in IF o[1] \in {"ahead", "reordered"} THEN delivered \cup {n}
                               ELSE delivered : newest' - m <= Half(SnRes)}
        /\ judged' = [num |-> n, verdict |-> o[1], fresh |-> n \notin delivered,
                      behind |-> newest - n]

\* _z_sn_window_reset, for a fragment that is ahead.
Reset(n) ==
    /\ n > newest /\ n - newest <= Half(SnRes)
    /\ high' = n % (SnRes + 1) /\ seenWords' = NoneSeen /\ newest' = n
    /\ delivered' = {} /\ judged' = NoVerdict

WindowNext == \E n \in 0 .. MaxNum : Arrives(n) \/ Reset(n)

WindowSpec == WindowInit /\ [][WindowNext]_windowVars

-----------------------------------------------------------------------------
(* Properties.                                                             *)

\* A frame is accepted exactly when it was not accepted before and is not older
\* than the window, across words, wrap-around of the numbers and jumps of any
\* length up to half the number space.
Judged ==
    LET j == judged
    IN  j.verdict # "none" =>
            (j.verdict \in {"ahead", "reordered"} <=>
                j.behind < 0 \/ (j.behind < Capacity(SnRes, Size) /\ j.fresh))

\* The words are the set of distances: every step of the words is the step of
\* SeqNum's window.
SeenSet(s) == {d \in 0 .. Size - 1 : WindowContains(s, d)}

SetWindowStep ==
    LET before == [high |-> high, seen |-> SeenSet(seenWords)]
        after  == [high |-> high', seen |-> SeenSet(seenWords')]
    IN  after = IF judged'.verdict = "none" THEN ResetWindow(high')
                ELSE Observe(before, SnRes, Size, judged'.num % (SnRes + 1))

SetWindow == [][SetWindowStep]_windowVars
=============================================================================
