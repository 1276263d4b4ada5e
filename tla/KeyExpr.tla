------------------------------- MODULE KeyExpr -------------------------------
(***************************************************************************)
(* Key expressions: canonization (src/src/session/keyexpr.c) and matching  *)
(* (src/include/zenoh-pico/session/keyexpr_match_template.h).  A key       *)
(* expression is its sequence of chunks, a chunk its sequence of           *)
(* characters; to the matching, "$*" is one symbol.  Pointers into the     *)
(* string are positions of chunks and characters.                          *)
(***************************************************************************)
EXTENDS Integers, Sequences, SequencesExt

Star     == <<"*">>
BigWild  == <<"*", "*">>
LoneStar == <<"$", "*">>

-----------------------------------------------------------------------------
\* __zp_singleify: of consecutive "$*" the first is kept.
Singleify(c) ==
    LET Needle(i)   == i >= 1 /\ i < Len(c) /\ c[i] = "$" /\ c[i + 1] = "*"
        Repeated(i) == Needle(i) /\ Needle(i - 2)
        Keep        == {i \in 1..Len(c) : ~Repeated(i) /\ ~Repeated(i - 1)}
    IN  FoldLeftDomain(LAMBDA kept, i : IF i \in Keep THEN Append(kept, c[i]) ELSE kept, << >>, c)

\* The loop over the characters with in_dollar: the first character that is not
\* allowed after the one before it.
CharStatus(c, i) ==
    LET before == IF i = 1 THEN "/" ELSE c[i - 1]
    IN  CASE c[i] \in {"#", "?"}                      -> "CONTAINS_SHARP_OR_QMARK"
          [] c[i] = "$" /\ before \in {"$", "*"}      -> "DOLLAR_AFTER_DOLLAR_OR_STAR"
          [] c[i] = "*" /\ before # "$"               -> "STARS_IN_CHUNK"
          [] c[i] \notin {"#", "?", "$", "*"} /\ before = "$" -> "CONTAINS_UNBOUND_DOLLAR"
          [] OTHER                                    -> "SUCCESS"

ChunkStatus(c) ==
    LET wrong == SelectInSeq([i \in 1..Len(c) |-> CharStatus(c, i)], LAMBDA s : s # "SUCCESS")
    IN  IF wrong # 0 THEN CharStatus(c, wrong)
        ELSE IF c[Len(c)] = "$" THEN "CONTAINS_UNBOUND_DOLLAR" ELSE "SUCCESS"

\* __zp_canon_prefix: the status and the chunk it stops at.  A chunk of one
\* character is not looked into and leaves in_big_wild as it is.
CanonPrefix(ke) ==
    LET From[k \in 1..Len(ke) + 1, inBigWild \in BOOLEAN] ==
            IF k > Len(ke) THEN [status |-> "SUCCESS", at |-> k]
            ELSE LET c == ke[k]
                     Stop(s) == [status |-> s, at |-> k]
                 IN  CASE c = << >>                 -> Stop("EMPTY_CHUNK")
                       [] Len(c) = 1                -> IF inBigWild /\ c = Star
                                                       THEN Stop("SINGLE_STAR_AFTER_DOUBLE_STAR")
                                                       ELSE From[k + 1, inBigWild]
                       [] c = LoneStar              -> Stop("LONE_DOLLAR_STAR")
                       [] c = BigWild               -> IF inBigWild THEN Stop("DOUBLE_STAR_AFTER_DOUBLE_STAR")
                                                       ELSE From[k + 1, TRUE]
                       [] OTHER                     -> IF ChunkStatus(c) = "SUCCESS" THEN From[k + 1, FALSE]
                                                       ELSE Stop(ChunkStatus(c))
    IN  From[1, FALSE]

IsCanon(ke) == CanonPrefix(ke).status = "SUCCESS"

\* The rest of the string from chunk k, as the loop over its characters sees it.
Joined(ke, k) ==
    FoldLeft(LAMBDA s, c : s \o (IF s = << >> THEN << >> ELSE <<"/">>) \o c, << >>, SubSeq(ke, k, Len(ke)))

\* Mutation: a "**" that was seen is not written before the next chunk.
RewriteChunkForgets(ke, acc, k) ==
    LET c      == ke[k]
        status == IF acc.status = "SUCCESS" THEN ChunkStatus(Joined(ke, k)) ELSE acc.status
    IN  CASE c = << >>                -> [acc EXCEPT !.status = "EMPTY_CHUNK"]
          [] c \in {Star, LoneStar}   -> [acc EXCEPT !.written = Append(@, Star)]
          [] c = BigWild              -> [acc EXCEPT !.bigWild = TRUE]
          [] OTHER                    -> [acc EXCEPT !.status = status, !.written = Append(@, c), !.bigWild = FALSE]

\* The loop of _z_keyexpr_canonize over the chunks after the one it starts at.
\* The characters are looked at up to the end of the string.
RewriteChunk(ke, acc, k) ==
    LET c      == ke[k]
        status == IF acc.status = "SUCCESS" THEN ChunkStatus(Joined(ke, k)) ELSE acc.status
    IN  CASE c = << >>                -> [acc EXCEPT !.status = "EMPTY_CHUNK"]
          [] c \in {Star, LoneStar}   -> [acc EXCEPT !.written = Append(@, Star)]
          [] c = BigWild              -> [acc EXCEPT !.bigWild = TRUE]
          [] OTHER                    ->
                 IF status # "SUCCESS" THEN [acc EXCEPT !.status = status]
                 ELSE [acc EXCEPT !.written = @ \o (IF acc.bigWild THEN <<BigWild>> ELSE << >>) \o <<c>>,
                                  !.bigWild = FALSE]

\* _z_keyexpr_canonize from the chunk it restarts at, "$*" or "**".  It asserts that
\* it is at one of them: without assertions it goes on with the chunk after the "/"
\* where it is, and refuses the expression for the star it will find.
RewriteFrom(ke, start) ==
    LET first == [status |-> "SUCCESS", bigWild |-> ke[start] = BigWild,
                  written |-> IF ke[start] = LoneStar THEN <<Star>> ELSE << >>]
    IN  IF ke[start] \notin {LoneStar, BigWild} THEN [first EXCEPT !.status = "ASSERTION"]
        ELSE FoldLeft(LAMBDA a, k : RewriteChunk(ke, a, k), first, [i \in 1..Len(ke) - start |-> start + i])

Written(front, acc) ==
    [status |-> acc.status, ke |-> front \o acc.written \o (IF acc.bigWild THEN <<BigWild>> ELSE << >>)]

\* It restarts at the chunk "$*", or three characters before a star that was found
\* while in_big_wild: at the "**" before it, or before a chunk of one character.
CanonizeAfter(ke, prefix) ==
    CASE prefix.status = "LONE_DOLLAR_STAR" ->
             Written(SubSeq(ke, 1, prefix.at - 1), RewriteFrom(ke, prefix.at))
      [] prefix.status \in {"SINGLE_STAR_AFTER_DOUBLE_STAR", "DOUBLE_STAR_AFTER_DOUBLE_STAR"} ->
             Written(SubSeq(ke, 1, prefix.at - 2), RewriteFrom(ke, prefix.at - 1))
      [] OTHER -> [status |-> prefix.status, ke |-> ke]

Canonize(raw) ==
    LET ke == [k \in DOMAIN raw |-> Singleify(raw[k])]
    IN  CanonizeAfter(ke, CanonPrefix(ke))
-----------------------------------------------------------------------------
(* Matching (_z_keyexpr_intersects and _z_keyexpr_includes) of canonical   *)
(* key expressions: from the front up to the first "**", then from the     *)
(* back up to the next one, then the parts between "**" in order; inside a *)
(* chunk the same with "$*".  op is "intersects" or "includes".            *)

Dsl       == "$*"

Rest(s, i)        == SubSeq(s, i, Len(s))
FrontTo(s, i)     == SubSeq(s, 1, i)
IsVerbatim(c)     == c # << >> /\ c[1] = "@"
Positions(s, x)   == {i \in DOMAIN s : s[i] = x}
Least(S)          == CHOOSE i \in S : \A j \in S : i <= j
\* _z_keyexpr_get_next_verbatim_chunk looks for "@" anywhere.
HasVerbatim(ke)   == \E k \in DOMAIN ke : "@" \in Range(ke[k])

-----------------------------------------------------------------------------
\* _z_chunk_right_contains_all_stardsl_subchunks_of_left: each part is taken at
\* its first place after the one before it.
ContainsAll(l, r) ==
    LET From[i \in 1..Len(l) + 2, j \in 1..Len(r) + 1] ==
            LET stops == {k \in Positions(l, Dsl) : k >= i}
                stop  == IF stops = {} THEN Len(l) + 1 ELSE Least(stops)
                part  == SubSeq(l, i, stop - 1)
                hits  == {k \in j..Len(r) + 1 - Len(part) : SubSeq(r, k, k + Len(part) - 1) = part}
            IN  hits # {} /\ (stops = {} \/ From[stop + 1, Least(hits) + Len(part)])
    IN  From[1, 1]

\* _z_chunk_special: l is between two "$*".
ChunkSpecial(op, l, r) == (op = "intersects" /\ Dsl \in Range(r)) \/ ContainsAll(l, r)

\* _z_chunk_forward_backward: l follows a "$*".
ChunkForwardBackward(op, l, r) ==
    LET From[i \in 0..Len(l), j \in 0..Len(r)] ==
            IF i = 0 \/ j = 0 THEN i = 0
            ELSE IF op = "intersects" /\ r[j] = Dsl THEN TRUE
            ELSE IF l[i] = Dsl THEN ChunkSpecial(op, FrontTo(l, i - 1), FrontTo(r, j))
            ELSE l[i] = r[j] /\ From[i - 1, j - 1]
    IN  From[Len(l), Len(r)]

\* _z_chunk_backward_forward: l precedes a "$*".
ChunkBackwardForward(op, l, r) ==
    LET From[i \in 1..Len(l) + 1, j \in 1..Len(r) + 1] ==
            IF i > Len(l) \/ j > Len(r) THEN i > Len(l)
            ELSE IF op = "intersects" /\ r[j] = Dsl THEN TRUE
            ELSE IF l[i] = Dsl THEN ChunkSpecial(op, Rest(l, i + 1), Rest(r, j))
            ELSE l[i] = r[j] /\ From[i + 1, j + 1]
    IN  IsVerbatim(l) = IsVerbatim(r) /\ From[1, 1]

\* What both directions decide from the kind of the chunks alone.
Answer(b) == IF b THEN "YES" ELSE "NO"
Wild(op, l, r) ==
    CASE l = BigWild -> "LEFT_SUPERWILD"
      [] r = BigWild -> IF op = "includes" THEN "NO" ELSE "RIGHT_SUPERWILD"
      [] l = Star  -> Answer(~IsVerbatim(r))
      [] r = Star  -> Answer(op = "intersects" /\ ~IsVerbatim(l))
      [] OTHER         -> "NEITHER"

\* The rest of a chunk, when the kinds did not decide.
Otherwise(wild, same) == IF wild # "NEITHER" THEN wild ELSE Answer(same)

\* _z_chunk_forward.
ChunkForward(op, l, r) ==
    LET From[i \in 1..Len(l) + 1, j \in 1..Len(r) + 1] ==
            IF i > Len(l) \/ j > Len(r)
            THEN \/ i > Len(l) /\ j > Len(r)
                 \/ op = "intersects" /\ i > Len(l) /\ Rest(r, j) = <<Dsl>>
                 \/ j > Len(r) /\ Rest(l, i) = <<Dsl>>
            ELSE IF l[i] = Dsl THEN ChunkForwardBackward(op, Rest(l, i + 1), Rest(r, j))
            ELSE IF op = "intersects" /\ r[j] = Dsl THEN ChunkForwardBackward(op, Rest(r, j + 1), Rest(l, i))
            ELSE l[i] = r[j] /\ From[i + 1, j + 1]
    IN  Otherwise(Wild(op, l, r), IsVerbatim(l) = IsVerbatim(r) /\ From[1, 1])

\* _z_chunk_backward.
ChunkBackward(op, l, r) ==
    LET From[i \in 0..Len(l), j \in 0..Len(r)] ==
            IF i = 0 \/ j = 0
            THEN \/ i = 0 /\ j = 0
                 \/ op = "intersects" /\ i = 0 /\ FrontTo(r, j) = <<Dsl>>
                 \/ j = 0 /\ FrontTo(l, i) = <<Dsl>>
            ELSE IF l[i] = Dsl THEN ChunkBackwardForward(op, FrontTo(l, i - 1), FrontTo(r, j))
            ELSE IF op = "intersects" /\ r[j] = Dsl THEN ChunkBackwardForward(op, FrontTo(r, j - 1), FrontTo(l, i))
            ELSE l[i] = r[j] /\ From[i - 1, j - 1]
    IN  Otherwise(Wild(op, l, r), From[Len(l), Len(r)])

-----------------------------------------------------------------------------
\* _z_keyexpr_special: l is between two "**".  The part up to the next "**" is
\* taken at its first place; the position then stays on that "**", where the
\* next part is empty and nothing advances any more: the loop does not end.
KeyexprSpecial(op, l, r) ==
    LET stops == Positions(l, BigWild)
        part  == IF stops = {} THEN l ELSE FrontTo(l, Least(stops) - 1)
        fits  == \E k \in 1..Len(r) + 1 - Len(part) :
                     \A i \in DOMAIN part : ChunkForward(op, part[i], r[k + i - 1]) = "YES"
    IN  IF op = "intersects" /\ BigWild \in Range(r) THEN "true"
        ELSE IF ~fits THEN "false"
        ELSE IF stops # {} THEN "loops" ELSE "true"

Bool(b) == IF b THEN "true" ELSE "false"

\* The end of the loops: what is left over may only be a "**".
Exhausted(op, l, r) ==
    Bool((l = << >> \/ l = <<BigWild>>) /\ (r = << >> \/ (op = "intersects" /\ r = <<BigWild>>)))

\* What the loops do with the answer for two chunks.
Follow(res, yes, wild) == IF res = "NO" THEN "false" ELSE IF res = "YES" THEN yes ELSE wild

\* _z_keyexpr_backward without verbatim chunks (can_have_verbatim is false): l
\* follows a "**".
Backward(op, l, r) ==
    LET From[i \in 0..Len(l), j \in 0..Len(r)] ==
            IF i = 0 \/ j = 0 THEN Exhausted(op, FrontTo(l, i), FrontTo(r, j))
            ELSE Follow(ChunkBackward(op, l[i], r[j]),
                        IF i = 1 THEN "true" ELSE IF j = 1 THEN "false" ELSE From[i - 1, j - 1],
                        IF l[i] = BigWild THEN KeyexprSpecial(op, FrontTo(l, i - 1), FrontTo(r, j)) ELSE "true")
    IN  From[Len(l), Len(r)]

\* _z_keyexpr_forward, with the function for what follows a "**".
ForwardWith(op, l, r, BackwardOf(_, _)) ==
    LET Wilds(after, other) == IF after = << >> THEN Bool(~HasVerbatim(other)) ELSE BackwardOf(after, other)
        From[i \in 1..Len(l) + 1, j \in 1..Len(r) + 1] ==
            IF i > Len(l) \/ j > Len(r) THEN Exhausted(op, Rest(l, i), Rest(r, j))
            ELSE Follow(ChunkForward(op, l[i], r[j]), From[i + 1, j + 1],
                        IF l[i] = BigWild THEN Wilds(Rest(l, i + 1), Rest(r, j)) ELSE Wilds(Rest(r, j + 1), Rest(l, i)))
    IN  From[1, 1]

Forward(op, l, r) == ForwardWith(op, l, r, LAMBDA x, y : Backward(op, x, y))

\* The answer of one part, and when that is true the answer of the rest.
AndThen(part, rest) == IF part = "true" THEN rest ELSE part

\* _z_keyexpr_parts: split at the verbatim chunks and match part by part.
Parts(op, l, r) ==
    LET NextVerbatim(ke, i) == Least({k \in i..Len(ke) : "@" \in Range(ke[k])} \cup {Len(ke) + 1})
        From[i \in 1..Len(l) + 2, j \in 1..Len(r) + 2] ==
            LET lv == NextVerbatim(l, i)
                rv == NextVerbatim(r, j)
                last == lv > Len(l) /\ rv > Len(r)
            IN  IF i > Len(l) \/ j > Len(r) THEN Exhausted(op, Rest(l, i), Rest(r, j))
                ELSE IF (lv > Len(l)) # (rv > Len(r)) THEN "false"
                ELSE AndThen(Forward(op, SubSeq(l, i, lv - 1), SubSeq(r, j, rv - 1)),
                             IF last THEN "true"
                             ELSE AndThen(Bool(ChunkForward(op, l[lv], r[rv]) = "YES"), From[lv + 1, rv + 1]))
    IN  From[1, 1]

\* _z_keyexpr_backward when verbatim chunks are possible: at a second "**" it
\* falls back to the parts.
BackwardVerbatim(op, l, r) ==
    LET From[i \in 0..Len(l), j \in 0..Len(r)] ==
            IF i = 0 \/ j = 0 THEN Exhausted(op, FrontTo(l, i), FrontTo(r, j))
            ELSE Follow(ChunkBackward(op, l[i], r[j]),
                        IF i = 1 THEN Bool(~HasVerbatim(FrontTo(r, j - 1)))
                        ELSE IF j = 1 THEN "false" ELSE From[i - 1, j - 1],
                        Parts(op, <<BigWild>> \o FrontTo(l, i), FrontTo(r, j)))
    IN  From[Len(l), Len(r)]

\* _z_keyexpr_intersects and _z_keyexpr_includes: "true", "false" or "loops".
Match(op, l, r) ==
    IF l = r THEN "true" ELSE ForwardWith(op, l, r, LAMBDA x, y : BackwardVerbatim(op, x, y))
=============================================================================
