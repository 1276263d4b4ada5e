---------------------------- MODULE KeyExprSpec ----------------------------
(***************************************************************************)
(* What key expressions mean, and the canonization and matching of the     *)
(* code against it.  A key expression is grown chunk by chunk: raw, as a   *)
(* user writes it, for the canonization; left and right, canonical ones,   *)
(* for the matching.                                                       *)
(***************************************************************************)
EXTENDS KeyExpr

CONSTANTS RawChunks,    \* chunks, as sequences of characters
          Chunks,       \* canonical chunks, "$*" a symbol
          Keys,         \* the keys without wildcards that are tried
          MaxChunks, MaxDoubleStars

VARIABLES raw, left, right

keVars == <<raw, left, right>>

-----------------------------------------------------------------------------
\* The symbols of a chunk.
Symbols(c) ==
    FoldLeftDomain(LAMBDA s, i : IF c[i] = "$" /\ i < Len(c) /\ c[i + 1] = "*" THEN Append(s, Dsl)
                                 ELSE IF c[i] = "*" /\ i > 1 /\ c[i - 1] = "$" THEN s ELSE Append(s, c[i]), << >>, c)
SymbolsOf(ke) == [k \in DOMAIN ke |-> Symbols(ke[k])]

\* Two chunks have a chunk in common: "$*" stands for any characters, "*" for
\* any chunk but a verbatim one.
ChunksMeet(a, b) ==
    LET Meet[i \in 1..Len(a) + 1, j \in 1..Len(b) + 1] ==
            CASE i > Len(a) /\ j > Len(b)        -> TRUE
              [] i <= Len(a) /\ a[i] = Dsl       -> Meet[i + 1, j] \/ (j <= Len(b) /\ Meet[i, j + 1])
              [] j <= Len(b) /\ b[j] = Dsl /\ ~(i <= Len(a) /\ a[i] = Dsl) ->
                     Meet[i, j + 1] \/ (i <= Len(a) /\ Meet[i + 1, j])
              [] OTHER -> i <= Len(a) /\ j <= Len(b) /\ a[i] = b[j] /\ Meet[i + 1, j + 1]
    IN  IF a = Star \/ b = Star THEN ~IsVerbatim(a) /\ ~IsVerbatim(b)
        ELSE IsVerbatim(a) = IsVerbatim(b) /\ Meet[1, 1]

\* Two key expressions have a key in common: "**" stands for any chunks, also
\* none, but verbatim ones.
Meets(l, r) ==
    LET Meet[i \in 1..Len(l) + 1, j \in 1..Len(r) + 1] ==
            CASE i > Len(l) /\ j > Len(r)        -> TRUE
              [] i <= Len(l) /\ l[i] = BigWild -> Meet[i + 1, j] \/ (j <= Len(r) /\ ~IsVerbatim(r[j]) /\ Meet[i, j + 1])
              [] j <= Len(r) /\ r[j] = BigWild /\ ~(i <= Len(l) /\ l[i] = BigWild) ->
                     Meet[i, j + 1] \/ (i <= Len(l) /\ ~IsVerbatim(l[i]) /\ Meet[i + 1, j])
              [] OTHER -> i <= Len(l) /\ j <= Len(r) /\ ChunksMeet(l[i], r[j]) /\ Meet[i + 1, j + 1]
    IN  Meet[1, 1]

\* The keys that are in a key expression.
KeysOf(ke) == {key \in Keys : Meets(ke, key)}

-----------------------------------------------------------------------------
DoubleStars(ke) == Len(SelectSeq(ke, LAMBDA c : c = BigWild))

Extends(ke, c) ==
    /\ Len(ke) < MaxChunks
    /\ c = BigWild => DoubleStars(ke) < MaxDoubleStars
    /\ c \in {BigWild, Star} /\ ke # << >> => ke[Len(ke)] # BigWild

KeInit == raw = << >> /\ left = << >> /\ right = << >>

KeNext ==
    \/ \E c \in RawChunks :
          left = << >> /\ Len(raw) < MaxChunks /\ raw' = Append(raw, c) /\ UNCHANGED <<left, right>>
    \/ \E c \in Chunks :
          /\ raw = << >> /\ UNCHANGED raw
          /\ \/ right = << >> /\ Extends(left, c) /\ left' = Append(left, c) /\ UNCHANGED right
             \/ left # << >> /\ Extends(right, c) /\ right' = Append(right, c) /\ UNCHANGED left

KeSpec == KeInit /\ [][KeNext]_keVars

\* A small instance: two keys and "**", for expressions of five chunks.
FewRawChunks == {<<"a">>}
FewChunks    == {<<"a">>, <<"b">>, BigWild}
FewKeys      == {<< <<"a">> >>}

\* A chunk that is no wildcard as a whole, and one that is allowed.
Plain(c)      == c \notin {Star, BigWild} /\ Range(Symbols(c)) # {Dsl}
WellFormed(c) == c # << >> /\ (c \in {Star, BigWild} \/ Range(Symbols(c)) \cap {"$", "*", "#", "?"} = {})

\* Chunk i is followed, at once or later, by "*" or "**".
StarAfter(ke, i) == \E j \in i + 1 .. Len(ke) : ke[j] \in {Star, BigWild}

\* What _z_keyexpr_canonize answers.  It never changes which keys an expression
\* stands for when it succeeds.  It never accepts a chunk that is empty or wrong,
\* unless of one character, which is not looked into.  It canonizes every correct
\* expression in which no plain chunk comes before a star; of the others it refuses
\* some, as what follows a chunk is looked at with it.  The assertion of the code
\* fails only when a "**" is followed by chunks of one character, and they by a star.
CanonizeRight ==
    raw # << >> =>
        \E c \in {Canonize(raw)} :
            /\ c.status = "SUCCESS" => /\ KeysOf(SymbolsOf(c.ke)) = KeysOf(SymbolsOf(raw))
                                       /\ \A k \in DOMAIN raw : WellFormed(raw[k]) \/ Len(raw[k]) = 1
            /\ (\A k \in DOMAIN raw : WellFormed(raw[k]) /\ ~(Plain(raw[k]) /\ StarAfter(raw, k)))
                   => c.status = "SUCCESS"
            /\ c.status = "ASSERTION" =>
                   \E i \in DOMAIN raw : raw[i] = BigWild /\ Len(raw[i + 1]) = 1 /\ StarAfter(raw, i + 1)

\* primitives.h: z_keyexpr_intersects is true "if keyexprs intersect, i.e. there
\* exists at least one key which is contained in both", and z_keyexpr_includes
\* only if every key of the right one is in the left one.
MatchesRight ==
    right # << >> =>
        /\ Match("intersects", left, right) = Bool(Meets(left, right))
        /\ Match("includes", left, right) = "true" => KeysOf(right) \subseteq KeysOf(left)

\* Both: what an expression written by a user means, and how it is matched.
KeyExprsRight == CanonizeRight /\ MatchesRight
=============================================================================
