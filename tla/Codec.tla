------------------------------- MODULE Codec -------------------------------
(***************************************************************************)
(* The wire format: src/src/protocol/codec.c and src/src/protocol/codec/.  *)
(*                                                                         *)
(* A wire is a sequence of items: the header of a message (its id and      *)
(* flags), a number, a run of bytes, or an extension.  A decoder gives     *)
(* meaning to items only by their order and by the flags it has read, and  *)
(* fails where it expects an item of another kind (the code would read     *)
(* bytes of one field as another).  A reader is [ok, buf, m]: no error so  *)
(* far, what is left to read, the message filled in so far.  The bytes of  *)
(* a number are modelled by themselves, below.                             *)
(***************************************************************************)
EXTENDS Integers, Sequences, SequencesExt

CONSTANTS VleBits,   \* bits of a number per byte: 7
          VleLen,    \* VLE_LEN, the most bytes of a number: 9
          Priorities, \* Z_PRIORITIES_NUM: 8
          None       \* a field that is not there

VARIABLES message,   \* what is encoded
          wire,
          foreign    \* what another implementation added: an extension, mandatory or not

codecVars == <<message, wire, foreign>>

-----------------------------------------------------------------------------
(* Numbers.  A byte is 0 .. 2^(VleBits + 1) - 1, its top bit says that the *)
(* number goes on; the last of VleLen bytes is all data.                   *)

VleMore == 2 ^ VleBits
Zints   == 0 .. 2 ^ (VleLen * VleBits + 1) - 1

\* _z_zint_len
ZintLen(v) == CHOOSE n \in 1 .. VleLen : /\ n = VleLen \/ v < 2 ^ (VleBits * n)
                                         /\ \A k \in 1 .. n - 1 : v >= 2 ^ (VleBits * k)

\* Mutation: the last byte is always written.
ZintEncodeAlwaysLast(v) ==
    LET loop[lv \in Zints] == IF lv >= VleMore THEN <<(lv % VleMore) + VleMore>> \o loop[lv \div VleMore] ELSE <<lv>>
    IN  loop[v]

\* _z_zint64_encode_buf: when VleLen bytes are out nothing is left to write.
ZintEncode(v) ==
    LET loop[lv \in Zints, len \in 0 .. VleLen] ==
            IF lv >= VleMore THEN <<(lv % VleMore) + VleMore>> \o loop[lv \div VleMore, len + 1]
            ELSE IF len # VleLen THEN <<lv>> ELSE << >>
    IN  loop[v, 0]

\* _z_zint64_decode: the value and the number of bytes read.
ZintDecode(bytes) ==
    LET loop[i \in 0 .. VleLen - 1] ==
            IF bytes[i + 1] >= VleMore /\ i # VleLen - 1
            THEN [v |-> (bytes[i + 1] % VleMore) + VleMore * loop[i + 1].v, n |-> loop[i + 1].n]
            ELSE [v |-> bytes[i + 1], n |-> i + 1]
    IN  loop[0]

\* The bits of a peer's kind: one of 1, 2 and 4 is sent as the index of its bit.
WhatamiToUint8(w)   == (w \div 2) % 4
WhatamiFromUint8(b) == 2 ^ (b % 4)

-----------------------------------------------------------------------------
(* Writing.                                                                *)

Flag(c, f)         == IF c THEN {f} ELSE {}
When(c, items)     == IF c THEN items ELSE << >>
Header(mid, flags) == <<[k |-> "header", v |-> mid, flags |-> flags]>>
Val(v)             == <<[k |-> "number", v |-> v]>>
Str(v)             == <<[k |-> "bytes", v |-> v]>>

\* An extension; what it holds is a sequence of items of its own.
Ext(id, mandatory, body) == <<[k |-> "ext", id |-> id, mandatory |-> mandatory, more |-> FALSE, v |-> body]>>

\* Mutation: the bit "more" is not set.
ExtChainNoMore(exts) == exts

\* Every encoder sets _Z_FLAG_Z_Z in an extension when another one follows.
ExtChain(exts) == [i \in 1 .. Len(exts) |-> [exts[i] EXCEPT !.more = i < Len(exts)]]

(* Reading.                                                                *)

Reader(buf, m) == [ok |-> TRUE, buf |-> buf, m |-> m]

Fail(r) == [r EXCEPT !.ok = FALSE]

\* Read one item of kind k into the field f.
Take(r, k, f) ==
    IF r.ok /\ r.buf # << >> /\ r.buf[1].k = k
    THEN [r EXCEPT !.buf = Tail(@), !.m[f] = r.buf[1].v]
    ELSE Fail(r)

TakeWhen(c, r, k, f) == IF c THEN Take(r, k, f) ELSE r

\* The extensions at the front of buf.
ChainLen(buf) ==
    LET ends == {i \in 1 .. Len(buf) : /\ buf[i].k = "ext" /\ ~buf[i].more
                                       /\ \A j \in 1 .. i - 1 : buf[j].k = "ext" /\ buf[j].more}
    IN  IF ends = {} THEN 0 ELSE CHOOSE i \in ends : TRUE

\* _z_msg_ext_decode_iter: callback(q, e) is the reader q after the extension e.
DecodeIter(r, callback(_, _)) ==
    LET n == ChainLen(r.buf)
        Step(q, e) == IF q.ok THEN callback(q, e) ELSE q
        done == FoldLeft(Step, r, SubSeq(r.buf, 1, n))
    IN  IF ~r.ok \/ n = 0 THEN Fail(r) ELSE [done EXCEPT !.buf = SubSeq(@, n + 1, Len(@))]

\* Mutation: no extension is refused.
UnknownExtTolerant(q, e) == q

\* _z_msg_ext_unknown_error, and the default of every callback: an extension it does
\* not know is skipped, unless it is mandatory.
UnknownExt(q, e) == IF e.mandatory THEN Fail(q) ELSE q

\* _z_msg_ext_skip_non_mandatories
SkipNonMandatories(r) == DecodeIter(r, UnknownExt)

\* Is e the optional extension id with a body of this encoding?
Is(e, id, enc) == e.id = <<id, enc>> /\ ~e.mandatory

\* The reader q when it has the field f from the body of an extension, or from what
\* the reader inner made of that body.
Got(q, f, v)        == [q EXCEPT !.m[f] = v]
GotFrom(q, f, inner) == IF inner.ok THEN Got(q, f, inner.m) ELSE Fail(q)

\* Read the nested part into the field f of r: "inner" is the reader that read it.
Nest(r, inner, f) ==
    IF r.ok /\ inner.ok THEN [r EXCEPT !.buf = inner.buf, !.m[f] = inner.m] ELSE Fail(r)

\* The header: its flags, when it has this id.
FlagsOf(r)   == r.buf[1].flags
Starts(r, mid) == r.ok /\ r.buf # << >> /\ r.buf[1].k = "header" /\ r.buf[1].v = mid
Skip(r)      == [r EXCEPT !.buf = Tail(@)]

-----------------------------------------------------------------------------
(* Fields.  A key is an id, a suffix and the table the id is in: the       *)
(* sender's own ("local") or its peer's ("peer").                          *)

HasSuffix(key) == key.suffix # None
IsLocal(key)   == key.mapping = "local"
NullKey        == [id |-> 0, suffix |-> None, mapping |-> "local"]
KeyFlags(key)  == Flag(HasSuffix(key), "N") \cup Flag(IsLocal(key), "M")

WireexprEncode(key) == Val(key.id) \o When(HasSuffix(key), Str(key.suffix))

\* Mutation: the flag M is not negated by the change of sides.
WireexprDecodeSameSide(buf, named, remote) ==
    LET r == TakeWhen(named, Take(Reader(buf, NullKey), "number", "id"), "bytes", "suffix")
    IN  [r EXCEPT !.m.mapping = IF remote THEN "local" ELSE "peer"]

\* An id of the sender's table is one of the peer's table for the receiver.
WireexprDecode(buf, named, remote) ==
    LET r == TakeWhen(named, Take(Reader(buf, NullKey), "number", "id"), "bytes", "suffix")
    IN  [r EXCEPT !.m.mapping = IF remote THEN "peer" ELSE "local"]

TakeKey(r, flags, f) == Nest(r, WireexprDecode(r.buf, "N" \in flags, "M" \in flags), f)

SourceInfoEncode(info) == Val(info.zid) \o Val(info.eid) \o Val(info.sn)

SourceInfoDecode(buf) ==
    Take(Take(Take(Reader(buf, [zid |-> None, eid |-> 0, sn |-> 0]), "number", "zid"), "number", "eid"), "number", "sn")

ValueEncode(value) == Val(value.encoding) \o When(value.payload # None, Str(value.payload))

\* All that follows the encoding is the payload.
ValueDecode(buf) ==
    LET r == Take(Reader(buf, [encoding |-> None, payload |-> None]), "number", "encoding")
    IN  TakeWhen(r.buf # << >>, r, "bytes", "payload")

QosExt(qos)      == When(qos # 5, Ext(<<1, "zint">>, FALSE, qos))
TimestampExt(ts) == When(ts # None, Ext(<<2, "zbuf">>, FALSE, ts))

\* The extensions that push, request, response, declare and oam share.
CommonExt(q, e) ==
    CASE Is(e, 1, "zint") -> Got(q, "qos", e.v)
      [] Is(e, 2, "zbuf") -> Got(q, "ts", e.v)
      [] OTHER -> UnknownExt(q, e)

-----------------------------------------------------------------------------
(* Put, del, query, reply and error.  An attachment of a del is not sent.  *)

NullBody == [is |-> "PUT", ts |-> None, encoding |-> None, info |-> None, attachment |-> None, payload |-> None]

PushBodyExts(b) ==
    ExtChain(When(b.info # None, Ext(<<1, "zbuf">>, FALSE, SourceInfoEncode(b.info)))
                \o When(b.is = "PUT" /\ b.attachment # None, Ext(<<3, "zbuf">>, FALSE, b.attachment)))

PushBodyEncode(b) ==
    LET exts == PushBodyExts(b)
        encoded == b.is = "PUT" /\ b.encoding # None
    IN  Header(b.is, Flag(exts # << >>, "Z") \cup Flag(b.ts # None, "T") \cup Flag(encoded, "E"))
           \o When(b.ts # None, Val(b.ts)) \o When(encoded, Val(b.encoding))
           \o exts \o When(b.is = "PUT", Str(b.payload))

PushBodyExt(q, e) ==
    CASE Is(e, 1, "zbuf") -> GotFrom(q, "info", SourceInfoDecode(e.v))
      [] Is(e, 3, "zbuf") -> Got(q, "attachment", e.v)
      [] OTHER -> UnknownExt(q, e)

PushBodyDecode(buf) ==
    LET r0    == Reader(buf, NullBody)
        is    == IF Starts(r0, "PUT") THEN "PUT" ELSE "DEL"
        flags == FlagsOf(r0)
        r1    == TakeWhen("T" \in flags, Skip([r0 EXCEPT !.m.is = is]), "number", "ts")
        r2    == TakeWhen(is = "PUT" /\ "E" \in flags, r1, "number", "encoding")
        r3    == IF "Z" \in flags THEN DecodeIter(r2, PushBodyExt) ELSE r2
    IN  IF ~Starts(r0, "PUT") /\ ~Starts(r0, "DEL") THEN Fail(r0)
        ELSE TakeWhen(is = "PUT", r3, "bytes", "payload")

NullQuery == [is |-> "QUERY", consolidation |-> None, parameters |-> << >>, anyke |-> FALSE, value |-> None,
              info |-> None, attachment |-> None]

QueryExts(q) ==
    ExtChain(When(q.value # None, Ext(<<3, "zbuf">>, FALSE, ValueEncode(q.value)))
                \o When(q.info # None, Ext(<<1, "zbuf">>, FALSE, SourceInfoEncode(q.info)))
                \o When(q.attachment # None, Ext(<<5, "zbuf">>, FALSE, q.attachment)))

\* An implicit "any key" is sent as one more parameter.
QueryEncode(q) ==
    LET params == q.parameters \o When(q.anyke, <<"_anyke">>)
    IN  Header("QUERY", Flag(params # << >>, "P") \cup Flag(q.consolidation # None, "C")
                            \cup Flag(QueryExts(q) # << >>, "Z"))
           \o When(q.consolidation # None, Val(q.consolidation)) \o When(params # << >>, Str(params)) \o QueryExts(q)

QueryExt(q, e) ==
    CASE Is(e, 1, "zbuf") -> GotFrom(q, "info", SourceInfoDecode(e.v))
      [] Is(e, 3, "zbuf") -> GotFrom(q, "value", ValueDecode(e.v))
      [] Is(e, 5, "zbuf") -> Got(q, "attachment", e.v)
      [] OTHER -> UnknownExt(q, e)

QueryDecode(buf) ==
    LET r0    == Reader(buf, NullQuery)
        flags == FlagsOf(r0)
        r1    == TakeWhen("C" \in flags, Skip(r0), "number", "consolidation")
        r2    == TakeWhen("P" \in flags, r1, "bytes", "parameters")
    IN  IF "Z" \in flags THEN DecodeIter(r2, QueryExt) ELSE r2

ReplyEncode(reply) ==
    Header("REPLY", Flag(reply.consolidation # None, "C"))
       \o When(reply.consolidation # None, Val(reply.consolidation)) \o PushBodyEncode(reply.body)

\* Its callback refuses every extension.
ReplyDecode(buf) ==
    LET r0    == Reader(buf, [is |-> "REPLY", consolidation |-> None, body |-> NullBody])
        flags == FlagsOf(r0)
        r1    == TakeWhen("C" \in flags, Skip(r0), "number", "consolidation")
    IN  IF "Z" \in flags THEN Fail(r0) ELSE Nest(r1, PushBodyDecode(r1.buf), "body")

ErrEncode(err) ==
    Header("ERR", Flag(err.encoding # None, "E") \cup Flag(err.info # None, "Z"))
       \o When(err.encoding # None, Val(err.encoding))
       \o When(err.info # None, Ext(<<1, "zbuf">>, FALSE, SourceInfoEncode(err.info)))
       \o Str(err.payload)

ErrExt(q, e) == IF Is(e, 1, "zbuf") THEN GotFrom(q, "info", SourceInfoDecode(e.v)) ELSE UnknownExt(q, e)

ErrDecode(buf) ==
    LET r0    == Reader(buf, [is |-> "ERR", encoding |-> None, info |-> None, payload |-> None])
        flags == FlagsOf(r0)
        r1    == TakeWhen("E" \in flags, Skip(r0), "number", "encoding")
        r2    == IF "Z" \in flags THEN DecodeIter(r1, ErrExt) ELSE r1
    IN  Take(r2, "bytes", "payload")

-----------------------------------------------------------------------------
(* Network messages.                                                       *)

PushEncode(m) ==
    LET exts == ExtChain(QosExt(m.qos) \o TimestampExt(m.ts))
    IN  Header("PUSH", KeyFlags(m.key) \cup Flag(exts # << >>, "Z")) \o WireexprEncode(m.key) \o exts
           \o PushBodyEncode(m.body)

PushDecode(buf) ==
    LET r0    == Reader(buf, [is |-> "PUSH", key |-> NullKey, qos |-> 5, ts |-> None, body |-> NullBody])
        flags == FlagsOf(r0)
        r1    == TakeKey(Skip(r0), flags, "key")
        r2    == IF "Z" \in flags THEN DecodeIter(r1, CommonExt) ELSE r1
    IN  Nest(r2, PushBodyDecode(r2.buf), "body")

RequestExts(m) ==
    ExtChain(QosExt(m.qos) \o TimestampExt(m.ts)
                \o When(m.target # 0, Ext(<<4, "zint">>, TRUE, m.target))
                \o When(m.budget # 0, Ext(<<5, "zint">>, FALSE, m.budget))
                \o When(m.timeout # 0, Ext(<<6, "zint">>, FALSE, m.timeout)))

RequestEncode(m) ==
    Header("REQUEST", KeyFlags(m.key) \cup Flag(RequestExts(m) # << >>, "Z")) \o Val(m.rid)
       \o WireexprEncode(m.key) \o RequestExts(m)
       \o IF m.body.is = "QUERY" THEN QueryEncode(m.body) ELSE PushBodyEncode(m.body)

RequestExt(q, e) ==
    CASE e.id = <<4, "zint">> /\ e.mandatory -> IF e.v > 2 THEN Fail(q) ELSE Got(q, "target", e.v)
      [] Is(e, 5, "zint") -> Got(q, "budget", e.v)
      [] Is(e, 6, "zint") -> Got(q, "timeout", e.v)
      [] OTHER -> CommonExt(q, e)

RequestDecode(buf) ==
    LET r0    == Reader(buf, [is |-> "REQUEST", rid |-> 0, key |-> NullKey, qos |-> 5, ts |-> None, target |-> 0,
                              budget |-> 0, timeout |-> 0, body |-> None])
        flags == FlagsOf(r0)
        r1    == TakeKey(Take(Skip(r0), "number", "rid"), flags, "key")
        r2    == IF "Z" \in flags THEN DecodeIter(r1, RequestExt) ELSE r1
    IN  Nest(r2, IF Starts(r2, "QUERY") THEN QueryDecode(r2.buf) ELSE PushBodyDecode(r2.buf), "body")

ResponseExts(m) ==
    ExtChain(QosExt(m.qos) \o TimestampExt(m.ts)
                \o When(m.responder # None, Ext(<<3, "zbuf">>, FALSE, Val(m.responder.zid) \o Val(m.responder.eid))))

ResponseEncode(m) ==
    Header("RESPONSE", KeyFlags(m.key) \cup Flag(ResponseExts(m) # << >>, "Z")) \o Val(m.rid)
       \o WireexprEncode(m.key) \o ResponseExts(m)
       \o IF m.body.is = "REPLY" THEN ReplyEncode(m.body) ELSE ErrEncode(m.body)

NullResponder == [zid |-> None, eid |-> 0]

ResponseExt(q, e) ==
    IF Is(e, 3, "zbuf")
    THEN GotFrom(q, "responder", Take(Take(Reader(e.v, NullResponder), "number", "zid"), "number", "eid"))
    ELSE CommonExt(q, e)

ResponseDecode(buf) ==
    LET r0    == Reader(buf, [is |-> "RESPONSE", rid |-> 0, key |-> NullKey, qos |-> 5, ts |-> None,
                              responder |-> None, body |-> None])
        flags == FlagsOf(r0)
        r1    == TakeKey(Take(Skip(r0), "number", "rid"), flags, "key")
        r2    == IF "Z" \in flags THEN DecodeIter(r1, ResponseExt) ELSE r1
    IN  IF Starts(r2, "REPLY") THEN Nest(r2, ReplyDecode(r2.buf), "body")
        ELSE IF Starts(r2, "ERR") THEN Nest(r2, ErrDecode(r2.buf), "body") ELSE Fail(r2)

ResponseFinalEncode(m) == Header("FINAL", {}) \o Val(m.rid)

ResponseFinalDecode(buf) ==
    LET r == Take(Skip(Reader(buf, [is |-> "FINAL", rid |-> 0])), "number", "rid")
    IN  IF "Z" \in buf[1].flags THEN SkipNonMandatories(r) ELSE r

-----------------------------------------------------------------------------
(* Declarations.  kind is the declaration's id on the wire.                *)

Declares   == {"D_SUBSCRIBER", "D_QUERYABLE", "D_TOKEN"}
Undeclares == {"U_SUBSCRIBER", "U_QUERYABLE", "U_TOKEN"}

\* A queryable's completeness and distance share one number.
QueryableInfo(d) == (IF d.complete THEN 1 ELSE 0) + 256 * d.distance

DeclCommonsEncode(d) ==
    LET info == When(d.is = "D_QUERYABLE" /\ (d.complete \/ d.distance # 0), Ext(<<1, "zint">>, FALSE, QueryableInfo(d)))
    IN  Header(d.is, KeyFlags(d.key) \cup Flag(info # << >>, "Z")) \o Val(d.id) \o WireexprEncode(d.key) \o info

DeclKexprEncode(d) == Header("D_KEYEXPR", Flag(HasSuffix(d.key), "N")) \o Val(d.id) \o WireexprEncode(d.key)

\* Here the extension holds the key, with the flags N = 1 and M = 2.
UndeclEncode(d) ==
    LET named == d.key.id # 0 \/ HasSuffix(d.key)
    IN  Header(d.is, Flag(named, "Z")) \o Val(d.id)
           \o When(named, Ext(<<15, "zbuf">>, TRUE, Val(KeyFlags(d.key)) \o WireexprEncode(d.key)))

UndeclKexprEncode(d) == Header("U_KEYEXPR", {}) \o Val(d.id)

DeclarationEncode(d) ==
    CASE d.is \in Declares     -> DeclCommonsEncode(d)
      [] d.is \in Undeclares   -> UndeclEncode(d)
      [] d.is = "D_KEYEXPR"    -> DeclKexprEncode(d)
      [] d.is = "U_KEYEXPR"    -> UndeclKexprEncode(d)
      [] d.is = "D_FINAL"      -> Header("D_FINAL", {})

QueryableExt(q, e) ==
    IF Is(e, 1, "zint")
    THEN Got(Got(q, "complete", e.v % 2 = 1), "distance", (e.v \div 256) % 65536)
    ELSE UnknownExt(q, e)

DeclCommonsDecode(buf, is) ==
    LET r0    == Reader(buf, [is |-> is, id |-> 0, key |-> NullKey, complete |-> FALSE, distance |-> 0])
        flags == FlagsOf(r0)
        r1    == TakeKey(Take(Skip(r0), "number", "id"), flags, "key")
    IN  IF "Z" \notin flags THEN r1
        ELSE IF is = "D_QUERYABLE" THEN DecodeIter(r1, QueryableExt) ELSE SkipNonMandatories(r1)

UndeclExt(q, e) ==
    IF e.id = <<15, "zbuf">> /\ e.mandatory
    THEN LET flags == e.v[1].v
         IN  GotFrom(q, "key", WireexprDecode(Tail(e.v), "N" \in flags, "M" \in flags))
    ELSE UnknownExt(q, e)

UndeclDecode(buf, is) ==
    LET r == Take(Skip(Reader(buf, [is |-> is, id |-> 0, key |-> NullKey])), "number", "id")
    IN  IF "Z" \in buf[1].flags THEN DecodeIter(r, UndeclExt) ELSE r

\* The id of a declared key expression is always one of the sender's table.
DeclKexprDecode(buf) ==
    LET r0 == Take(Skip(Reader(buf, [is |-> "D_KEYEXPR", id |-> 0, key |-> NullKey])), "number", "id")
        r1 == TakeKey(r0, buf[1].flags \cup {"M"}, "key")
    IN  IF "Z" \in buf[1].flags THEN SkipNonMandatories(r1) ELSE r1

UndeclKexprDecode(buf) ==
    LET r == Take(Skip(Reader(buf, [is |-> "U_KEYEXPR", id |-> 0])), "number", "id")
    IN  IF "Z" \in buf[1].flags THEN SkipNonMandatories(r) ELSE r

DeclFinalDecode(buf) ==
    LET r == Skip(Reader(buf, [is |-> "D_FINAL"]))
    IN  IF "Z" \in buf[1].flags THEN SkipNonMandatories(r) ELSE r

DeclarationDecode(buf) ==
    LET is == IF buf # << >> /\ buf[1].k = "header" THEN buf[1].v ELSE None
    IN  CASE is \in Declares   -> DeclCommonsDecode(buf, is)
          [] is \in Undeclares -> UndeclDecode(buf, is)
          [] is = "D_KEYEXPR"  -> DeclKexprDecode(buf)
          [] is = "U_KEYEXPR"  -> UndeclKexprDecode(buf)
          [] is = "D_FINAL"    -> DeclFinalDecode(buf)
          [] OTHER             -> Fail(Reader(buf, None))

DeclareEncode(m) ==
    LET exts == ExtChain(QosExt(m.qos) \o TimestampExt(m.ts))
    IN  Header("DECLARE", Flag(m.interest # None, "I") \cup Flag(exts # << >>, "Z"))
           \o When(m.interest # None, Val(m.interest)) \o exts \o DeclarationEncode(m.body)

DeclareDecode(buf) ==
    LET r0    == Reader(buf, [is |-> "DECLARE", interest |-> None, qos |-> 5, ts |-> None, body |-> None])
        flags == FlagsOf(r0)
        r1    == TakeWhen("I" \in flags, Skip(r0), "number", "interest")
        r2    == IF "Z" \in flags THEN DecodeIter(r1, CommonExt) ELSE r1
    IN  Nest(r2, DeclarationDecode(r2.buf), "body")

-----------------------------------------------------------------------------
(* Interests and oam, and the dispatch of network messages.  The byte of   *)
(* flags of an interest shares two bits between "current" and "future",    *)
(* which are sent in the header, and the flags N and M of its key.         *)

InterestFinal(m) == m.flags \cap {"C", "F"} = {}

NInterestEncode(m) ==
    LET restricted == "RESTRICTED" \in m.flags
        flags == (m.flags \ {"C", "F"}) \cup (IF restricted THEN KeyFlags(m.key) ELSE {})
    IN  Header("INTEREST", m.flags \cap {"C", "F"}) \o Val(m.id)
           \o When(~InterestFinal(m), Val(flags) \o When(restricted, WireexprEncode(m.key)))

NInterestDecode(buf) ==
    LET header == buf[1].flags
        r0     == Reader(buf, [is |-> "INTEREST", id |-> 0, key |-> NullKey, flags |-> header \cap {"C", "F"}])
        r1     == Take(Skip(r0), "number", "id")
        flags  == IF r1.buf[1].k = "number" THEN r1.buf[1].v ELSE {}
        r2     == IF "RESTRICTED" \in flags THEN TakeKey(Skip(r1), flags, "key") ELSE Skip(r1)
        r3     == IF InterestFinal(r0.m) THEN r1 ELSE [r2 EXCEPT !.m.flags = @ \cup (flags \ {"N", "M"})]
    IN  IF "Z" \in header THEN SkipNonMandatories(r3) ELSE r3

OamEncode(m) ==
    LET exts == ExtChain(QosExt(m.qos) \o TimestampExt(m.ts))
    IN  Header("OAM", {m.enc} \cup Flag(exts # << >>, "Z")) \o Val(m.id) \o exts
           \o When(m.enc = "zint", Val(m.body)) \o When(m.enc = "zbuf", Str(m.body))

OamDecode(buf) ==
    LET flags == buf[1].flags
        enc   == CHOOSE x \in {"unit", "zint", "zbuf"} : x \in flags
        r0    == Reader(buf, [is |-> "OAM", id |-> 0, enc |-> enc, qos |-> 5, ts |-> None, body |-> None])
        r1    == Take(Skip(r0), "number", "id")
        r2    == IF "Z" \in flags THEN DecodeIter(r1, CommonExt) ELSE r1
    IN  TakeWhen(enc = "zbuf", TakeWhen(enc = "zint", r2, "number", "body"), "bytes", "body")

NetworkMessageEncode(m) ==
    CASE m.is = "DECLARE"  -> DeclareEncode(m)
      [] m.is = "PUSH"     -> PushEncode(m)
      [] m.is = "REQUEST"  -> RequestEncode(m)
      [] m.is = "RESPONSE" -> ResponseEncode(m)
      [] m.is = "FINAL"    -> ResponseFinalEncode(m)
      [] m.is = "INTEREST" -> NInterestEncode(m)
      [] m.is = "OAM"      -> OamEncode(m)

NetworkMessageDecode(buf) ==
    CASE buf[1].v = "DECLARE"  -> DeclareDecode(buf)
      [] buf[1].v = "PUSH"     -> PushDecode(buf)
      [] buf[1].v = "REQUEST"  -> RequestDecode(buf)
      [] buf[1].v = "RESPONSE" -> ResponseDecode(buf)
      [] buf[1].v = "FINAL"    -> ResponseFinalDecode(buf)
      [] buf[1].v = "INTEREST" -> NInterestDecode(buf)
      [] buf[1].v = "OAM"      -> OamDecode(buf)
      [] OTHER                 -> Fail(Reader(buf, None))

-----------------------------------------------------------------------------
(* Transport and scouting messages, with the header their makers give      *)
(* them.  A lease in whole seconds is sent in seconds.                     *)

WholeSeconds(lease)  == lease % 1000 = 0
LeaseEncode(lease)   == Val(IF WholeSeconds(lease) THEN lease \div 1000 ELSE lease)
TakeLease(r, flags)  == LET q == Take(r, "number", "lease")
                        IN  IF q.ok /\ "T" \in flags THEN [q EXCEPT !.m.lease = @ * 1000] ELSE q

\* The kind of peer and the length of its id share a byte.
PeerEncode(m)      == Val(m.version) \o Val(WhatamiToUint8(m.whatami)) \o Str(m.zid)
TakePeer(r)        == LET q == Take(Take(r, "number", "version"), "number", "whatami")
                      IN  Take(IF q.ok THEN [q EXCEPT !.m.whatami = WhatamiFromUint8(@)] ELSE q, "bytes", "zid")

\* The resolutions and the size of a batch go together, when one is not the default.
DefaultSizes(is)   == [sn |-> 2, req |-> 2, batch |-> IF is = "JOIN" THEN 8192 ELSE 65535]
OwnSizes(m)        == m.sizes # DefaultSizes(m.is)
SizesEncode(m)     == When(OwnSizes(m), Val(m.sizes.sn + 4 * m.sizes.req) \o Val(m.sizes.batch))
TakeSizes(r, flags) ==
    LET q == Take(Take(Reader(r.buf, [res |-> 0, batch |-> 0]), "number", "res"), "number", "batch")
    IN  IF "S" \notin flags THEN r
        ELSE Nest(r, [q EXCEPT !.m = [sn |-> q.m.res % 4, req |-> (q.m.res \div 4) % 4, batch |-> q.m.batch]], "sizes")

PatchExt(m) == When(m.patch # 0, Ext(<<7, "zint">>, FALSE, m.patch))

\* With priorities the two plain numbers are those of the first one.
JoinExts(m) ==
    ExtChain(When(Len(m.sns) > 1, Ext(<<1, "zbuf">>, TRUE, FlattenSeq([i \in 1 .. Len(m.sns) |->
                                                              Val(m.sns[i][1]) \o Val(m.sns[i][2])])))
                \o PatchExt(m))

JoinEncode(m) ==
    Header("JOIN", Flag(WholeSeconds(m.lease), "T") \cup Flag(OwnSizes(m), "S")
                       \cup Flag(JoinExts(m) # << >>, "Z"))
       \o PeerEncode(m) \o SizesEncode(m) \o LeaseEncode(m.lease) \o Val(m.sns[1][1]) \o Val(m.sns[1][2])
       \o JoinExts(m)

JoinExt(q, e) ==
    CASE e.id = <<1, "zbuf">> /\ e.mandatory ->
            IF Len(e.v) < 2 * Priorities THEN Fail(q)
            ELSE Got(q, "sns", [i \in 1 .. Priorities |-> <<e.v[2 * i - 1].v, e.v[2 * i].v>>])
      [] Is(e, 7, "zint") -> Got(q, "patch", e.v)
      [] OTHER -> UnknownExt(q, e)

JoinDecode(buf) ==
    LET flags == buf[1].flags
        r0 == Reader(buf, [is |-> "JOIN", version |-> 0, whatami |-> 0, zid |-> None, sizes |-> DefaultSizes("JOIN"),
                           lease |-> 0, sns |-> << >>, patch |-> 0])
        r1 == TakeLease(TakeSizes(TakePeer(Skip(r0)), flags), flags)
        q  == Take(Take(Reader(r1.buf, [rel |-> 0, be |-> 0]), "number", "rel"), "number", "be")
        r2 == Nest(r1, [q EXCEPT !.m = <<<<q.m.rel, q.m.be>>>>], "sns")
    IN  IF "Z" \in flags THEN DecodeIter(r2, JoinExt) ELSE r2

InitEncode(m) ==
    Header("INIT", Flag(m.ack, "A") \cup Flag(OwnSizes(m), "S") \cup Flag(m.patch # 0, "Z"))
       \o PeerEncode(m) \o SizesEncode(m) \o When(m.ack, Str(m.cookie)) \o PatchExt(m)

InitExt(q, e) == IF Is(e, 7, "zint") THEN Got(q, "patch", e.v) ELSE UnknownExt(q, e)

InitDecode(buf) ==
    LET flags == buf[1].flags
        r0 == Reader(buf, [is |-> "INIT", ack |-> "A" \in flags, version |-> 0, whatami |-> 0, zid |-> None,
                           sizes |-> DefaultSizes("INIT"), cookie |-> None, patch |-> 0])
        r1 == TakeWhen("A" \in flags, TakeSizes(TakePeer(Skip(r0)), flags), "bytes", "cookie")
    IN  IF "Z" \in flags THEN DecodeIter(r1, InitExt) ELSE r1

OpenEncode(m) ==
    Header("OPEN", Flag(m.ack, "A") \cup Flag(WholeSeconds(m.lease), "T")) \o LeaseEncode(m.lease)
       \o Val(m.sn) \o When(~m.ack, Str(m.cookie))

OpenDecode(buf) ==
    LET flags == buf[1].flags
        r0 == Reader(buf, [is |-> "OPEN", ack |-> "A" \in flags, lease |-> 0, sn |-> 0, cookie |-> None])
        r1 == TakeWhen("A" \notin flags, Take(TakeLease(Skip(r0), flags), "number", "sn"), "bytes", "cookie")
    IN  IF "Z" \in flags THEN SkipNonMandatories(r1) ELSE r1

\* A reliable message carries the flag R; all that follows a frame or a fragment in
\* the batch is its payload.
FrameEncode(m) == Header("FRAME", Flag(m.reliable, "R")) \o Val(m.sn) \o m.payload

Rest(r) == IF r.ok THEN [r EXCEPT !.m.payload = r.buf, !.buf = << >>] ELSE r

FrameDecode(buf) ==
    LET flags == buf[1].flags
        r0 == Reader(buf, [is |-> "FRAME", reliable |-> "R" \in flags, sn |-> 0, payload |-> << >>])
        r1 == Take(Skip(r0), "number", "sn")
    IN  Rest(IF "Z" \in flags THEN SkipNonMandatories(r1) ELSE r1)

FragmentExts(m) ==
    ExtChain(When(m.first, Ext(<<2, "unit">>, FALSE, None)) \o When(m.drop, Ext(<<3, "unit">>, FALSE, None)))

FragmentEncode(m) ==
    Header("FRAGMENT", Flag(m.reliable, "R") \cup Flag(m.more, "M") \cup Flag(FragmentExts(m) # << >>, "Z"))
       \o Val(m.sn) \o FragmentExts(m) \o m.payload

FragmentExt(q, e) ==
    CASE Is(e, 2, "unit") -> Got(q, "first", TRUE)
      [] Is(e, 3, "unit") -> Got(q, "drop", TRUE)
      [] OTHER -> UnknownExt(q, e)

FragmentDecode(buf) ==
    LET flags == buf[1].flags
        r0 == Reader(buf, [is |-> "FRAGMENT", reliable |-> "R" \in flags, more |-> "M" \in flags, first |-> FALSE,
                           drop |-> FALSE, sn |-> 0, payload |-> << >>])
        r1 == Take(Skip(r0), "number", "sn")
    IN  Rest(IF "Z" \in flags THEN DecodeIter(r1, FragmentExt) ELSE r1)

CloseEncode(m)     == Header("CLOSE", Flag(~m.linkOnly, "S")) \o Val(m.reason)
CloseDecode(buf)   == Take(Skip(Reader(buf, [is |-> "CLOSE", linkOnly |-> "S" \notin buf[1].flags, reason |-> 0])),
                           "number", "reason")
KeepAliveEncode(m) == Header("KEEP_ALIVE", {})
KeepAliveDecode(buf) ==
    LET r == Skip(Reader(buf, [is |-> "KEEP_ALIVE"]))
    IN  IF "Z" \in buf[1].flags THEN SkipNonMandatories(r) ELSE r

TransportMessageEncode(m) ==
    CASE m.is = "FRAME"      -> FrameEncode(m)
      [] m.is = "FRAGMENT"   -> FragmentEncode(m)
      [] m.is = "KEEP_ALIVE" -> KeepAliveEncode(m)
      [] m.is = "JOIN"       -> JoinEncode(m)
      [] m.is = "INIT"       -> InitEncode(m)
      [] m.is = "OPEN"       -> OpenEncode(m)
      [] m.is = "CLOSE"      -> CloseEncode(m)

TransportMessageDecode(buf) ==
    CASE buf[1].v = "FRAME"      -> FrameDecode(buf)
      [] buf[1].v = "FRAGMENT"   -> FragmentDecode(buf)
      [] buf[1].v = "KEEP_ALIVE" -> KeepAliveDecode(buf)
      [] buf[1].v = "JOIN"       -> JoinDecode(buf)
      [] buf[1].v = "INIT"       -> InitDecode(buf)
      [] buf[1].v = "OPEN"       -> OpenDecode(buf)
      [] buf[1].v = "CLOSE"      -> CloseDecode(buf)
      [] OTHER                   -> Fail(Reader(buf, None))

\* A scout may come without an id: its byte has a flag for that.
ScoutEncode(m) == Header("SCOUT", {}) \o Val(m.version) \o Val(m.what + (IF m.zid # None THEN 8 ELSE 0))
                     \o When(m.zid # None, Str(m.zid))

ScoutDecode(buf) ==
    LET r0    == Reader(buf, [is |-> "SCOUT", version |-> 0, what |-> 0, zid |-> None])
        r1    == Take(Take(Skip(r0), "number", "version"), "number", "what")
        hasId == r1.ok /\ (r1.m.what \div 8) % 2 = 1
    IN  TakeWhen(hasId, IF r1.ok THEN [r1 EXCEPT !.m.what = @ % 8] ELSE r1, "bytes", "zid")

HelloEncode(m) ==
    Header("HELLO", Flag(m.locators # << >>, "L")) \o PeerEncode(m)
       \o When(m.locators # << >>, Val(Len(m.locators)) \o FlattenSeq([i \in 1 .. Len(m.locators) |-> Str(m.locators[i])]))

LocatorsDecode(r) ==
    LET n == IF r.ok /\ r.buf # << >> THEN r.buf[1].v ELSE 0
    IN  IF ~r.ok \/ Len(r.buf) < n + 1 THEN Fail(r)
        ELSE [r EXCEPT !.m.locators = [i \in 1 .. n |-> r.buf[i + 1].v], !.buf = SubSeq(@, n + 2, Len(@))]

HelloDecode(buf) ==
    LET r == TakePeer(Skip(Reader(buf, [is |-> "HELLO", version |-> 0, whatami |-> 0, zid |-> None, locators |-> << >>])))
    IN  IF "L" \in buf[1].flags THEN LocatorsDecode(r) ELSE r

ScoutingMessageEncode(m) == IF m.is = "SCOUT" THEN ScoutEncode(m) ELSE HelloEncode(m)

ScoutingMessageDecode(buf) ==
    LET r == CASE buf[1].v = "SCOUT" -> ScoutDecode(buf)
               [] buf[1].v = "HELLO" -> HelloDecode(buf)
               [] OTHER -> Fail(Reader(buf, None))
    IN  IF "Z" \in buf[1].flags THEN SkipNonMandatories(r) ELSE r

-----------------------------------------------------------------------------
(* The messages that are encoded: every combination of the optional        *)
(* fields of a header with one body, and every body under one header.      *)

Opt(v)   == {None, v}
Keys     == [id : {0, 3}, suffix : Opt("s"), mapping : {"local", "peer"}]
OneKey   == [id |-> 3, suffix |-> "s", mapping |-> "peer"]
Infos    == Opt([zid |-> 9, eid |-> 2, sn |-> 4])
Values   == {None} \cup [encoding : {6}, payload : Opt("v")]

Puts     == [is : {"PUT"}, ts : Opt(8), encoding : Opt(6), info : Infos, attachment : Opt("a"), payload : {"p"}]
Dels     == [is : {"DEL"}, ts : Opt(8), encoding : {None}, info : Infos, attachment : Opt("a"), payload : {None}]
OnePut   == [NullBody EXCEPT !.payload = "p"]
Queries  == [is : {"QUERY"}, consolidation : Opt(1), parameters : {<< >>, <<"x">>}, anyke : BOOLEAN, value : Values,
             info : Infos, attachment : Opt("a")]
Replies  == [is : {"REPLY"}, consolidation : Opt(1), body : Puts \cup Dels]
Errs     == [is : {"ERR"}, encoding : Opt(6), info : Infos, payload : {"p"}]
OneReply == [is |-> "REPLY", consolidation |-> None, body |-> OnePut]

Pushes    == [is : {"PUSH"}, key : Keys, qos : {5, 8}, ts : Opt(8), body : {OnePut}]
                \cup [is : {"PUSH"}, key : {OneKey}, qos : {5}, ts : {None}, body : Puts \cup Dels]
Requests  == [is : {"REQUEST"}, rid : {7}, key : Keys, qos : {5, 8}, ts : Opt(8), target : {0, 2}, budget : {0, 1},
              timeout : {0, 10}, body : {NullQuery, OnePut}]
                \cup [is : {"REQUEST"}, rid : {7}, key : {OneKey}, qos : {5}, ts : {None}, target : {0}, budget : {0},
                      timeout : {10}, body : Queries \cup Dels]
Responses == [is : {"RESPONSE"}, rid : {7}, key : Keys, qos : {5, 8}, ts : Opt(8),
              responder : Opt([zid |-> 9, eid |-> 2]), body : {OneReply}]
                \cup [is : {"RESPONSE"}, rid : {7}, key : {OneKey}, qos : {5}, ts : {None}, responder : {None},
                      body : Replies \cup Errs]
Finals    == [is : {"FINAL"}, rid : {7}]
Interests == [is : {"INTEREST"}, id : {7}, key : Keys, flags : {x \cup {"SUBS", "RESTRICTED"} : x \in SUBSET {"C", "F"}}]
                \cup [is : {"INTEREST"}, id : {7}, key : {NullKey}, flags : {x \cup {"TOKENS"} : x \in SUBSET {"C", "F"}}]
Oams      == [is : {"OAM"}, id : {7}, enc : {"unit"}, qos : {5, 8}, ts : Opt(8), body : {None}]
                \cup [is : {"OAM"}, id : {7}, enc : {"zint"}, qos : {5, 8}, ts : Opt(8), body : {3}]
                \cup [is : {"OAM"}, id : {7}, enc : {"zbuf"}, qos : {5, 8}, ts : Opt(8), body : {"b"}]
Bodies    == [is : Declares, id : {7}, key : Keys, complete : {FALSE}, distance : {0}]
                \cup [is : {"D_QUERYABLE"}, id : {7}, key : Keys, complete : BOOLEAN, distance : {0, 1, 65535}]
                \cup [is : Undeclares, id : {7}, key : Keys]
                \cup [is : {"D_KEYEXPR"}, id : {7}, key : {k \in Keys : IsLocal(k)}]
                \cup [is : {"U_KEYEXPR"}, id : {7}]
                \cup [is : {"D_FINAL"}]
Declarations == [is : {"DECLARE"}, interest : Opt(7), qos : {5, 8}, ts : Opt(8), body : Bodies]

NegotiatedSizes(is)  == {DefaultSizes(is), [sn |-> 1, req |-> 3, batch |-> 2048]}
Zid        == "zid"
Joins      == [is : {"JOIN"}, version : {9}, whatami : {1, 2, 4}, zid : {Zid}, sizes : NegotiatedSizes("JOIN"), lease : {1000, 2500},
               sns : {<<<<3, 4>>>>, [i \in 1 .. Priorities |-> <<3 * i, 4 * i>>]}, patch : {0, 1}]
Inits      == [is : {"INIT"}, ack : {TRUE}, version : {9}, whatami : {1, 2, 4}, zid : {Zid}, sizes : NegotiatedSizes("INIT"),
               cookie : {"c"}, patch : {0, 1}]
                \cup [is : {"INIT"}, ack : {FALSE}, version : {9}, whatami : {1, 2, 4}, zid : {Zid}, sizes : NegotiatedSizes("INIT"),
                      cookie : {None}, patch : {0, 1}]
Opens      == [is : {"OPEN"}, ack : {TRUE}, lease : {1000, 2500}, sn : {3}, cookie : {None}]
                \cup [is : {"OPEN"}, ack : {FALSE}, lease : {1000, 2500}, sn : {3}, cookie : {"c"}]
Payload    == Str("batch")
Frames     == [is : {"FRAME"}, reliable : BOOLEAN, sn : {3}, payload : {<< >>, Payload}]
Fragments  == [is : {"FRAGMENT"}, reliable : BOOLEAN, more : BOOLEAN, first : BOOLEAN, drop : BOOLEAN, sn : {3},
               payload : {<< >>, Payload}]
Others     == [is : {"CLOSE"}, linkOnly : BOOLEAN, reason : {0, 6}] \cup [is : {"KEEP_ALIVE"}]
Scouts     == [is : {"SCOUT"}, version : {9}, what : 1 .. 7, zid : Opt(Zid)]
Hellos     == [is : {"HELLO"}, version : {9}, whatami : {1, 2, 4}, zid : {Zid}, locators : {<< >>, <<"l1">>, <<"l1", "l2">>}]

Transports == {"FRAME", "FRAGMENT", "KEEP_ALIVE", "JOIN", "INIT", "OPEN", "CLOSE"}
Scoutings  == {"SCOUT", "HELLO"}

Encode(m) ==
    CASE m.is \in Transports -> TransportMessageEncode(m)
      [] m.is \in Scoutings  -> ScoutingMessageEncode(m)
      [] OTHER               -> NetworkMessageEncode(m)

Decode(buf) ==
    CASE buf[1].v \in Transports -> TransportMessageDecode(buf)
      [] buf[1].v \in Scoutings  -> ScoutingMessageDecode(buf)
      [] OTHER                   -> NetworkMessageDecode(buf)

-----------------------------------------------------------------------------
(* Steps: a message is encoded; on its way another version of the protocol *)
(* may have added an extension that this decoder does not know.            *)

CodecInit == message = None /\ wire = << >> /\ foreign = None

EncodeMessage ==
    /\ message = None
    /\ \/ \E m \in Pushes \cup Finals \cup Others \cup Opens \cup Inits : message' = m /\ wire' = Encode(m)
       \/ \E m \in Requests : message' = m /\ wire' = Encode(m)
       \/ \E m \in Responses : message' = m /\ wire' = Encode(m)
       \/ \E m \in Interests \cup Oams : message' = m /\ wire' = Encode(m)
       \/ \E m \in Declarations : message' = m /\ wire' = Encode(m)
       \/ \E m \in Joins \cup Frames \cup Fragments \cup Scouts \cup Hellos : message' = m /\ wire' = Encode(m)
    /\ UNCHANGED foreign

\* A number alone: the wire is its bytes.
EncodeZint ==
    /\ message = None
    /\ \E v \in Zints : message' = [is |-> "ZINT", v |-> v] /\ wire' = ZintEncode(v)
    /\ UNCHANGED foreign

IsMessage == message # None /\ message.is # "ZINT"

NewExt(mandatory, more) ==
    [k |-> "ext", id |-> <<9, "unit">>, mandatory |-> mandatory, more |-> more, v |-> None]

Mark(mandatory) == IF mandatory THEN "mandatory" ELSE "optional"

\* After one of the extensions there are.
AddExtension ==
    /\ IsMessage /\ foreign = None
    /\ \E i \in DOMAIN wire, mandatory \in BOOLEAN :
          /\ wire[i].k = "ext"
          /\ wire' = InsertAt([wire EXCEPT ![i].more = TRUE], i + 1, NewExt(mandatory, wire[i].more))
          /\ foreign' = Mark(mandatory)
    /\ UNCHANGED message

\* Where there is none: at the end, of a part that ends with its extensions.
EndsWithExtensions == {"DEL", "QUERY", "FINAL", "INTEREST", "D_KEYEXPR", "U_KEYEXPR", "D_FINAL", "OPEN", "KEEP_ALIVE",
                       "INIT", "JOIN", "SCOUT", "HELLO"} \cup Declares \cup Undeclares

AddFirstExtension ==
    /\ IsMessage /\ foreign = None
    /\ \E i \in DOMAIN wire, mandatory \in BOOLEAN :
          /\ wire[i].k = "header" /\ wire[i].v \in EndsWithExtensions /\ "Z" \notin wire[i].flags
          /\ \A j \in i + 1 .. Len(wire) : wire[j].k # "header"
          /\ wire' = Append([wire EXCEPT ![i].flags = @ \cup {"Z"}], NewExt(mandatory, FALSE))
          /\ foreign' = Mark(mandatory)
    /\ UNCHANGED message

CodecNext == EncodeMessage \/ EncodeZint \/ AddExtension \/ AddFirstExtension

CodecSpec == CodecInit /\ [][CodecNext]_codecVars

-----------------------------------------------------------------------------
(* What the receiver should have.  The tables of key ids change sides, an  *)
(* implicit "any key" is a parameter, and a del has no attachment.         *)

Flip(key)   == [key EXCEPT !.mapping = IF @ = "local" THEN "peer" ELSE "local"]
OfBody(b)   == IF b.is = "DEL" THEN [b EXCEPT !.attachment = None] ELSE b
OfQuery(q)  == [q EXCEPT !.anyke = FALSE, !.parameters = @ \o When(q.anyke, <<"_anyke">>)]
OfDecl(d)   ==
    CASE d.is \in {"D_FINAL", "U_KEYEXPR"} -> d
      [] d.is \in Undeclares /\ d.key.id = 0 /\ d.key.suffix = None -> [d EXCEPT !.key = NullKey]
      [] OTHER -> [d EXCEPT !.key = Flip(@)]

Expected(m) ==
    CASE m.is = "PUSH"     -> [m EXCEPT !.key = Flip(@), !.body = OfBody(@)]
      [] m.is = "REQUEST"  -> [m EXCEPT !.key = Flip(@), !.body = IF @.is = "QUERY" THEN OfQuery(@) ELSE OfBody(@)]
      [] m.is = "RESPONSE" -> [m EXCEPT !.key = Flip(@), !.body = IF @.is = "REPLY" THEN [@ EXCEPT !.body = OfBody(@)] ELSE @]
      [] m.is = "DECLARE"  -> [m EXCEPT !.body = OfDecl(@)]
      [] m.is = "INTEREST" -> IF InterestFinal(m) THEN [m EXCEPT !.flags = {}, !.key = NullKey]
                              ELSE IF "RESTRICTED" \in m.flags THEN [m EXCEPT !.key = Flip(@)] ELSE m
      [] OTHER -> m

\* What may stand behind the message: the next one of the same batch.
Following(m) == IF m.is \in Transports \cup Scoutings THEN << >> ELSE Header("PUSH", {})

\* Whatever one side encodes the other decodes: the same fields, none of its bytes
\* left and none of the next message consumed.  An extension that the decoder does
\* not know changes nothing when it is optional and is refused when it is mandatory.
RoundTrip ==
    IsMessage =>
        LET r == Decode(wire \o Following(message))
        IN  IF foreign = "mandatory" THEN ~r.ok
            ELSE r.ok /\ r.m = Expected(message) /\ r.buf = Following(message)

\* A number is read back from its bytes, in the length the encoders announce for it.
ZintRoundTrip ==
    message # None /\ message.is = "ZINT" =>
        LET read == ZintDecode(wire \o <<VleMore + 1>>)
        IN  read.v = message.v /\ read.n = Len(wire) /\ Len(wire) = ZintLen(message.v)

\* Both: whatever one side encodes, the other decodes.
CodecRight == RoundTrip /\ ZintRoundTrip
=============================================================================
