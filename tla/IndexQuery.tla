----------------------------- MODULE IndexQuery -----------------------------
(***************************************************************************)
(* A GET through one compound secondary index of the redis driver, at the  *)
(* level of the bytes redis compares.  Writers index rows (the Pipeline's  *)
(* ZREM of the old entry and ZADD of the new one, one MULTI/EXEC); a       *)
(* reader validates a GET query (server handleQuery), matches it against   *)
(* the index (CompoundIndex.Matches), builds the lexical range (rangeKeys) *)
(* and runs Find: ZRANGEBYLEX or ZREVRANGEBYLEX with LIMIT, then ZLEXCOUNT, *)
(* pipelined in one Batch that is not a transaction, so a writer's          *)
(* transaction may run between the two commands.                           *)
(*                                                                         *)
(* Bytes are naturals 0..255 and strings sequences of them.  A value is a   *)
(* record: [t |-> "int", v |-> n], [t |-> "float", neg |-> b, mag |-> m]   *)
(* with m the IEEE magnitude bits (which order like the absolute value),   *)
(* or [t |-> "text", s |-> bytes] holding normalized text.                 *)
(***************************************************************************)
EXTENDS Integers, FiniteSets, Sequences, SequencesExt

CONSTANTS
    Ids,        \* row ids
    IdBytes,    \* [Ids -> bytes]: the id as stored after "::"
    Nil,        \* a nil column value
    Cols,       \* CompoundIndex.properties: the index columns in order
    RowVals,    \* the values [Range(Cols) -> value or Nil] a writer gives a row
    IntBytes,   \* binary.Size of schema.Int: bytes of a prepared number (8)
    Queries     \* GET queries [filters, order, offset, limit]

ASSUME IntBytes \in Nat \ {0}

VARIABLES
    rows,   \* [Ids -> the row's indexed column values]
    zset,   \* the members of the index key k:<table>/<cols>
    rd      \* the reader: the query in flight and what Find answered

vars == <<rows, zset, rd>>

-----------------------------------------------------------------------------
(* prepareValue and CompoundIndex.entry                                    *)

Bar == 124          \* '|'
Colon == 58         \* ':'
Word == 2^(8 * IntBytes)
SignBit == Word \div 2

\* hex.EncodeToString of the big-endian bytes of n: lower-case digits.
HexDigit(d) == IF d < 10 THEN 48 + d ELSE 87 + d
Hex(n) == LET k == 2 * IntBytes
          IN  [i \in 1..k |-> HexDigit((n \div 16^(k - i)) % 16)]

FloatBits(x) == (IF x.neg THEN SignBit ELSE 0) + x.mag

\* Mutant: the sign bit is set on non-negatives, negatives are not inverted.
FlipFloatNoInvert(u) == IF u >= SignBit THEN u ELSE u + SignBit

\* The float case of prepareValue: a negative value has all its bits
\* inverted, a non-negative one gets its sign bit set.
FlipFloat(u) == IF u >= SignBit THEN Word - 1 - u ELSE u + SignBit

\* prepareValue, formatted with %v: integers as the hex of their uint64
\* image (negatives wrap), floats through the bit flip, text as is.
Prepare(v) ==
    CASE v.t = "text"  -> v.s
      [] v.t = "float" -> Hex(FlipFloat(FloatBits(v)))
      [] OTHER         -> Hex(v.v % Word)

\* CompoundIndex.entry: the column values joined by '|', then "|::" and
\* the id; the empty string when every column is nil.
Entry(id, r) ==
    LET part(i) == IF r[Cols[i]] = Nil THEN <<>> ELSE Prepare(r[Cols[i]])
        join(acc, i) == acc \o <<Bar>> \o part(i)
    IN  IF \A i \in DOMAIN Cols : r[Cols[i]] = Nil THEN <<>>
        ELSE FoldLeft(join, part(1), [i \in 1..Len(Cols) - 1 |-> i + 1])
             \o <<Bar, Colon, Colon>> \o IdBytes[id]

\* Mutant: the empty entry of an all-nil row is added as well.
WriteAddEmpty(id, r) ==
    LET old == Entry(id, rows[id])
        new == Entry(id, r)
    IN  /\ r # rows[id]
        /\ rows' = [rows EXCEPT ![id] = r]
        /\ zset' = IF new # old THEN (zset \ {old}) \cup {new} ELSE zset
        /\ UNCHANGED rd

\* A writer's index transaction for one row (CompoundIndex.Pipeline): when
\* the entry changes, ZREM the old one and ZADD the new one, each only if
\* it is not empty.  A delete is the row becoming all nil.
Write(id, r) ==
    LET old == Entry(id, rows[id])
        new == Entry(id, r)
    IN  /\ r # rows[id]
        /\ rows' = [rows EXCEPT ![id] = r]
        /\ zset' = IF new # old THEN (zset \ {old}) \cup ({new} \ {<<>>}) ELSE zset
        /\ UNCHANGED rd

-----------------------------------------------------------------------------
(* Lexical ranges (redis ZRANGEBYLEX semantics)                           *)

\* memcmp order: a proper prefix sorts first.
RECURSIVE BytesLess(_, _)
BytesLess(a, b) ==
    /\ b # <<>>
    /\ \/ a = <<>>
       \/ Head(a) < Head(b)
       \/ Head(a) = Head(b) /\ BytesLess(Tail(a), Tail(b))

\* A bound "[s" includes s, "(s" excludes it.
AboveMin(x, m) == IF Head(m) = 91 THEN ~BytesLess(x, Tail(m)) ELSE BytesLess(Tail(m), x)
BelowMax(x, m) == IF Head(m) = 91 THEN ~BytesLess(Tail(m), x) ELSE BytesLess(x, Tail(m))
InLex(z, min, max) == SelectSeq(SetToSortSeq(z, BytesLess),
                                LAMBDA x : AboveMin(x, min) /\ BelowMax(x, max))

\* LIMIT offset count; <<>> is no LIMIT clause.
Limited(s, lim) ==
    IF lim = <<>> THEN s ELSE SubSeq(s, lim[1] + 1, Min({Len(s), lim[1] + lim[2]}))

ZRangeByLex(z, min, max, lim) == Limited(InLex(z, min, max), lim)
ZRevRangeByLex(z, max, min, lim) == Limited(Reverse(InLex(z, min, max)), lim)
ZLexCount(z, min, max) == Len(InLex(z, min, max))

\* extractId: split on "::"; the id is the second part when there are two.
RECURSIVE SepPositions(_, _)
SepPositions(e, k) ==
    IF k >= Len(e) THEN <<>>
    ELSE IF e[k] = Colon /\ e[k + 1] = Colon THEN <<k>> \o SepPositions(e, k + 2)
    ELSE SepPositions(e, k + 1)

ExtractId(e) ==
    LET ps == SepPositions(e, 1)
    IN  IF Len(ps) = 1 THEN SubSeq(e, ps[1] + 2, Len(e)) ELSE <<>>

-----------------------------------------------------------------------------
(* Query validation, matching and range construction                       *)

\* Filter.Validate for the filter on property p.
FilterValid(p, f) ==
    /\ p # ""
    /\ Len(f.vals) > 0 \/ f.op = "all"
    /\ CASE f.op = "eq"      -> Len(f.vals) <= 1
         [] f.op = "between" -> Len(f.vals) = 2
         [] f.op = "in"      -> Len(f.vals) >= 1
         [] f.op = "all"     -> p = "id"
         [] OTHER            -> FALSE

\* Paging.Validate: offset >= 0, limit -1 (no limit) or positive.
PagingValid(q) == ~(q.offset < 0 \/ q.limit = 0 \/ q.limit < -1)

\* GetQuery.Validate.
QueryValid(q) ==
    /\ DOMAIN q.filters # {}
    /\ \A p \in DOMAIN q.filters : FilterValid(p, q.filters[p])
    /\ PagingValid(q)

Ordered(q) == q.order.by # ""

\* CompoundIndex.Matches: an order must be on the last column; the first
\* (filters, plus the order column if unfiltered) columns are each
\* filtered or the order column.
Matches(q) ==
    LET expected == Cardinality(DOMAIN q.filters)
                      + (IF Ordered(q) /\ q.order.by \notin DOMAIN q.filters THEN 1 ELSE 0)
    IN  /\ ~Ordered(q) \/ q.order.by = Cols[Len(Cols)]
        /\ expected <= Len(Cols)
        /\ \A i \in 1..expected :
              Cols[i] \in DOMAIN q.filters \/ (Ordered(q) /\ Cols[i] = q.order.by)

\* The walk of rangeKeys over the columns, from column i: Eq appends
\* "v|" to both bounds, one Between appends its low and high values; the
\* walk stops at the first unfiltered column.
RECURSIVE RangeFrom(_, _, _)
RangeFrom(q, i, r) ==
    IF i > Len(Cols) \/ Cols[i] \notin DOMAIN q.filters THEN r
    ELSE LET f  == q.filters[Cols[i]]
             r1 == [r EXCEPT !.n = @ + 1]
         IN  CASE f.op = "eq" /\ r.ranges = 0 ->
                    RangeFrom(q, i + 1, [r1 EXCEPT !.start = @ \o Prepare(f.vals[1]) \o <<Bar>>,
                                                   !.end = @ \o Prepare(f.vals[1]) \o <<Bar>>])
               [] f.op = "between" /\ (~Ordered(q) \/ q.order.by = Cols[i]) /\ r.ranges = 0 ->
                    RangeFrom(q, i + 1, [r1 EXCEPT !.start = @ \o Prepare(f.vals[1]),
                                                   !.end = @ \o Prepare(f.vals[2]),
                                                   !.ranges = 1])
               [] OTHER -> [r1 EXCEPT !.err = TRUE]

\* Mutant: the high bound is not terminated by 0xff.
RangeKeysNoFF(q) ==
    LET r == RangeFrom(q, 1, [err |-> FALSE, start |-> <<91>>, end |-> <<40>>,
                              n |-> 0, ranges |-> 0])
    IN  IF r.n > 0 /\ ~r.err THEN r ELSE [r EXCEPT !.err = TRUE]

\* rangeKeys: "[" low and "(" high bound, the high one ended by 0xff.  With
\* no filtered column the bounds are "", which redis rejects.
RangeKeys(q) ==
    LET r == RangeFrom(q, 1, [err |-> FALSE, start |-> <<91>>, end |-> <<40>>,
                              n |-> 0, ranges |-> 0])
    IN  IF r.n > 0 /\ ~r.err THEN [r EXCEPT !.end = @ \o <<255>>] ELSE [r EXCEPT !.err = TRUE]

-----------------------------------------------------------------------------
(* What a GET should answer (spec 4.2.3, 4.4, 8.4-8.7)                     *)

\* The logical order of values of one type; -0.0 equals 0.0.
ValLess(a, b) ==
    CASE a.t = "text"  -> BytesLess(a.s, b.s)
      [] a.t = "float" -> (IF a.neg THEN -a.mag ELSE a.mag) < (IF b.neg THEN -b.mag ELSE b.mag)
      [] OTHER         -> a.v < b.v
ValEq(a, b) == ~ValLess(a, b) /\ ~ValLess(b, a)

Sat(v, f) ==
    /\ v # Nil
    /\ CASE f.op = "eq"      -> ValEq(v, f.vals[1])
         [] f.op = "between" -> ~ValLess(v, f.vals[1]) /\ ~ValLess(f.vals[2], v)
         [] OTHER            -> \E i \in DOMAIN f.vals : ValEq(v, f.vals[i])

Selected(q) == {id \in Ids : \A p \in DOMAIN q.filters : Sat(rows[id][p], q.filters[p])}

\* Rows in index order: column by column, then by id.
RowLess(i, j) ==
    \/ \E k \in DOMAIN Cols :
          /\ \A m \in 1..k - 1 : ValEq(rows[i][Cols[m]], rows[j][Cols[m]])
          /\ ValLess(rows[i][Cols[k]], rows[j][Cols[k]])
    \/ /\ \A m \in DOMAIN Cols : ValEq(rows[i][Cols[m]], rows[j][Cols[m]])
       /\ BytesLess(IdBytes[i], IdBytes[j])

Descending(q) == Ordered(q) /\ ~q.order.asc

\* The page of the selected ids, in the requested order.
Answer(q) ==
    LET s == SetToSortSeq(Selected(q), RowLess)
        o == IF Descending(q) THEN Reverse(s) ELSE s
        p == IF q.limit = -1 THEN SubSeq(o, q.offset + 1, Len(o))
             ELSE SubSeq(o, q.offset + 1, Min({Len(o), q.offset + q.limit}))
    IN  [k \in DOMAIN p |-> IdBytes[p[k]]]

-----------------------------------------------------------------------------
(* The reader                                                              *)

NoQuery == [filters |-> [p \in {} |-> Nil], order |-> [by |-> "", asc |-> TRUE],
            offset |-> 0, limit |-> -1]
IdleRd == [pc |-> "idle", q |-> NoQuery, start |-> <<>>, end |-> <<>>, err |-> "",
           ids |-> <<>>, total |-> 0, expIds |-> <<>>, expTotal |-> 0]

Init ==
    /\ rows = [id \in Ids |-> [c \in Range(Cols) |-> Nil]]
    /\ zset = {}
    /\ rd = IdleRd

\* A GET arrives: handleQuery validates it, getIds selects the index (or
\* fails with NoIndex), Find builds the range (or fails).
Query(q) ==
    LET rk == RangeKeys(q) IN
    /\ rd.pc = "idle"
    /\ rd' = CASE ~QueryValid(q) -> [IdleRd EXCEPT !.pc = "done", !.q = q, !.err = "invalid"]
               [] ~Matches(q)    -> [IdleRd EXCEPT !.pc = "done", !.q = q, !.err = "noindex"]
               [] rk.err         -> [IdleRd EXCEPT !.pc = "done", !.q = q, !.err = "range"]
               [] OTHER          -> [IdleRd EXCEPT !.pc = "range", !.q = q,
                                                   !.start = rk.start, !.end = rk.end]
    /\ UNCHANGED <<rows, zset>>

\* The arguments after the key: descending swaps the bounds.
Bounds == IF Descending(rd.q) THEN <<rd.end, rd.start>> ELSE <<rd.start, rd.end>>
\* LIMIT offset offset+limit when limit > 0.
Lim == IF rd.q.limit > 0 THEN <<rd.q.offset, rd.q.offset + rd.q.limit>> ELSE <<>>

\* Redis runs the ZRANGEBYLEX (ZREVRANGEBYLEX) of the batch; the ids are
\* extracted from the entries.  expIds and expTotal record what the query
\* should answer at this moment.
FindRange ==
    LET res == IF Descending(rd.q) THEN ZRevRangeByLex(zset, Bounds[1], Bounds[2], Lim)
               ELSE ZRangeByLex(zset, Bounds[1], Bounds[2], Lim)
    IN
    /\ rd.pc = "range"
    /\ rd' = [rd EXCEPT !.pc = "count", !.ids = [k \in DOMAIN res |-> ExtractId(res[k])],
                        !.expIds = Answer(rd.q), !.expTotal = Cardinality(Selected(rd.q))]
    /\ UNCHANGED <<rows, zset>>

\* Redis runs the ZLEXCOUNT, whose arguments are the first three of the
\* range command: the key and the two bounds in the order sent.
FindCount ==
    /\ rd.pc = "count"
    /\ rd' = [rd EXCEPT !.pc = "done", !.total = ZLexCount(zset, Bounds[1], Bounds[2])]
    /\ UNCHANGED <<rows, zset>>

\* The response goes back to the client.
Reply ==
    /\ rd.pc = "done"
    /\ rd' = IdleRd
    /\ UNCHANGED <<rows, zset>>

Next ==
    \/ \E id \in Ids, r \in RowVals : Write(id, r)
    \/ \E q \in Queries : Query(q)
    \/ FindRange
    \/ FindCount
    \/ Reply

Spec == Init /\ [][Next]_vars

-----------------------------------------------------------------------------
(* Properties                                                              *)

Bytes == Seq(0..255)

TypeOK ==
    /\ rows \in [Ids -> RowVals \cup {[c \in Range(Cols) |-> Nil]}]
    /\ zset \subseteq Bytes \ {<<>>}
    /\ rd.pc \in {"idle", "range", "count", "done"}
    /\ rd.err \in {"", "invalid", "noindex", "range"}
    /\ rd.ids \in Seq(Bytes)
    /\ rd.total \in Nat

\* Find returns exactly the page of the rows the filters select, in the
\* requested order (spec 4.2.3 and tests 8.4-8.7): the encoding of values
\* by prepareValue, the bounds of rangeKeys, the lexical range, the LIMIT
\* and extractId together pick what the filters mean.
FindMatches ==
    rd.pc \in {"count", "done"} /\ rd.err = "" => rd.ids = rd.expIds

\* The answer of a GET: that page, and as total the number of rows the
\* filters select, counted over the same range without the limit (spec
\* 4.2.3, 4.4).
GetAnswers ==
    rd.pc = "done" /\ rd.err = "" => rd.ids = rd.expIds /\ rd.total = rd.expTotal

====
