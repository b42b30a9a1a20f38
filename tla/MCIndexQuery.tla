---------------------------- MODULE MCIndexQuery ----------------------------
(* Model-checking instance of IndexQuery: an index on (cat, score) with a  *)
(* text category and a float score, three rows, one-byte numbers.          *)
EXTENDS IndexQuery

CONSTANTS i1, i2, i3

MCIdBytes == (i1 :> <<49>>) @@ (i2 :> <<50>>) @@ (i3 :> <<51>>)
MCCols == <<"cat", "score">>

Txt(s) == [t |-> "text", s |-> s]
Flt(neg, mag) == [t |-> "float", neg |-> neg, mag |-> mag]
X == Txt(<<120>>)
Y == Txt(<<121>>)
\* Scores -2, 1 and 2 as sign and magnitude bits.
Neg2 == Flt(TRUE, 64)
Pos1 == Flt(FALSE, 63)
Pos2 == Flt(FALSE, 64)

Row(c, s) == ("cat" :> c) @@ ("score" :> s)
Deleted == [c \in {"cat", "score"} |-> Nil]
MCRowVals == {Row(c, s) : c \in {X, Y}, s \in {Neg2, Pos1, Pos2}} \cup {Deleted}

Eq(v) == [op |-> "eq", vals |-> <<v>>]
Btw(lo, hi) == [op |-> "between", vals |-> <<lo, hi>>]
In(v) == [op |-> "in", vals |-> <<v>>]
Q(filters, by, asc, offset, limit) ==
    [filters |-> filters, order |-> [by |-> by, asc |-> asc], offset |-> offset, limit |-> limit]

\* A prefix lookup, the top score of a category, a score range ascending
\* and descending, and queries that fail: a filter that is not a prefix, a
\* range before an equality, IN on the index, a zero limit.
QPrefix   == Q("cat" :> Eq(X), "", TRUE, 0, -1)
QTop      == Q("cat" :> Eq(X), "score", FALSE, 0, 1)
QRange    == Q(("cat" :> Eq(X)) @@ ("score" :> Btw(Neg2, Pos1)), "score", TRUE, 0, -1)
QRangeDesc == Q(("cat" :> Eq(Y)) @@ ("score" :> Btw(Neg2, Pos2)), "score", FALSE, 0, 2)
QNoIndex  == Q("score" :> Eq(Pos1), "", TRUE, 0, -1)
QRangeEq  == Q(("cat" :> Btw(X, Y)) @@ ("score" :> Eq(Pos1)), "", TRUE, 0, -1)
QIn       == Q("cat" :> In(X), "", TRUE, 0, -1)
QZeroLimit == Q("cat" :> Eq(X), "", TRUE, 0, 0)
MCQueries == {QPrefix, QTop, QRange, QRangeDesc, QNoIndex, QRangeEq, QIn, QZeroLimit}

\* The second page of one row of a category by score.
QPage == Q("cat" :> Eq(X), "score", TRUE, 1, 1)
MCPageQueries == {QPage}

\* The top score of a category, descending.
MCTopQueries == {QTop}
====
