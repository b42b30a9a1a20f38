-------------------------------- MODULE Codec --------------------------------
(***************************************************************************)
(* The value codec of the redis driver (src/driver/redis/convert.go): how  *)
(* a typed property value is written into a row hash field (Encoder) and  *)
(* read back (Decoder, schema.InternalType).  Byte strings are sequences  *)
(* of byte values.  Integers have IntBits bits (64 in the code); a float  *)
(* is the decimal m / 10^FloatScale, finer than the six decimals that     *)
(* "%f" prints; a timestamp is seconds and nanoseconds since the epoch or *)
(* Go's zero time.  Sets, lists and maps go through an external BSON       *)
(* library and are left out.                                               *)
(***************************************************************************)
EXTENDS Integers, Sequences, SequencesExt

CONSTANTS
    IntBits,        \* width of Int and Uint (64 in the code)
    FloatScale,     \* decimal places a model float carries (>= 6)
    Threshold,      \* Encoder.TextCompressThreshold (0: never compress)
    Values          \* the typed values to encode

ASSUME IntBits \in Nat \ {0} /\ FloatScale \in Nat /\ FloatScale >= 6 /\ Threshold \in Nat

VARIABLE v          \* the value under test

MinInt == -(2^(IntBits - 1))
MaxInt == 2^(IntBits - 1) - 1
MaxUint == 2^IntBits - 1

\* The type prefixes of convert.go.
IntPrefix == 105          \* 'i'
UintPrefix == 117         \* 'u'
FloatPrefix == 102        \* 'f'
TextPrefix == 120         \* 'x'
CompressedTextPrefix == 122        \* 'z' (LZW)
CompressedTextPrefixSnappy == 90   \* 'Z'
BoolPrefix == 98          \* 'b'
TimestampPrefix == 116    \* 't'
BinaryPrefix == 114       \* 'r'
NilPrefix == 78           \* 'N'
Minus == 45
Plus == 43
Dot == 46
Zero == 48

\* A typed value: its type and a payload field named for the payload's kind.
Field(t) == CASE t \in {"int", "uint", "float"} -> "n"
              [] t = "bool"                    -> "b"
              [] t \in {"text", "binary"}      -> "s"
              [] t = "timestamp"               -> "ts"
V(t, x) == [f \in {"t", Field(t)} |-> IF f = "t" THEN t ELSE x]
Pay(x) == x[Field(x.t)]
NilV == [t |-> "nil"]

-----------------------------------------------------------------------------
(* Encoder                                                                 *)

\* The decimal digits of n >= 0, as fmt's %d writes them.
RECURSIVE Digits(_)
Digits(n) == IF n < 10 THEN <<Zero + n>> ELSE Digits(n \div 10) \o <<Zero + (n % 10)>>

\* %d of an integer.
Itoa(n) == IF n < 0 THEN <<Minus>> \o Digits(-n) ELSE Digits(n)

\* k digits of n >= 0 with leading zeros.
Padded(n, k) == [i \in 1..k |-> Zero + ((n \div 10^(k - i)) % 10)]

\* %f: the value rounded to six decimals, half away from zero, with its
\* sign kept even when it rounds to zero.
EncodeFloat(m) ==
    LET a    == IF m < 0 THEN -m ELSE m
        step == 10^(FloatScale - 6)
        r    == (a + step \div 2) \div step
    IN  (IF m < 0 THEN <<Minus>> ELSE <<>>)
          \o Digits(r \div 10^6) \o <<Dot>> \o Padded(r % 10^6, 6)

\* snappy.Encode of a short input: the uvarint length, then one literal
\* element (tag (len-1)<<2) holding the bytes.
Snappy(s) == <<Len(s), (Len(s) - 1) * 4>> \o s

EncodeText(s) ==
    IF Threshold > 0 /\ Len(s) >= Threshold
    THEN <<CompressedTextPrefixSnappy>> \o Snappy(s)
    ELSE <<TextPrefix>> \o s

\* encodeTimestamp: "" for the zero time, else 't' and the Unix seconds.
EncodeTimestamp(ts) ==
    IF ts.zero THEN <<>> ELSE <<TimestampPrefix>> \o Itoa(ts.sec)

\* Encoder.Encode: ints and uints carry no prefix, so HINCRBY works on them.
Encode(x) ==
    CASE x.t = "nil"       -> <<NilPrefix>>
      [] x.t = "int"       -> Itoa(x.n)
      [] x.t = "uint"      -> Itoa(x.n)
      [] x.t = "float"     -> EncodeFloat(x.n)
      [] x.t = "bool"      -> <<BoolPrefix, IF x.b THEN Zero + 1 ELSE Zero>>
      [] x.t = "text"      -> EncodeText(x.s)
      [] x.t = "binary"    -> <<BinaryPrefix>> \o x.s
      [] x.t = "timestamp" -> EncodeTimestamp(x.ts)

-----------------------------------------------------------------------------
(* Decoder                                                                 *)

Ok(x) == [r |-> "ok", val |-> x]
Fail == [r |-> "error", val |-> NilV]
Panic == [r |-> "panic", val |-> NilV]

IsDigits(s) == Len(s) > 0 /\ \A i \in DOMAIN s : s[i] \in Zero..(Zero + 9)
DigitsVal(s) == FoldLeft(LAMBDA acc, d : acc * 10 + d - Zero, 0, s)

\* strconv.ParseInt(s, 10, IntBits): an optional sign, digits, in range.
ParseInt(s) ==
    LET signed == s # <<>> /\ Head(s) \in {Minus, Plus}
        body   == IF signed THEN Tail(s) ELSE s
        n      == IF signed /\ Head(s) = Minus THEN -DigitsVal(body) ELSE DigitsVal(body)
    IN  IF IsDigits(body) /\ MinInt <= n /\ n <= MaxInt THEN Ok(n) ELSE Fail

\* strconv.ParseUint(s, 10, IntBits): digits only, in range.
ParseUint(s) ==
    IF IsDigits(s) /\ DigitsVal(s) <= MaxUint THEN Ok(DigitsVal(s)) ELSE Fail

\* strconv.ParseFloat on the forms "-?D" and "-?D.F", as m / 10^FloatScale.
ParseFloat(s) ==
    LET neg  == s # <<>> /\ Head(s) = Minus
        body == IF s # <<>> /\ Head(s) \in {Minus, Plus} THEN Tail(s) ELSE s
        dots == {i \in DOMAIN body : body[i] = Dot}
        d    == IF dots = {} THEN Len(body) + 1 ELSE CHOOSE i \in dots : TRUE
        ip   == SubSeq(body, 1, d - 1)
        fp   == SubSeq(body, d + 1, Len(body))
        a    == DigitsVal(ip) * 10^FloatScale
                  + DigitsVal(fp) * 10^(FloatScale - Len(fp))
    IN  IF /\ Cardinality(dots) <= 1 /\ IsDigits(ip)
           /\ (dots = {} \/ IsDigits(fp)) /\ Len(fp) <= FloatScale
        THEN Ok(IF neg THEN -a ELSE a) ELSE Fail

\* decodeNumber: ParseInt, then ParseUint, then ParseFloat; InternalType
\* turns int64, uint64 and float64 into Int, Uint and Float.
DecodeNumber(s) ==
    CASE ParseInt(s).r = "ok"   -> Ok(V("int", ParseInt(s).val))
      [] ParseUint(s).r = "ok"  -> Ok(V("uint", ParseUint(s).val))
      [] ParseFloat(s).r = "ok" -> Ok(V("float", ParseFloat(s).val))
      [] OTHER                  -> Fail

\* decodeBool: "1"/"true" and "0"/"false" (the case is folded).
DecodeBool(s) ==
    CASE s \in {<<Zero + 1>>, <<116, 114, 117, 101>>} -> Ok(V("bool", TRUE))
      [] s \in {<<Zero>>, <<102, 97, 108, 115, 101>>}  -> Ok(V("bool", FALSE))
      [] OTHER                                         -> Fail

\* snappy.Decode of one literal element.
Unsnappy(s) ==
    IF Len(s) >= 2 /\ s[2] = (s[1] - 1) * 4 /\ Len(s) = s[1] + 2
    THEN Ok(V("text", SubSeq(s, 3, Len(s)))) ELSE Fail

\* decodeTimestamp: time.Unix(seconds, 0).
DecodeTimestamp(s) ==
    IF ParseInt(s).r = "ok"
    THEN Ok(V("timestamp", [zero |-> FALSE, sec |-> ParseInt(s).val, nsec |-> 0]))
    ELSE Fail

\* Decoder.Decode.  A nil reply is a nil value; an empty field (the reply
\* is an empty, non-nil slice) makes data[0] index out of range.  The
\* prefixes Encode never writes for these types ('z', the legacy LZW text,
\* and 's', 'l', 'm' of BSON sets, lists and maps) are left out and, like
\* an unknown prefix, answer an error here.
Decode(data) ==
    IF data = <<>> THEN Panic
    ELSE LET p == Head(data)
             x == Tail(data)
         IN  CASE p = NilPrefix                  -> Ok(NilV)
               [] p = IntPrefix                  -> IF ParseInt(x).r = "ok"
                                                    THEN Ok(V("int", ParseInt(x).val)) ELSE Fail
               [] p = UintPrefix                 -> IF ParseUint(x).r = "ok"
                                                    THEN Ok(V("uint", ParseUint(x).val)) ELSE Fail
               [] p = FloatPrefix                -> IF ParseFloat(x).r = "ok"
                                                    THEN Ok(V("float", ParseFloat(x).val)) ELSE Fail
               [] p = BoolPrefix                 -> DecodeBool(x)
               [] p = TextPrefix                 -> Ok(V("text", x))
               [] p = CompressedTextPrefixSnappy -> Unsnappy(x)
               [] p = BinaryPrefix               -> Ok(V("binary", x))
               [] p = TimestampPrefix            -> DecodeTimestamp(x)
               [] p \in (Zero..(Zero + 9)) \cup {Minus} -> DecodeNumber(data)
               [] OTHER                          -> Fail

-----------------------------------------------------------------------------

Init == v \in Values
Next == UNCHANGED v
Spec == Init /\ [][Next]_v

\* Two values are the same value: same type, and for timestamps the same
\* instant (time.Time's Equal).
SameValue(a, b) ==
    /\ a.t = b.t
    /\ CASE a.t = "nil"       -> TRUE
         [] a.t = "timestamp" -> /\ a.ts.zero = b.ts.zero
                                 /\ ~a.ts.zero => a.ts.sec = b.ts.sec /\ a.ts.nsec = b.ts.nsec
         [] OTHER             -> Pay(a) = Pay(b)

\* Spec section 8, property 1 (codec round-trip): every supported value
\* that a Put writes into a row hash (Encoder.Encode) is read back by
\* Get (Decoder.Decode in table.readEntity) as the same typed value.
RoundTrip ==
    LET d == Decode(Encode(v)) IN d.r = "ok" /\ SameValue(d.val, v)
====
