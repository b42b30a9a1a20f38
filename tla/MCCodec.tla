------------------------------ MODULE MCCodec ------------------------------
(* Model-checking instance of Codec: 4-bit integers, floats with seven      *)
(* decimals (none on a rounding tie), texts of up to two bytes with         *)
(* compression from two bytes on, and timestamps: whole seconds, the zero   *)
(* time, and 5 s + 7 ns.                                                    *)
EXTENDS Codec

Ts(z, s, ns) == [zero |-> z, sec |-> s, nsec |-> ns]
Bytes2 == {<<>>} \cup {<<b>> : b \in {48, 120}} \cup {<<b, c>> : b, c \in {45, 120}}

MCValues ==
    {NilV}
      \cup {V("int", n) : n \in MinInt..MaxInt}
      \cup {V("uint", n) : n \in 0..MaxUint}
      \cup {V("float", m) : m \in {-250000000, -30, -3, 0, 1, 500000, 123456780}}
      \cup {V("bool", b) : b \in BOOLEAN}
      \cup {V("text", s) : s \in Bytes2}
      \cup {V("binary", s) : s \in Bytes2}
      \cup {V("timestamp", Ts(FALSE, s, 0)) : s \in {-1, 0, 86400}}
      \cup {V("timestamp", Ts(TRUE, 0, 0)), V("timestamp", Ts(FALSE, 5, 7))}
====
