-------------------------- MODULE MCDecodeBudgets --------------------------
(***************************************************************************)
(* DecodeBudgets over values of every kind, alone, in containers, and one  *)
(* after another.                                                          *)
(***************************************************************************)
EXTENDS DecodeBudgets

Num(n)      == [k |-> "int", n |-> n]
Str(n)      == [k |-> "string", n |-> n]
Big(n)      == [k |-> "big", n |-> n]
Blob(L, n)  == [k |-> "blob", L |-> L, n |-> n]
Slice(L, es, s) == [k |-> "slice", L |-> L, es |-> es, parts |-> s]
Array(s)    == [k |-> "array", L |-> Len(s), parts |-> s]
MapOf(L, s) == [k |-> "map", L |-> L, es |-> 3, parts |-> s]
Struct(s)   == [k |-> "struct", parts |-> s]
Named(v)    == [k |-> "named", parts |-> <<v>>]
Ptr(v)      == [k |-> "ptr", parts |-> <<v>>]
Iface(t, v) == [k |-> "iface", type |-> t, parts |-> <<v>>]
Coder(s)    == [k |-> "coder", parts |-> s]

Leaves ==
  {Num(1), Num(3), [k |-> "bool"], [k |-> "repeat"], Str(0), Str(4), Str(REF),
   Big(0), Big(4), Blob(5, 2), Blob(0, 0), [k |-> "time", n |-> 2],
   [k |-> "binary", L |-> 4, n |-> 3]}

Few == {Num(3), Str(4), Blob(5, 2), [k |-> "time", n |-> 2]}

Lists(v) == {<<>>, <<v>>, <<v, v>>}

Around(v) ==
  UNION {{Slice(Len(s) + 1, 2, s), Array(s), Struct(s)} : s \in Lists(v)}
  \cup {MapOf(1, <<Num(1), v>>), MapOf(2, <<Num(1), v>>), Named(v), Ptr(v),
        Iface("t", v), Iface("u", v), Ptr(Iface("t", v)), Coder(<<v>>)}

\* Backings whose size leaves the word, and structs that are flat or nearly so.
Special ==
  {Slice(17, 4, <<>>), Slice(31, 2, <<>>), Slice(32, 2, <<>>), Slice(16, 4, <<Num(1)>>),
   Slice(22, 3, <<>>), MapOf(22, <<>>),
   Struct(<<Num(1), Str(4)>>), Struct(<<Num(1), Named(Str(4))>>),
   Struct(<<Str(4), Struct(<<Num(3)>>)>>), Coder(<<Num(1), Coder(<<Num(3)>>)>>)}

AnyValue ==
  Leaves \cup UNION {Around(v) : v \in Leaves} \cup Special
  \cup UNION {Around(w) : w \in UNION {Around(v) : v \in Few} \cup Special}

\* A second value meets the descriptors, and the position, of the first.
Firsts  == {Num(3), Str(4), Blob(5, 2), Iface("t", Num(1)), Slice(4, 2, <<Num(1), Num(1)>>)}
Seconds == Leaves \cup Special \cup Around(Num(3)) \cup Around(Iface("t", Num(1)))

MCStreams == {<<v>> : v \in AnyValue} \cup {<<v, w>> : v \in Firsts, w \in Seconds}

MCDescs == [t |-> [nodes |-> 2, deep |-> 2, bytes |-> 3],
            u |-> [nodes |-> 1, deep |-> 1, bytes |-> 2]]

Wide == [depth |-> 9, nodes |-> 20, bytes |-> 31, pairs |-> 5, len |-> 31]

MCLimits ==
  {Wide} \cup {[Wide EXCEPT !.depth = n] : n \in 2 .. 6}
  \cup {[Wide EXCEPT !.nodes = n] : n \in 2 .. 9}
  \cup {[Wide EXCEPT !.bytes = n] : n \in 2 .. 20}
  \cup {[Wide EXCEPT !.pairs = 1], [Wide EXCEPT !.len = 2]}
=============================================================================
