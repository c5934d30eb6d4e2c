----------------------------- MODULE MCMapOrder -----------------------------
(***************************************************************************)
(* Maps of up to three pairs over keys of every category: numbers at the   *)
(* borders of the argument forms, both zeros, strings whose first bytes    *)
(* and lengths disagree, shared, cyclic and equal pointers, interfaces     *)
(* that repeat a descriptor, name a string or rebind a name, big integers  *)
(* around a word, arrays with elided tails.                                *)
(***************************************************************************)
EXTENDS MapOrder

T(kind, name, args, labels, parts) ==
  [kind |-> kind, name |-> name, args |-> args, labels |-> labels, parts |-> parts]

(* Names are single bytes, but for that of "int", which a key spells too.  *)
MCTypes == [
  int    |-> T("int", <<7, 7>>, <<2>>, <<>>, <<>>),
  uint   |-> T("uint", <<1>>, <<2>>, <<>>, <<>>),
  bool   |-> T("bool", <<16>>, <<>>, <<>>, <<>>),
  f32    |-> T("f32", <<17>>, <<1>>, <<>>, <<>>),
  f64    |-> T("f64", <<2>>, <<2>>, <<>>, <<>>),
  c64    |-> T("c64", <<3>>, <<2>>, <<>>, <<>>),
  c128   |-> T("c128", <<4>>, <<4>>, <<>>, <<>>),
  string |-> T("string", <<5>>, <<>>, <<>>, <<>>),
  big    |-> T("bigint", <<6>>, <<>>, <<>>, <<>>),
  any    |-> T("iface", <<8>>, <<>>, <<>>, <<>>),
  tail   |-> T("array", <<9>>, <<2>>, <<>>, <<"f64">>),
  pint   |-> T("ptr", <<10>>, <<>>, <<>>, <<"int">>),
  pair   |-> T("struct", <<11>>, <<2>>, <<<<1>>, <<2>>>>, <<"pint", "pint">>),
  node   |-> T("struct", <<12>>, <<1>>, <<<<1>>>>, <<"pnode">>),
  pnode  |-> T("ptr", <<13>>, <<>>, <<>>, <<"node">>),
  boxes  |-> T("struct", <<14>>, <<2>>, <<<<1>>, <<2>>>>, <<"any", "any">>),
  s      |-> T("struct", <<15>>, <<1>>, <<<<1>>>>, <<"int">>),
  s2     |-> T("struct", <<15>>, <<1>>, <<<<1>>>>, <<"uint">>),
  s3     |-> T("struct", <<15>>, <<1>>, <<<<2>>>>, <<"int">>)]

IntKey(n) == [kind |-> "int", n |-> n]
UintKey(n) == [kind |-> "uint", n |-> n]
F64(b)    == [kind |-> "f64", bits |-> b]
C(k, a, b) == [kind |-> k, re |-> a, im |-> b]
Str(s)    == [kind |-> "string", s |-> s]
Big(o)    == [kind |-> "bigint", obj |-> o]
Ptr(o)    == [kind |-> "ptr", obj |-> o]
Arr(e)    == [kind |-> "array", elems |-> e]
Struct(e) == [kind |-> "struct", elems |-> e]
NilAny    == [kind |-> "iface", nil |-> TRUE]
Box(t, v) == [kind |-> "iface", nil |-> FALSE, type |-> t, val |-> v]

Neg0 == 32768

(* Two equal numbers, a big one, a zero, and a node that is its own next.  *)
MCHeap == (1 :> IntKey(6)) @@ (2 :> IntKey(6)) @@ (3 :> IntKey(40000)) @@ (4 :> IntKey(0))
          @@ (5 :> Struct(<<Ptr(5)>>)) @@ (6 :> Struct(<<Ptr(0)>>))

(* Addresses in the order of the objects, against it, and turned by one. *)
MCPlacements == {[o \in DOMAIN MCHeap |-> o], [o \in DOMAIN MCHeap |-> 7 - o],
                 [o \in DOMAIN MCHeap |-> 1 + (o % 6)]}

MCKeys == [
  int    |-> {IntKey(n) : n \in {0, -1, 5, 6, 127, 128, -129}},
  f64    |-> {F64(b) : b \in {0, Neg0, 1, Neg0 + 1, 30000}},
  c64    |-> {C("c64", 0, 1), C("c64", 128, 1), C("c64", 1, 0), C("c64", 1, 128), C("c64", 1, 129)},
  c128   |-> {C("c128", 1, b) : b \in {0, 1, Neg0}} \cup {C("c128", Neg0, 1), C("c128", 256, 1)},
  string |-> {Str(s) : s \in {<<>>, <<0>>, <<255>>, <<0, 0>>, <<0, 255, 0>>,
                              [i \in 1 .. 11 |-> 9], [i \in 1 .. 12 |-> 1]}},
  big    |-> {Big(o) : o \in {0, 1, 2, 3, 4}},
  tail   |-> {Arr(<<F64(a), F64(b)>>) : a \in {0, 1}, b \in {0, Neg0, 1}},
  pnode  |-> {Ptr(0), Ptr(5), Ptr(6)},
  pair   |-> {Struct(<<Ptr(a), Ptr(b)>>) : a \in {1, 2}, b \in {0, 1, 2}},
  any    |-> {NilAny, Box("int", IntKey(1)), Box("uint", UintKey(1)), Box("string", Str(<<7, 7>>)),
              Box("pint", Ptr(1)), Box("pint", Ptr(2)), Box("f64", F64(Neg0)),
              Box("f32", [kind |-> "f32", bits |-> 1]), Box("bool", [kind |-> "bool", n |-> 1])},
  boxes  |-> {Struct(<<a, b>>) :
                a \in {Box("string", Str(<<7, 7>>)), Box("s", Struct(<<IntKey(1)>>))},
                b \in {Box("int", IntKey(1)), Box("s", Struct(<<IntKey(1)>>)),
                       Box("s2", Struct(<<UintKey(1)>>)),
                       Box("s3", Struct(<<IntKey(1)>>)), Box("tail", Arr(<<F64(1), F64(0)>>))}}]

MCNaNs == [f32 |-> {127}, f64 |-> {30000}, c64 |-> {127}, c128 |-> {30000}]
=============================================================================
