----------------------------- MODULE TokenInput -----------------------------
(***************************************************************************)
(* The bytes of one GBON stream, as far as package internal/wire's Reader  *)
(* tells them apart.  A byte is identified by its offset from the start of *)
(* the input.  What a byte says if a token starts at it is a record:       *)
(*                                                                         *)
(*   class   the token class of the high nibble: a REF, a descriptor       *)
(*           literal, a string literal, or any other token                 *)
(*   width   the bytes of ARG payload the low nibble announces             *)
(*   len     the bytes of raw body the decoded argument announces          *)
(*                                                                         *)
(* A declared length is whatever the input says it is: it may exceed what  *)
(* is left of the input.                                                   *)
(***************************************************************************)
EXTENDS Integers

CONSTANTS
  InLen,       \* the number of bytes in the input
  Input,       \* the input: offset -> what a token starting there announces
  MaxArg,      \* the widest ARG payload (8 bytes in the code)
  PeekNameCap  \* peekNameCap, the longest name a lookahead buffers

Classes == {"ref", "desc", "string", "other"}

Byte == [class : Classes, width : 0..MaxArg, len : Nat]

Offsets == 0..(InLen - 1)

ASSUME InputAssumption ==
  /\ InLen \in Nat
  /\ MaxArg \in Nat
  /\ PeekNameCap \in Nat
  /\ Input \in [Offsets -> Byte]
  \* A REF is its header byte and its argument, and has no body.
  /\ \A o \in Offsets : Input[o].class = "ref" => Input[o].len = 0

(* The byte sequence [at, at+n) of the input, as the slice a read returns. *)
Span(at, n) == [i \in 0..(n - 1) |-> at + i]

(* The complete REF token at offset at: header byte plus ARG payload.      *)
RefExtent(at) == 1 + Input[at].width

WholeRefAt(at) ==
  /\ at < InLen
  /\ Input[at].class = "ref"
  /\ at + RefExtent(at) <= InLen

(* The descriptor-literal header at offset at: the kind byte or bytes, and *)
(* behind them a string literal, the name, short enough to be looked at.   *)
NameAt(at) == at + 1 + Input[at].width

NameBody(at) == NameAt(at) + 1 + Input[NameAt(at)].width

DescEnd(at) == NameBody(at) + Input[NameAt(at)].len

WholeDescAt(at) ==
  /\ at < InLen
  /\ Input[at].class = "desc"
  /\ Input[at].width <= 1
  /\ NameAt(at) < InLen
  /\ Input[NameAt(at)].class = "string"
  /\ Input[NameAt(at)].len <= PeekNameCap
  /\ DescEnd(at) <= InLen
=============================================================================
