------------------------------- MODULE Packer -------------------------------
(***************************************************************************)
(* The RPC serialisation (src/net/rpc/packer.cc, unpacker.cc and their     *)
(* headers): values packed one after another into a byte vector and        *)
(* unpacked again in the same order, with the types the caller names.      *)
(*                                                                         *)
(* A value is [t, v].  An integer's v is the sequence of its bytes, most   *)
(* significant first, in two's complement: widths keep their meaning       *)
(* beyond the model checker's integers.  A real is [neg, exp, frac] for    *)
(* +-(1 + frac / 4) * 2^exp: two mantissa bits stand for all of them.      *)
(***************************************************************************)
EXTENDS Integers, Sequences, SequencesExt

CONSTANTS
  Items,      \* the values that are packed, as a sequence
  MaxItems,   \* bound on how many go into one vector (TLC only)
  MaxCut      \* bound on the size of the vectors that are truncated (TLC only)

VARIABLES
  items,      \* the values packed so far, in order
  packed,     \* serialized_object_
  phase,      \* "pack", then "unpack"
  fresh,      \* the receiving variables start at zero (as<T>() leaves them unset)
  absWraps,   \* what std::abs(INT32_MIN), which is undefined, yields: itself, or a large value
  u,          \* the unpacker: [data, pos, err]
  out         \* the values unpacked

vars == <<items, packed, phase, fresh, absWraps, u, out>>

Tag == [Int |-> [w \in {1, 2, 4, 8} |-> CASE w = 1 -> 1 [] w = 2 -> 3 [] w = 4 -> 5 [] w = 8 -> 7],
        Uint |-> [w \in {1, 2, 4, 8} |-> CASE w = 1 -> 2 [] w = 2 -> 4 [] w = 4 -> 6 [] w = 8 -> 8],
        Float32 |-> 9, Float64 |-> 10, TrueBool |-> 11, FalseBool |-> 12,
        Bin |-> [w \in {1, 2, 4} |-> 12 + (IF w = 4 THEN 3 ELSE w)],
        Str |-> [w \in {1, 2, 4} |-> 18 + (IF w = 4 THEN 3 ELSE w)],
        Array |-> [w \in {2, 4} |-> 21 + w \div 2], Map |-> [w \in {2, 4} |-> 23 + w \div 2],
        Max |-> 26]

BigEndian(n, w) == [k \in 1..w |-> (n \div 256^(w - k)) % 256]
Low(v) == SubSeq(v, Len(v) \div 2 + 1, Len(v))
High(v) == SubSeq(v, 1, Len(v) \div 2)
Fill(b, n) == [k \in 1..n |-> b]
SignOf(v) == IF v[1] >= 128 THEN 255 ELSE 0

-----------------------------------------------------------------------------
(* Packing                                                                 *)

\* |value| < |min of half the width|: the value is the sign extension of its
\* low half and not that half's minimum.  For INT32_MIN std::abs is undefined.
FitsHalf(v) ==
  \/ /\ High(v) = Fill(SignOf(Low(v)), Len(v) \div 2)
     /\ Low(v) # <<128>> \o Fill(0, Len(v) \div 2 - 1)
  \/ v = <<128, 0, 0, 0>> /\ absWraps

MutantAmbiguous(b) == FALSE

\* A byte that could be taken for a tag.
Ambiguous(b) == 0 < b /\ b < Tag.Max

RECURSIVE PackInt(_)
PackInt(v) ==
  IF Len(v) = 1 THEN (IF Ambiguous(v[1]) THEN <<Tag.Int[1]>> ELSE <<>>) \o v
  ELSE IF FitsHalf(v) THEN PackInt(Low(v))
  ELSE <<Tag.Int[Len(v)]>> \o v

\* A byte that is packed without a tag.
Bare(b) == b <= 127

RECURSIVE PackUint(_)
PackUint(v) ==
  IF Len(v) = 1 THEN (IF Bare(v[1]) THEN <<>> ELSE <<Tag.Uint[1]>>) \o v
  ELSE IF High(v) = Fill(0, Len(v) \div 2) THEN PackUint(Low(v))
  ELSE <<Tag.Uint[Len(v)]>> \o v

\* The length in front of a string or a byte vector.
Sized(n, tags) ==
  LET w == IF n < 255 THEN 1 ELSE IF n < 65535 THEN 2 ELSE 4
  IN  <<tags[w]>> \o BigEndian(n, w)

PackBin(s) == Sized(Len(s), Tag.Bin) \o s
PackStr(s) == (IF Len(s) < 32 THEN <<160 + Len(s)>> ELSE Sized(Len(s), Tag.Str)) \o s

\* A real without a fraction is packed as int64_t.
Integral(r) == r.exp >= 2 \/ (r.exp = 1 /\ r.frac % 2 = 0) \/ (r.exp = 0 /\ r.frac = 0)
Magnitude(r) == ((4 + r.frac) * 2^r.exp) \div 4
Int64(n, neg) == IF neg THEN Fill(255, 5) \o BigEndian(256^3 - n, 3)
                 ELSE Fill(0, 5) \o BigEndian(n, 3)

\* The IEEE 754 image: sign, excess exponent, the two mantissa bits, zeroes.
Bias(w) == IF w = 4 THEN 127 ELSE 1023
ExpBits(w) == IF w = 4 THEN 1 ELSE 4      \* exponent bits in the second byte
PackReal(r, w) ==
  LET e == r.exp + Bias(w)
      k == 2^ExpBits(w)
  IN  IF Integral(r) THEN PackInt(Int64(Magnitude(r), r.neg))
      ELSE <<IF w = 4 THEN Tag.Float32 ELSE Tag.Float64,
             (IF r.neg THEN 128 ELSE 0) + e \div k,
             (e % k) * (256 \div k) + r.frac * (64 \div k)>> \o Fill(0, w - 2)

Counted(n, mask, tags) ==
  IF n < 16 THEN <<mask + n>> ELSE <<tags[2]>> \o BigEndian(n, 2)

\* Packer::pack by type.  Containers pack their elements (a map its keys and
\* values in turn), an object its members as a byte vector of their own.
RECURSIVE Pack(_)
Pack(x) ==
  LET all(s) == FlattenSeq([k \in DOMAIN s |-> Pack(s[k])])
  IN  CASE x.t = "null" -> <<0>>
        [] x.t = "bool" -> <<IF x.v THEN Tag.TrueBool ELSE Tag.FalseBool>>
        [] x.t = "int" -> PackInt(x.v)
        [] x.t = "uint" -> PackUint(x.v)
        [] x.t = "float" -> PackReal(x.v, 4)
        [] x.t = "double" -> PackReal(x.v, 8)
        [] x.t = "str" -> PackStr(x.v)
        [] x.t = "bin" -> PackBin(x.v)
        [] x.t = "array" -> Counted(Len(x.v), 144, Tag.Array) \o all(x.v)
        [] x.t = "map" -> Counted(Len(x.v) \div 2, 128, Tag.Map) \o all(x.v)
        [] x.t = "object" -> PackBin(all(x.v))

-----------------------------------------------------------------------------
(* Unpacking.  Each operator takes an unpacker and returns [u, v].         *)

\* data() and increment(n): reading or stepping past the end sets error_.
Data(x) == IF x.pos <= Len(x.data) THEN x.data[x.pos] ELSE 0
Seen(x) == [x EXCEPT !.err = @ \/ x.pos > Len(x.data)]
Skip(x, n) == IF Len(x.data) + 1 - x.pos >= n THEN [x EXCEPT !.pos = @ + n]
              ELSE [x EXCEPT !.err = TRUE]

\* n times { data(); increment(); }.
Bytes(x, n) ==
  LET left == Len(x.data) + 1 - x.pos IN
  [u |-> [x EXCEPT !.pos = @ + (IF left < n THEN left ELSE n), !.err = @ \/ left < n],
   v |-> [k \in 1..n |-> Data([x EXCEPT !.pos = @ + k - 1])]]
Number(s) == FoldLeft(LAMBDA v, b : 256 * v + b, 0, s)

\* Signed: a tag of this width or a narrower one, sign extended; otherwise one
\* byte, taken as unsigned unless the type is int8_t.
UnpackInt(x, w) ==
  LET ws == {k \in {1, 2, 4, 8} : k <= w /\ Tag.Int[k] = Data(x)}
      k == CHOOSE n \in ws : TRUE
      b == IF ws = {} THEN Bytes(x, 1) ELSE Bytes(Skip(Seen(x), 1), k)
  IN  [u |-> b.u, v |-> Fill(IF ws = {} THEN 0 ELSE SignOf(b.v), w - Len(b.v)) \o b.v]

\* Unsigned: wider tags are added to what the variable holds; a uint64_t that
\* was packed in four bytes steps over one byte more.
Unset == <<"unset">>
UnpackUint(x, w) ==
  LET ws == {k \in {1, 2, 4, 8} : k <= w /\ Tag.Uint[k] = Data(x)}
      k == CHOOSE n \in ws : TRUE
      b == IF ws = {} THEN Bytes(x, 1) ELSE Bytes(Skip(Seen(x), 1), k)
      past == ws # {} /\ w = 8 /\ k = 4
  IN  [u |-> IF past THEN [b.u EXCEPT !.pos = @ + 1] ELSE b.u,
       v |-> IF ws # {} /\ k > 1 /\ ~ fresh THEN Unset ELSE Fill(0, w - Len(b.v)) \o b.v]

\* The exponent is kept in an unsigned variable when the bias is taken off.
Unbias(e, w) == (e - Bias(w)) % (IF w = 4 THEN 256 ELSE 65536)
UnpackReal(x, w) ==
  LET b == Bytes(Skip(Seen(x), 1), w)
      k == 2^ExpBits(w)
      e == (b.v[1] % 128) * k + b.v[2] \div (256 \div k)
      frac == (b.v[2] % (256 \div k)) \div (64 \div k)
  IN  IF Data(x) = (IF w = 4 THEN Tag.Float32 ELSE Tag.Float64)
      THEN [u |-> b.u, v |-> [neg |-> b.v[1] >= 128, exp |-> Unbias(e, w), frac |-> frac]]
      ELSE IF \E n \in {1, 2, 4, 8} : Data(x) = Tag.Int[n] THEN UnpackInt(x, 8)
      ELSE UnpackUint(x, 8)

\* A length, then as many bytes if they are all there.
Length(x, tags, short) ==
  LET ws == {k \in DOMAIN tags : tags[k] = Data(x)}
      b == Bytes(Skip(Seen(x), 1), CHOOSE k \in ws : TRUE)
  IN  IF ws # {} THEN [u |-> b.u, n |-> Number(b.v)]
      ELSE IF short = 0 THEN LET c == Bytes(Skip(Seen(x), 1), 1) IN [u |-> c.u, n |-> Number(c.v)]
      ELSE [u |-> Skip(Seen(x), 1), n |-> Data(x) % short]
Slice(l) ==
  IF l.u.pos + l.n <= Len(l.u.data) + 1
  THEN [u |-> Skip(l.u, l.n), v |-> SubSeq(l.u.data, l.u.pos, l.u.pos + l.n - 1)]
  ELSE [u |-> [l.u EXCEPT !.err = TRUE], v |-> <<>>]

\* Unpacker::unpack for a variable of x's type; the elements of a container
\* are variables of its first element's type, or a map's first pair's.
RECURSIVE Unpack(_, _)
UnpackAll(y, schemas) ==
  LET and(a, s) == LET r == Unpack(a.u, s) IN [u |-> r.u, v |-> Append(a.v, r.v)]
      after[k \in 0..Len(schemas)] ==
        IF k = 0 THEN [u |-> y, v |-> <<>>]
        ELSE CHOOSE b \in {and(a, schemas[k]) : a \in {after[k - 1]}} : TRUE
  IN  after[Len(schemas)]
Unpack(y, x) ==
  LET repeat(n, of) == [k \in 1..(n * Len(of)) |-> of[1 + ((k - 1) % Len(of))]]
      arr == Length(y, Tag.Array, 16)
      map == Length(y, Tag.Map, 16)
      obj == Slice(Length(y, Tag.Bin, 0))
      mem == UnpackAll([data |-> obj.v, pos |-> 1, err |-> FALSE], x.v)
  IN  CASE x.t = "null" -> [u |-> Skip(y, 1), v |-> 0]
        [] x.t = "bool" -> [u |-> Skip(Seen(y), 1), v |-> Data(y) = Tag.TrueBool]
        [] x.t = "int" -> UnpackInt(y, Len(x.v))
        [] x.t = "uint" -> UnpackUint(y, Len(x.v))
        [] x.t = "float" -> UnpackReal(y, 4)
        [] x.t = "double" -> UnpackReal(y, 8)
        [] x.t = "str" -> Slice(Length(y, Tag.Str, 32))
        [] x.t = "bin" -> Slice(Length(y, Tag.Bin, 0))
        [] x.t = "array" -> UnpackAll(arr.u, repeat(arr.n, SubSeq(x.v, 1, 1)))
        [] x.t = "map" -> UnpackAll(map.u, repeat(map.n, SubSeq(x.v, 1, 2)))
        [] x.t = "object" -> [u |-> [obj.u EXCEPT !.err = mem.u.err], v |-> mem.v]

-----------------------------------------------------------------------------
Init ==
  /\ items = <<>> /\ packed = <<>> /\ phase = "pack" /\ out = <<>>
  /\ fresh \in BOOLEAN /\ absWraps \in BOOLEAN
  /\ u = [data |-> <<>>, pos |-> 1, err |-> FALSE]

\* Packer::process of one more argument.
Process(x) ==
  /\ phase = "pack" /\ Len(items) < MaxItems
  /\ items' = Append(items, x)
  /\ packed' = packed \o Pack(x)
  /\ UNCHANGED <<phase, fresh, absWraps, u, out>>

\* Unpacker(data, size), over all of the bytes or a truncated copy.
Deliver(n) ==
  /\ phase = "pack" /\ items # <<>> /\ (n = Len(packed) \/ Len(packed) <= MaxCut)
  /\ phase' = "unpack"
  /\ u' = [data |-> SubSeq(packed, 1, n), pos |-> 1, err |-> FALSE]
  /\ UNCHANGED <<items, packed, fresh, absWraps, out>>

\* Unpacker::process of one more variable.
UnpackNext ==
  LET r == Unpack(u, items[Len(out) + 1])
  IN  /\ phase = "unpack" /\ Len(out) < Len(items)
      /\ u' = r.u
      /\ out' = Append(out, r.v)
      /\ UNCHANGED <<items, packed, phase, fresh, absWraps>>

Next == \/ \E k \in DOMAIN Items : Process(Items[k])
        \/ \E n \in 0..Len(packed) : Deliver(n)
        \/ UnpackNext

Spec == Init /\ [][Next]_vars

-----------------------------------------------------------------------------
\* The values a variable of their type gets back: the ones whose packed form
\* the unpacker does not mistake for something else.
Small(v) == \A k \in 1..(Len(v) - 1) : v[k] = 0
RECURSIVE Kept(_)
Kept(x) ==
  CASE x.t = "int" -> ~ (Len(x.v) > 1 /\ x.v[1] >= 128 /\ Len(PackInt(x.v)) = 1)
                      /\ ~ (x.v = <<128, 0, 0, 0>> /\ absWraps)
    [] x.t = "uint" -> /\ ~ (Small(x.v) /\ x.v[Len(x.v)] \in {Tag.Uint[k] : k \in {1, 2, 4, 8} \cap 1..Len(x.v)})
                       /\ ~ (Len(x.v) = 8 /\ Len(PackUint(x.v)) = 5)
                       /\ Len(PackUint(x.v)) > 2 => fresh
    [] x.t \in {"float", "double"} ->
         IF Integral(x.v) THEN ~ x.v.neg \/ Len(PackReal(x.v, 4)) > 1 ELSE x.v.exp >= 0
    [] x.t \in {"array", "map", "object"} -> \A k \in DOMAIN x.v : Kept(x.v[k])
    [] OTHER -> TRUE

RECURSIVE Same(_, _)
Same(x, v) ==
  CASE x.t = "null" -> TRUE
    [] x.t \in {"float", "double"} /\ Integral(x.v) -> v = Int64(Magnitude(x.v), x.v.neg)
    [] x.t \in {"array", "map", "object"} ->
         Len(v) = Len(x.v) /\ \A k \in DOMAIN x.v : Same(x.v[k], v[k])
    [] OTHER -> v = x.v

Whole == phase = "unpack" /\ u.data = packed
AllKept == \A k \in DOMAIN items : Kept(items[k])

TypeOK == /\ phase \in {"pack", "unpack"} /\ Len(out) <= Len(items)
          /\ u.err \in BOOLEAN /\ u.pos >= 1

\* Values of different types packed one behind another come back equal, in
\* order, without an error, and the unpacker ends exactly at the end of the
\* bytes; a vector that lost its tail is always reported as OutOfRange.
RoundTrip ==
  /\ Whole /\ AllKept =>
       /\ ~ u.err
       /\ \A k \in DOMAIN out : Same(items[k], out[k])
       /\ Len(out) = Len(items) => u.pos = Len(packed) + 1
  /\ phase = "unpack" /\ AllKept /\ Len(out) = Len(items) /\ ~ Whole => u.err

\* Every value comes back, as the unit test asserts of the ones it tries: does
\* not hold.
RoundTripAll == Whole /\ fresh => \A k \in DOMAIN out : Same(items[k], out[k])
=============================================================================
