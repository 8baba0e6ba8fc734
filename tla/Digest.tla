------------------------------- MODULE Digest -------------------------------
(***************************************************************************)
(* MD5 (basic/md5.cc) as it handles its input: bytes come in pieces of any *)
(* length, are gathered in a buffer, and are handed to transform a block   *)
(* at a time; finalize pads and appends the number of bits, which is kept  *)
(* in two words.  transform is an uninterpreted function of the state and  *)
(* the block: the state is the sequence of blocks it has been given.       *)
(***************************************************************************)
EXTENDS Integers, Sequences, SequencesExt

CONSTANTS
  BlockSize,   \* 64
  LengthSize,  \* 8, the bytes of the length
  Word,        \* 2^32
  Pieces,      \* the lengths update is called with
  MaxLength    \* bound: the bytes of the message

VARIABLES state, count, buffer, finalized, digest, message

vars == <<state, count, buffer, finalized, digest, message>>

Init ==
  /\ state = <<>> /\ count = <<0, 0>> /\ finalized = FALSE
  /\ buffer = [i \in 1..BlockSize |-> 0]
  /\ digest = <<>> /\ message = <<>>

-----------------------------------------------------------------------------
transform(s, block) == Append(s, block)

(* memcpy(&buffer[at], input, ...)                                           *)
Copied(b, at, input) ==
  [i \in 1..BlockSize |-> IF i - at \in DOMAIN input THEN input[i - at] ELSE b[i]]

(* The number of bits, of a low and a high word.                             *)
MutantCounted(c, n) == <<(c[1] + 8 * n) % Word, c[2] + (8 * n) \div Word>>

Counted(c, n) ==
  LET low == (c[1] + 8 * n) % Word
      carry == IF low < (8 * n) % Word THEN 1 ELSE 0
  IN  <<low, c[2] + carry + (8 * n) \div Word>>

(* update, on the state, count and buffer of r.                              *)
update(r, input) ==
  LET index == (r.count[1] \div 8) % BlockSize
      first == BlockSize - index
      full == Copied(r.buffer, index, SubSeq(input, 1, first))
      whole == (Len(input) - first) \div BlockSize
      block(k) == SubSeq(input, first + (k - 1) * BlockSize + 1, first + k * BlockSize)
      rest == SubSeq(input, first + whole * BlockSize + 1, Len(input))
      n == Counted(r.count, Len(input))
  IN  IF Len(input) >= first
        THEN [state |-> FoldLeft(transform, transform(r.state, full),
                                 [k \in 1..whole |-> block(k)]),
              buffer |-> Copied(full, 0, rest), count |-> n]
        ELSE [state |-> r.state, buffer |-> Copied(r.buffer, index, input), count |-> n]

Context == [state |-> state, count |-> count, buffer |-> buffer]

Keep(r) == state' = r.state /\ count' = r.count /\ buffer' = r.buffer

(* The k-th byte of the message is k.                                        *)
Update(n) ==
  /\ Len(message) + n <= MaxLength
  /\ LET input == [i \in 1..n |-> Len(message) + i] IN
       /\ Keep(update(Context, input))
       /\ message' = message \o input
  /\ UNCHANGED <<finalized, digest>>

MutantPadLength(index) ==
  IF index <= BlockSize - LengthSize THEN BlockSize - LengthSize - index
  ELSE 2 * BlockSize - LengthSize - index

PadLength(index) ==
  IF index < BlockSize - LengthSize THEN BlockSize - LengthSize - index
  ELSE 2 * BlockSize - LengthSize - index

Padding(n) == [i \in 1..n |-> IF i = 1 THEN -1 ELSE 0]

(* encode(bits, count), as the two words and bytes that follow.              *)
Bits(c) == [i \in 1..LengthSize |-> IF i <= 2 THEN c[i] ELSE 0]

Finalize ==
  /\ ~finalized
  /\ LET padded == update(Context, Padding(PadLength((count[1] \div 8) % BlockSize)))
         last == update(padded, Bits(count))
     IN  digest' = last.state /\ state' = last.state
  /\ buffer' = [i \in 1..BlockSize |-> 0] /\ count' = <<0, 0>>
  /\ finalized' = TRUE
  /\ UNCHANGED message

Next == Finalize \/ \E n \in Pieces : ~finalized /\ Update(n)

Spec == Init /\ [][Next]_vars

-----------------------------------------------------------------------------
(* The digest is a function of the message alone: however it was cut, the    *)
(* blocks given to transform are the message, padding up to a whole block    *)
(* with at least its one bit, and the message's length in bits.              *)
BlocksExact ==
  finalized =>
    LET all == FlattenSeq(digest)
        n == Len(message)
    IN  /\ \A b \in Range(digest) : Len(b) = BlockSize
        /\ Len(all) >= n + 1 + LengthSize /\ Len(all) < n + 1 + LengthSize + BlockSize
        /\ SubSeq(all, 1, n) = message
        /\ all[n + 1] = -1
        /\ \A i \in (n + 2)..(Len(all) - LengthSize) : all[i] = 0
        /\ all[Len(all) - LengthSize + 1] + Word * all[Len(all) - LengthSize + 2] = 8 * n
=============================================================================
