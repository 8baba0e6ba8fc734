------------------------------ MODULE Strings -------------------------------
(***************************************************************************)
(* Texts, bytes and sizes (basic/utility.cc, utility.h, base64.cc):        *)
(* replacing, trimming and cutting, slashes and escapes, hexadecimal       *)
(* digits, paths, base64, and sizes written for a reader.  Each operator   *)
(* is the code's loop; the state is its input: a text, which grows a       *)
(* character at a time, bytes, or a size.                                  *)
(*                                                                         *)
(* And the reversible scrambling of basic/utility.cc: a password becomes   *)
(* 32 characters that hold a public key, both lengths and the password     *)
(* added to the key (pg_encrypt_password); a number is put into a text     *)
(* (encrypt of a text and a number).  The key is shorter than the longest  *)
(* password, so that a character of it may be used twice, and it is        *)
(* changed on the way to keep the result within letters and digits: the    *)
(* code decrypts what it made and begins again with another tick if it     *)
(* does not find the password.  Characters are their codes there.          *)
(***************************************************************************)
EXTENDS Integers, Sequences, SequencesExt, Bitwise

CONSTANTS
  Chars,      \* the characters of a text
  Key,        \* the characters explode cuts at
  Bytes,      \* the bytes of base64's input
  MaxLength,  \* bound: the length of a text, and of the bytes
  Sizes,      \* the sizes that are written, n * 1000^e
  Thousand,   \* 1024 in get_sizestr
  Hundredth   \* 100 in get_sizestr: what is less than 1/100 of a unit is too small

VARIABLES text, bytes, size

textVars == <<text, bytes, size>>

TextInit == text = <<>> /\ bytes = <<>> /\ size \in Sizes

\* A character, or a byte, more.
GrowText ==
  /\ size = [n |-> 0, e |-> 0] /\ bytes = <<>> /\ Len(text) < MaxLength
  /\ \E c \in Chars : text' = Append(text, c)
  /\ UNCHANGED <<bytes, size>>

GrowBytes ==
  /\ size = [n |-> 0, e |-> 0] /\ text = <<>> /\ Len(bytes) < MaxLength
  /\ \E b \in Bytes : bytes' = Append(bytes, b)
  /\ UNCHANGED <<text, size>>

TextNext == GrowText \/ GrowBytes

TextSpec == TextInit /\ [][TextNext]_textVars

-----------------------------------------------------------------------------
Least(S, default) == IF S = {} THEN default ELSE CHOOSE i \in S : \A j \in S : i <= j
Greatest(S, default) == IF S = {} THEN default ELSE CHOOSE i \in S : \A j \in S : i >= j

\* std::string::find: where `search' begins at or behind `from', or 0.
Find(s, search, from) ==
  Least({i \in from..(Len(s) - Len(search) + 1) :
           SubSeq(s, i, i + Len(search) - 1) = search}, 0)

MutantBehind(it, replace) == it

\* The search goes on behind what was put in.
Behind(it, replace) == it + Len(replace)

\* `search' is not empty; count -1 stands for all.
str_replace(search, replace, subject, count) ==
  LET Bound == Len(subject)
      loop[n \in 0..Bound] ==  \* the text, and where it is found next, after n rounds
        IF n = 0 THEN [r |-> subject, it |-> Find(subject, search, 1)]
        ELSE LET l == loop[n - 1] IN
             IF l.it = 0 \/ n - 1 = count THEN l
             ELSE LET r == SubSeq(l.r, 1, l.it - 1) \o replace
                             \o SubSeq(l.r, l.it + Len(search), Len(l.r))
                  IN  [r |-> r, it |-> Find(r, search, Behind(l.it, replace))]
  IN  loop[Bound].r

\* Each search begins with the subject again.
str_replaces(search, replace, subject, count) ==
  FoldLeft(LAMBDA r, item : str_replace(item, replace, subject, count), subject, search)

contains(haystack, needles) ==
  \E n \in ToSet(needles) : n # <<>> /\ Find(haystack, n, 1) # 0

addslashes(s) ==
  str_replace(<<"'">>, <<"\\", "'">>,
    str_replace(<<"\"">>, <<"\\", "\"">>,
      str_replace(<<"\\">>, <<"\\", "\\">>, s, -1), -1), -1)

stripslashes(s) ==
  str_replace(<<"\\", "'">>, <<"'">>,
    str_replace(<<"\\", "\"">>, <<"\"">>,
      str_replace(<<"\\", "\\">>, <<"\\">>, s, -1), -1), -1)

-----------------------------------------------------------------------------
\* erase up to the first, and behind the last, character that is not c.
EraseFront(s, c) ==
  SubSeq(s, Least({i \in 1..Len(s) : s[i] # c}, Len(s) + 1), Len(s))
EraseBack(s, c) == SubSeq(s, 1, Greatest({i \in 1..Len(s) : s[i] # c}, 0))

\* The characters of the mask are taken one after the other.
ltrim(s, mask) == FoldLeft(EraseFront, s, mask)
rtrim(s, mask) == FoldLeft(EraseBack, s, mask)

MutantTrimOne(s, c) == EraseFront(s, c)

TrimOne(s, c) == EraseBack(EraseFront(s, c), c)

trim(s, mask) == FoldLeft(TrimOne, s, mask)

-----------------------------------------------------------------------------
\* get_escapechar: what is written behind a backslash instead of a character;
\* "NUL" and "SUB" are the characters 0 and 0x1a.
char_array ==
  [c \in {"NUL", "\n", "\r", "SUB", "\"", "'", "\\"} |->
     CASE c = "NUL" -> "0" [] c = "\n" -> "n" [] c = "\r" -> "r" [] c = "SUB" -> "Z"
       [] OTHER -> c]

MutantEscaped(c) == c

Escaped(c) == char_array[c]

\* getescape: a pair is written whole, even when one place is left.
getescape(s, outsize) ==
  FoldLeft(LAMBDA out, c : IF Len(out) >= outsize THEN out
                           ELSE IF c \in DOMAIN char_array THEN out \o <<"\\", Escaped(c)>>
                           ELSE Append(out, c), <<>>, s)

-----------------------------------------------------------------------------
ascii_table ==
  <<"0", "1", "2", "3", "4", "5", "6", "7", "8", "9", "A", "B", "C", "D", "E", "F">>

MutantValueToAscii(v) == IF 0 < v /\ v < 16 THEN ascii_table[v] ELSE "?"

value_toascii(v) == IF 0 < v /\ v < 16 THEN ascii_table[v + 1] ELSE "?"

\* A character that is no digit is asserted against, and has the value of "?".
ascii_tovalue(c) ==
  IF Contains(ascii_table, c) THEN (CHOOSE i \in 1..16 : ascii_table[i] = c) - 1 ELSE 63

\* The lower half of a byte is taken with the mask of the upper one.
binary_tostring(b) ==
  FlattenSeq([i \in DOMAIN b |->
    <<value_toascii(b[i] \div 16), value_toascii((b[i] \div 16) * 16)>>])

\* Of every three characters two are read.
string_tobinary(s) ==
  LET from[i \in 1..(Len(s) + 3)] ==
        IF i >= Len(s) THEN <<>>
        ELSE <<(ascii_tovalue(s[i]) * 16 + ascii_tovalue(s[i + 1])) % 256>> \o from[i + 3]
  IN  from[1]

-----------------------------------------------------------------------------
(* base64: three bytes are four digits; the end is filled with "=", here -1. *)
Digits(a, b, c) ==
  <<a \div 4, (a % 4) * 16 + b \div 16, (b % 16) * 4 + c \div 64, c % 64>>

Filled(group) == [i \in 1..3 |-> IF i \in DOMAIN group THEN group[i] ELSE 0]

Groups(s, n) ==
  [k \in 1..((Len(s) + n - 1) \div n) |->
     SubSeq(s, (k - 1) * n + 1, IF k * n <= Len(s) THEN k * n ELSE Len(s))]

MutantKept(n) == n

(* The digits written for n bytes that do not fill a group.                  *)
Kept(n) == n + 1

EncodeGroup(g) ==
  LET f == Filled(g)  d == Digits(f[1], f[2], f[3]) IN
  IF Len(g) = 3 THEN d
  ELSE SubSeq(d, 1, Kept(Len(g))) \o [i \in 1..(3 - Len(g)) |-> -1]

base64_encode(s) == FlattenSeq([k \in DOMAIN Groups(s, 3) |-> EncodeGroup(Groups(s, 3)[k])])

(* Decoding stops at the first "="; digits that do not fill a group give one *)
(* byte less than there are digits.                                          *)
DecodeGroup(g) ==
  LET d == [i \in 1..4 |-> IF i \in DOMAIN g THEN g[i] ELSE 0]
      three == <<(d[1] * 4 + d[2] \div 16) % 256, ((d[2] % 16) * 16 + d[3] \div 4) % 256,
                 ((d[3] % 4) * 64 + d[4]) % 256>>
  IN  SubSeq(three, 1, Len(g) - 1)

base64_decode(e) ==
  LET digits == SelectSeq(e, LAMBDA x : x # -1) IN
  FlattenSeq([k \in DOMAIN Groups(digits, 4) |-> DecodeGroup(Groups(digits, 4)[k])])

-----------------------------------------------------------------------------
(* explode with one_key: cut at every character of the key, in a loop over   *)
(* where the last cut was.                                                   *)
Cut(s, left) ==
  LET P == {i \in left..Len(s) : s[i] \in Key} IN
  IF P = {} THEN Len(s) + 1 ELSE CHOOSE i \in P : \A j \in P : i <= j

MutantAfter(right) == right

(* The next item begins behind the key.                                      *)
After(right) == right + 1

explode(s, ignore_empty) ==
  LET item[left \in 1..(Len(s) + 1)] ==
        LET right == Cut(s, left)
            piece == SubSeq(s, left, right - 1)
            this == IF piece = <<>> /\ ignore_empty THEN <<>> ELSE <<piece>>
        IN  IF right = Len(s) + 1 THEN this
            ELSE this \o (IF After(right) > left THEN item[After(right)] ELSE <<>>)
  IN  IF s = <<>> THEN <<>> ELSE item[1]

-----------------------------------------------------------------------------
\* Paths; "\\" is Windows' separator.
path_tounix(s) == [i \in DOMAIN s |-> IF s[i] = "\\" THEN "/" ELSE s[i]]
path_towindows(s) == [i \in DOMAIN s |-> IF s[i] = "/" THEN "\\" ELSE s[i]]

dirname(s) ==
  LET path == path_tounix(s)
      find == Greatest({i \in DOMAIN path : path[i] = "/"}, 0)
  IN  SubSeq(path, 1, find - 1)

-----------------------------------------------------------------------------
(* format_size of s.n * 1000^s.e, where s.n is a number of up to six digits, *)
(* and of four to six unless s.e is 0.                                       *)
MutantLimit(decimals) == <<1000000, 100000, 10000>>[decimals + 1]

\* The least number of thousandths of a unit that is not written with that
\* many decimals.
Limit(decimals) == <<999500, 99950, 9995>>[decimals + 1]

\* The text as its digits, how many of them are decimals, and the unit: the
\* first row of the code's that the size is small enough for.
format_size(s) ==
  LET rows == [i \in 1..15 |-> [unit |-> (i - 1) \div 3 + 1, decimals |-> 2 - ((i - 1) % 3)]]
      Under(row) == \/ s.e < row.unit - 1
                    \/ s.e = row.unit - 1 /\ s.n < Limit(row.decimals)
      first == Least({i \in 1..15 : Under(rows[i])}, 16)
      row == IF first = 16 THEN [unit |-> 6, decimals |-> 2] ELSE rows[first]
      place == 1000^(row.unit - s.e) \div 10^row.decimals
  IN  IF s.e = 0 /\ s.n < 1000 THEN [digits |-> s.n, decimals |-> 0, unit |-> 0]
      ELSE [digits |-> (s.n + place \div 2) \div place, decimals |-> row.decimals,
            unit |-> row.unit]

MutantUnit(low, k) == k

\* A unit too large is taken back.
Unit(low, k) == IF low THEN k - 1 ELSE k

\* get_sizestr: the unit that n is written in, for a type of -1 (any) to 4.
get_sizestr(n, type) ==
  LET Low(k) == \/ type = -1 /\ n < Thousand^k
                \/ n * Hundredth < Thousand^k
      last == IF type = -1 THEN 4 ELSE type
      k == Least({i \in 1..last : Low(i)}, last)
  IN  IF type = 0 THEN 0 ELSE Unit(Low(k), k)

-----------------------------------------------------------------------------
Unescaped(s) ==
  LET from[i \in 1..(Len(s) + 2)] ==
        IF i > Len(s) THEN <<>>
        ELSE IF s[i] = "\\"
             THEN LET C == {c \in DOMAIN char_array : char_array[c] = s[i + 1]}
                  IN  <<IF C = {} THEN "?" ELSE CHOOSE c \in C : TRUE>> \o from[i + 2]
        ELSE <<s[i]>> \o from[i + 1]
  IN  from[1]

(* str_replace puts the replacement at every place of what is searched, and  *)
(* replacing back gives the subject; slashes are stripped as they were       *)
(* added; an escaped text can be read back (utility.cc, str_replace and      *)
(* getescape; utility.h, addslashes).                                        *)
TextsReplaced ==
  /\ \A search \in {<<"'">>, <<"a", "a">>, <<"a", "'">>}, replace \in {<<>>, <<"b">>, <<"b", "b">>} :
       LET r == str_replace(search, replace, text, -1) IN
       /\ replace # <<>> => ~contains(r, <<search>>) /\ str_replace(replace, search, r, -1) = text
       /\ str_replaces(<<search>>, replace, text, 1) = text <=> ~contains(text, <<search>>)
  /\ str_replace(<<"a">>, <<"a", "a">>, text, -1) =
       FlattenSeq([i \in DOMAIN text |-> IF text[i] = "a" THEN <<"a", "a">> ELSE <<text[i]>>])
  /\ stripslashes(addslashes(text)) = text
  /\ Unescaped(getescape(text, 2 * Len(text))) = text

(* A text trimmed of one character has it at neither end and is otherwise as *)
(* it was; and trimming both ends is trimming each (utility.cc, trim).  The  *)
(* directory of a path is the part in front of its last separator, whichever *)
(* of the two it is (dirname), and nonzero digits read as they are written.  *)
TextsTrimmed ==
  /\ LET t == trim(text, <<"a">>) IN
     /\ t = rtrim(ltrim(text, <<"a">>), <<"a">>)
     /\ t # <<>> => t[1] # "a" /\ t[Len(t)] # "a"
     /\ \E i, j \in 0..Len(text) : text = [k \in 1..i |-> "a"] \o t \o [k \in 1..j |-> "a"]
  /\ LET d == dirname(text) IN
     \/ d = <<>>
     \/ /\ IsPrefix(d, path_tounix(text)) /\ text[Len(d) + 1] \in {"/", "\\"}
        /\ \A i \in (Len(d) + 2)..Len(text) : text[i] \notin {"/", "\\"}
  /\ dirname(path_towindows(text)) = dirname(text)
  /\ \A v \in 1..15 : ascii_tovalue(value_toascii(v)) = v

(* A size is written with three digits, in a unit it has at least one of     *)
(* (utility.cc, the table at format_size); get_sizestr takes the largest     *)
(* unit that is not too large.                                               *)
SizesWritten ==
  /\ LET f == format_size(size) IN
     f.unit > 0 /\ size.e < 5 => 100 <= f.digits /\ f.digits <= 999
  /\ size.e = 0 =>
       \A type \in -1..4 :
         LET u == get_sizestr(size.n, type)
             least == IF type = -1 THEN 1 ELSE Hundredth
         IN  /\ u > 0 => size.n * least >= Thousand^u
             /\ u < (IF type = -1 THEN 4 ELSE type) => size.n * least < Thousand^(u + 1)

(* Decoding gives back the bytes that were encoded, for every length modulo  *)
(* three; and a text is cut into as many cells as it has keys and one more,  *)
(* none with a key in it, which put together again are the text.             *)
CodecsInverse ==
  /\ base64_decode(base64_encode(bytes)) = bytes
  /\ Len(base64_encode(bytes)) % 4 = 0
  /\ text # <<>> =>
       LET cells == explode(text, FALSE)
           keys == SelectSeq(text, LAMBDA c : c \in Key)
       IN  /\ Len(cells) = Len(keys) + 1
           /\ FlattenSeq([i \in DOMAIN cells |->
                IF i = 1 THEN cells[i] ELSE <<keys[i - 1]>> \o cells[i]]) = text
           /\ explode(text, TRUE) = SelectSeq(cells, LAMBDA c : c # <<>>)

-----------------------------------------------------------------------------
(* Passwords                                                                 *)

CONSTANTS
  Texts,    \* passwords, and texts to put a number into
  Ticks,    \* the ticks a first attempt may be made with
  Numbers   \* the numbers put into a text

VARIABLES
  password, tick, level,
  result,   \* the 32 characters, by position from 0
  status    \* "trying", "done" once the recheck succeeds (the code returns false
            \* then too, and leaves the result), or "failed"

passwordVars == <<password, tick, level, result, status>>

MaxPasswordLen == 20
ResultLenStd == 32
MinPKeyLen == ResultLenStd - MaxPasswordLen - 2
MaxPKeyLen == ResultLenStd - 2
CharCount == 95

ValidChar(c) == c \in 97..122 \/ c \in 65..90 \/ c = 95 \/ c \in 48..57

Wrap(c) == ((c - 32) % CharCount) + 32

Primes ==
  <<1153, 1789, 2797, 3023, 3491, 3617, 4519, 4547, 5261, 5939, 6449, 7307, 8053, 9221, 9719,
    9851, 313, 659, 1229, 1847, 2459, 3121, 3793, 4483, 5179, 6121, 6833, 7333, 7829, 8353,
    9323, 9829>>

pg_char2int == [b \in 0..127 |-> ((b ^^ 151) \div 2) % 32]

\* The first character from the tick on that stands for i, a letter or digit
\* if there is one.
int2char(i, t) ==
  LET C == {k \in 0..(CharCount - 1) : pg_char2int[Wrap(32 + t + k)] = i}
      V == {k \in C : ValidChar(Wrap(32 + t + k))}
      Pick(S) == Wrap(32 + t + (CHOOSE k \in S : \A l \in S : k <= l))
  IN  IF V # {} THEN Pick(V) ELSE Pick(C)

\* A character of the key, or one that fills the result.
RandomChar(random) ==
  LET c == (random % CharCount) + 32 IN
  IF ValidChar(c) THEN c
  ELSE (IF random % 2 = 1 THEN 97 ELSE 65) + (random % 26)

MutantSwapped == <<<<0, 13>>, <<31, 25>>, <<12, 30>>, <<7, 19>>, <<3, 21>>, <<9, 20>>, <<15, 18>>, <<0, 18>>>>

Swapped == <<<<0, 13>>, <<31, 25>>, <<12, 30>>, <<7, 19>>, <<3, 21>>, <<9, 20>>, <<15, 18>>>>

pg_swapchars(s) ==
  FoldLeft(LAMBDA r, p : [r EXCEPT ![p[1]] = r[p[2]], ![p[2]] = r[p[1]]], s, Swapped)

\* pg_encrypt: the sums; character and key are counted up together until both
\* are letters or digits.  More than half of the characters are, so this ends
\* before the code's limit of 256 rounds, and pg_encrypt does not fail.
pg_encrypt(key, plain) ==
  LET length == Len(key)
      at[i \in 1..Len(plain)] ==  \* the sum, and what it leaves of the key
        LET cc == IF i <= length THEN key[i] ELSE at[i - length].key
            c == Wrap(plain[i] + cc - 32)
            N == {n \in 1..CharCount : ValidChar(Wrap(c + n)) /\ ValidChar(Wrap(cc + n))}
            n == CHOOSE m \in N : \A l \in N : m <= l
        IN  IF ValidChar(c) THEN [key |-> cc, out |-> c]
            ELSE [key |-> Wrap(cc + n), out |-> Wrap(c + n)]
      Latest(k) == CHOOSE i \in 1..Len(plain) : i % length = k % length /\ i + length > Len(plain)
  IN  [key |-> [k \in 1..length |-> IF k > Len(plain) THEN key[k] ELSE at[Latest(k)].key],
       out |-> [i \in 1..Len(plain) |-> at[i].out]]

pg_decrypt(key, encrypted) ==
  [i \in 1..Len(encrypted) |-> Wrap(CharCount + encrypted[i] - (key[((i - 1) % Len(key)) + 1] - 32))]

\* s[from..to] of an array.
Slice(s, from, to) == [i \in 1..(to - from + 1) |-> s[from + i - 1]]

NoPassword == <<-1>>

pg_decrypt_password(encrypted) ==
  LET s == pg_swapchars(encrypted)
      pk_length == pg_char2int[s[0]]
      length == pg_char2int[s[pk_length + 1]]
  IN  IF pk_length < MinPKeyLen \/ pk_length > MaxPKeyLen \/ length > MaxPasswordLen
      THEN NoPassword
      ELSE pg_decrypt(Slice(s, 1, pk_length), Slice(s, pk_length + 2, pk_length + 1 + length))

Lower(s) == [i \in DOMAIN s |-> IF s[i] \in 65..90 THEN s[i] + 32 ELSE s[i]]

MutantRechecked(r, p) == TRUE

\* stricmp
Rechecked(r, p) == Lower(pg_decrypt_password(r)) = Lower(p)

Printable(s) == \A i \in DOMAIN s : s[i] \in 32..126

KeyLength(length, t) ==
  LET k == ResultLenStd - length - 2 IN
  IF k > MinPKeyLen THEN ((t + 10237) % (k - MinPKeyLen)) + MinPKeyLen ELSE k

-----------------------------------------------------------------------------
PasswordInit ==
  /\ password \in Texts /\ tick \in Ticks
  /\ level = 0 /\ status = "trying"
  /\ result = [i \in 0..(ResultLenStd - 1) |-> 0]

\* One call of pg_encrypt_password, which calls itself with the next tick.
Attempt ==
  LET length == Len(password)
      keylength == KeyLength(length, tick)
      key == [i \in 1..keylength |-> RandomChar(tick + Primes[i])]
      e == pg_encrypt(key, password)
      filled == [i \in 0..(ResultLenStd - 1) |->
        CASE i = 0 -> int2char(keylength, tick)
          [] i \in 1..keylength -> e.key[i]
          [] i = keylength + 1 -> int2char(length, tick)
          [] i \in (keylength + 2)..(keylength + 1 + Len(e.out)) -> e.out[i - keylength - 1]
          [] OTHER -> RandomChar(tick + Primes[i + 1])]
      r == pg_swapchars(filled)
  IN  /\ status = "trying"
      /\ level' = level + 1
      /\ IF level' > 32 \/ length > MaxPasswordLen \/ ~Printable(password)
         THEN status' = "failed" /\ UNCHANGED <<result, tick>>
         ELSE /\ result' = r
              /\ IF Rechecked(r, password)
                 THEN status' = "done" /\ UNCHANGED tick
                 ELSE tick' = tick + 9929 /\ UNCHANGED status
      /\ UNCHANGED password

PasswordSpec == PasswordInit /\ [][Attempt]_passwordVars

-----------------------------------------------------------------------------
(* A number in a text.                                                       *)
Quotient(a, b) == IF a >= 0 THEN a \div b ELSE -((-a) \div b)

\* The length of std::to_string.
Places(n) ==
  LET a == IF n < 0 THEN -n ELSE n IN
  (IF n < 0 THEN 1 ELSE 0) + (CHOOSE k \in 1..9 : a < 10^k /\ (k = 1 \/ a >= 10^(k - 1)))

MutantRemainder(a) == a % 10

\* C++'s remainder has the sign of the number.
Remainder(a) == a - 10 * Quotient(a, 10)

encrypt_number(n, c) ==
  [i \in 1..Places(n) |-> c + Remainder(Quotient(n, 10^(Places(n) - i)))]

decrypt_number(s, c) ==
  FoldLeft(+, 0, [i \in 1..Len(s) |-> (s[i] - c) * 10^(Len(s) - i)])

\* encrypt(in, number, out): substr(...).data() is the text to its end.
encrypt(in, n, first, pos) ==
  LET number_str == encrypt_number(n, first)
      pos_str == encrypt_number(pos, first)
      header == <<first, first + Len(number_str), first + Len(pos_str)>> \o pos_str
  IN  header \o
      CASE pos = 0 -> number_str \o in
        [] pos = Len(in) /\ pos # 0 -> in \o number_str
        [] OTHER -> in \o number_str \o SubSeq(in, pos + 1, Len(in))

Refused == [number |-> 0, out |-> <<-1>>]

\* decrypt(in, number, out), with the same substr(...).data().
decrypt(in) ==
  LET first == in[1]
      length == in[2] - first
      header_size == 3 + in[3] - first
      pos == decrypt_number(SubSeq(in, 4, header_size), first)
      From(i) == SubSeq(in, i + 1, Len(in))
  IN  IF Len(in) <= 4 \/ Len(in) < header_size \/ Len(in) - header_size < pos + length
      THEN Refused
      ELSE [number |-> decrypt_number(From(header_size + pos), first),
            out |-> From(header_size) \o From(header_size + pos + length)]

-----------------------------------------------------------------------------
(* What is accepted decrypts to the password, up to the case of its letters. *)
(* A printable password that is not longer than the shortest key, whatever   *)
(* the tick, is done in one attempt (utility.cc, pg_encrypt_password).       *)
PasswordsReturn ==
  /\ status = "done" => Lower(pg_decrypt_password(result)) = Lower(password)
  /\ Len(password) <= MinPKeyLen /\ Printable(password) =>
       level = 0 \/ (level = 1 /\ status = "done")

(* Numbers of either sign come back from their digits, and from the end of a *)
(* text (utility.cc, encrypt_number, decrypt_number).                        *)
NumbersReturn ==
  level = 0 => \A number \in Numbers, first \in {97, 77} :
    /\ decrypt_number(encrypt_number(number, first), first) = number
    /\ decrypt(encrypt(password, number, first, Len(password))).number = number

-----------------------------------------------------------------------------
Init == TextInit /\ PasswordInit

-----------------------------------------------------------------------------
(* What the code does not ensure. *)

(* "Format a number with 5 characters": not from 9.995E on.                  *)
FiveCharacters == format_size(size).digits <= 999

(* str_replaces replaces all of what is searched: only the last of it.       *)
ReplacesEach ==
  ~contains(str_replaces(<<<<"a">>, <<"'">>>>, <<"b">>, text, -1), <<<<"a">>, <<"'">>>>)

(* trim leaves no character of the mask at an end: it does when they take    *)
(* turns.                                                                    *)
TrimsAll ==
  LET t == trim(text, <<"a", "'">>) IN t = <<>> \/ t[1] \notin {"a", "'"}

(* Bytes written as digits can be read back.                                 *)
BytesReturn ==
  \A b \in {17, 171, 254} : string_tobinary(binary_tostring(<<b>>)) = <<b>>

(* "This encrypt not change any word in old string, just insert the number": *)
(* the text does not come back.                                              *)
TextReturns ==
  \A number \in Numbers, pos \in 0..Len(password) :
    decrypt(encrypt(password, number, 97, pos)).out = password

(* A password of the greatest length is encrypted in the end.                *)
LongReturns == status = "failed" => Len(password) > MaxPasswordLen \/ ~Printable(password)
=============================================================================
