------------------------------ MODULE BlobLib -------------------------------
(***************************************************************************)
(* The functions of byte arrays (src/packages/blob_basic.rs).  A blob is a *)
(* sequence of bytes, 0..ByteBase-1; a script only sees integers.  The     *)
(* bytes of a text are Utf8[c] for each character c of it, one or more     *)
(* bytes; Ascii are the characters of one byte.                            *)
(***************************************************************************)
EXTENDS Indices, SequencesExt

CONSTANTS Utf8, Ascii, Replacement

Done(b, r) == [seq |-> b, ret |-> r]

\* value & 0x00ff, for a two's complement integer.
byte(value) == value % ByteBase

blob_with_capacity_and_value(len, value, max) ==
  IF len <= 0 THEN <<>>
  ELSE IF max > 0 /\ len > max THEN Error
  ELSE [i \in 1..len |-> byte(value)]

contains(b, value) == \E i \in 1..Len(b) : b[i] = byte(value)

get(b, index) ==
  LET i == calc_offset_len(Len(b), index, 0)[1]
  IN IF b = <<>> \/ i >= Len(b) THEN 0 ELSE b[i + 1]

set(b, index, value) ==
  LET i == calc_offset_len(Len(b), index, 0)[1]
  IN IF b = <<>> \/ i >= Len(b) THEN b ELSE [b EXCEPT ![i + 1] = byte(value)]

push(b, value) == Append(b, byte(value))

append(b, c) == IF c = <<>> THEN b ELSE IF b = <<>> THEN c ELSE b \o c

insert(b, index, value) ==
  LET i == calc_offset_len(Len(b), index, 0)[1]
  IN IF b = <<>> \/ i >= Len(b) THEN Append(b, byte(value))
     ELSE Upto(b, i) \o <<byte(value)>> \o From(b, i)

\* The limit is tested before the length of the blob is looked at.
pad(b, len, value, max) ==
  IF len <= 0 THEN Done(b, Unit)
  ELSE IF max > 0 /\ len > max THEN Done(b, Error)
  ELSE Done(b \o [i \in 1..LargerOf(len - Len(b), 0) |-> byte(value)], Unit)

pop(b) == IF b = <<>> THEN Done(b, 0) ELSE Done(Front(b), Last(b))

shift(b) == IF b = <<>> THEN Done(b, 0) ELSE Done(Tail(b), Head(b))

remove(b, index) ==
  LET i == calc_index(Len(b), index, TRUE)
  IN IF i = NoIndex THEN Done(b, 0) ELSE Done(Upto(b, i) \o From(b, i + 1), b[i + 1])

truncate(b, len) == IF len <= 0 THEN <<>> ELSE Upto(b, SmallerOf(len, Len(b)))

chop(b, len) == IF len <= 0 THEN <<>> ELSE IF len >= Len(b) THEN b ELSE From(b, Len(b) - len)

reverse(b) == Reverse(b)

\* A portion of no bytes is replaced at the end of the blob, wherever it starts.
splice(b, start, len, replace) ==
  LET p == calc_offset_len(Len(b), start, len)
  IN IF b = <<>> THEN replace
     ELSE IF p[2] = 0 THEN b \o replace
     ELSE Upto(b, p[1]) \o replace \o From(b, p[1] + p[2])

extract(b, start, len) ==
  LET p == calc_offset_len(Len(b), start, len)
  IN IF b = <<>> \/ len <= 0 \/ p[2] = 0 THEN <<>> ELSE Part(b, p[1], p[2])

extract_tail(b, start) == extract(b, start, IntMax)

split_at(b, index) ==
  LET p == calc_offset_len(Len(b), index, IntMax)
  IN IF b = <<>> \/ p[1] >= Len(b) THEN Done(b, <<>>)
     ELSE IF p[1] = 0 THEN Done(Upto(b, Len(b) - p[2]), From(b, Len(b) - p[2]))
     ELSE Done(Upto(b, p[1]), From(b, p[1]))

drain(b, start, len) ==
  LET p == calc_offset_len(Len(b), start, len)
  IN IF b = <<>> \/ len <= 0 \/ p[2] = 0 THEN Done(b, <<>>)
     ELSE Done(Upto(b, p[1]) \o From(b, p[1] + p[2]), Part(b, p[1], p[2]))

retain(b, start, len) ==
  LET p == calc_offset_len(Len(b), start, len)
  IN IF b = <<>> \/ len <= 0 THEN Done(b, <<>>)
     ELSE IF p[2] = 0 THEN Done(<<>>, b)
     ELSE LET rest == From(b, p[1])
          IN Done(Upto(rest, p[2]), Upto(b, p[1]) \o From(rest, p[2]))

-----------------------------------------------------------------------------
\* Integers within a blob.

from_le_bytes(buf) ==
  LET u == FoldLeft(LAMBDA acc, x : acc * ByteBase + x, 0, Reverse(buf))
  IN IF u > IntMax THEN u - ByteBase ^ IntBytes ELSE u

to_le_bytes(value) ==
  [i \in 1..IntBytes |-> ((value % (ByteBase ^ IntBytes)) \div (ByteBase ^ (i - 1))) % ByteBase]

\* The buffer is padded with zeros at its end, for both orders of bytes.
parse_int(b, start, len, is_le) ==
  LET p   == calc_offset_len(Len(b), start, len)
      n   == SmallerOf(p[2], IntBytes)
      buf == Part(b, p[1], n) \o [i \in 1..(IntBytes - n) |-> 0]
  IN IF b = <<>> \/ len <= 0 \/ p[2] = 0 THEN 0
     ELSE from_le_bytes(IF is_le THEN buf ELSE Reverse(buf))

\* The bytes of b from position at on are overwritten by c.
Overwritten(b, at, c) == Upto(b, at) \o c \o From(b, at + Len(c))

write_int(b, start, len, value, is_le) ==
  LET p   == calc_offset_len(Len(b), start, len)
      n   == SmallerOf(p[2], IntBytes)
      buf == IF is_le THEN to_le_bytes(value) ELSE Reverse(to_le_bytes(value))
  IN IF b = <<>> \/ len <= 0 \/ p[2] = 0 THEN b ELSE Overwritten(b, p[1], Upto(buf, n))

-----------------------------------------------------------------------------
\* Text within a blob.

as_bytes(text) == FoldLeft(LAMBDA acc, c : acc \o Utf8[c], <<>>, text)

append_str(b, text) == b \o as_bytes(text)

append_char(b, c) == b \o Utf8[c]

\* `len` counts bytes, of the text too, so it may cut a character apart.
write_string(b, start, len, text, ascii_only) ==
  LET p == calc_offset_len(Len(b), start, len)
      n == SmallerOf(p[2], Len(as_bytes(text)))
      t == IF ascii_only THEN as_bytes(SelectSeq(text, LAMBDA c : c \in Ascii))
           ELSE as_bytes(text)
  IN IF len <= 0 \/ b = <<>> \/ text = <<>> \/ p[2] = 0 THEN b
     ELSE Overwritten(b, p[1], Upto(t, SmallerOf(n, Len(t))))

\* String::from_utf8_lossy, for characters of at most two bytes: a first byte of
\* two waits for the second one, and is replaced with any other byte after it.
Single(x) == {c \in DOMAIN Utf8 : Utf8[c] = <<x>>}
Pair(x)   == {c \in DOMAIN Utf8 : Len(Utf8[c]) = 2 /\ Utf8[c][1] = x}

from_utf8_lossy(b) ==
  LET Step(acc, x) ==
        LET whole == {c \in Pair(acc.lead) : Utf8[c][2] = x}
            text  == IF acc.lead # NoIndex /\ whole = {} THEN Append(acc.text, Replacement)
                     ELSE acc.text
        IN IF acc.lead # NoIndex /\ whole # {}
           THEN [text |-> Append(text, CHOOSE c \in whole : TRUE), lead |-> NoIndex]
           ELSE IF Pair(x) # {} THEN [text |-> text, lead |-> x]
           ELSE [text |-> Append(text, IF Single(x) = {} THEN Replacement
                                       ELSE CHOOSE c \in Single(x) : TRUE), lead |-> NoIndex]
      end == FoldLeft(Step, [text |-> <<>>, lead |-> NoIndex], b)
  IN IF end.lead = NoIndex THEN end.text ELSE Append(end.text, Replacement)

as_string(b) == from_utf8_lossy(b)
=============================================================================
