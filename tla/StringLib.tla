----------------------------- MODULE StringLib ------------------------------
(***************************************************************************)
(* The functions of strings (src/packages/string_more.rs).  A string is a  *)
(* sequence of characters; Utf8[c] are the bytes of character c.  The code *)
(* turns positions of characters into positions of bytes and back; what it *)
(* computes is stated in characters, except where it counts bytes.         *)
(***************************************************************************)
EXTENDS Indices, SequencesExt, Folds

CONSTANTS Utf8, Spaces

Ended(s, r) == [seq |-> s, ret |-> r]

bytes(s) == FoldLeft(LAMBDA n, c : n + Len(Utf8[c]), 0, s)

len(s) == Len(s)

\* `+`, `+=` and append: of a string, a character or the text of a value.
add(s, t) == IF t = <<>> THEN s ELSE s \o t

truncate(s, n) == IF n <= 0 THEN <<>> ELSE Upto(s, SmallerOf(n, Len(s)))

trim(s) ==
  LET kept == {i \in 1..Len(s) : s[i] \notin Spaces}
  IN IF kept = {} THEN <<>>
     ELSE SubSeq(s, CHOOSE i \in kept : \A j \in kept : i <= j,
                    CHOOSE i \in kept : \A j \in kept : i >= j)

pop(s) == IF s = <<>> THEN Ended(s, Unit) ELSE Ended(Front(s), Last(s))

pop_string(s, n) ==
  IF s = <<>> \/ n <= 0 THEN Ended(s, <<>>)
  ELSE IF n < Len(s) THEN Ended(Upto(s, Len(s) - n), From(s, Len(s) - n))
  ELSE Ended(<<>>, s)

-----------------------------------------------------------------------------
\* Searching.

MatchAt(s, t, i) == i + Len(t) <= Len(s) /\ Part(s, i, Len(t)) = t

\* str::find, from character `from` on, as a position in s.
find(s, t, from) ==
  LET is == {i \in from..Len(s) : MatchAt(s, t, i)}
  IN IF is = {} THEN NoIndex ELSE CHOOSE i \in is : \A j \in is : i <= j

contains(s, t) == find(s, t, 0) # NoIndex

starts_with(s, t) == MatchAt(s, t, 0)

ends_with(s, t) == Len(t) <= Len(s) /\ MatchAt(s, t, Len(s) - Len(t))

index_of(s, t) == IF s = <<>> THEN -1 ELSE find(s, t, 0)

index_of_string_starting_from(s, t, start) ==
  LET from == IF start < 0 THEN LargerOf(Len(s) + start, 0) ELSE start
  IN IF s = <<>> \/ (start > 0 /\ start >= Len(s)) THEN -1 ELSE find(s, t, from)

\* The same search for a character.
index_of_char_starting_from(s, c, start) ==
  LET from == IF start < 0 THEN LargerOf(Len(s) + start, 0) ELSE start
  IN IF s = <<>> \/ (start > 0 /\ start >= Len(s)) THEN -1 ELSE find(s, <<c>>, from)

-----------------------------------------------------------------------------
\* Parts.

get(s, index) ==
  LET i == IF index >= 0 THEN index ELSE Len(s) - Abs(index)
  IN IF i \in 0..(Len(s) - 1) THEN s[i + 1] ELSE Unit

set(s, index, c) ==
  LET i == IF index >= 0 THEN index ELSE Len(s) - Abs(index)
  IN IF i \in 0..(Len(s) - 1) THEN [s EXCEPT ![i + 1] = c] ELSE s

\* sub_string and crop take the same part.
PartOf(s, start, n) ==
  LET offset == IF start < 0 THEN LargerOf(Len(s) - Abs(start), 0) ELSE start
  IN IF s = <<>> \/ n <= 0 \/ (start >= 0 /\ start >= Len(s)) THEN <<>>
     ELSE Part(s, offset, SmallerOf(n, Len(s) - offset))

sub_string(s, start, n) == PartOf(s, start, n)

\* The default length is the number of bytes, of which there are enough.
sub_string_starting_from(s, start) == IF s = <<>> THEN <<>> ELSE PartOf(s, start, bytes(s))

crop(s, start, n) == PartOf(s, start, n)

crop_string_starting_from(s, start) == crop(s, start, bytes(s))

\* CharsStream::new: the characters that `chars` iterates over.
CharsStream(s, from, n) ==
  LET offset == IF from >= 0 THEN SmallerOf(from, Len(s)) ELSE LargerOf(Len(s) - Abs(from), 0)
  IN IF n <= 0 THEN <<>> ELSE Part(s, offset, SmallerOf(n, Len(s) - offset))

\* The range of `chars` and `bits` may be empty, unlike that of the others.
chars_inclusive_range(start, end) ==
  LET f == LargerOf(start, 0)
      t == SmallerOf(LargerOf(end, f - 1), IntMax - 1)
  IN <<f, Fits(t - f + 1)>>

\* At index 0, abs_index is 0 and the string is cut at its end.
split_at(s, index) ==
  IF index <= 0
  THEN IF Abs(index) > Len(s) THEN <<<<>>, s>>
       ELSE <<Upto(s, Len(s) - Abs(index)), From(s, Len(s) - Abs(index))>>
  ELSE LET i == SmallerOf(index, Len(s)) IN <<Upto(s, i), From(s, i)>>

-----------------------------------------------------------------------------
\* Splitting and replacing: matches do not overlap.

Matches(s, d) ==
  FoldLeft(LAMBDA ms, p : IF MatchAt(s, d, p) /\ (ms = <<>> \/ p >= Last(ms) + Len(d))
                          THEN Append(ms, p) ELSE ms,
           <<>>, [i \in 1..(Len(s) + 1) |-> i - 1])

\* Found from the end of the string, in the order of the string.
RMatches(s, d) ==
  FoldLeft(LAMBDA ms, p : IF MatchAt(s, d, p) /\ (ms = <<>> \/ p + Len(d) <= Head(ms))
                          THEN <<p>> \o ms ELSE ms,
           <<>>, [i \in 1..(Len(s) + 1) |-> Len(s) + 1 - i])

\* The pieces of s between matches ms of w characters.
Pieces(s, ms, w) ==
  LET from(k) == IF k = 1 THEN 0 ELSE ms[k - 1] + w
      to(k)   == IF k <= Len(ms) THEN ms[k] ELSE Len(s)
  IN [k \in 1..(Len(ms) + 1) |-> Part(s, from(k), to(k) - from(k))]

Whole(s, d) == s = <<>> \/ (d # <<>> /\ ~contains(s, d))

split(s, d) == IF Whole(s, d) THEN <<s>> ELSE Pieces(s, Matches(s, d), Len(d))

splitn_one_more(s, d, segments) ==
  LET ms == Matches(s, d)
  IN IF segments <= 1 \/ Whole(s, d) THEN <<s>>
     ELSE Pieces(s, Upto(ms, SmallerOf(segments, Len(ms))), Len(d))

splitn(s, d, segments) ==
  LET ms == Matches(s, d)
  IN IF segments <= 1 \/ Whole(s, d) THEN <<s>>
     ELSE Pieces(s, Upto(ms, SmallerOf(segments - 1, Len(ms))), Len(d))

rsplit(s, d) == IF Whole(s, d) THEN <<s>> ELSE Reverse(Pieces(s, RMatches(s, d), Len(d)))

rsplitn(s, d, segments) ==
  LET ms == RMatches(s, d)
  IN IF segments <= 1 \/ Whole(s, d) THEN <<s>>
     ELSE Reverse(Pieces(s, From(ms, LargerOf(Len(ms) - (segments - 1), 0)), Len(d)))

split_whitespace(s) ==
  IF s = <<>> THEN <<s>>
  ELSE SelectSeq(FoldLeft(LAMBDA ws, c : IF c \in Spaces THEN Append(ws, <<>>)
                                         ELSE Append(Front(ws), Append(Last(ws), c)),
                          <<<<>>>>, s),
                 LAMBDA w : w # <<>>)

\* The pieces with `with` between them.
Joined(ps, with) ==
  FoldLeft(LAMBDA acc, k : acc \o with \o ps[k], ps[1], [k \in 1..(Len(ps) - 1) |-> k + 1])

replace(s, t, with) ==
  IF s = <<>> THEN s ELSE Joined(Pieces(s, Matches(s, t), Len(t)), with)

\* `-=` with a string slice; of a character it is the same.
remove(s, t) == IF t = <<>> THEN s ELSE Joined(Pieces(s, Matches(s, t), Len(t)), <<>>)

\* The operator `-` of two strings: the code gives the second one when the
\* first one is empty.
sub(s, t) == IF t = <<>> THEN s ELSE IF s = <<>> THEN t
             ELSE Joined(Pieces(s, Matches(s, t), Len(t)), <<>>)

-----------------------------------------------------------------------------
\* Padding.  The limit (0: none) is tested in characters before, and in bytes
\* after the string has been padded, when an error keeps the longer string.

pad(s, n, c, max) ==
  LET t == s \o [i \in 1..(n - Len(s)) |-> c]
  IN IF n <= 0 THEN Ended(s, Unit)
     ELSE IF max > 0 /\ n > max THEN Ended(s, Error)
     ELSE IF n <= Len(s) THEN Ended(s, Unit)
     ELSE Ended(t, IF max > 0 /\ bytes(t) > max THEN Error ELSE Unit)

\* One round of the loop of pad_with_string.
PadRound(s, n, padding) ==
  IF Len(s) + Len(padding) <= n THEN s \o padding ELSE s \o Upto(padding, n - Len(s))

PadChecked(s, max) == IF max > 0 /\ bytes(s) > max THEN Error ELSE Unit
=============================================================================
