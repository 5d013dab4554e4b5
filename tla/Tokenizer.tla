----------------------------- MODULE Tokenizer ------------------------------
(***************************************************************************)
(* tokenizer.rs: from the characters of a script to its tokens, one token  *)
(* at a time.  A text is a string; `st` is the TokenizeState together with *)
(* the place of the next character:                                        *)
(*   at      the index of the next character of the input stream (what is  *)
(*           un-got is read again);                                        *)
(*   unary   next_token_cannot_be_unary;                                   *)
(*   level   comment_level;                                                *)
(*   within  is_within_text_terminated_by, "" for None;                    *)
(*   last    last_token, the spelling kept for compacting a script.        *)
(* The build is the default one: doc-comments are dropped as comments are. *)
(* A token is a pair of its kind and its text; <<"sym", "<=">> stands for  *)
(* Token::LessThanEqualsTo, and the unary signs, which are spelled as the  *)
(* binary ones, are <<"unary", "-">> and <<"unary", "+">>.                 *)
(***************************************************************************)
EXTENDS Integers, Sequences, SequencesExt, FiniteSetsExt, TLC

CONSTANTS Digits, HexDigits, Letters, \* the classes of characters
          IntDigits, MinDigits,       \* an INT has at most IntDigits digits, and
                                      \* MinDigits only when it is negative
          MaxString                   \* Engine::max_string_size, 0 for none

-----------------------------------------------------------------------------
\* The symbols and keywords of the language and what is asked of them: `impl Token`

OpAssignments == {"+=", "-=", "*=", "/=", "<<=", ">>=", "%=", "**=", "&=", "|=", "^="}
BinaryOperators == {"+", "-", "*", "/", "%", "**", "<<", ">>", "&", "|", "^", "&&", "||",
  "==", "!=", "<", "<=", ">", ">=", "in", "!in", "??", "..", "..="}
Punctuation == {"{", "}", "(", ")", "[", "]", "()", ";", ",", ":", "::", "=>", ".", "?.",
  "?[", "#{", "=", "!", "_"}
Keywords == {"true", "false", "let", "const", "if", "else", "switch", "do", "while", "until",
  "loop", "for", "in", "continue", "break", "return", "throw", "try", "catch", "fn",
  "private", "import", "export", "as"}

\* Token::lookup_symbol_from_syntax: the spellings that are symbols or keywords.
Symbols == OpAssignments \cup BinaryOperators \cup Punctuation \cup Keywords

\* The symbols of is_reserved_keyword_or_symbol, and the reserved words that scripts
\* of the model can spell.
ReservedSymbols == {"?", "#", "===", "!==", "#!", "~", "!.", ":=", "...", "@", "<-", "--",
  "<|", "$", "->", "|>", "::<", "++", ":;", "*)", "(*"}
ReservedWords == {"this", "new", "is", "nil", "go", "call", "eval", "print"}
is_reserved_keyword_or_symbol(s) == s \in ReservedSymbols \cup ReservedWords

\* F(v), with v evaluated first.
Given(v, F(_)) == CHOOSE r \in {F(u) : u \in {v}} : TRUE

sym(s) == <<"sym", s>>
EOF == <<"EOF", "">>

\* Token::is_next_unary: a sign after one of these tokens is a unary operator.
is_next_unary(tok) ==
  \/ tok[1] = "unary"
  \/ tok[1] = "err"
  \/ /\ tok[1] = "sym"
     /\ \/ tok[2] \in OpAssignments \cup BinaryOperators
        \/ tok[2] \in {";", ":", ",", "{", "(", "[", "?[", "=", "!", "if", "while",
                       "until", "return", "throw"}

\* Token::precedence; 0 for a token that is not a binary operator.
precedence(tok) ==
  IF tok[1] # "sym" THEN 0
  ELSE CASE tok[2] \in {"||", "^", "|"} -> 30
         [] tok[2] \in {"&&", "&"} -> 60
         [] tok[2] \in {"==", "!="} -> 90
         [] tok[2] \in {"in", "!in"} -> 110
         [] tok[2] \in {"<", "<=", ">", ">="} -> 130
         [] tok[2] = "??" -> 135
         [] tok[2] \in {"..", "..="} -> 140
         [] tok[2] \in {"+", "-"} -> 150
         [] tok[2] \in {"/", "*", "%"} -> 180
         [] tok[2] = "**" -> 190
         [] tok[2] \in {"<<", ">>"} -> 210
         [] OTHER -> 0

\* Token::is_bind_right: only exponentiation binds to the right.
is_bind_right(tok) == tok = sym("**")

-----------------------------------------------------------------------------
\* Characters

Newline == "\n"
BackTick == "\r"    \* stands for the back-tick, which a TLA+ string cannot hold
Whitespace == {" ", Newline}
is_id_continue == Letters \cup Digits \cup {"_"}

\* peek_next: the character at a place, "" at the end.
ch(txt, i) == IF i \in 1..Len(txt) THEN SubSeq(txt, i, i) ELSE ""
From(s, i) == SubSeq(s, i, Len(s))
AllIn(s, set) == \A i \in 1..Len(s) : ch(s, i) \in set

\* The place of the first character from i on that is not in the set.
EndOf(txt, i, set) == Min({j \in i..(Len(txt) + 1) : ch(txt, j) \notin set})

\* The column of a place in its line, counted from 1 as Position does.
Column(txt, i) == i - Max({0} \cup {j \in 1..(i - 1) : ch(txt, j) = Newline})

StartState == [at |-> 1, unary |-> FALSE, level |-> 0, within |-> "", last |-> ""]
TooLong(s) == MaxString > 0 /\ Len(s) > MaxString

-----------------------------------------------------------------------------
\* Numbers

valid(r) == CASE r.radix = 0 -> Digits
              [] r.radix = 16 -> HexDigits
              [] r.radix = 2 -> {"0", "1"}

\* The digits of a number, its separators dropped, its decimal point and exponent.
RECURSIVE scan_number(_, _, _)
scan_number(txt, j, r0) == Given(r0, LAMBDA r :
  LET c == ch(txt, j)
      d == ch(txt, j + 1)
      decimal == r.radix = 0
      Stop == [at |-> j, r |-> r]
      exponent == [r EXCEPT !.exp = TRUE, !.period = TRUE]
  IN CASE c = "_" -> scan_number(txt, j + 1, r)
       [] c # "" /\ c \in valid(r) -> scan_number(txt, j + 1, [r EXCEPT !.s = @ \o c])
       [] c = "." /\ ~r.period /\ decimal ->
            CASE d \in Digits ->
                   scan_number(txt, j + 1, [r EXCEPT !.s = @ \o ".", !.period = TRUE])
              [] d \in Letters \cup {"", "_", "."} -> Stop
              [] OTHER ->
                   scan_number(txt, j + 1, [r EXCEPT !.s = @ \o ".0", !.period = TRUE])
       [] c = "e" /\ ~r.exp /\ decimal ->
            CASE d \in Digits ->
                   scan_number(txt, j + 1, [exponent EXCEPT !.s = @ \o "e"])
              [] d \in {"+", "-"} ->
                   scan_number(txt, j + 2, [exponent EXCEPT !.s = @ \o "e" \o d])
              [] OTHER -> Stop
       [] c \in {"x", "b"} /\ ch(r.s, 1) = "0" /\ Len(r.s) = 1 ->
            scan_number(txt, j + 1, [r EXCEPT !.s = @ \o c,
                                              !.radix = IF c = "x" THEN 16 ELSE 2])
       [] OTHER -> Stop)

\* INT::from_str
Fits(negated, s) ==
  LET significant == From(s, EndOf(s, 1, {"0"}))
  IN Len(significant) <= IntDigits /\ (significant = MinDigits => negated)

\* A number literal; `negated` when the sign before it belongs to it.
number(txt, i, negated, st) ==
  Given(scan_number(txt, i + 1, [s |-> ch(txt, i), period |-> FALSE, exp |-> FALSE,
                                 radix |-> 0]), LAMBDA n :
  LET result == IF negated THEN "-" \o n.r.s ELSE n.r.s
      malformed == <<"err", "MalformedNumber">>
  IN [tok |-> IF n.r.radix > 0
                THEN LET body == From(result, 3)
                     IN IF body # "" /\ AllIn(body, valid(n.r))
                          THEN <<"int", result>> ELSE malformed
              ELSE IF ~n.r.period /\ Fits(negated, n.r.s) THEN <<"int", result>>
              ELSE IF ch(result, Len(result)) \in Digits THEN <<"float", result>>
              ELSE malformed,
      st |-> [st EXCEPT !.at = n.at, !.last = result]])

-----------------------------------------------------------------------------
\* Strings

Escapes == [c \in {"n", "t"} |-> IF c = "n" THEN Newline ELSE "\t"]
HexLength == [c \in {"x", "u"} |-> IF c = "x" THEN 2 ELSE 4]
HexChar == "\f" \* stands for whatever character a hex escape gives

Failed(what) == [end |-> "err", what |-> what]

\* The loop of parse_string_literal, from the character at i on.  `w` holds the
\* terminator and the function's flags, `r` the text so far, whether a backslash is
\* pending, and up to which column white space is skipped after a line continuation.
RECURSIVE scan_text(_, _, _, _)
scan_text(txt, i0, w, r0) == Given(<<i0, r0>>, LAMBDA now :
  LET i == now[1]
      r == now[2]
      next == ch(txt, i + 1)
      dollar == w.interpolation /\ ~r.escape /\ ch(txt, i) = "\\" /\ next = "$"
                /\ ch(txt, i + 2) = "{"
      c == IF dollar THEN "$" ELSE ch(txt, i)
      doubled == c = w.term /\ ~r.escape /\ next = w.term
      after == IF dollar \/ doubled THEN i + 2 ELSE i + 1
      seen == [r EXCEPT !.last = @ \o ch(txt, i) \o (IF doubled THEN c ELSE "")]
      Done(how, at) == [end |-> how, out |-> r.out, at |-> at, last |-> seen.last]
      Go(out) == scan_text(txt, after, w, [seen EXCEPT !.out = @ \o out, !.escape = FALSE])
  IN CASE c = "" -> IF w.verbatim \/ (w.continuation /\ r.escape) THEN Done("open", i)
                    ELSE Failed("UnterminatedString")
       [] w.interpolation /\ ~r.escape /\ c = "$" /\ ~dollar /\ next = "{" ->
            Done("interpolated", i + 1)
       [] TooLong(r.out) -> Failed("StringTooLong")
       [] c = w.term /\ ~r.escape /\ ~doubled -> Done("closed", i + 1)
       [] r.escape /\ c \in DOMAIN Escapes -> Go(Escapes[c])
       [] c = "\\" /\ ~w.verbatim /\ ~r.escape ->
            scan_text(txt, after, w, [seen EXCEPT !.escape = TRUE])
       [] r.escape /\ c \in {"\\", w.term} -> Go(c)
       [] r.escape /\ c \in DOMAIN HexLength ->
            LET hex == SubSeq(txt, after, Min({Len(txt), after + HexLength[c] - 1}))
            IN IF Len(hex) = HexLength[c] /\ AllIn(hex, HexDigits)
                 THEN scan_text(txt, after + HexLength[c], w,
                        [seen EXCEPT !.out = @ \o HexChar, !.escape = FALSE,
                                     !.last = @ \o hex])
                 ELSE Failed("MalformedEscapeSequence")
       [] c = Newline /\ w.verbatim -> Go(c)
       [] c = Newline /\ w.continuation /\ r.escape ->
            scan_text(txt, after, w, [seen EXCEPT !.escape = FALSE, !.skip = w.column + 1])
       [] c = Newline -> Failed("UnterminatedString")
       [] r.escape -> Failed("MalformedEscapeSequence")
       [] c \in Whitespace /\ Column(txt, i) < r.skip -> scan_text(txt, after, w, seen)
       [] OTHER -> scan_text(txt, after, w, [seen EXCEPT !.out = @ \o c, !.skip = 0]))

parse_string_literal(txt, i, column, term, verbatim, continuation, interpolation) ==
  Given(scan_text(txt, i,
          [term |-> term, verbatim |-> verbatim, continuation |-> continuation,
           interpolation |-> interpolation, column |-> column],
          [out |-> "", escape |-> FALSE, skip |-> 0, last |-> term]),
        LAMBDA r : IF r.end # "err" /\ TooLong(r.out) THEN Failed("StringTooLong") ELSE r)

\* The token of a string, and the state after it.  (The parser stops at an error.)
StringToken(r, term, st) ==
  IF r.end = "err"
    THEN [tok |-> <<"err", r.what>>,
          st |-> [st EXCEPT !.within = IF r.what = "UnterminatedString" THEN "" ELSE term]]
    ELSE [tok |-> <<IF r.end = "interpolated" THEN "interpolated" ELSE "string", r.out>>,
          st |-> [st EXCEPT !.at = r.at, !.last = r.last,
                            !.within = IF r.end = "open" THEN term ELSE ""]]

\* parse_raw_string_literal: up to a quote followed by as many hashes as opened it.
\* The hashes and the quote are all that is kept in last_token.
Hashes == [n \in 1..9 |-> SubSeq("#########", 1, n)]
parse_raw_string_literal(txt, i, count, st) ==
  LET close == "\"" \o Hashes[count]
      ends == {j \in i..Len(txt) : SubSeq(txt, j, Min({Len(txt), j + count})) = close}
      kept == [st EXCEPT !.last = Hashes[count] \o "\""]
      body == IF ends = {} THEN From(txt, i) ELSE SubSeq(txt, i, Min(ends) - 1)
  IN IF TooLong(body) THEN [tok |-> <<"err", "StringTooLong">>, st |-> kept]
     ELSE IF ends = {} THEN [tok |-> <<"string", body>>,
                             st |-> [kept EXCEPT !.at = Len(txt) + 1, !.within = Hashes[count]]]
     ELSE [tok |-> <<"string", body>>,
           st |-> [kept EXCEPT !.at = Min(ends) + count + 1, !.within = ""]]

start_raw_string(txt, i, st) ==
  LET quote == EndOf(txt, i, {"#"})
      err(what) == [tok |-> <<"err", what>>, st |-> st]
  IN CASE ch(txt, quote) = "\"" ->
            parse_raw_string_literal(txt, quote + 1, quote - i, st)
       [] ch(txt, quote) = "" -> err("UnterminatedString")
       [] OTHER -> err("UnexpectedInput")

\* ' - a character literal is a string of one character.
char_literal(txt, i, st) ==
  LET r == parse_string_literal(txt, i + 1, Column(txt, i), "'", FALSE, FALSE, FALSE)
      s == StringToken(r, "'", st)
  IN IF ch(txt, i + 1) = "'" THEN [tok |-> <<"err", "MalformedChar">>, st |-> st]
     ELSE IF r.end = "err" THEN s
     ELSE IF r.out = "" THEN [s EXCEPT !.tok = <<"panic", "unwrap">>]
     ELSE IF Len(r.out) > 1 THEN [s EXCEPT !.tok = <<"err", "MalformedChar">>]
     ELSE [s EXCEPT !.tok = <<"char", r.out>>]

-----------------------------------------------------------------------------
\* Comments

RECURSIVE scan_block_comment(_, _, _)
scan_block_comment(txt, i0, level) == Given(i0, LAMBDA i :
  LET pair == ch(txt, i) \o ch(txt, i + 1)
  IN CASE level = 0 \/ ch(txt, i) = "" -> [at |-> i, level |-> level]
       [] pair = "/*" -> scan_block_comment(txt, i + 2, level + 1)
       [] pair = "*/" -> scan_block_comment(txt, i + 2, level - 1)
       [] OTHER -> scan_block_comment(txt, i + 1, level))

\* A line comment ends after the line.
line_comment_end(txt, i) ==
  Min({Len(txt) + 1} \cup {j + 1 : j \in {k \in i..Len(txt) : ch(txt, k) = Newline}})

-----------------------------------------------------------------------------
\* Identifiers and symbols

parse_identifier_token(txt, i, st) ==
  LET end == EndOf(txt, i, is_id_continue)
      word == SubSeq(txt, i, end - 1)
  IN [tok |-> CASE word \in Symbols -> sym(word)
                [] word \notin Symbols /\ is_reserved_keyword_or_symbol(word) ->
                     <<"reserved", word>>
                [] OTHER -> IF ch(word, 1) \in Letters THEN <<"id", word>>
                            ELSE <<"err", "MalformedIdentifier">>,
      st |-> [st EXCEPT !.at = end, !.last = word]]

\* The symbol at i: the longest of those the next characters spell.  `!in` is one
\* only when no identifier goes on after it.
Marks == (Symbols \cup ReservedSymbols) \ (Keywords \cup {"_", "#!"})
symbol_at(txt, i) ==
  LET spelled(n) == IF i + n - 1 <= Len(txt) THEN SubSeq(txt, i, i + n - 1) ELSE ""
      found == {n \in 1..3 : /\ spelled(n) \in Marks
                             /\ spelled(n) = "!in" => ch(txt, i + 3) \notin is_id_continue}
  IN IF found = {} THEN "" ELSE spelled(Max(found))

\* + or -
sign(s, st) == IF st.unary THEN sym(s) ELSE <<"unary", s>>

\* A symbol; `#!` is noted without its second character, and `# {` is one symbol.
symbol_token(txt, i, st) ==
  LET s == symbol_at(txt, i)
      cc == ch(txt, i + 1)
      map == s = "#" /\ cc = " " /\ ch(txt, i + 2) = "{"
  IN CASE s = "" -> [tok |-> <<"err", "UnexpectedInput">>, st |-> [st EXCEPT !.at = i + 1]]
       [] s = "#" -> [tok |-> <<"reserved", IF map THEN "# {"
                                            ELSE IF cc = "!" THEN "#!" ELSE "#">>,
                      st |-> [st EXCEPT !.at = IF map THEN i + 3
                                               ELSE IF cc = " " THEN i + 2 ELSE i + 1]]
       [] s \in {"+", "-"} -> [tok |-> sign(s, st), st |-> [st EXCEPT !.at = i + 1]]
       [] OTHER -> [tok |-> IF s \in ReservedSymbols THEN <<"reserved", s>> ELSE sym(s),
                    st |-> [st EXCEPT !.at = i + Len(s)]]

-----------------------------------------------------------------------------
\* get_next_token

\* The loop of get_next_token_inner: white space and comments are passed over.
RECURSIVE token_at(_, _, _)
token_at(txt, i0, st) == Given(i0, LAMBDA i :
  LET c == ch(txt, i)
      cc == ch(txt, i + 1)
      Text(at, column, verbatim) ==
        StringToken(parse_string_literal(txt, at, column, c, verbatim, ~verbatim, verbatim), c, st)
  IN CASE c = "" -> [tok |-> EOF, st |-> [st EXCEPT !.at = i]]
       [] c \in Digits -> number(txt, i, FALSE, st)
       [] c = "\"" -> Text(i + 1, Column(txt, i), FALSE)
       [] c = BackTick -> Text(IF cc = Newline THEN i + 2 ELSE i + 1, Column(txt, i), TRUE)
       [] c = "#" /\ cc \in {"\"", "#"} -> start_raw_string(txt, i, st)
       [] c = "'" -> char_literal(txt, i, st)
       [] c = "-" /\ cc \in Digits /\ ~st.unary -> number(txt, i + 1, TRUE, st)
       [] c \o cc = "//" -> token_at(txt, line_comment_end(txt, i + 2), st)
       [] c \o cc = "/*" ->
            LET r == scan_block_comment(txt, i + 2, st.level + 1)
            IN token_at(txt, r.at, [st EXCEPT !.level = r.level])
       [] c \in Letters \cup {"_"} -> parse_identifier_token(txt, i, st)
       [] c \in Whitespace -> token_at(txt, i + 1, st)
       [] OTHER -> symbol_token(txt, i, st))

\* Mutant: the terminator of the text is forgotten when it is resumed.
get_next_token_inner_Forgets(txt, st) == token_at(txt, st.at, [st EXCEPT !.last = "", !.within = ""])

get_next_token_inner(txt, st) == Given(scan_block_comment(txt, st.at, st.level), LAMBDA comment :
  LET now == [st EXCEPT !.last = "", !.at = comment.at, !.level = comment.level]
  IN CASE comment.level > 0 -> [tok |-> EOF, st |-> now]
       [] ch(now.within, 1) = "#" ->
            parse_raw_string_literal(txt, now.at, Len(now.within), now)
       [] now.within # "" /\ ch(now.within, 1) # "#" ->
            StringToken(parse_string_literal(txt, now.at, 0, now.within, TRUE, FALSE, TRUE),
                        now.within, now)
       [] OTHER -> token_at(txt, now.at, now))

get_next_token(txt, st) ==
  Given(get_next_token_inner(txt, st), LAMBDA r : [r EXCEPT !.st.unary = ~is_next_unary(r.tok)])

-----------------------------------------------------------------------------
\* Iterator for TokenIterator

\* The reserved symbols that are refused with advice of their own.
ImproperSymbols == {"===", "!==", "->", "<-", ":=", ":;", "::<", "(*", "*)", "# {"}

\* What the engine makes of a token: `custom` and `disabled` are the spellings that are
\* custom keywords and disabled symbols.
engine_token(r, custom, disabled) ==
  LET tok == r.tok
  IN CASE tok[1] = "string" /\ r.st.within # "" -> <<"err", "UnterminatedString">>
       [] tok[1] = "reserved" ->
            IF tok[2] \in custom THEN <<"custom", tok[2]>>
            ELSE IF tok[2] \in ImproperSymbols \cup disabled THEN <<"err", "ImproperSymbol">>
            ELSE tok
       [] tok[1] \in {"sym", "unary"} ->
            IF tok[2] \in custom THEN <<"custom", tok[2]>>
            ELSE IF tok[2] \in disabled THEN <<"reserved", tok[2]>>
            ELSE tok
       [] tok[1] = "id" /\ tok[2] \in custom -> <<"custom", tok[2]>>
       [] OTHER -> tok

\* Mutant: the boundary is not looked at, and nothing is put between two tokens.
need_space_Never(prev, cur) == FALSE

\* The characters on the two sides of a boundary would be read as one token.
need_space(prev, cur) ==
  \/ prev \in is_id_continue /\ cur \in is_id_continue
  \/ prev \o cur \in Symbols
  \/ is_reserved_keyword_or_symbol(prev \o cur)

\* The script compacted so far, with the token added; `within` when the token is the
\* rest of an interpolated string.
compress(compressed, tok, last, within) ==
  LET buf == IF last = "" THEN tok[2] ELSE last
      space == compressed # "" /\ need_space(ch(compressed, Len(compressed)), ch(buf, 1))
  IN IF within /\ tok[1] \in {"string", "interpolated"} /\ last # ""
       THEN compressed \o From(last, 2)
     ELSE compressed \o (IF space THEN " " ELSE "") \o buf
=============================================================================
