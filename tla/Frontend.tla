------------------------------ MODULE Frontend ------------------------------
(***************************************************************************)
(* From a script to its syntax tree.  The tokenizer and the parser run     *)
(* together: the parser takes one token after another, and tells the       *)
(* tokenizer (TokenizerControl::is_within_text) when the block of an       *)
(* interpolation has ended and text goes on.  A script is read twice: as   *)
(* it is, while Engine::compact_script collects its compact form, and then *)
(* in that form.  A few inputs are token streams and not texts: these are  *)
(* parsed and not compacted, and some have the tree that they spell.       *)
(***************************************************************************)
EXTENDS Syntax

CONSTANTS Texts,             \* the scripts
          Streams(_),        \* token streams of a kind: records with toks and what they spell
          Custom, Disabled,  \* spellings of custom keywords and of disabled symbols
          None

VARIABLES txt,         \* the characters being read
          st,          \* the state of the tokenizer
          resume,      \* TokenizerControl::is_within_text
          open,        \* the blocks of interpolations being parsed, with their open braces
          toks,        \* the tokens the parser has taken
          compressed,  \* TokenizerControl::compressed
          phase,       \* "lex" and "parse", then "relex" and "reparse" of the compact form
          ast,         \* the result of the last parse
          first,       \* what the script was before it was compacted
          want         \* the token stream, with what it spells

vars == <<txt, st, resume, open, toks, compressed, phase, ast, first, want>>

Kinds == {"operators", "chain", "nested", "script", "expression"}
Phases == {"lex", "parse", "relex", "reparse", "done"}

TypeOK ==
  /\ st.at \in 1..(Len(txt) + 1)
  /\ st.level \in Nat
  /\ resume \in BOOLEAN
  /\ open \in Seq(Nat)
  /\ phase \in Phases
  /\ ast = None \/ ast.ok \in BOOLEAN

Start(t, ph) ==
  /\ txt = t
  /\ phase = ph
  /\ st = StartState
  /\ resume = FALSE
  /\ open = <<>>
  /\ compressed = ""
  /\ ast = None
  /\ first = None

Init ==
  \/ \E t \in Texts : Start(t, "lex") /\ toks = <<>> /\ want = None
  \/ \E kind \in Kinds : \E s \in Streams(kind) : Start("", "parse") /\ toks = s.toks /\ want = s

-----------------------------------------------------------------------------
Opens(tok) == tok[1] = "sym" /\ tok[2] \in {"{", "#{"}
Closes(tok) == tok = sym("}")
Top == open[Len(open)]

\* parse_primary: the token ends the block of an interpolation, and what follows is text.
Ends(tok) == Closes(tok) /\ open # <<>> /\ Top = 1

\* Braces as parse_block and parse_map_literal match them.
Braces(tok) ==
  CASE tok[1] = "interpolated" -> Append(open, 0)
    [] Ends(tok) -> SubSeq(open, 1, Len(open) - 1)
    [] open # <<>> /\ Opens(tok) -> [open EXCEPT ![Len(open)] = @ + 1]
    [] open # <<>> /\ Closes(tok) /\ Top > 1 -> [open EXCEPT ![Len(open)] = @ - 1]
    [] OTHER -> open

\* TokenIterator::next
NextToken ==
  /\ phase \in {"lex", "relex"}
  /\ \E now \in {IF resume THEN [st EXCEPT !.within = BackTick] ELSE st} :
     \E r \in {get_next_token(txt, now)} :
     \E tok \in {engine_token(r, Custom, Disabled)} :
        /\ st' = r.st
        /\ toks' = IF tok = EOF THEN toks ELSE Append(toks, tok)
        /\ compressed' = IF phase = "relex" \/ tok = EOF \/ tok[1] = "err" THEN compressed
                         ELSE compress(compressed, tok, r.st.last, now.within # "")
        /\ open' = Braces(tok)
        /\ resume' = Ends(tok)
        \* The parser stops at an error.
        /\ phase' = IF tok[1] \notin {"EOF", "err", "panic"} THEN phase
                    ELSE IF phase = "lex" THEN "parse" ELSE "reparse"
  /\ UNCHANGED <<txt, ast, first, want>>

\* Engine::compile, or Engine::compile_expression.
Compiled == Parsed(toks, want # None /\ want.kind = "expression")

\* A script that parses goes on as its compact form.
Parse ==
  /\ phase = "parse"
  /\ ast' = Compiled
  /\ IF want = None /\ ast'.ok
       THEN /\ phase' = "relex"
            /\ first' = [txt |-> txt, toks |-> toks, e |-> ast'.e]
            /\ txt' = compressed
            /\ st' = StartState
            /\ toks' = <<>>
            /\ open' = <<>>
       ELSE phase' = "done" /\ UNCHANGED <<first, txt, st, toks, open>>
  /\ UNCHANGED <<resume, compressed, want>>

Reparse ==
  /\ phase = "reparse"
  /\ ast' = Compiled
  /\ phase' = "done"
  /\ UNCHANGED <<txt, st, resume, open, toks, compressed, first, want>>

Next == NextToken \/ Parse \/ Reparse

Spec == Init /\ [][Next]_vars

-----------------------------------------------------------------------------
\* Properties of the tokenizer

\* Every token takes at least one character of the script, so that none is taken twice
\* and every script is read to its end, however strings, comments and the blocks of
\* interpolations end in one another.
TakesCharacters ==
  [][NextToken /\ phase' = phase => st'.at > st.at]_vars

\* parse_primary calls `unreachable!` when the token after the block of an
\* interpolation is not text, or when that text fails in any way other than being
\* unterminated or too long; and a character literal is never empty, where the tokenizer
\* unwraps its first character.
NoPanic ==
  [][NextToken =>
       LET tok == IF toks' = toks THEN EOF ELSE toks'[Len(toks')]
       IN /\ tok[1] # "panic"
          /\ resume => \/ tok[1] \in {"string", "interpolated"}
                       \/ tok \in {<<"err", "UnterminatedString">>,
                                   <<"err", "StringTooLong">>}]_vars

\* An operand is never followed by a sign that the tokenizer took for a unary one, or
\* into the number: `a -1` subtracts.
EndsOperand(tok) ==
  \/ tok[1] \in {"id", "int", "float", "string", "char"}
  \/ tok[1] = "sym" /\ tok[2] \in {")", "]", "}", "()", "true", "false"}
SignsSubtract ==
  \A i \in 2..Len(toks) :
    \/ toks[i][1] = "unary"
    \/ toks[i][1] \in {"int", "float"} /\ ch(toks[i][2], 1) = "-"
    => ~EndsOperand(toks[i - 1])

-----------------------------------------------------------------------------
\* Compacting

Adjacent(a, b) == \E i \in 1..(Len(first.toks) - 1) : first.toks[i] = a /\ first.toks[i + 1] = b
Has(s) == \E i \in 1..Len(first.txt) : SubSeq(first.txt, i, Min({Len(first.txt), i + Len(s) - 1})) = s

\* Where compacting is known to go wrong: raw strings, whose text is not kept; escaped
\* interpolations; a literal string that starts with two new lines; a string continued
\* on another line, whose indentation depends on where it starts; a unary minus before
\* a number, which becomes part of it; and a range without end before =>.
Troubled ==
  \/ Has("#\"")
  \/ Has("\\${")
  \/ Has(BackTick \o "\n\n")
  \/ Has("\\\n")
  \/ \E i \in 1..(Len(first.toks) - 1) : /\ first.toks[i] \in {<<"unary", "-">>}
                                         /\ first.toks[i + 1][1] \in {"int", "float"}
  \/ Adjacent(sym(".."), sym("=>"))

SameMeaning == ast.ok /\ ast.e = first.e

\* Engine::compact_script gives a script that parses to the same tree, apart from the
\* cases above.
CompactIsSound == phase = "done" /\ first # None /\ ~Troubled => SameMeaning

-----------------------------------------------------------------------------
\* Properties of the parser

Accepted == phase = "done" /\ want # None /\ ast.ok
Statement == ast.e[2][1]      \* of a script that is one statement

IsBinary(e) == e[1] = "fn" /\ Len(e[3]) = 2 /\ e[2] \in BinaryOperators
Listed == [and |-> "&&", or |-> "||", coalesce |-> "??"]
TopOf(e) == IF IsBinary(e) THEN sym(e[2])
            ELSE IF e[1] \in DOMAIN Listed THEN sym(Listed[e[1]]) ELSE EOF

\* An operand on the left, or on the right, of an operator holds together at least as
\* tightly as the operator, and does not take what belongs to it.
HoldsLeft(op, e) ==
  \/ TopOf(e) = EOF
  \/ precedence(TopOf(e)) > precedence(op)
  \/ precedence(TopOf(e)) = precedence(op) /\ ~is_bind_right(op)
HoldsRight(op, e) ==
  \/ TopOf(e) = EOF
  \/ precedence(TopOf(e)) > precedence(op)
  \/ precedence(TopOf(e)) = precedence(op) /\ is_bind_right(op)

RECURSIVE WellBound(_)
WellBound(e) ==
  CASE IsBinary(e) -> /\ HoldsLeft(sym(e[2]), e[3][1])
                      /\ HoldsRight(sym(e[2]), e[3][2])
                      /\ WellBound(e[3][1]) /\ WellBound(e[3][2])
    [] e[1] \in DOMAIN Listed -> /\ HoldsLeft(TopOf(e), e[2][1])
                                 /\ \A i \in 2..Len(e[2]) : HoldsRight(TopOf(e), e[2][i])
                                 /\ \A i \in 1..Len(e[2]) : WellBound(e[2][i])
    [] OTHER -> TRUE

\* The tokens an expression was written with.
RECURSIVE Written(_)
Written(e) ==
  CASE IsBinary(e) -> Written(e[3][1]) \o <<sym(e[2])>> \o Written(e[3][2])
    [] e[1] \in DOMAIN Listed ->
         LET n == Len(e[2])
             upto[i \in 1..n] == IF i = 1 THEN Written(e[2][1])
                                 ELSE upto[i - 1] \o <<TopOf(e)>> \o Written(e[2][i])
         IN upto[n]
    [] e[1] = "fn" /\ e[2] = "contains" -> Written(e[3][2]) \o <<sym("in")>> \o Written(e[3][1])
    [] e[1] = "fn" /\ e[2] = "-" -> <<<<"unary", "-">>>> \o Written(e[3][1])
    [] e[1] = "var" -> <<<<"id", e[2]>>>>
    [] OTHER -> <<e>>

\* parse_binary_op gives the one tree that has the operands and operators in the order
\* they are written in and binds them by precedence, exponentiation to the right and all
\* others to the left.
BindsByPrecedence ==
  Accepted /\ want.kind = "operators" => WellBound(Statement) /\ Written(Statement) = toks

\* The links of a chain as eval_dot_index_chain goes through them, with their flags.
RECURSIVE LinksFrom(_, _, _)
LinksFrom(kind, rest, flags) ==
  LET ends == IF kind = "index" THEN "BREAK" \in flags ELSE ~IsChain(rest)
      this == IF ends THEN rest ELSE lhsOf(rest)
      link == [what |-> IF kind = "index" THEN <<"index", this>> ELSE this,
               elvis |-> "NEGATED" \in flags]
  IN <<link>> \o IF ends THEN <<>> ELSE LinksFrom(rest[1], rhsOf(rest), flagsOf(rest))
Links(e) == IF IsChain(e) THEN LinksFrom(e[1], rhsOf(e), flagsOf(e)) ELSE <<>>

RECURSIVE RootOf(_)
RootOf(e) == IF IsChain(e) THEN RootOf(lhsOf(e)) ELSE e

Chain == IF Statement[1] = "assign" THEN Statement[3] ELSE Statement
Whats(links) == [i \in 1..Len(links) |-> links[i].what]

\* The chain the evaluator goes through has the accesses of the source in their order,
\* however the source is put in parentheses (optimize_combo_chain) and whatever is
\* inside its brackets.
ChainAsWritten ==
  Accepted /\ want.kind = "chain" =>
    RootOf(Chain) = <<"var", "x">> /\ Whats(Links(Chain)) = Whats(want.links)

\* make_assignment_stmt takes an assignment exactly when nothing after the variable
\* is a method call: the value assigned has a place to go to.
LvaluesAreWritable ==
  phase = "done" /\ want # None /\ want.kind = "chain" /\ want.assigned =>
    (ast.ok <=> \A i \in 1..Len(want.links) : want.links[i].what[1] # "method")

\* The parts of a tree that are trees.
Kids(e) ==
  CASE e[1] \in {"fn", "method"} -> e[3]
    [] e[1] \in DOMAIN Listed \cup {"array", "interpolated", "block", "script"} -> e[2]
    [] e[1] \in {"index", "dot", "while"} -> <<e[2], e[3]>>
    [] e[1] = "map" -> [k \in DOMAIN e[2] |-> e[2][k][2]]
    [] e[1] = "assign" -> <<e[3], e[4]>>
    [] e[1] \in {"stmt", "import", "break", "return", "throw"} -> <<e[2]>>
    [] e[1] = "let" -> <<e[5]>>
    [] e[1] = "if" -> <<e[2], e[3], e[4]>>
    [] e[1] \in {"do", "try"} -> <<e[2], e[4]>>
    [] e[1] = "for" -> <<e[4], e[5]>>
    [] e[1] = "switch" -> <<e[2]>> \o FlattenSeq([k \in DOMAIN e[3] |-> <<e[3][k][2], e[3][k][3]>>])
    [] e[1] = "closure" -> <<e[3]>>
    [] e[1] = "def" -> <<e[6]>>
    [] e[1] = "custom" -> FlattenSeq(e[3])
    [] OTHER -> <<>>

RECURSIVE DepthOf(_)
DepthOf(e) ==
  IF e[1] = "def" \/ Kids(e) = <<>> THEN 0
  ELSE (IF e[1] \in {"assign", "script"} THEN 0 ELSE 1)
       + Max({0} \cup {DepthOf(Kids(e)[k]) : k \in DOMAIN Kids(e)})

\* No expression nests deeper than Engine::max_expr_depth, however it is written, nor one
\* in a function deeper than Engine::max_function_expr_depth: the evaluator calls itself
\* once for each level.
DepthWithinLimit ==
  ast # None /\ ast.ok =>
    /\ MaxExprDepth > 0 => DepthOf(ast.e) <= MaxExprDepth
    /\ MaxFnExprDepth > 0 => \A k \in DOMAIN ast.e[2] :
         ast.e[2][k][1] = "def" => DepthOf(ast.e[2][k][6]) <= MaxFnExprDepth

\* Where things may stand.  "global": where no block is open; "loop": in the body of a loop,
\* but not in a closure there; "fn": in a function; and in Engine::compile_expression
\* "plain": blocks are single expressions, which lets no other statement in, and "bare":
\* neither blocks nor loops are expressions.
Inside(e, k, in) ==
  CASE e[1] = "block" -> in \ {"global"}
    [] \/ e[1] \in {"while", "for"} /\ k = 2
       \/ e[1] = "do" /\ k = 1 -> in \cup {"loop"}
    [] e[1] = "closure" -> {"fn"} \cup (in \cap {"plain"})
    [] e[1] = "def" -> {"fn"}
    [] OTHER -> in

OnlyStatements == {"let", "import", "export", "def", "break", "continue", "return", "throw", "if",
  "switch", "while", "do", "for", "try", "block"}
Distinct(s) == \A k, m \in DOMAIN s : s[k] = s[m] => k = m
CasesOf(arms) == FlattenSeq([k \in DOMAIN arms |-> arms[k][1]])

\* The rules that are about more than one place of a script.
Stands(e, in) ==
  CASE e[1] \in {"break", "continue"} -> "loop" \in in
    [] e[1] = "export" -> "global" \in in
    [] e[1] = "let" -> e[3] => "global" \in in
    [] e[1] = "def" -> "global" \in in /\ Distinct(e[5])
    [] e[1] = "this" -> "fn" \in in
    [] e[1] = "closure" -> Distinct(e[2])
    [] e[1] = "map" -> Distinct([k \in DOMAIN e[2] |-> e[2][k][1]]) /\ Len(e[2]) <= MaxMapSize
    [] e[1] = "for" -> e[2] # e[3]
    [] e[1] = "script" -> Distinct([k \in DOMAIN e[2] |->
                                      IF e[2][k][1] = "def" THEN Signature(e[2][k]) ELSE <<k>>])
    [] e[1] = "switch" ->
         /\ \A k \in DOMAIN e[3] : e[3][k][1] = <<>> => k = Len(e[3])
         /\ \A k, m \in DOMAIN CasesOf(e[3]) :
              k < m /\ IsRange(CasesOf(e[3])[k]) /\ CasesOf(e[3])[m][1] \in {"int", "float"}
                => is_empty(CasesOf(e[3])[k])
    [] e[1] = "block" -> "plain" \in in =>
         Len(e[2]) = 1 /\ e[2][1][1] \notin OnlyStatements
    [] e[1] = "stmt" -> "bare" \in in => e[2][1] \in {"if", "switch"}
    [] OTHER -> TRUE

RECURSIVE Legal(_, _)
Legal(e, in) == Stands(e, in) /\ \A k \in DOMAIN Kids(e) : Legal(Kids(e)[k], Inside(e, k, in))

\* The parser takes exactly the scripts that keep these rules, wherever statements, blocks,
\* closures, interpolations and custom syntax are in one another and with or without the
\* semicolons that may be left out, and gives the tree that was written.
ParsesAsWritten ==
  phase = "done" /\ want # None /\ want.kind \in {"script", "expression"} =>
    /\ ast.ok <=> Legal(want.tree, IF want.kind = "script" THEN {"global"}
                                  ELSE {"global", "plain", "bare"})
    /\ ast.ok => ast.e = want.tree

-----------------------------------------------------------------------------
\* What the tokenizer makes of a script, and the compact form of it, is what was written.
TextsReadBack == TypeOK /\ SignsSubtract /\ CompactIsSound

\* The tree that the parser makes of tokens is the one that was written, within the limits.
TreesReadBack ==
  BindsByPrecedence /\ ChainAsWritten /\ LvaluesAreWritable /\ DepthWithinLimit /\ ParsesAsWritten

\* A script is read to its end without a panic.
TokensAreTaken == TakesCharacters /\ NoPanic
=============================================================================
