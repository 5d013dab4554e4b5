------------------------------ MODULE Artifact ------------------------------
(***************************************************************************)
(* What becomes of lowered code: the end of compile (compile/mod.rs), the  *)
(* program (program.rs) with its pools, tables of positions and switches   *)
(* (bytecode/), and the artifacts and sidecars that a program is written   *)
(* to and read from (format/).                                             *)
(*                                                                         *)
(* Bytes are bytes.  What does not fit into TLC's integers is narrowed:    *)
(* a u64 has 29 bits here (four groups of 7 and one of which only a bit    *)
(* may be set), a u32 has 22, a hash and the debug id have 16.             *)
(***************************************************************************)
EXTENDS CodeVerifier, Bitwise, FiniteSetsExt

CONSTANT MaxConstantDepth   \* MAX_CONSTANT_DEPTH

U32 == 4194304
U16 == 65536
WordGroups == 5
NONE == <<0, 0>>

\* from_le_bytes
FromLe(bytes) == bytes[1] + 256 * bytes[2]

-----------------------------------------------------------------------------
\* Token::literal_syntax, for the operators and what is spelled almost like one.
Symbols ==
  [Plus |-> <<43>>, UnaryPlus |-> <<43>>, Minus |-> <<45>>, UnaryMinus |-> <<45>>,
   Multiply |-> <<42>>, Divide |-> <<47>>, Modulo |-> <<37>>, PowerOf |-> <<42, 42>>,
   PlusAssign |-> <<43, 61>>, MinusAssign |-> <<45, 61>>, MultiplyAssign |-> <<42, 61>>,
   DivideAssign |-> <<47, 61>>, Equals |-> <<61>>, EqualsTo |-> <<61, 61>>,
   NotEqualsTo |-> <<33, 61>>, LessThan |-> <<60>>, GreaterThan |-> <<62>>,
   LessThanEqualsTo |-> <<60, 61>>, GreaterThanEqualsTo |-> <<62, 61>>, DoubleArrow |-> <<61, 62>>,
   Bang |-> <<33>>, Comma |-> <<44>>, Period |-> <<46>>, ExclusiveRange |-> <<46, 46>>,
   LeftShift |-> <<60, 60>>, RightShift |-> <<62, 62>>, SemiColon |-> <<59>>, Colon |-> <<58>>,
   Ampersand |-> <<38>>, LeftParen |-> <<40>>, RightParen |-> <<41>>]

\* lookup_symbol_from_syntax never answers with a sign.
lookup_symbol_from_syntax(syntax) ==
  {t \in DOMAIN Symbols : Symbols[t] = syntax /\ t \notin {"UnaryPlus", "UnaryMinus"}}

\* Only a literal that is read back as itself can be written.
Unambiguous(token) == token \in DOMAIN Symbols /\ lookup_symbol_from_syntax(Symbols[token]) = {token}

-----------------------------------------------------------------------------
\* put_uvarint, put_ivarint, put_str.
RECURSIVE put_uvarint(_)
put_uvarint(value) ==
  IF value < 128 THEN <<value>> ELSE <<128 + (value % 128)>> \o put_uvarint(value \div 128)

put_ivarint(value) == put_uvarint(IF value < 0 THEN -2 * value - 1 ELSE 2 * value)

put_str(bytes) == put_uvarint(Len(bytes)) \o bytes

\* A count, and what is counted.
put_all(seq, Put(_)) == put_uvarint(Len(seq)) \o FlattenSeq([i \in DOMAIN seq |-> Put(seq[i])])

put_position(pos, keep) == IF keep THEN put_uvarint(pos[1]) \o put_uvarint(pos[2]) ELSE <<0, 0>>

\* put_chain_spec
put_step(step, keep) ==
  CASE step.kind = "index" ->
         <<1, step.flags>> \o put_uvarint(step.operand)
           \o put_position(step.pos, keep) \o put_position(step.bracket, keep)
    [] step.kind = "property" ->
         <<2, step.flags>> \o put_uvarint(step.name) \o put_uvarint(step.getter)
           \o put_uvarint(step.setter) \o put_position(step.pos, keep)
    [] OTHER ->
         <<3, step.flags>> \o put_uvarint(step.name) \o <<step.argc>> \o put_uvarint(step.operand)
           \o put_position(step.pos, keep)

put_chain_spec(chain, keep) ==
  (CASE chain.root.kind = "local" -> <<1>> \o put_uvarint(chain.root.slot) \o put_uvarint(chain.root.name)
     [] chain.root.kind = "named" -> <<3>> \o put_uvarint(chain.root.name) \o put_position(chain.root.pos, keep)
     [] chain.root.kind = "this" -> <<4>> \o put_position(chain.root.pos, keep)
     [] OTHER -> <<2>>)
  \o put_uvarint(chain.operands)
  \o put_all(chain.steps, LAMBDA step : put_step(step, keep))
  \o (CASE chain.tail[1] = "read" -> <<1>>
        [] chain.tail[1] = "assign" -> <<2>>
        [] OTHER -> <<3>> \o put_uvarint(chain.tail[2]))

\* probe: what tells one seed of the hashing from another.
probe == 42268

put_switches(switches) ==
  IF switches = <<>> THEN <<0>>
  ELSE put_uvarint(Len(switches)) \o Le16(probe)
       \o FlattenSeq([i \in DOMAIN switches |->
            put_all(switches[i].cases, LAMBDA c : Le16(c.hash) \o put_uvarint(c.target))
            \o put_all(switches[i].ranges, LAMBDA r :
                 put_ivarint(r.from) \o put_ivarint(r.to) \o <<Bit(r.inclusive)>> \o put_uvarint(r.target))
            \o put_uvarint(switches[i].default)])

put_chunk(chunk) == put_uvarint(chunk.entry) \o put_uvarint(chunk.end) \o put_uvarint(chunk.max_stack)

put_token(token) == put_str(Symbols[token])

put_assign_op(a) ==
  put_token(a.op_assign) \o put_uvarint(a.op_assign_name) \o put_token(a.op) \o put_uvarint(a.op_name)

\* put_constant.  A map is a function of its keys and is written in their order.
Before(a, b) ==
  \E i \in DOMAIN b : (i > Len(a) \/ (i <= Len(a) /\ a[i] < b[i])) /\ \A j \in 1..(i - 1) : j <= Len(a) /\ a[j] = b[j]

RECURSIVE Unserializable(_), put_constant(_)
Unserializable(v) ==
  CASE v[1] = "ARRAY" -> \E i \in DOMAIN v[2] : Unserializable(v[2][i])
    [] v[1] = "MAP" -> \E k \in DOMAIN v[2] : Unserializable(v[2][k])
    [] OTHER -> v[1] = "FN_PTR"

put_constant(v) ==
  CASE v[1] = "UNIT" -> <<0>>
    [] v[1] = "BOOL" -> <<IF v[2] THEN 2 ELSE 1>>
    [] v[1] = "INT" -> <<3>> \o put_ivarint(v[2])
    [] v[1] = "FLOAT" -> <<4>> \o v[2]
    [] v[1] = "CHAR" -> <<5>> \o put_uvarint(v[2])
    [] v[1] = "STRING" -> <<6>> \o put_str(v[2])
    [] v[1] = "ARRAY" -> <<7>> \o put_all(v[2], LAMBDA x : put_constant(x))
    [] v[1] = "MAP" -> <<8>> \o put_all(SetToSortSeq(DOMAIN v[2], Before),
                                        LAMBDA k : put_str(k) \o put_constant(v[2][k]))
    [] v[1] = "BLOB" -> <<9>> \o put_str(v[2])
    [] v[1] = "RANGE" -> <<10>> \o put_ivarint(v[2]) \o put_ivarint(v[3])
    [] v[1] = "RANGE_INCLUSIVE" -> <<11>> \o put_ivarint(v[2]) \o put_ivarint(v[3])

-----------------------------------------------------------------------------
\* Cursor.  A schema says what to get; the answer is <<the place behind, what was read>>,
\* or <<>> for an error, be it Truncated, MalformedVarint, BadUtf8, UnknownTag or another.
RECURSIVE Group(_, _, _)
Group(bytes, at, i) ==
  CASE at >= Len(bytes) \/ i > WordGroups -> <<>>
    [] OTHER ->
         LET payload == ByteAt(bytes, at) % 128
         IN CASE i = WordGroups /\ payload > 1 -> <<>>
              [] ByteAt(bytes, at) < 128 -> <<at + 1, payload>>
              [] OTHER -> Given(Group(bytes, at + 1, i + 1), LAMBDA r :
                            IF r = <<>> THEN <<>> ELSE <<r[1], payload + 128 * r[2]>>)

uvarint(bytes, at) == Group(bytes, at, 1)

take(bytes, at, n) == IF at + n > Len(bytes) THEN <<>> ELSE <<at + n, SubSeq(bytes, at + 1, at + n)>>

\* core::str::from_utf8: the length of the character that begins with a byte and has the next.
Continues(b) == b \in 128..191
CharLen(b, second) ==
  CASE b < 128 -> 1
    [] b \in 194..223 -> 2
    [] b = 224 /\ second >= 160 -> 3
    [] b = 237 /\ second <= 159 -> 3
    [] b \in (225..239) \ {237} -> 3
    [] b = 240 /\ second >= 144 -> 4
    [] b = 244 /\ second <= 143 -> 4
    [] b \in 241..243 -> 4
    [] OTHER -> 0
RECURSIVE Utf8From(_, _)
Utf8From(s, i) ==
  i > Len(s) \/ LET n == CharLen(s[i], IF i < Len(s) THEN s[i + 1] ELSE 0)
                IN /\ n > 0 /\ i + n - 1 <= Len(s)
                   /\ \A j \in (i + 1)..(i + n - 1) : Continues(s[j])
                   /\ Utf8From(s, i + n)
IsUtf8(s) == Utf8From(s, 1)

\* char::from_u32
IsChar(n) == n <= 1114111 /\ n \notin 55296..57343

Byte == <<"byte">>
Uvarint == <<"uvarint">>
Index == <<"below", U32>>
Small == <<"below", U16>>
Ivarint == <<"ivarint">>
Str == <<"str">>
Sized == <<"sized">>
Take(n) == <<"take", n>>
All(schemas) == <<"all", schemas>>
Many(schema) == <<"many", schema>>
ByTag(schemas) == <<"by_tag", schemas>>
Flags == <<"flags">>
Nothing == All(<<>>)
Constant(depth) == <<"constant", depth>>

\* get_constant, after its tag, from UNIT on; this build has no decimals.
ConstantTags(depth) ==
  <<Nothing, Nothing, Nothing, Ivarint, Take(8), <<"char">>, Str, Many(Constant(depth)),
    Many(All(<<Str, Constant(depth)>>)), Sized, All(<<Ivarint, Ivarint>>), All(<<Ivarint, Ivarint>>)>>

\* An answer as another one, with what was read made into something else.
Mapped(r, F(_)) == IF r = <<>> THEN <<>> ELSE <<r[1], F(r[2])>>
Only(r, P(_)) == IF r = <<>> \/ ~P(r[2]) THEN <<>> ELSE r

\* Every loop asks for at least one byte in each turn, so one that counts further than there
\* are bytes left fails; so do Cursor::count and Cursor::take.
RECURSIVE Get(_, _, _)
Get(bytes, at, s) ==
  CASE s[1] = "byte" -> Mapped(take(bytes, at, 1), LAMBDA v : v[1])
    [] s[1] = "flags" -> Only(Get(bytes, at, Byte), LAMBDA v : v <= 1)
    [] s[1] = "uvarint" -> uvarint(bytes, at)
    [] s[1] = "below" -> Only(uvarint(bytes, at), LAMBDA v : v < s[2])
    [] s[1] = "char" -> Only(Get(bytes, at, Index), IsChar)
    [] s[1] = "ivarint" ->
         Mapped(uvarint(bytes, at), LAMBDA v : IF v % 2 = 0 THEN v \div 2 ELSE -(v \div 2) - 1)
    [] s[1] = "take" -> take(bytes, at, s[2])
    [] s[1] = "sized" -> Given(uvarint(bytes, at), LAMBDA n :
                           IF n = <<>> THEN <<>> ELSE take(bytes, n[1], n[2]))
    [] s[1] = "str" -> Only(Get(bytes, at, Sized), IsUtf8)
    [] s[1] = "all" ->
         LET half == (Len(s[2]) + 1) \div 2
             rest == SubSeq(s[2], half + 1, Len(s[2]))
         IN CASE Len(s[2]) = 0 -> <<at, <<>>>>
              [] Len(s[2]) = 1 -> Mapped(Get(bytes, at, s[2][1]), LAMBDA v : <<v>>)
              [] OTHER -> Given(Get(bytes, at, All(SubSeq(s[2], 1, half))), LAMBDA r :
                            IF r = <<>> THEN <<>>
                            ELSE Mapped(Get(bytes, r[1], All(rest)), LAMBDA v : r[2] \o v))
    [] s[1] = "many" ->
         Given(uvarint(bytes, at), LAMBDA n :
           IF n = <<>> \/ (n # <<>> /\ n[2] > Len(bytes) - n[1]) THEN <<>>
           ELSE Get(bytes, n[1], All([i \in 1..n[2] |-> s[2]])))
    [] s[1] = "by_tag" ->
         Given(Get(bytes, at, Byte), LAMBDA t :
           IF t = <<>> \/ (t # <<>> /\ t[2] \notin DOMAIN s[2]) THEN <<>>
           ELSE Mapped(Get(bytes, t[1], s[2][t[2]]), LAMBDA v : <<t[2], v>>))
    [] s[1] = "constant" ->
         IF s[2] > MaxConstantDepth THEN <<>>
         ELSE Get(bytes, at, ByTag([t \in 0..11 |-> ConstantTags(s[2] + 1)[t + 1]]))

-----------------------------------------------------------------------------
\* get_position; Position has no line 0.
AsPosition(p) == IF p[1] = 0 THEN NONE ELSE <<p[1], p[2]>>
Place == All(<<Small, Small>>)

\* get_constant
RECURSIVE AsConstant(_)
AsConstant(c) ==
  LET v == c[2]
  IN CASE c[1] = 0 -> <<"UNIT">>
       [] c[1] \in {1, 2} -> <<"BOOL", c[1] = 2>>
       [] c[1] = 3 -> <<"INT", v>>
       [] c[1] = 4 -> <<"FLOAT", v>>
       [] c[1] = 5 -> <<"CHAR", v>>
       [] c[1] = 6 -> <<"STRING", v>>
       [] c[1] = 7 -> <<"ARRAY", [i \in DOMAIN v |-> AsConstant(v[i])]>>
       [] c[1] = 8 -> <<"MAP", [k \in {v[i][1] : i \in DOMAIN v} |->
                                  AsConstant(v[CHOOSE i \in DOMAIN v : /\ v[i][1] = k
                                                  /\ \A j \in (i + 1)..Len(v) : v[j][1] # k][2])]>>
       [] c[1] = 9 -> <<"BLOB", v>>
       [] c[1] = 10 -> <<"RANGE", v[1], v[2]>>
       [] c[1] = 11 -> <<"RANGE_INCLUSIVE", v[1], v[2]>>

\* get_chain: the bytes, and the chain.
RootSchemas == <<All(<<Small, Index>>), Nothing, All(<<Index, Place>>), Place>>
StepSchemas == <<All(<<Flags, Small, Place, Place>>), All(<<Flags, Index, Index, Index, Place>>),
                 All(<<Flags, Index, Byte, Small, Place>>)>>
TailSchemas == <<Nothing, Nothing, Index>>
ChainSchema == All(<<ByTag(RootSchemas), Small, Many(ByTag(StepSchemas)), ByTag(TailSchemas)>>)

AsRoot(r) ==
  CASE r[1] = 1 -> [kind |-> "local", slot |-> r[2][1], name |-> r[2][2]]
    [] r[1] = 2 -> [kind |-> "temporary"]
    [] r[1] = 3 -> [kind |-> "named", name |-> r[2][1], pos |-> AsPosition(r[2][2])]
    [] r[1] = 4 -> [kind |-> "this", pos |-> AsPosition(r[2])]

AsStep(s) ==
  LET v == s[2]
  IN CASE s[1] = 1 -> [kind |-> "index", flags |-> v[1], operand |-> v[2], pos |-> AsPosition(v[3]),
                       bracket |-> AsPosition(v[4])]
       [] s[1] = 2 -> [kind |-> "property", flags |-> v[1], name |-> v[2], getter |-> v[3],
                       setter |-> v[4], pos |-> AsPosition(v[5])]
       [] s[1] = 3 -> [kind |-> "method", flags |-> v[1], name |-> v[2], argc |-> v[3],
                       operand |-> v[4], pos |-> AsPosition(v[5])]

get_chain(c) ==
  [root |-> AsRoot(c[1]), operands |-> c[2], steps |-> [i \in DOMAIN c[3] |-> AsStep(c[3][i])],
   tail |-> CASE c[4][1] = 1 -> <<"read">> [] c[4][1] = 2 -> <<"assign">> [] OTHER -> <<"assign_op", c[4][2]>>]

-----------------------------------------------------------------------------
\* Bucket::index: open addressing; a bucket is <<>> or <<hash, target>>.
Capacity(n) == CHOOSE c \in {2 ^ k : k \in 0..16} : c >= n /\ (c = 1 \/ c \div 2 < n)

\* The first bucket, from where a hash belongs, that is free or has it.
Bucket(index, hash) ==
  LET n == Len(index)
      at(k) == ((hash + k) % n) + 1
      stops == {k \in 0..(n - 1) : index[at(k)] = <<>> \/ (index[at(k)] # <<>> /\ index[at(k)][1] = hash)}
  IN at(CHOOSE k \in stops : \A j \in stops : k <= j)

BucketIndex(cases) ==
  LET filled[i \in 0..Len(cases)] ==
        IF i = 0 THEN [b \in 1..Capacity(2 * Len(cases)) |-> <<>>]
        ELSE Given(filled[i - 1], LAMBDA f :
               LET b == Bucket(f, cases[i].hash)
               IN IF f[b] = <<>> THEN [f EXCEPT ![b] = <<cases[i].hash, cases[i].target>>] ELSE f)
  IN IF cases = <<>> THEN <<>> ELSE filled[Len(cases)]

NewSwitch(cases, ranges, default) ==
  [cases |-> cases, ranges |-> ranges, default |-> default, index |-> BucketIndex(cases)]

\* retarget, as resolve_switch_targets has it: every target through a table, and the index anew.
\* Mutant: the index is left as it was.
retarget_stale(switch, offsets) ==
  [switch EXCEPT !.cases = [i \in DOMAIN @ |-> [@[i] EXCEPT !.target = offsets[@ + 1]]],
                 !.ranges = [i \in DOMAIN @ |-> [@[i] EXCEPT !.target = offsets[@ + 1]]],
                 !.default = offsets[@ + 1]]

retarget(switch, offsets) ==
  NewSwitch([i \in DOMAIN switch.cases |-> [switch.cases[i] EXCEPT !.target = offsets[@ + 1]]],
            [i \in DOMAIN switch.ranges |-> [switch.ranges[i] EXCEPT !.target = offsets[@ + 1]]],
            offsets[switch.default + 1])

\* case_target_indexed
case_target(switch, hash) ==
  IF switch.index = <<>> THEN <<>>
  ELSE Given(switch.index[Bucket(switch.index, hash)], LAMBDA b : IF b = <<>> THEN <<>> ELSE <<b[2]>>)

\* SwitchRange::contains; a number is given as twice its value.
contains(range, twice) ==
  2 * range.from <= twice /\ (IF range.inclusive THEN twice <= 2 * range.to ELSE twice < 2 * range.to)

\* dispatch of a subject [hashable, hash, twice], the last <<>> for what is not a number.
dispatch(switch, subject) ==
  LET found == case_target(switch, subject.hash)
      ranges == SelectSeq(switch.ranges, LAMBDA r : subject.twice # <<>> /\ contains(r, subject.twice[1]))
  IN CASE ~subject.hashable -> switch.default
       [] subject.hashable /\ found # <<>> -> found[1]
       [] OTHER -> IF ranges # <<>> THEN Head(ranges).target ELSE switch.default

\* get_switches
SwitchesSchema ==
  Many(All(<<Many(All(<<Take(2), Index>>)), Many(All(<<Ivarint, Ivarint, Byte, Index>>)), Index>>))

get_switch(s) ==
  LET cases == [i \in DOMAIN s[1] |-> [hash |-> FromLe(s[1][i][1]), target |-> s[1][i][2]]]
      ranges == [i \in DOMAIN s[2] |-> [from |-> s[2][i][1], to |-> s[2][i][2],
                                        inclusive |-> s[2][i][3] # 0, target |-> s[2][i][4]]]
      places == SetToSortSeq(DOMAIN cases, LAMBDA i, j :
                  cases[i].hash < cases[j].hash \/ (cases[i].hash = cases[j].hash /\ i < j))
  IN NewSwitch([i \in DOMAIN places |-> cases[places[i]]], ranges, s[3])

-----------------------------------------------------------------------------
\* pos::encode of <<address, position>>, pos::check and pos::resolve.
encode_table(sites) ==
  LET kept == SelectSeq(sites, LAMBDA s : s[2][1] # 0)
  IN put_uvarint(Len(kept))
     \o FlattenSeq([i \in DOMAIN kept |->
          put_uvarint(kept[i][1] - (IF i = 1 THEN 0 ELSE kept[i - 1][1]))
          \o put_uvarint(kept[i][2][1]) \o put_uvarint(kept[i][2][2])])

\* The entries of a table, with their addresses; or <<>>.
Entries(table) ==
  Mapped(Get(table, 0, Many(All(<<Index, Index, Index>>))), LAMBDA e :
    LET address[i \in 0..Len(e)] == IF i = 0 THEN 0 ELSE address[i - 1] + e[i][1]
    IN [i \in DOMAIN e |-> <<address[i], <<e[i][2], e[i][3]>>>>])

check_table(table, e) ==
  /\ e # <<>>
  /\ e[1] = Len(table)
  /\ \A i \in DOMAIN e[2] : e[2][i][1] < U32 /\ (i > 1 => e[2][i][1] > e[2][i - 1][1])

resolve_table(e, address) ==
  LET hits == {i \in DOMAIN e[2] : e[2][i][1] = address /\ e[2][i][2][1] # 0}
  IN IF hits = {} THEN <<>> ELSE <<e[2][CHOOSE i \in hits : TRUE][2]>>

\* site_to_position
site_to_position(site) == IF site[1] >= U16 \/ site[2] >= U16 THEN NONE ELSE AsPosition(site)

\* Positions: <<>> when stripped, or one for every byte.
dense(positions) == IF \A i \in DOMAIN positions : positions[i] = NONE THEN <<>> ELSE positions
PositionAt(positions, pc) == IF pc < Len(positions) THEN positions[pc + 1] ELSE NONE
to_table(positions) == encode_table([i \in DOMAIN positions |-> <<i - 1, positions[i]>>])

\* from_table: <<the positions>>, or <<>> for a table that is not one of this code.
Addresses(code) == {d[1] : d \in ToSet(disassemble(code, 0))}

from_table(table, code) ==
  Given(Entries(table), LAMBDA e :
    CASE ~check_table(table, e) -> <<>>
      [] check_table(table, e) /\ e[2] = <<>> -> <<<<>>>>
      [] OTHER ->
           Given({a \in Addresses(code) : resolve_table(e, a) # <<>>}, LAMBDA matched :
             IF Cardinality(matched) # Len(e[2]) THEN <<>>
             ELSE <<dense([i \in DOMAIN code |->
                      IF i - 1 \in matched THEN site_to_position(resolve_table(e, i - 1)[1]) ELSE NONE])>>))

\* Chain::positions, position_slots, step_slot; and with other positions.
RootPlaces(root) == IF root.kind \in {"named", "this"} THEN <<root.pos>> ELSE <<>>
StepPlaces(step) == IF step.kind = "index" THEN <<step.pos, step.bracket>> ELSE <<step.pos>>
ChainPlaces(chain) ==
  RootPlaces(chain.root) \o FlattenSeq([i \in DOMAIN chain.steps |-> StepPlaces(chain.steps[i])])
position_slots(chain) == Len(ChainPlaces(chain))

step_slot(chain, i) ==
  Len(RootPlaces(chain.root)) + Len(FlattenSeq([j \in 1..(i - 1) |-> StepPlaces(chain.steps[j])]))

Placed(chain, places) ==
  [chain EXCEPT
     !.root = IF @.kind \in {"named", "this"} THEN [@ EXCEPT !.pos = places[1]] ELSE @,
     !.steps = [i \in DOMAIN @ |->
                  IF @[i].kind = "index"
                  THEN [@[i] EXCEPT !.pos = places[step_slot(chain, i) + 1], !.bracket = places[step_slot(chain, i) + 2]]
                  ELSE [@[i] EXCEPT !.pos = places[step_slot(chain, i) + 1]]]]

\* sites::encode, decode and resolve.
AllPlaces(chains) == FlattenSeq([i \in DOMAIN chains |-> ChainPlaces(chains[i])])
encode_sites(chains) == put_all(AllPlaces(chains), LAMBDA p : put_uvarint(p[1]) \o put_uvarint(p[2]))
decode_sites(stream) ==
  Given(Get(stream, 0, Many(All(<<Index, Index>>))), LAMBDA r :
    IF r = <<>> \/ (r # <<>> /\ r[1] # Len(stream)) THEN <<>> ELSE <<r[2]>>)
resolve_sites(stream, slot) ==
  Given(Get(stream, 0, Many(All(<<Index, Index>>))), LAMBDA r :
    IF r = <<>> \/ (r # <<>> /\ (slot >= Len(r[2]) \/ r[2][slot + 1][1] = 0)) THEN <<>> ELSE <<r[2][slot + 1]>>)
chain_slot_base(chains, index) == Len(AllPlaces(SubSeq(chains, 1, index)))

\* debug_id: a hash of the bytes, one after another.
RECURSIVE Hashed(_, _)
Hashed(hash, bytes) ==
  LET half == Len(bytes) \div 2
  IN CASE Len(bytes) = 0 -> hash
       [] Len(bytes) = 1 -> ((hash ^^ bytes[1]) * 315) % U16
       [] OTHER -> Given(Hashed(hash, SubSeq(bytes, 1, half)), LAMBDA h :
                     Hashed(h, SubSeq(bytes, half + 1, Len(bytes))))
debug_id(bytes) == Hashed(50573, bytes)

-----------------------------------------------------------------------------
\* takes_this: does the code of a function use `this`?
ThisTags ==
  {"LOAD_THIS", "LOAD_THIS_SHARED", "REQUIRE_THIS", "ASSIGN_THIS", "ASSIGN_THIS_OP", "CALL_THIS_REF",
   "CALL_FN_PTR_ON_THIS"}

takes_this(code, chunk, chains) ==
  /\ chunk.end <= Len(code) /\ chunk.entry <= chunk.end
  /\ Given(SubSeq(code, chunk.entry + 1, chunk.end), LAMBDA body :
       \E d \in ToSet(disassemble(body, 0)) :
         LET t == TagOf(ByteAt(body, d[1]))
         IN \/ t \in ThisTags
            \/ /\ t \in {"CHAIN", "CHAIN_DISCARD"}
               /\ Has(chains, d[2].chain) /\ At(chains, d[2].chain).root.kind = "this")

\* Program::pools, chunks, verify.
Pools(p) ==
  [consts |-> Len(p.consts), names |-> Len(p.names), tokens |-> Len(p.tokens),
   assign_ops |-> Len(p.assign_ops), residuals |-> p.residuals, chains |-> p.chains,
   switches |-> p.switches]
Chunks(p) == <<p.main>> \o [i \in DOMAIN p.functions |-> p.functions[i].chunk]
Verified(p) == verify(p.caps, p.code, p.functions, Chunks(p), Pools(p))

\* recompute_max_stack
Highest(p) ==
  LET stacks == {Chunks(p)[i].max_stack : i \in DOMAIN Chunks(p)} IN CHOOSE n \in stacks : \A m \in stacks : m <= n

\* Program::new, of a record that lacks what is derived.
NewProgram(parts) ==
  Given([parts EXCEPT !.functions = [i \in DOMAIN @ |->
           [@[i] EXCEPT !.takes_this = takes_this(parts.code, parts.functions[i].chunk, parts.chains)]]], LAMBDA p :
    [p EXCEPT !.max_stack = Highest(p),
              !.typed_methods = \E i \in DOMAIN p.functions : p.functions[i].this_type # <<>>,
              !.debug_id = IF @ # <<>> THEN @
                           ELSE <<debug_id(to_table(p.positions) \o encode_sites(p.chains))>>])

\* tighten_stack
tighten_stack(p) ==
  Given(Verified(p), LAMBDA v :
    IF ~v.ok THEN p
    ELSE Given([p EXCEPT !.main.max_stack = v.high[1],
                         !.functions = [i \in DOMAIN @ |-> [@[i] EXCEPT !.chunk.max_stack = v.high[i + 1]]]],
               LAMBDA q : [q EXCEPT !.max_stack = Highest(q)]))

\* The end of compile.  What the lowering hands over: ops with a position each, the number of
\* those that are main's, functions [name, params, this_type, first_op, op_count], pools,
\* switches whose targets are instructions, and whether there is a library of functions.
Fallback(low) ==
  [low EXCEPT !.ops = <<[op |-> "EvalAst", residual |-> 0, rewind_scope |-> FALSE], [op |-> "Return"]>>,
              !.positions = <<NONE, NONE>>, !.main_ops = 2, !.functions = <<>>, !.residuals = 1, !.skipped = 1,
              !.max_stack = 1, !.consts = <<>>, !.names = <<>>, !.tokens = <<>>, !.assign_ops = <<>>,
              !.chains = <<>>, !.switches = <<>>]

SwitchTargetsExist(low) ==
  \A i \in DOMAIN low.switches : \A t \in ToSet(SwitchTargets(low.switches[i])) : t <= Len(low.ops)

Finish(low, code, offsets) ==
  LET at == [i \in DOMAIN low.ops |-> offsets[i]]
      places == [i \in DOMAIN code |->
                   IF \E j \in DOMAIN at : at[j] = i - 1
                   THEN low.positions[CHOOSE j \in DOMAIN at : at[j] = i - 1] ELSE NONE]
      functions == [i \in DOMAIN low.functions |->
                      LET f == low.functions[i]
                      IN [name |-> f.name, params |-> f.params, this_type |-> f.this_type, takes_this |-> FALSE,
                          chunk |-> [entry |-> offsets[f.first_op + 1],
                                     end |-> offsets[f.first_op + f.op_count + 1], max_stack |-> low.max_stack]]]
  IN NewProgram(
       [caps |-> low.caps, code |-> code, functions |-> functions,
        main |-> [entry |-> 0, end |-> offsets[low.main_ops + 1], max_stack |-> low.max_stack],
        positions |-> dense(places), debug_id |-> <<>>, residuals |-> low.residuals, consts |-> low.consts,
        names |-> low.names, tokens |-> low.tokens, assign_ops |-> low.assign_ops, chains |-> low.chains,
        switches |-> [i \in DOMAIN low.switches |-> retarget(low.switches[i], offsets)], lib |-> FALSE,
        source |-> low.source, max_stack |-> 0, typed_methods |-> FALSE])

\* The library of functions is kept for what runs as a tree, and for a function that works
\* on `this` and may be called through a pointer.
WithLibrary(low, p) ==
  LET escapes == "FN_PTR" \in low.caps /\ \E i \in DOMAIN p.functions : p.functions[i].takes_this
  IN [p EXCEPT !.lib = (low.skipped > 0 \/ low.residuals > 0 \/ escapes) /\ low.has_lib]

Built(low) ==
  LET whole == /\ SwitchTargetsExist(low)
               /\ \A o \in ToSet(low.ops) : ~Unassemblable(o, Offsets(low.ops))
  IN Given(IF whole THEN low ELSE Fallback(low), LAMBDA l : Given(assemble(l.ops), LAMBDA a :
       tighten_stack(WithLibrary(l, Finish(l, a.code, a.offsets)))))

-----------------------------------------------------------------------------
\* The first bytes of an artifact; a capability is a bit.
MAGIC == <<82, 71, 82, 78>>
VERSION == 12
CapBytes(caps) ==
  LET bits == [b \in 0..15 |-> \E c \in caps : Caps[c] = b]
      byte(k) == SumSet({2 ^ (b - k) : b \in {x \in k..(k + 7) : bits[x]}})
  IN <<byte(0), byte(8), 0, 0>>

\* Abi::host: neither decimals nor custom syntax.
HostCaps == DOMAIN Caps \ {"DECIMAL", "CUSTOM_SYNTAX"}

\* Why write refuses: HasResiduals, HasScriptFunctions, UnserializableConstant, AmbiguousToken.
Unwritable(p) ==
  \/ p.residuals > 0
  \/ p.lib
  \/ \E i \in DOMAIN p.consts : Unserializable(p.consts[i])
  \/ \E i \in DOMAIN p.tokens : ~Unambiguous(p.tokens[i])
  \/ \E i \in DOMAIN p.assign_ops : ~Unambiguous(p.assign_ops[i].op_assign) \/ ~Unambiguous(p.assign_ops[i].op)

put_function(f) ==
  put_uvarint(f.name) \o put_uvarint(IF f.this_type = <<>> THEN 0 ELSE f.this_type[1] + 1)
  \o put_all(f.params, LAMBDA n : put_uvarint(n)) \o put_chunk(f.chunk)

\* Strings: where each name ends, and all of them in one.
put_names(names) ==
  LET ends[i \in 0..Len(names)] == IF i = 0 THEN 0 ELSE ends[i - 1] + Len(names[i])
  IN put_all([i \in DOMAIN names |-> ends[i]], LAMBDA n : put_uvarint(n)) \o put_str(FlattenSeq(names))

write(p, keep) ==
  MAGIC \o Le16(VERSION) \o <<8, 8>> \o CapBytes(p.caps) \o Le16(p.debug_id[1]) \o put_str(p.source)
  \o put_names(p.names)
  \o put_all(p.consts, LAMBDA v : put_constant(v))
  \o put_all(p.tokens, put_token)
  \o put_all(p.assign_ops, put_assign_op)
  \o put_all(p.chains, LAMBDA c : put_chain_spec(c, keep))
  \o put_switches(p.switches)
  \o put_chunk(p.main)
  \o put_all(p.functions, put_function)
  \o put_str(p.code)
  \o put_str(IF keep THEN to_table(p.positions) ELSE <<>>)

\* sidecar
sidecar(p) == [positions |-> to_table(p.positions), chains |-> encode_sites(p.chains), debug_id |-> p.debug_id[1]]

-----------------------------------------------------------------------------
\* Strings::borrowed: the names, or <<>> for a table whose spans are not of the text.
borrowed(blob, ends) ==
  LET start(i) == IF i = 1 THEN 0 ELSE ends[i - 1]
      boundary(i) == i \in {0, Len(blob)} \/ (i < Len(blob) /\ ~Continues(blob[i + 1]))
  IN IF /\ IsUtf8(blob)
        /\ \A i \in DOMAIN ends : ends[i] >= start(i) /\ ends[i] <= Len(blob) /\ boundary(ends[i])
        /\ (IF ends = <<>> THEN 0 ELSE Last(ends)) = Len(blob)
     THEN <<[i \in DOMAIN ends |-> SubSeq(blob, start(i) + 1, ends[i])]>> ELSE <<>>

CapsOf(caps) ==
  {c \in DOMAIN Caps : (caps[1 + (Caps[c] \div 8)] \div (2 ^ (Caps[c] % 8))) % 2 = 1}

\* is_incompatible_with: every capability that is asked for, known or not, must be the host's.
Compatible(widths, caps) ==
  /\ widths = <<8, 8>>
  /\ caps[3] = 0 /\ caps[4] = 0
  /\ CapsOf(caps) \subseteq HostCaps

\* The artifact up to its switches, the switches unless there are none, and the rest.
HeadSchema ==
  All(<<Take(4), Take(2), Take(2), Take(4), Take(2), Str, Many(Index), Sized, Many(Constant(0)), Many(Str),
        Many(All(<<Str, Index, Str, Index>>)), Many(ChainSchema)>>)
ChunkSchema == All(<<Index, Index, Small>>)
RestSchema ==
  All(<<ChunkSchema, Many(All(<<Index, Uvarint, Many(Index), ChunkSchema>>)), Sized, Sized>>)

get_chunk(c) == [entry |-> c[1], end |-> c[2], max_stack |-> c[3]]
get_function(f) ==
  [name |-> f[1], this_type |-> IF f[2] = 0 THEN <<>> ELSE <<f[2] - 1>>, params |-> f[3], takes_this |-> FALSE,
   chunk |-> get_chunk(f[4])]
get_token(syntax) == CHOOSE t \in lookup_symbol_from_syntax(syntax) : TRUE
IsToken(syntax) == lookup_symbol_from_syntax(syntax) # {}

\* The switches: <<the place behind, the switches>>, or <<>> for another seed.
Switches(bytes, at) ==
  Given(uvarint(bytes, at), LAMBDA n :
    CASE n = <<>> -> <<>>
      [] n # <<>> /\ n[2] = 0 -> <<n[1], <<>>>>
      [] OTHER ->
           Given(take(bytes, n[1], 2), LAMBDA seed :
             IF seed = <<>> \/ (seed # <<>> /\ (FromLe(seed[2]) # probe \/ n[2] > Len(bytes) - seed[1])) THEN <<>>
             ELSE Mapped(Get(bytes, seed[1], All([i \in 1..n[2] |-> SwitchesSchema[2]])),
                         LAMBDA v : [i \in DOMAIN v |-> get_switch(v[i])])))

HeadIsGood(h) ==
  /\ h[1] = MAGIC
  /\ h[2] = Le16(VERSION)
  /\ Compatible(h[3], h[4])
  /\ borrowed(h[8], h[7]) # <<>>
  /\ \A i \in DOMAIN h[10] : IsToken(h[10][i])
  /\ \A i \in DOMAIN h[11] : IsToken(h[11][i][1]) /\ IsToken(h[11][i][3])

Parts(h, switches, r, positions) ==
  [caps |-> CapsOf(h[4]), debug_id |-> <<FromLe(h[5])>>, source |-> h[6], names |-> borrowed(h[8], h[7])[1],
   consts |-> [i \in DOMAIN h[9] |-> AsConstant(h[9][i])],
   tokens |-> [i \in DOMAIN h[10] |-> get_token(h[10][i])],
   assign_ops |-> [i \in DOMAIN h[11] |->
                     [op_assign |-> get_token(h[11][i][1]), op_assign_name |-> h[11][i][2],
                      op |-> get_token(h[11][i][3]), op_name |-> h[11][i][4]]],
   chains |-> [i \in DOMAIN h[12] |-> get_chain(h[12][i])], switches |-> switches,
   main |-> get_chunk(r[1]), functions |-> [i \in DOMAIN r[2] |-> get_function(r[2][i])], code |-> r[3],
   positions |-> positions, residuals |-> 0, lib |-> FALSE, max_stack |-> 0, typed_methods |-> FALSE]

\* What follows the switches: <<the place behind, the parts, <<the positions>>>>, or <<>>.
Rest(bytes, at) ==
  Given(Get(bytes, at, RestSchema), LAMBDA r :
    IF r = <<>> \/ (r # <<>> /\ \E i \in DOMAIN r[2][2] : r[2][2][i][2] > U32) THEN <<>>
    ELSE <<r[1], r[2], IF r[2][4] = <<>> THEN <<<<>>>> ELSE from_table(r[2][4], r[2][3])>>)

\* Are these all the bytes, and good?
WholeRead(rest, bytes) == rest # <<>> /\ rest[3] # <<>> /\ rest[1] = Len(bytes)

\* read: <<the program>>, or <<>>.
read(bytes) ==
  Given(Get(bytes, 0, HeadSchema), LAMBDA head :
    IF head = <<>> \/ (head # <<>> /\ ~HeadIsGood(head[2])) THEN <<>>
    ELSE Given(Switches(bytes, head[1]), LAMBDA sw :
      IF sw = <<>> THEN <<>>
      ELSE Given(Rest(bytes, sw[1]), LAMBDA rest :
        IF ~WholeRead(rest, bytes) THEN <<>>
        ELSE Given(NewProgram(Parts(head[2], sw[2], rest[2], rest[3][1])), LAMBDA p :
               IF Verified(p).ok THEN <<p>> ELSE <<>>))))

-----------------------------------------------------------------------------
\* strip_positions
strip_positions(p) ==
  [p EXCEPT !.positions = <<>>,
            !.chains = [i \in DOMAIN @ |-> Placed(@[i], [j \in 1..position_slots(@[i]) |-> NONE])]]

\* attach_positions: <<the program>>, or <<>> when the sidecar is not its own.
attach_positions(p, side) ==
  IF side.debug_id # p.debug_id[1] THEN <<>>
  ELSE Given(<<from_table(side.positions, p.code), decode_sites(side.chains)>>, LAMBDA t :
         IF \/ t[1] = <<>> \/ t[2] = <<>>
            \/ t[2] # <<>> /\ Len(t[2][1]) # Len(AllPlaces(p.chains))
         THEN <<>>
         ELSE <<[p EXCEPT !.positions = t[1][1],
                          !.chains = [i \in DOMAIN @ |->
                             Placed(@[i], [j \in 1..position_slots(@[i]) |->
                               site_to_position(t[2][1][chain_slot_base(p.chains, i - 1) + j])])]]>>)

\* Sidecar::site, of a fault [address, slot].
site(side, fault) ==
  LET inner == IF fault.slot = <<>> THEN <<>> ELSE resolve_sites(side.chains, fault.slot[1])
  IN IF inner # <<>> THEN inner ELSE resolve_table(Entries(side.positions), fault.address)

\* The faults that the machine can record: an instruction, or a step of its chain
\* (record_fault, run_chain), with the place of the step.
Faults(p) ==
  UNION {{[address |-> d[1], slot |-> <<>>, place |-> NONE]}
         \cup (IF d[2].op \notin ChainOps THEN {}
               ELSE LET chain == At(p.chains, d[2].chain)
                    IN {[address |-> d[1], place |-> chain.steps[i].pos,
                         slot |-> <<chain_slot_base(p.chains, d[2].chain) + step_slot(chain, i)>>] :
                        i \in DOMAIN chain.steps})
         : d \in ToSet(disassemble(p.code, 0))}
=============================================================================
