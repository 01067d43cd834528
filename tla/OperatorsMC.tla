---------------------------- MODULE OperatorsMC ----------------------------
EXTENDS Operators

NumList(s) == Arr(ElInt, <<Len(s)>>, s, 0)
Small(s) == Arr(ElI8, <<Len(s)>>, s, 0)
Bits(s) == Arr(ElBit, <<Len(s)>>, s, 0)
Text(s) == Arr(ElC8, <<Len(s)>>, [i \in DOMAIN s |-> Chr + s[i]], Chr)
Mixed(s, fill) == Arr(ElB, <<Len(s)>>, s, fill)
Shaped(x, sh) == [x EXCEPT !.sh = sh]

\* Lists of bits longer than a word, and ending within one; numbers at the ends of i8.
MCSeeds ==
  {Atom(2), Atom(Chr + 1),
   Bits(<<1, 0, 0, 1, 1, 0>>), Bits(<<1, 1, 1, 1, 0, 1, 1>>), Bits(<<0, 0, 0, 0, 0, 1>>), Bits(<<1, 1, 1, 1>>), Bits(<<0, 0>>), Bits(<<>>),
   FlSet(Small(<<7, 2, 0, -1>>), {Dsc, Squoze}), Small(<<2, -8, 1, 2, 0>>), Small(<<0, 1, 1, 0, 1>>),
   NumList(<<9, -1, 2, 0>>), NumList(<<1, 0, 0, 1>>), FlSet(NumList(<<-9, 0, 2, 2>>), {Asc}),
   Text(<<3, 0, 3, 1>>), Text(<<>>),
   Mixed(<<2, Chr + 1, 2>>, NoFill), Mixed(<<Chr + 2, 1, Chr + 2>>, Chr), Mixed(<<9, 0>>, 0), Mixed(<<>>, NoFill),
   Shaped(NumList(<<13>>), <<>>),
   Shaped(Bits(<<1, 0, 1, 1, 0, 1>>), <<3, 2>>), Shaped(Bits(<<1, 0, 1, 0>>), <<2, 2>>),
   Shaped(Small(<<3, -1, 2, 3, 7, 2>>), <<2, 3>>), Shaped(Small(<<3, -1, 4, 3, 3, -1>>), <<3, 2>>),
   Shaped(NumList(<<9, 1, 2>>), <<3, 1>>), Shaped(Text(<<1, 2, 0, 3, 1, 2>>), <<3, 2>>),
   Shaped(Mixed(<<4, Chr + 1, 4, Chr + 1>>, NoFill), <<2, 2>>), Shaped(Text(<<>>), <<0, 2>>), Shaped(Small(<<>>), <<2, 0>>),
   Shaped(Mixed([k \in 1..8 |-> IF k > 6 THEN 1 ELSE Chr + k], Chr), <<4, 2>>), \* differences whose fill is a number or a character in turns
   Shaped(Small(<<1, 2, 3, 4, 5, 6, 7, -1>>), <<2, 2, 2>>), Shaped(Small(<<1, 2, 3, 4, 5, 6>>), <<1, 3, 2>>),
   Shaped(Small(<<1, 2, 3, 4, 5, 6, 7, -1>>), <<2, 2, 1, 1, 2>>)}
MCOthers ==
  {Atom(0), Atom(1), Atom(-3), Atom(4), Atom(13), Atom(16), Atom(Chr + 1),
   Bits(<<0, 1>>), Bits(<<0, 1, 0, 1>>), Bits(<<0, 0, 1, 1, 0, 1>>), Small(<<2, 3, -1>>), Small(<<7, -8, 2, 1>>), NumList(<<5, 9>>), NumList(<<2, 9, 4, 9>>),
   Text(<<1, 3>>), Text(<<0, 3, 3, 1>>), Mixed(<<Chr + 1, 2>>, NoFill), Mixed(<<2, Chr + 1>>, 0), Shaped(Small(<<2>>), <<>>),
   Shaped(Small(<<3, -1>>), <<1, 2>>), Shaped(Small(<<1, 0, 4, 2, -1, 3>>), <<2, 3>>), Shaped(Text(<<>>), <<0, 2>>), Bits(<<>>)}
MCOperands == Pervasive \cup {"subswap", "user", "ltack", "rtack", "join", "const", "constfn"}
MCAxisArgs ==
  {Atom(0), Atom(1), Atom(2), Atom(-1), Bits(<<>>), Bits(<<1>>), Bits(<<0, 1>>), Bits(<<1, 0>>), Bits(<<0, 0>>), Small(<<2, 0, 1>>), Small(<<1, 2>>), Small(<<2>>),
   Small(<<0, 1, 1>>), Small(<<1, 0, 4, 2, 3>>), Small(<<4, 0, 1, 2, 3>>), Small(<<1, 2, 0, 4, 3>>), Shaped(Small(<<0>>), <<>>), Shaped(Bits(<<1, 0>>), <<1, 2>>)}

\* Rows shorter than a word, longer, and as long as two; more elements than a block.
MCCellSeeds ==
  {Shaped(Bits([i \in 1..15 |-> IF i % 4 \in {1, 2} THEN 1 ELSE 0]), <<3, 5>>), Shaped(Bits([i \in 1..18 |-> IF i % 5 = 0 THEN 0 ELSE 1]), <<2, 9>>),
   Shaped(Bits([i \in 1..16 |-> IF i % 3 = 0 THEN 1 ELSE 0]), <<2, 8>>), Shaped(Bits([i \in 1..15 |-> IF i % 4 \in {1, 2} THEN 1 ELSE 0]), <<5, 3>>), Shaped(Bits([i \in 1..12 |-> IF i % 5 = 0 THEN 0 ELSE 1]), <<3, 4>>),
   Shaped(NumList([i \in 1..18 |-> (i % 4) + 6]), <<9, 2>>), Shaped(Small(<<3, -1, 2, 3, 7, 2>>), <<2, 3>>), Shaped(Text(<<1, 2, 0, 3, 1, 2>>), <<3, 2>>),
   Shaped(Mixed(<<4, Chr + 1, 4, Chr + 1>>, NoFill), <<2, 2>>), Shaped(Small(<<4, 2, 1>>), <<3, 1>>), Shaped(Small(<<>>), <<0, 2>>), Shaped(Text(<<>>), <<2, 0>>),
   Shaped(Small(<<1, 2, 3, 4, 5, 6, 7, -1>>), <<2, 2, 2>>), Shaped(Small(<<1, 5, 3, 4, 2, 6>>), <<3, 1, 2>>), Text(<<2, 1, 2, 0>>), Shaped(Small(<<5>>), <<>>), Atom(-2)}
MCCellArgs ==
  {Atom(0), Atom(1), Atom(-1), Atom(3), Atom(Chr + 1), Bits(<<1, 0>>), Bits(<<>>), Small(<<-1, 1>>), Text(<<1, 2>>), NumList(<<9, 2, 0>>), Mixed(<<>>, NoFill),
   Shaped(Small(<<1, 2>>), <<2, 1>>), Shaped(Small(<<2, 1, 0, 3, -1, 4>>), <<3, 2>>), Shaped(Small(<<1>>), <<>>)}
Firsts == {"ltack", "select", "pick", "couple", "shape", "fne", "shifta", "shiftb", "transp", "reverse", "and", "or", "find", "gradeUp",
           "gradeDown", "indexOf", "memberOf", "count", "sub", "not"}
Seconds == {"ltack", "rtack", "const", "select", "couple", "pick", "shifta", "shiftb", "take", "drop", "reverse", "join", "transp", "feq", "fne", "add", "sub", "lt"}
MCCellFunctions ==
  {Primitive(f) : f \in Firsts} \cup {Function("cell", f, NoValue) : f \in {"reverse", "pick", "shifta", "fne"}}
  \cup {Function("const", "const", v) : v \in {Atom(3), Bits(<<1, 0>>)}} \cup {Function("undo", "couple", NoValue)}
  \cup {Function(m, f, NoValue) : m \in {"fold", "insert", "scan"}, f \in {"add", "sub", "floor", "ne", "ltack", "rtack", "user", "const"}}
  \cup {Function("insert", "join", NoValue)}
  \cup {Function(m, f, v) : m \in {"before", "after"}, f \in {"select", "take", "drop", "reverse", "shiftb", "sub"}, v \in {Atom(1), Small(<<-1, 1>>)}}
AllSeeds == MCSeeds \cup MCCellSeeds
MCCellDyads == Seconds
MCRanks == {<<0>>, <<1>>, <<-2>>, <<9>>, <<0, 1>>, <<1, 0>>, <<1, 0, 2>>, <<>>}
=============================================================================
