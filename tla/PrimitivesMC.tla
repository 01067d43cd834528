--------------------------- MODULE PrimitivesMC ---------------------------
EXTENDS Primitives

NumList(s) == Arr(ElInt, <<Len(s)>>, s, 0)
Small(s) == Arr(ElI8, <<Len(s)>>, s, 0)
Bits(s) == Arr(ElBit, <<Len(s)>>, s, 0)
MCSeeds ==
  {Atom(1), Atom(Chr + 1),
   FlSet(Bits(<<0, 1, 1>>), {Asc, Squoze}),
   Bits(<<1, 0, 1, 0>>),
   FlSet(Small(<<3, -2>>), {Dsc}),
   Small(<<2, 0, 2, 3>>),
   FlSet(Small(<<0, 1, 1, 3>>), {Asc}),
   NumList(<<6, 5, -4, 6, 9>>),
   NumList(<<7, 5, 6, 8>>),
   NumList(<<5, 5, 8, 8>>),
   Small(<<1, -2, 3, 0, 2, -1, 1, 3, -3>>),
   NumList(<<4, 9, -7, 5, 8, 6, 7, -5, 3>>),
   Bits(<<0, 1, 0, 0, 0, 0, 1, 0>>), Bits(<<0, 0, 0, 0, 0, 1, 0, 0>>), Bits(<<1, 1, 0, 1, 0, 0, 0, 0>>),
   Bits(<<0, 0, 1, 0, 0, 1, 0, 0, 1>>),
   Arr(ElC8, <<4>>, <<Chr + 6, Chr + 1, Chr, Chr + 6>>, Chr),
   Arr(ElB, <<4>>, <<2, Chr + 1, -3, 2>>, NoFill),
   Arr(ElB, <<2>>, <<9, 0>>, 0),
   Bits(<<>>),
   Arr(ElC8, <<0, 2>>, <<>>, Chr),
   Arr(ElI8, <<>>, <<2>>, 0),
   Arr(ElBit, <<2, 2>>, <<0, 1, 1, 0>>, 0),
   Arr(ElI8, <<2, 3>>, <<2, -1, 3, 2, -1, 2>>, 0),
   Arr(ElInt, <<3, 1>>, <<7, -3, 4>>, 0),
   Arr(ElC8, <<3, 2>>, <<Chr + 1, Chr + 2, Chr, Chr + 3, Chr + 1, Chr + 2>>, Chr)}
MCLists == {Atom(0), Atom(-1), Atom(Chr), Bits(<<>>), Bits(<<0, 1>>), Bits(<<0, 0, 0>>), Small(<<-1>>), Small(<<2, 0, 2>>),
            Small(<<-3, 3, 1>>), NumList(<<1, -2>>), NumList(<<0, 4>>), Arr(ElI8, <<2, 1>>, <<-2, 0>>, 0),
            Arr(ElB, <<2>>, <<1, 1>>, NoFill), Arr(ElB, <<2>>, <<1, Chr>>, NoFill), Small(<<0, 1, 2>>)}
MCAxisLists == {<<Small(<<1, 0>>)>>, <<Bits(<<0, 1>>), Small(<<0, 1>>)>>, <<Small(<<-1, 0>>), Small(<<-1>>)>>,
                <<Small(<<2, 1, 0>>), Small(<<1, 2>>)>>, <<Small(<<0>>), Small(<<>>)>>, <<Small(<<1, 5>>), Small(<<0>>)>>,
                <<Small(<<0, 1>>), Small(<<1, 0>>), Small(<<0, 0>>)>>, <<Small(<<1>>), Small(<<-1>>)>>,
                <<Arr(ElI8, <<2, 1>>, <<1, 0>>, 0), Small(<<0, 1>>)>>}
MCTimes == {Atom(0), Atom(1), Atom(3), Atom(-1), Bits(<<1, 0, 1>>), Bits(<<0, 1, 1, 0>>), Bits(<<1, 1>>), Bits(<<0, 0>>), Small(<<2, 0, 3>>),
            NumList(<<0, 1, 1, 0>>), NumList(<<1, 0, 3, 1>>), NumList(<<0, 5>>), NumList(<<2, -1>>), Bits(<<>>), Small(<<1, 2>>),
            Bits(<<0, 0, 1, 0, 0, 0, 0, 1, 0>>), Bits(<<0, 0, 0, 1, 0, 0, 0, 0, 1>>), Bits(<<1, 1, 1, 1, 1, 1, 0, 0, 1>>),
            Bits(<<0, 0, 0, 1, 1, 1, 1, 1, 0>>), Bits(<<0, 1, 0, 1, 0, 1, 1, 0, 1>>),
            Arr(ElB, <<2>>, <<1, Chr>>, NoFill), Arr(ElI8, <<>>, <<2>>, 0), Arr(ElI8, <<2, 1>>, <<1, 0>>, 0)}
MCKeys == {Atom(2), Bits(<<0, 1>>), Bits(<<1, 1, 0>>), Bits(<<>>), Small(<<-4, -4, 2>>), FlSet(Small(<<3, 3, 0>>), {Dsc}), Small(<<0, 2, 0>>),
           NumList(<<-5, 5, 6>>), Small(<<2>>), Arr(ElC8, <<2>>, <<Chr + 1, Chr + 6>>, Chr), Arr(ElB, <<3>>, <<-3, 2, Chr + 1>>, NoFill),
           Arr(ElI8, <<2, 2>>, <<2, -1, 2, 3>>, 0), Arr(ElI8, <<1, 2>>, <<3, 2>>, 0), Arr(ElI8, <<2, 3>>, <<2, -1, 2, 2, -1, 3>>, 0)}
MCSizes == {Atom(0), Atom(1), Atom(2), Atom(3), Atom(6), Atom(-1), Bits(<<>>), Small(<<2>>), Small(<<0>>), Small(<<1>>), Small(<<2, 1>>), Small(<<1, 2>>),
            Small(<<2, 2>>), Small(<<2, 3>>), Small(<<2, 1, 2>>), Small(<<6>>), NumList(<<3, -1>>), Small(<<4, 6>>), Small(<<0, 3>>)}
MCGroupArgs ==
  {Atom(1), Bits(<<1, 0, 1>>), FlSet(Bits(<<0, 0, 1, 1>>), {Asc}), FlSet(Bits(<<1, 1, 0>>), {Dsc}), Bits(<<0, 1, 0, 0, 1>>), Bits(<<>>), Bits(<<1>>),
   Bits(<<0, 0, 0, 0>>), Small(<<-1, -1, 2>>), Small(<<-1, 0>>), Small(<<-1, 0, 0>>), Small(<<0, 1, 2, 2>>), Small(<<1, 0, 1, 0>>), Small(<<2, -1, 0, 3>>), Small(<<0, 0, 1, 1, 3>>),
   Small(<<-1, -1, -1, -1>>), Small(<<1, 1, 0>>), Small(<<0, 1, 0>>), Small(<<1, -1>>), Small(<<1, 1, -1, 1>>), FlSet(Small(<<-1, 0, 3, 3>>), {Asc}), FlSet(NumList(<<-1, 0, 5, 5>>), {Asc}),
   Small(<<3, 0>>), Small(<<-2, 0, 1>>), Small(<<0, 1, -2>>), NumList(<<0, 21, 0>>), NumList(<<5, 1, 0, 0, 2>>), NumList(<<1, 0, -1>>), Arr(ElB, <<3>>, <<0, 2, 1>>, NoFill), Arr(ElB, <<2>>, <<1, Chr>>, NoFill),
   Arr(ElI8, <<2, 2>>, <<1, 0, -1, 1>>, 0), Arr(ElI8, <<3, 2>>, <<0, 1, 1, 0, 2, 2>>, 0), Arr(ElI8, <<>>, <<1>>, 0),
   [items |-> <<Arr(ElI8, <<2, 3>>, <<2, 0, 1, 1, -1, 2>>, 0)>>], [items |-> <<Small(<<1, -1, 0>>)>>], [items |-> <<Atom(1)>>]}
=============================================================================
