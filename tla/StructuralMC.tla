--------------------------- MODULE StructuralMC ---------------------------
EXTENDS Structural

MCParts == {Atom(1), Atom(Chr + 1), Arr(ElI8, <<2>>, <<2, 3>>, 0), Arr(ElInt, <<1>>, <<9>>, 0), 
            Arr(ElI8, <<1, 2>>, <<2, -3>>, 0), Arr(ElBit, <<2, 1>>, <<0, 1>>, 0)}
MCSeeds == MCParts \cup
  {FlSet(Arr(ElBit, <<3>>, <<0, 1, 1>>, 0), {Asc, Squoze}),
   FlSet(Arr(ElI8, <<2>>, <<3, -2>>, 0), {Dsc}),
   Arr(ElC8, <<2>>, <<Chr + 1, Chr + 2>>, Chr),
   Arr(ElB, <<2>>, <<9, Chr + 1>>, NoFill),
   Arr(ElB, <<2>>, <<0, 2>>, 0),
   Arr(ElB, <<3>>, <<1, 0, 3>>, NoFill),
   Arr(ElBit, <<0>>, <<>>, 0),
   Arr(ElC8, <<0, 2>>, <<>>, Chr),
   Arr(ElI8, <<>>, <<2>>, 0),
   Arr(ElInt, <<2, 2>>, <<1, 9, 0, 2>>, 0)}
MCNumbs == {-3, -1, 0, 2, 4}
NumList(s) == Arr(ElInt, <<Len(s)>>, s, 0)
MCVectors == {NumList(s) : s \in {<<>>, <<1>>, <<-3>>, <<1, -1>>, <<-1, 2>>, <<2, 0>>, <<0, 1>>, <<-2, 1>>,
                                  <<3, 3>>, <<1, 1, 1>>, <<1, Chr>>}}
MCAxes == {NumList(s) : s \in {<<>>, <<3>>, <<-4>>, <<1, 2>>, <<3, 1>>, <<2, -1>>, <<-2, 2>>, <<-3, 2>>, <<2, -4>>,
                               <<0, -1>>, <<-1, -1>>, <<1, 2, 1>>, <<1, Chr>>, <<-3, 1, 2>>, <<4, 5, 2>>}}
=============================================================================
