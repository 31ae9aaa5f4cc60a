-------------------------- MODULE MCMetadataScan ----------------------------
(* The definitions an object may have in the runs of MetadataScan.         *)
EXTENDS MetadataScan

Shape(kind, columns, indexes, key, foreign) ==
  [kind |-> kind, columns |-> columns, indexes |-> indexes,
   primaryKey |-> key, foreignKeys |-> foreign]
Index(name, columns) == [name |-> name, columns |-> columns]
Foreign(constraint, columns, references) ==
  [constraint |-> constraint, columns |-> columns, table |-> 1, references |-> references]

A == <<"a">>
B == <<"b">>
C == <<"c">>
AB == <<"a", "b">>   \* the name is "a,b"

(* Indexes come sorted by name: ix before pk.                              *)
MCShapes == {
  Shape("view", <<A>>, <<>>, <<>>, <<>>),
  Shape("procedure", <<>>, <<>>, <<>>, <<>>),
  Shape("table", <<A, B, C>>,
        <<Index(<<"ix">>, <<A, C>>), Index(<<"pk">>, <<A, B>>)>>, <<A, B>>, <<>>),
  Shape("table", <<A, B>>,
        <<Index(B, <<A>>), Index(<<"pk">>, <<B>>)>>, <<B>>,
        <<Foreign("f", <<A, B>>, <<B, A>>), Foreign("g", <<B>>, <<A>>)>>),
  Shape("table", <<B, A, AB>>,
        <<Index(<<"ix">>, <<AB>>), Index(<<"pk">>, <<B, A>>)>>, <<B, A>>,
        <<Foreign("f", <<AB, B>>, <<B, A>>)>>)}
=============================================================================
