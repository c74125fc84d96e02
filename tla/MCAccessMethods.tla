-------------------------- MODULE MCAccessMethods --------------------------
(***************************************************************************)
(* Files of small pages: two keys to a page of a B+ tree (in units   *)
(* of four bytes), two rows to a bucket and a directory of eight, two boxes *)
(* to a page of the R-tree.                                                *)
(***************************************************************************)
EXTENDS AccessMethods, TLC

CONSTANTS rowA, rowB, rowC

ShortKeys == [k \in 1 .. 5 |-> 1]
OneRowEach == ((1 .. 5) \X {rowA}) \union {<<3, rowB>>}
TwoRowsEach == {<<1, rowA>>, <<1, rowB>>, <<2, rowA>>}
ThreeRowsTwice == (1 .. 3) \X {rowA, rowB}

Hashes == (1 :> 0) @@ (2 :> 8) @@ (3 :> 16) @@ (4 :> 4) @@ (5 :> 1) @@ (6 :> 3)
OneUnit == [k \in 1 .. 6 |-> 1]
Hashed == ((1 .. 6) \X {rowA}) \union {<<5, rowB>>}

Points == (1 :> <<0, 0>>) @@ (2 :> <<4, 0>>) @@ (3 :> <<1, 3>>) @@ (4 :> <<4, 0>>) @@ (5 :> <<3, 2>>)
Corner == {<<0, 0>>, <<1, 2>>, <<3, 3>>, <<4, 0>>}
Windows == {[x0 |-> a, y0 |-> b, x1 |-> c, y1 |-> d] : a \in {0, 1}, b \in {0, 2}, c \in {1, 3, 4}, d \in {2, 3}}
Regions == {<<<<0, 0>>, <<4, 0>>, <<1, 3>>, <<0, 0>>>>,
            <<<<1, 0>>, <<4, 0>>, <<4, 2>>, <<2, 2>>, <<1, 0>>>>,
            <<<<0, 0>>, <<6, 3>>, <<0, 6>>, <<0, 0>>>>}
Targets == {<<0, 0>>, <<2, 2>>}

Texts == (1 :> <<2, 1, 2>>) @@ (2 :> <<1>>) @@ (3 :> <<>>) @@ (4 :> <<3, 2>>)
TextRows == (1 .. 4) \X {<<0, 0>>, <<0, 1>>, <<1, 0>>}
Queries == SUBSET (1 .. 3)

VectorsOf == <<<<3, 4>>, <<4, 3>>, <<0, 5>>, <<5, 0>>>>
KindsOf == <<"image", "sound", "image", "sound">>
VectorRows == (1 .. 3) \X {rowA, rowB}
Looked == {1, 4}

KeysOfTwoLengths == {<<k, 1>> : k \in 1 .. 3} \union {<<2, 3>>, <<3, 2>>}
RowsOfTwoLengths == (1 .. 2) \X {1, 2}
=============================================================================
