--------------------------- MODULE MCTypeRegistry ---------------------------
(***************************************************************************)
(* Two bindings for TypeRegistry, and the types behind them:               *)
(*     get func(string) *T       type T struct { next *T; m map[string]H } *)
(*     put func(T)               with another package's T struct { f U }   *)
(* H is func(W), which get reaches at the last level.  Both structs print  *)
(* the name T.                                                             *)
(***************************************************************************)
EXTENDS TypeRegistry, TLC

get == "get"
ptr == "ptr"
T1 == "T1"
map == "map"
H == "H"
W == "W"
put == "put"
T2 == "T2"
U == "U"
str == "str"

AllTypes == {get, ptr, T1, map, H, W, put, T2, U, str}
AllNames == (AllTypes \ {T1, T2}) \cup {"T", "alias"}

Prints == [t \in AllTypes |-> IF t \in {T1, T2} THEN "T" ELSE t]

Graph ==
  (get :> <<str, ptr>>) @@ (ptr :> <<T1>>) @@ (T1 :> <<ptr, map>>) @@ (map :> <<str, H>>)
    @@ (H :> <<W>>) @@ (W :> <<>>) @@ (put :> <<T2>>) @@ (T2 :> <<U>>) @@ (U :> <<>>)
    @@ (str :> <<>>)

Predeclared == [n \in AllNames |-> IF n = str THEN str ELSE None]

\* The host may bind both funcs, a func(W) of its own and values of the two
\* structs, and settle or not what T means.
Funcs == {get, put, H}
Structs == {T1, T2}
Everything == Funcs \cup Structs
NoTypes == {}
SomeNames == {<<"T", T1>>, <<"T", T2>>, <<"alias", W>>, <<"alias", U>>, <<"W", U>>}
NoNames == {}
OwnNames == {<<"H", H>>}
=============================================================================
