--------------------------- MODULE MCFrameWindows ---------------------------
(***************************************************************************)
(* Programs for FrameWindows: two statements a(_, _); b(_); and calls m,   *)
(* n and h placed anywhere in them, or nowhere: in an argument, together   *)
(* in one (a composite literal), inside one another, or in the callee, as  *)
(* in m(x).a(y, z);.  The four arguments of n may be more than the frame   *)
(* of a program that calls n only for a callee.                            *)
(***************************************************************************)
EXTENDS FrameWindows, TLC

MainCalls == {"a", "b", "m", "n", "h"}

Places == [{"m", "n", "h"} -> {"a1", "a2", "af", "b1", "bf", "m1", "out"}]

\* The calls at a place, in the order m, n, h.
Here(place, at0) == SelectSeq(<<"m", "n", "h">>, LAMBDA c : place[c] = at0)

Placed(place) ==
  [roots |-> <<"a", "b">>,
   args |-> [c \in MainCalls |->
     CASE c = "a" -> <<Here(place, "a1"), Here(place, "a2")>>
       [] c = "b" -> <<Here(place, "b1")>>
       [] c = "m" -> <<Here(place, "m1")>>
       [] c = "n" -> << <<>>, <<>>, <<>>, <<>> >>
       [] c = "h" -> << <<>> >>],
   callee |-> [c \in MainCalls |->
     CASE c = "a" -> Here(place, "af") [] c = "b" -> Here(place, "bf") [] OTHER -> <<>>]]

Family == {Placed(place) : place \in {p \in Places : p["m"] # "m1"}}

\* mk(x).F(y);
ComputedCalls == {"F", "mk"}
Computed ==
  {[roots |-> <<"F">>,
    args |-> [c \in ComputedCalls |-> << <<>> >>],
    callee |-> [c \in ComputedCalls |-> IF c = "F" THEN <<"mk">> ELSE <<>>]]}
=============================================================================
