---------------------------- MODULE MCBindingCells ----------------------------
(***************************************************************************)
(* All programs of three operations over two slices and a pointer.  A run  *)
(* may fail at any operation, so shorter programs are among them.          *)
(***************************************************************************)
EXTENDS BindingCells, TLC

CONSTANTS x, y, p, kept

At0(kind, name) == [kind |-> kind, name |-> name, within |-> {}]
Inside(op, position) == [op EXCEPT !.within = {position}]

ReadX == At0("read", x)
AppendX == At0("append", x)

Ops == {ReadX, Inside(ReadX, "slice"), AppendX, At0("set", x),
        At0("load", p), At0("store", p), At0("stack", None),
        Inside(At0("read", y), "callee"), Inside(At0("append", y), "callee"), At0("read", y)}

ThreeOps == {<<a, b, c>> : a \in Ops, b \in Ops, c \in Ops}

\* Two runs append and look.
AppendAndRead == {<<AppendX, ReadX>>}

MCBound == x :> <<kept>> @@ y :> <<kept, kept>>
MCPointee == p :> kept
NoRoom == x :> 0 @@ y :> 0
SomeRoom == x :> 1 @@ y :> 0

Symmetric == Permutations(Runs)
=============================================================================
