--------------------------- MODULE MCRuntimeCache ---------------------------
(***************************************************************************)
(* Small instances of RuntimeCache.                                        *)
(***************************************************************************)
EXTENDS RuntimeCache, TLC

CONSTANTS c1, c2, f, g, T, both, bad, boom

\* A program that calls both bindings and names the type that binding g
\* registers, one the parser refuses, and one the compiler panics on.
TwoNames == [s \in {both, bad, boom} |-> IF s = both THEN {f, g} ELSE {f}]
OneType  == [s \in {both, bad, boom} |-> IF s = both THEN {T} ELSE {}]
TypesOfG == (f :> {}) @@ (g :> {T})

\* Single Binds, and a BindScope whose second value is nil.
BindsAndScope == {<<f>>, <<g>>, <<f, g>>, <<f, None, g>>}

\* One source over one name, bound again and again.
OneName == [s \in {both} |-> {f}]
NoType == [s \in {both} |-> {}]
NoTypesOfF == (f :> {})
BindsOfF == {<<f>>}
=============================================================================
