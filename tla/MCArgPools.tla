----------------------------- MODULE MCArgPools -----------------------------
(***************************************************************************)
(* Programs for ArgPools.  PooledProg hands no frame pointer out, so its   *)
(* frames are pooled:                                                      *)
(*     x := f(&T{A: name}); g(name, x); return x;                          *)
(* AliasProg passes a name as an interface that aliases the frame, so its  *)
(* frames are not:                                                         *)
(*     n := f(); m := g(n); h(m, &T{A: n}); return n;                      *)
(***************************************************************************)
EXTENDS ArgPools, TLC

CONSTANTS s1, s2, t1, t2

O(kind, out, src, site, alias) ==
  [kind |-> kind, out |-> out, src |-> src, site |-> site, alias |-> alias]

PooledProg == <<
  O("load", s1, None, None, FALSE),
  O("take", None, None, t1, FALSE),
  O("fill", None, s1, t1, FALSE),
  O("call", s2, None, t1, FALSE),
  O("take", None, None, t2, FALSE),
  O("fill", None, s2, t2, FALSE),
  O("call", None, s2, t2, FALSE) >>

AliasProg == <<
  O("call", s1, None, None, FALSE),
  O("call", s2, s1, None, TRUE),
  O("take", None, None, t1, FALSE),
  O("fill", None, s1, t1, FALSE),
  O("call", None, s2, t1, FALSE) >>

MemorySymmetry == Permutations(Execs) \cup Permutations(Frames) \cup Permutations(Blocks)
=============================================================================
