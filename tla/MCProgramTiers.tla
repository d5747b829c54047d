--------------------------- MODULE MCProgramTiers ---------------------------
(***************************************************************************)
(* Programs for ProgramTiers: families without the shapes on which the     *)
(* tiers disagree, and a family for each of those shapes.  Each call calls *)
(* a binding of its own, whose name is the call's; the arguments of call n *)
(* are at <<n, 1>>, <<n, 2>>, and the element of literal n at <<n, 0, 0>>. *)
(***************************************************************************)
EXTENDS ProgramTiers, SequencesExt

CONSTANTS x, y, z

\* The code of an operand, its value at a place.
AtPlace(code, place) ==
  LET r == code[Len(code)]
  IN ReplaceAt(code, Len(code), [r EXCEPT !.at = place, !.id = IF r.kind = "call" THEN @ ELSE place])

Leaf(kind, s) == <<Op(<<>>, kind, s, <<>>, "plain", FALSE)>>
Name(s) == Leaf("slot", s)
Field(s) == Leaf("field", s)
Address(s) == Leaf("addr", s)
Pointee(s) == Leaf("deref", s)
Const == Leaf("const", None)

Around(n, kind, a) == Append(AtPlace(a, <<n, 0, 0>>), Op(<<n, 0>>, kind, None, <<<<n, 0, 0>>>>, "plain", FALSE))
Inside(kind, code) == [k \in DOMAIN code |-> [code[k] EXCEPT !.within = @ \cup {kind}]]
Lit(n, a) == Around(n, "lit", Inside("lit", a))
Slice(n, a) == Around(n, "slice", Inside("slice", a))
PartOf(n, a) == Around(n, "part", a)

CallOf(n, does, bridged, args) ==
  Append(FlattenSeq([k \in DOMAIN args |-> AtPlace(args[k], <<n, k>>)]),
         Op(<<n>>, "call", None, [k \in DOMAIN args |-> <<n, k>>], does, bridged))
Direct(n, args) == CallOf(n, "plain", FALSE, args)
Bridged(n, args) == CallOf(n, "plain", TRUE, args)
Write(n, args) == CallOf(n, "write", FALSE, args)
Echo(n, args) == CallOf(n, "echo", FALSE, args)

Run(c) == Stmt("call", None, c)
Assign(out, c) == Stmt("call", out, c)
AssignLit(n, out, a) == Stmt("assign", out, Lit(n, a))
AssignConst(out) == Stmt("lit", out, Const)
SetField(base, a) == Stmt("set", base, a)
ReturnName(s) == Stmt("return", None, Name(s))
ReturnField(s) == Stmt("return", None, Field(s))
ReturnCall(c) == Stmt("retcall", None, c)
Stop == Stmt("stop", None, <<>>)

Source(in, ss) ==
  [inits |-> in,
   stmts |-> [k \in DOMAIN ss |->
     [ss[k] EXCEPT !.line = k,
                   !.code = IF @ = <<>> THEN @ ELSE AtPlace(@, <<"line", k, 0, 0>>)]]]

UpTo2(ps, qs) == {<<>>} \cup {<<p>> : p \in ps} \cup {<<p, q>> : p \in ps, q \in qs}

-----------------------------------------------------------------------------
(* Shapes *)

\* What the compiler accepts: every name is declared or assigned before it is
\* read or stored into, and a constant, a struct and a pointer keep their kind.
Compiles(p) ==
  LET bound(kind) == {s.out : s \in {t \in Range(p.stmts) : t.kind = kind}}
      read(kind) == {o.slot : o \in {q \in OpsOf(p.stmts) : q.kind = kind}}
  IN /\ \A k \in DOMAIN p.stmts :
          LET s == p.stmts[k]
              seen == p.inits \cup {p.stmts[j].out : j \in 1..(k - 1)}
          IN /\ \A o \in Range(s.code) : o.slot \in seen \cup {None}
             /\ s.kind = "set" => s.out \in seen
     /\ bound("lit") \cap (bound("assign") \cup bound("set") \cup read("field")) = {}
     /\ bound("set") \cap bound("assign") = {}

Plannable(p) == Compiles(p) /\ ~ RunsAhead(p, {"call"}) /\ ~ HiddenRead(p) /\ ~ EarlyReturn(p)

-----------------------------------------------------------------------------
(* Families *)

\* x := a(), then two calls over names and calls and literals of these.
ShapesOf(n, names) ==
  LET plain == {Name(s) : s \in names} \cup {Direct(n, <<>>)}
  IN plain \cup {Lit(n, a) : a \in plain} \cup {PartOf(n, Direct(n, <<Name(x)>>)), Direct(n, <<Name(x)>>)}

Straight ==
  {p \in {Source({}, <<Assign(x, Direct("a", <<>>)), Assign(t, Direct("b", as)), Run(Direct("c", bs))>>) :
            t \in {None, y, x},
            as \in UpTo2({Name(x), Direct("b1", <<Name(x)>>)}, {Name(x), Direct("b2", <<>>)}),
            bs \in UpTo2(ShapesOf("c1", {x, y}), ShapesOf("c2", {x, y}))} : Plannable(p)}

\* Literals, fields and field stores, constants, var declarations, bridged
\* calls and every way to end.
Values(n) ==
  {Name(x), Field(x), Lit(n, Name(x)), Slice(n, Name(x)), Direct(n, <<Field(x)>>)}

Plain ==
  {p \in {Source(in, f \o <<s, t>> \o r) :
            in \in {{}, {x}},
            f \in {<<>>, <<Assign(x, Direct("a", <<>>))>>, <<AssignLit("f", x, Const)>>, <<AssignConst(x)>>},
            s \in {Assign(w, Direct("b", <<v>>)) : w \in {x, y}, v \in Values("b1")}
                  \cup {AssignLit("s", w, v) : w \in {x, y}, v \in Values("b1")}
                  \cup {SetField(x, v) : v \in Values("b1")}
                  \cup {AssignConst(x)},
            t \in {Run(Direct("c", <<v>>)) : v \in Values("c1") \cup {Name(y)}}
                  \cup {Run(Bridged("c", <<v, Name(x)>>)) : v \in Values("c1") \cup {Name(y)}},
            r \in {<<ReturnName(x)>>, <<ReturnField(x)>>, <<Stop>>,
                   <<ReturnCall(Direct("d", <<Name(x)>>))>>}} : Plannable(p)}

\* Addresses taken, written through and kept.
Addressed ==
  {p \in {Source(IF f = <<>> THEN {x} ELSE {}, f \o <<s>> \o g \o <<t>> \o r) :
            f \in {<<>>, <<Assign(x, Direct("a", <<>>))>>, <<AssignConst(x)>>},
            s \in {Assign(w, c) : w \in {None, x, y},
                     c \in {Direct("b", <<Address(x)>>), Write("b", <<Address(x)>>), Echo("b", <<Address(x)>>)}},
            g \in {<<>>, <<Assign(x, Direct("e", <<>>))>>, <<Run(Write("e", <<Name(y)>>))>>,
                   <<Run(Write("e", <<Address(x)>>))>>, <<Assign(x, Direct("e", <<Pointee(y)>>))>>},
            t \in {Run(CallOf("c", "plain", br, as)) : br \in BOOLEAN,
                     as \in UpTo2({Name(x), Name(y), Pointee(y)}, {Name(x), Name(y), Pointee(y)})},
            r \in {<<>>, <<ReturnName(x)>>}} : Plannable(p)}

\* Chains: each of three calls may read what the ones before it bound.
Links(n, names) ==
  {Name(s) : s \in names} \cup {Direct(n, <<Name(s)>>) : s \in names}

Chains ==
  {p \in {Source({}, <<Assign(x, Direct("a", <<>>)), Assign(t, Direct("b", as)),
                      Assign(u, Direct("c", bs)), Run(Direct("d", cs))>>) :
            t \in {x, y}, u \in {x, y, z},
            as \in {<<a>> : a \in Links("b1", {x})},
            bs \in UpTo2(Links("c1", {x, y}), {Name(x), Name(y)}),
            cs \in UpTo2({Name(x), Name(z), Direct("d1", <<Name(y)>>)}, Links("d2", {y, z}))} :
     Plannable(p)}

-----------------------------------------------------------------------------
(* The shapes on which the tiers disagree, besides EarlyReturn *)

\* A name assigned again after its address was taken.
Reassigned(p) == \E j, k \in DOMAIN p.stmts :
  j < k /\ \E q \in Range(p.stmts[j].code) : q.kind = "addr" /\ q.slot = p.stmts[k].out

\* A call that may write through a pointer, its result read by the next
\* statement after another name.
MayWrite(code) == \E q \in Range(code) : q.kind = "addr" \/ q.slot = y
ReadsFirst(p) == \E k \in 2..Len(p.stmts) :
  /\ MayWrite(p.stmts[k-1].code)
  /\ \E m \in DOMAIN p.stmts[k].code : m > 1 /\ Reachable(p.stmts[k].code, m, p.stmts[k-1].out)

Agrees(p) == ~ RunsAhead(p, Loud) /\ ~ SelfRead(p) /\ ~ NilBase(p)

Agreeing ==
  {p \in Straight \cup Plain \cup Chains : Agrees(p)}
  \cup {p \in Addressed : Agrees(p) /\ ~ Reassigned(p) /\ ~ ReadsFirst(p)}

-----------------------------------------------------------------------------
(* One program for each shape on which they do not *)

\* x := a(); c(n(), m(x))
Behind == {Source({}, <<Assign(x, Direct("a", <<>>)),
                        Run(Direct("c", <<Direct("n", <<>>), Direct("m", <<Name(x)>>)>>))>>)}

\* var y *T; x := a(); c(y.F, x)
Ahead == {Source({y}, <<Assign(x, Direct("a", <<>>)), Run(Direct("c", <<Field(y), Name(x)>>))>>)}

\* var x T; x = a(); c(x, []T{x})
Hidden == {Source({x}, <<Assign(x, Direct("a", <<>>)), Run(Direct("c", <<Name(x), Slice("s", Name(x))>>))>>)}

\* x := a(); return x; c(x)
Early == {Source({}, <<Assign(x, Direct("a", <<>>)), ReturnName(x), Run(Direct("c", <<Name(x)>>))>>)}

\* x := T{1}; x = T{x.F}; c(x)
Self == {Source({}, <<AssignLit("l", x, Const), AssignLit("m", x, Field(x)), Run(Direct("c", <<Name(x)>>))>>)}

\* var x *T; x.F = a()
NilPointer == {Source({x}, <<SetField(x, Direct("a", <<>>))>>)}

\* x := a(); y := b(&x); x = e(); c(*y)
Again == {Source({}, <<Assign(x, Direct("a", <<>>)), Assign(y, Echo("b", <<Address(x)>>)),
                       Assign(x, Direct("e", <<>>)), Run(Direct("c", <<Pointee(y)>>))>>)}

\* x := a(); y := b(&x); c(x, y)
Before == {Source({}, <<Assign(x, Direct("a", <<>>)), Assign(y, Write("b", <<Address(x)>>)),
                        Run(Direct("c", <<Name(x), Name(y)>>))>>)}
=============================================================================
