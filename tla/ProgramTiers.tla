---------------------------- MODULE ProgramTiers ----------------------------
(***************************************************************************)
(* One program on the two tiers that can run it.  The reflect evaluator    *)
(* (vm.go) walks the statements as the compiler left them.  The step JIT   *)
(* (stepjit*.go) runs the plan that InlinePlan makes of them, and lays the *)
(* names that are left in a frame.  Compiler.Compile takes the JIT when it *)
(* accepts the program and the evaluator otherwise: a host gets one of the *)
(* two.  Here the evaluator runs first, and the JIT after it.              *)
(*                                                                         *)
(* Types are left out: what the JIT refuses because of one only sends the  *)
(* program to the evaluator.                                               *)
(*                                                                         *)
(* The mem of a name is the sequence of its cells: the evaluator gives it  *)
(* a new cell on every assignment, the JIT keeps the one field of the      *)
(* frame.                                                                  *)
(***************************************************************************)
EXTENDS InlinePlan

VARIABLES
  stage,      \* "plan", then "reflect", then "jit", then "done"; or "refused"
  fate,       \* how each call that ran ended: "ok" or "error"
  run         \* [{"reflect", "jit"} -> the execution on that tier]

vars == <<planVars, stage, fate, run>>

Zero == <<"zero">>
Tiers == {"reflect", "jit"}

-----------------------------------------------------------------------------
(* What a tier executes *)

\* What a statement does besides its operations: "store" its value in a name or
\* "drop" it; "clear" zeroes a name; "check" refuses a nil pointer and "put"
\* stores a field through it; "result" returns the value and "end" nothing.
Mark(kind, s) == Op(<<>>, kind, s.out, IF s.code = <<>> THEN <<>> ELSE <<Root(s).at>>, "plain", FALSE)
Bind(s) == Mark(IF s.out = None THEN "drop" ELSE "store", s)

\* A statement of vmProgram.run.
EvaluatorSteps(s) ==
  CASE s.kind \in {"call", "assign", "lit"} -> Append(s.code, Bind(s))
    [] s.kind \in {"retcall", "return"} -> Append(s.code, Mark("result", s))
    [] s.kind = "set" -> <<Mark("check", s)>> \o Append(s.code, Mark("put", s))
    [] s.kind = "stop" -> <<Mark("end", s)>>

\* stmtNode, structAssignNode and fieldSetNode.  A literal is built in place,
\* in a field that is cleared first when the name is written more than once.
JitSteps(s) ==
  CASE s.kind \in {"call", "lit"} -> Append(s.code, Bind(s))
    [] s.kind = "assign" ->
         (IF Writes(s.out) > 1 THEN <<Mark("clear", s)>> ELSE <<>>) \o Append(s.code, Bind(s))
    [] s.kind = "set" -> s.code \o <<Mark("check", s), Mark("put", s)>>

Text(tier) == IF tier = "reflect" THEN prog.stmts ELSE stmts
Steps(tier, s) == IF tier = "reflect" THEN EvaluatorSteps(s) ELSE JitSteps(s)

\* Calls that a JIT program makes through reflect: the signature, a slice
\* literal or a pointer read is not in the table.
Bridges(code, c) ==
  \/ c.bridged
  \/ \E a \in Range(code) : a.at \in Range(c.sub) /\ a.kind \in {"slice", "deref"}

\* reflect reads the argument of a call where it is when the call happens, on
\* the evaluator and in a bridged call; the JIT copies a field.
Late(tier, code, o) ==
  \E c \in Range(code) :
    /\ c.kind = "call" /\ o.at \in Range(c.sub)
    /\ tier = "reflect" \/ (Bridges(code, c) /\ o.kind # "field")

\* jitCompileProgram refuses what has no node, a struct bound to a call (a
\* struct result has no layout class), and a name with no field.
Accepted ==
  /\ phase = "planned"
  /\ \A i \in DOMAIN stmts :
       LET s == stmts[i] IN
       /\ s.kind = "call" /\ s.out # None => ~ IsStruct(s.out)
       /\ s.kind = "assign" => Root(s).kind = "lit"
       /\ s.kind = "set" => Root(s).kind \in {"const", "call", "lit"}
       /\ \A o \in Range(s.code) : o.slot \in Live \cup {None}
       /\ \A o, a \in Range(s.code) :
            o.kind = "lit" /\ a.at \in Range(o.sub) => a.kind \notin {"slice", "deref"}

-----------------------------------------------------------------------------
(* An execution *)

\* The frame of the JIT holds a zero in every field; the evaluator makes the
\* cells of the var declarations and no others.  vals holds the operands.
Boot(tier) ==
  [line |-> 1, pos |-> 1, vals |-> <<>>, trace |-> <<>>,
   mem |-> [s \in Slots |-> IF tier = "jit" \/ s \in prog.inits THEN <<Zero>> ELSE <<>>],
   outcome |-> "running", result |-> Zero]

PlanStep ==
  /\ stage = "plan"
  /\ PlanNext
  /\ UNCHANGED <<stage, fate, run>>

PlanDone ==
  /\ stage = "plan" /\ phase \in {"planned", "refused"}
  /\ stage' = IF Accepted THEN "reflect" ELSE "refused"
  /\ run' = IF Accepted THEN [t \in Tiers |-> Boot(t)] ELSE <<>>
  /\ UNCHANGED <<planVars, fate>>

\* The field of a struct, or of what a pointer points at.
FieldOf(v) == IF v[1] = "lit" THEN v[2] ELSE IF v = Zero THEN Zero ELSE <<"field", v>>

\* An operand: a value, and for one read where it is, the cell and whether a
\* field of it is meant.
Value(v) == [val |-> v, cell |-> <<>>, field |-> FALSE]
At(v, slot, n, field) == [val |-> v, cell |-> <<slot, n>>, field |-> field]

Cell(mem, slot, n) == IF n = 0 THEN Zero ELSE mem[slot][n]
Now(r, slot) == Cell(r.mem, slot, Len(r.mem[slot]))

\* What an operand is worth when the call happens.
Loaded(mem, u) ==
  IF u.cell = <<>> THEN u.val
  ELSE LET v == Cell(mem, u.cell[1], u.cell[2]) IN IF u.field THEN FieldOf(v) ELSE v

\* A pointer shows which name it points at, not which of its cells.
Shown(v) == IF v[1] = "ptr" THEN <<"ptr", v[2]>> ELSE v

exec == run[stage]
Line == Text(stage)[exec.line]
Todo == Steps(stage, Line)
op == Todo[exec.pos]

\* The tier at turn is at an operation of these kinds.
AtOp(kinds) ==
  /\ stage \in Tiers
  /\ exec.outcome = "running" /\ exec.line <= Len(Text(stage))
  /\ op.kind \in kinds

\* The next operation is the one behind this, or the first of the next line.
Become(r) ==
  /\ run' = [run EXCEPT ![stage] =
       IF exec.pos < Len(Todo) THEN [r EXCEPT !.pos = @ + 1]
                               ELSE [r EXCEPT !.line = @ + 1, !.pos = 1]]
  /\ UNCHANGED <<planVars, stage>>

Yields(u) == [exec EXCEPT !.vals = [p \in DOMAIN @ \cup {op.at} |-> IF p = op.at THEN u ELSE @[p]]]
Yield(v, slot, n, field) ==
  Yields(IF Late(stage, Line.code, op) THEN At(v, slot, n, field) ELSE Value(v))
Operand(n) == exec.vals[op.sub[n]].val
Ended(how, v) == [exec EXCEPT !.outcome = how, !.result = v]

Read ==
  /\ AtOp({"slot"})
  /\ Become(Yield(Now(exec, op.slot), op.slot, Len(exec.mem[op.slot]), FALSE))
  /\ UNCHANGED fate

\* A field of a nil pointer is an error.
ReadField ==
  /\ AtOp({"field"})
  /\ LET v == Now(exec, op.slot)
     IN Become(IF ~ IsStruct(op.slot) /\ v = Zero THEN Ended("error", Zero)
               ELSE Yield(FieldOf(v), op.slot, Len(exec.mem[op.slot]), TRUE))
  /\ UNCHANGED fate

\* So is reading through one.
ReadThrough ==
  /\ AtOp({"deref"})
  /\ LET p == Now(exec, op.slot)
     IN Become(CASE p = Zero -> Ended("error", Zero)
                 [] p[1] = "ptr" -> Yield(Cell(exec.mem, p[2], p[3]), p[2], p[3], FALSE)
                 [] OTHER -> Yields(Value(<<"pointee", p>>)))
  /\ UNCHANGED fate

Make ==
  /\ \/ AtOp({"addr"}) /\ Become(Yields(Value(<<"ptr", op.slot, Len(exec.mem[op.slot])>>)))
     \/ AtOp({"const"}) /\ Become(Yields(Value(<<"const">>)))
     \/ AtOp({"lit", "slice"}) /\ Become(Yields(Value(<<"lit", Operand(1)>>)))
  /\ UNCHANGED fate

\* A field of a value a call or a literal made.
Part ==
  /\ AtOp({"part"})
  /\ Become(IF Operand(1) = Zero THEN Ended("error", Zero) ELSE Yields(Value(FieldOf(Operand(1)))))
  /\ UNCHANGED fate

\* The callee reads its arguments, and writes or hands back what it was given
\* a pointer to; its error ends the program.
Call ==
  /\ AtOp({"call"})
  /\ LET args == [k \in DOMAIN op.sub |-> Loaded(exec.mem, exec.vals[op.sub[k]])]
         written == IF op.does # "write" THEN {}
                    ELSE {<<args[k][2], args[k][3]>> : k \in {j \in DOMAIN args : args[j][1] = "ptr"}}
         mem == [s \in Slots |-> [n \in DOMAIN exec.mem[s] |->
                   IF <<s, n>> \in written THEN <<"by", op.id>> ELSE exec.mem[s][n]]]
         value == IF op.does = "echo" /\ args # <<>> THEN args[1] ELSE <<"by", op.id>>
         called == [Yields(Value(value)) EXCEPT
                      !.trace = Append(@, <<op.id, [k \in DOMAIN args |-> Shown(args[k])]>>),
                      !.mem = mem]
     IN \E f \in IF op.id \in DOMAIN fate THEN {fate[op.id]} ELSE {"ok", "error"} :
          /\ fate' = [d \in DOMAIN fate \cup {op.id} |-> IF d = op.id THEN f ELSE fate[d]]
          /\ Become(IF f = "ok" THEN called ELSE [called EXCEPT !.outcome = "error"])

Assigned(slot, v) ==
  IF stage = "jit" THEN [exec.mem EXCEPT ![slot] = <<v>>]
                   ELSE [exec.mem EXCEPT ![slot] = Append(@, v)]

Store ==
  /\ \/ AtOp({"store"}) /\ Become([exec EXCEPT !.mem = Assigned(op.slot, Operand(1))])
     \/ AtOp({"drop"}) /\ Become(exec)
  /\ UNCHANGED fate

Clear ==
  /\ AtOp({"clear"})
  /\ Become([exec EXCEPT !.mem[op.slot] = <<Zero>>])
  /\ UNCHANGED fate

CheckBase ==
  /\ AtOp({"check"})
  /\ Become(IF Now(exec, op.slot) = Zero THEN Ended("error", Zero) ELSE exec)
  /\ UNCHANGED fate

PutField ==
  /\ AtOp({"put"})
  /\ Become([exec EXCEPT !.trace = Append(@, <<"put", Shown(Now(exec, op.slot)), Operand(1)>>)])
  /\ UNCHANGED fate

Return ==
  /\ \/ AtOp({"result"}) /\ Become(Ended("ok", Shown(Operand(1))))
     \/ AtOp({"end"}) /\ Become(Ended("ok", Zero))
  /\ UNCHANGED fate

\* Past the last statement: the JIT then reads the name that is returned.
RunOff ==
  /\ stage \in Tiers
  /\ exec.outcome = "running" /\ exec.line > Len(Text(stage))
  /\ run' = [run EXCEPT ![stage] =
       Ended("ok", IF stage = "jit" /\ retSlot # None THEN Shown(Now(exec, retSlot)) ELSE Zero)]
  /\ UNCHANGED <<planVars, stage, fate>>

NextTier ==
  /\ stage \in Tiers
  /\ exec.outcome # "running"
  /\ stage' = IF stage = "reflect" THEN "jit" ELSE "done"
  /\ UNCHANGED <<planVars, fate, run>>

Init ==
  /\ PlanInit
  /\ stage = "plan"
  /\ fate = <<>>
  /\ run = <<>>

Next ==
  \/ PlanStep \/ PlanDone \/ NextTier \/ RunOff
  \/ Read \/ ReadField \/ ReadThrough \/ Make \/ Part
  \/ Call \/ Store \/ Clear \/ CheckBase \/ PutField \/ Return

Spec == Init /\ [][Next]_vars

-----------------------------------------------------------------------------
(* Shapes of programs *)

\* A literal whose elements read the name it is assigned to: x = T{F: x.F}.
SelfRead(p) ==
  \E s \in Range(p.stmts) : s.kind = "assign" /\ \E q \in Range(s.code) : q.slot = s.out

\* A field stored into what may be a nil pointer, its value made by something
\* that may fail or be seen: var p *T; p.F = f().
NotNil(q) == q.kind \in {"const", "lit", "slice"} \/ (q.kind = "call" /\ q.does # "echo")
NilBase(p) ==
  \E i \in DOMAIN p.stmts :
    /\ p.stmts[i].kind = "set"
    /\ \E q \in Range(p.stmts[i].code) : q.kind \in Loud
    /\ ~ \E m \in Writers(p.stmts, i, p.stmts[i].out) :
           (\A n \in Writers(p.stmts, i, p.stmts[i].out) : n <= m) /\ NotNil(Root(p.stmts[m]))

-----------------------------------------------------------------------------
(* Properties *)

\* docs/DESIGN.md:170-174: the evaluator is the "general implementation of the
\* same semantics".  Whatever the callees do and whichever of them fails, both tiers
\* make the same calls with the same arguments and end the same way.
TiersAgree ==
  stage = "done" =>
    /\ run["jit"].trace = run["reflect"].trace
    /\ run["jit"].outcome = run["reflect"].outcome
    /\ run["jit"].result = run["reflect"].result
=============================================================================
