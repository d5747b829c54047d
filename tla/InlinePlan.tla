----------------------------- MODULE InlinePlan -----------------------------
(***************************************************************************)
(* planInline (stepjit_plan.go): the plan of a program for the step JIT.   *)
(* The first loop keeps the statements that run; the second drops a        *)
(* statement whose one result the next statement reads once, and splices   *)
(* its call into the argument that reads it.                               *)
(*                                                                         *)
(* A statement is the sequence of its operations in the order the          *)
(* evaluator performs them: the operands of an operation come before it,   *)
(* and the last is the statement's own.  The value of an operation goes to *)
(* the place at, and sub lists the places an operation takes operands      *)
(* from: the arguments of a call, the element of a literal.  Splicing puts *)
(* the operations of the producer where the read was and sends the value   *)
(* of its call to the place the read would have filled.                    *)
(***************************************************************************)
EXTENDS Naturals, Sequences, FiniteSets, Functions

CONSTANTS
  Programs,   \* the programs to plan
  Slots,      \* the names programs assign
  None        \* no name

VARIABLES
  prog,       \* the program, [inits, stmts]
  phase,      \* "collect", then "splice", then "planned"; or "refused"
  index,      \* the loop variable of either loop
  stmts,      \* the statements of the plan
  retSlot     \* the name that "return name;" returns

planVars == <<prog, phase, index, stmts, retSlot>>

\* An operation: "slot" reads a name, "field" a field of it, "deref" what it
\* points at and "addr" takes its address; "const" is a constant; "lit" and
\* "slice" build a literal around an element, "part" reads a field of a
\* computed value; "call" is a call.  A call has what the callee does with pointers
\* ("plain": nothing, "write": writes through each, "echo": returns its first
\* argument) and whether its signature is outside the shape table.  within
\* holds the kinds of literals an operation is inside.
Op(id, kind, slot, sub, does, bridged) ==
  [id |-> id, at |-> id, kind |-> kind, slot |-> slot, sub |-> sub,
   does |-> does, bridged |-> bridged, within |-> {}]

\* A statement binds out to a call, a composite literal or a constant, stores
\* into a field of what out holds, or returns.  line is its number in the source.
Stmt(kind, out, code) == [kind |-> kind, out |-> out, code |-> code, line |-> 0]

Root(s) == s.code[Len(s.code)]
OpsOf(ss) == UNION {Range(ss[i].code) : i \in DOMAIN ss}

Kept == {"call", "assign", "lit", "set"}
Naming == {"slot", "field", "deref", "addr"}
OpKinds == Naming \cup {"const", "lit", "slice", "part", "call"}

IsOp(o) ==
  /\ o = [id |-> o.id, at |-> o.at, kind |-> o.kind, slot |-> o.slot, sub |-> o.sub,
          does |-> o.does, bridged |-> o.bridged, within |-> o.within]
  /\ o.id # None
  /\ o.kind \in OpKinds
  /\ IF o.kind \in Naming THEN o.slot \in Slots ELSE o.slot = None
  /\ o.sub \in Seq(Range(o.sub))
  /\ o.kind \in {"lit", "slice", "part"} => Len(o.sub) = 1
  /\ o.kind \in Naming \cup {"const"} => o.sub = <<>>

IsStmt(s) ==
  /\ s = [kind |-> s.kind, out |-> s.out, code |-> s.code, line |-> s.line]
  /\ s.code \in Seq(Range(s.code))
  /\ s.kind \in Kept \cup {"retcall", "return", "stop"}
  /\ s.code = <<>> <=> s.kind = "stop"
  /\ s.kind \in {"call", "retcall"} => Root(s).kind = "call"
  /\ IF s.out = None THEN s.kind \notin {"assign", "lit", "set"} ELSE s.kind \in Kept /\ s.out \in Slots
  /\ \A j \in DOMAIN s.code :
       /\ IsOp(s.code[j])
       /\ \A place \in Range(s.code[j].sub) : \E n \in 1..(j - 1) : s.code[n].at = place
       /\ j < Len(s.code) => \E n \in DOMAIN s.code : n > j /\ s.code[j].at \in Range(s.code[n].sub)

\* The shape the compiler gives a program: each operation runs after its operands
\* and before the one it is an operand of, and no two have an identity or a place
\* in common.
IsProgram(p) ==
  /\ p.inits \subseteq Slots
  /\ p.stmts \in Seq(Range(p.stmts))
  /\ \A i \in DOMAIN p.stmts : IsStmt(p.stmts[i]) /\ p.stmts[i].line = i
  /\ \A i, m \in DOMAIN p.stmts :
       \A j \in DOMAIN p.stmts[i].code, n \in DOMAIN p.stmts[m].code :
         \/ p.stmts[i].code[j].id = p.stmts[m].code[n].id
         \/ p.stmts[i].code[j].at = p.stmts[m].code[n].at
         => i = m /\ j = n

ASSUME PlanAssumption == None \notin Slots /\ \A p \in Programs : IsProgram(p)

-----------------------------------------------------------------------------
(* Counting reads *)

\* assignArg: a name whose address an argument takes.
AddrTaken == {o.slot : o \in {q \in OpsOf(prog.stmts) : q.kind = "addr"}}

\* Slip: the elements of a struct literal are not looked into.
CountedOutside(o) == o.kind \in {"slot", "addr", "field"} /\ o.within = {}

\* countArgReads looks through fields, calls and struct literals; it looks
\* neither into slice literals nor behind a pointer read.
Counted(o) == o.kind \in {"slot", "addr", "field"} /\ "slice" \notin o.within

\* Where the program reads a name: the operations counted, the bases of field
\* stores, and the return that is remembered.
Readers(slot) ==
  {r \in UNION {{i} \X DOMAIN prog.stmts[i].code : i \in DOMAIN prog.stmts} :
     LET o == prog.stmts[r[1]].code[r[2]]
     IN prog.stmts[r[1]].kind \in Kept /\ Counted(o) /\ o.slot = slot}
  \cup {<<i, 0>> : i \in {j \in DOMAIN prog.stmts :
                            prog.stmts[j].kind = "set" /\ prog.stmts[j].out = slot}}
  \cup (IF slot = retSlot THEN {<<0, 0>>} ELSE {})

-----------------------------------------------------------------------------
(* The first loop *)

Current == prog.stmts[index]
Collecting == phase = "collect" /\ index <= Len(prog.stmts)

Keep ==
  /\ Collecting /\ Current.kind \in Kept
  /\ stmts' = Append(stmts, Current)
  /\ index' = index + 1
  /\ UNCHANGED <<prog, phase, retSlot>>

\* Only a name is returned from its slot; the last one, if there are several.
KeepName ==
  /\ Collecting /\ Current.kind = "return" /\ Root(Current).kind = "slot"
  /\ retSlot' = Root(Current).slot
  /\ index' = index + 1
  /\ UNCHANGED <<prog, phase, stmts>>

\* A bare return leaves the program without a value.
DropReturn ==
  /\ Collecting /\ Current.kind = "stop"
  /\ index' = index + 1
  /\ UNCHANGED <<prog, phase, stmts, retSlot>>

\* A returned expression is not in the table, and a returned call needs a slot.
Refuse ==
  /\ Collecting
  /\ \/ Current.kind = "return" /\ Root(Current).kind # "slot"
     \/ Current.kind = "retcall"
  /\ phase' = "refused"
  /\ UNCHANGED <<prog, index, stmts, retSlot>>

Collected ==
  /\ phase = "collect" /\ index > Len(prog.stmts)
  /\ phase' = "splice"
  /\ index' = 1
  /\ UNCHANGED <<prog, stmts, retSlot>>

-----------------------------------------------------------------------------
(* The second loop *)

\* The argument at k of its call has an earlier sibling that is a call.
BehindCall(code, k) ==
  \E c \in Range(code) : \E m, n \in DOMAIN c.sub :
    /\ c.kind = "call" /\ m < n /\ c.sub[n] = code[k].at
    /\ \E b \in Range(code) : b.at = c.sub[m] /\ b.kind = "call"

\* Where findSplice looks: it goes into calls and no literal.
Reachable(code, k, slot) == code[k].kind = "slot" /\ code[k].slot = slot /\ code[k].within = {}

\* Slip: a producer moves past the calls its reader evaluates first.
FindSpliceAnywhere(code, slot) == {k \in DOMAIN code : Reachable(code, k, slot)}

\* findSplice: the argument that reads the slot, none if an argument before it
\* in the same call is itself a call.
FindSplice(code, slot) == {k \in DOMAIN code : Reachable(code, k, slot) /\ ~ BehindCall(code, k)}

\* The statement at index is a call whose one result is read once, by the
\* statement after it.
Splicing == phase = "splice" /\ index < Len(stmts)
Producer == stmts[index]
Reader == stmts[index + 1]
Target ==
  IF /\ Producer.kind = "call" /\ Producer.out # None
     /\ \E r \in Readers(Producer.out) : Readers(Producer.out) = {r}
     /\ Producer.out \notin AddrTaken
     /\ Reader.kind = "call"
  THEN FindSplice(Reader.code, Producer.out)
  ELSE {}

\* The operations of a statement, their last value sent to a place.
SentTo(o, place) == [o EXCEPT !.at = place]
Placed(code, place) == [code EXCEPT ![Len(code)] = SentTo(@, place)]

\* A text with another where its operation k was.
Spliced(code, k, inner) == SubSeq(code, 1, k - 1) \o inner \o SubSeq(code, k + 1, Len(code))
WithCode(s, code) == [s EXCEPT !.code = code]

SpliceAt(k) ==
  stmts' = [j \in 1..(Len(stmts) - 1) |->
              IF j < index THEN stmts[j]
              ELSE IF j > index THEN stmts[j + 1]
              ELSE WithCode(Reader, Spliced(Reader.code, k, Placed(Producer.code, Reader.code[k].at)))]

Splice ==
  /\ Splicing
  /\ \E k \in Target : SpliceAt(k)
  /\ UNCHANGED <<prog, phase, index, retSlot>>

Skip ==
  /\ Splicing
  /\ Target = {}
  /\ index' = index + 1
  /\ UNCHANGED <<prog, phase, stmts, retSlot>>

Planned ==
  /\ phase = "splice" /\ index >= Len(stmts)
  /\ phase' = "planned"
  /\ UNCHANGED <<prog, index, stmts, retSlot>>

PlanInit ==
  /\ prog \in Programs
  /\ phase = "collect"
  /\ index = 1
  /\ stmts = <<>>
  /\ retSlot = None

PlanNext ==
  \/ Keep \/ KeepName \/ DropReturn \/ Refuse \/ Collected
  \/ Splice \/ Skip \/ Planned

PlanSpec == PlanInit /\ [][PlanNext]_planVars

-----------------------------------------------------------------------------
(* What the plan leaves for the frame *)

\* The names that keep a field of the frame, and how often each is written.
Live ==
  prog.inits \cup {stmts[i].out : i \in DOMAIN stmts} \cup {retSlot}

\* A name that holds a struct by value: what a literal was assigned to.
IsStruct(slot) == \E k \in DOMAIN prog.stmts : prog.stmts[k].kind = "assign" /\ prog.stmts[k].out = slot

Writes(slot) ==
  Cardinality({k \in DOMAIN stmts :
                 stmts[k].out = slot /\ (stmts[k].kind = "set" => IsStruct(slot))})
    + (IF slot \in prog.inits THEN 1 ELSE 0)

-----------------------------------------------------------------------------
(* Shapes of programs *)

\* What may fail, or be seen: its place in the order of evaluation matters.
Loud == {"call", "field", "deref", "part"}

\* The next statement reads the name of a call behind operations that findSplice
\* does not look at: c(n(), m(x)), c(T{n()}, x), c(n().F, x).
RunsAhead(p, kinds) ==
  \E i \in DOMAIN p.stmts :
    /\ i > 1 /\ p.stmts[i].kind = "call" /\ p.stmts[i - 1].kind = "call"
    /\ \E k \in DOMAIN p.stmts[i].code :
         /\ Reachable(p.stmts[i].code, k, p.stmts[i - 1].out) /\ ~ BehindCall(p.stmts[i].code, k)
         /\ \E j \in 1..(k - 1) : p.stmts[i].code[j].kind \in kinds

\* A read that is not counted, of a name written twice.
Rewritten(p) == p.inits \cup {s \in Slots :
  \E j, k \in DOMAIN p.stmts : j < k /\ p.stmts[j].out = s /\ p.stmts[k].out = s}
HiddenRead(p) == \E o \in OpsOf(p.stmts) :
  (o.kind = "deref" \/ "slice" \in o.within) /\ o.slot \in Rewritten(p)

\* A return with statements after it.
EarlyReturn(p) ==
  \E i \in DOMAIN p.stmts : i < Len(p.stmts) /\ p.stmts[i].kind \notin Kept

-----------------------------------------------------------------------------
(* Properties *)

\* Operation x runs before operation y.
Precedes(ss, x, y) ==
  \E i \in DOMAIN ss : \E j \in DOMAIN ss[i].code :
    /\ ss[i].code[j].id = x
    /\ \E m \in DOMAIN ss : \E n \in DOMAIN ss[m].code :
         ss[m].code[n].id = y /\ (i < m \/ (i = m /\ j < n))

\* The operations of some kinds are those of the source, in its order.
KeepsOrder(kinds) ==
  LET idsIn(ss) == {o.id : o \in {q \in OpsOf(ss) : q.kind \in kinds}}
      source == {k \in DOMAIN prog.stmts : prog.stmts[k].kind \in Kept}
      ids == UNION {{o.id : o \in {q \in Range(prog.stmts[k].code) : q.kind \in kinds}} : k \in source}
  IN /\ idsIn(stmts) = ids
     /\ \A x, y \in ids : Precedes(stmts, x, y) <=> Precedes(prog.stmts, x, y)

\* stepjit_plan.go:93-95: a splice "keeps the order of calls the source wrote".
\* No planning step drops a producer, runs one twice, or moves one past another
\* call.
PlanKeepsCalls == phase \in {"splice", "planned"} => KeepsOrder({"call"})

\* The operation whose value a name holds when statement i begins.
Writers(ss, i, slot) == {m \in DOMAIN ss : m < i /\ ss[m].out = slot /\ ss[m].kind # "set"}
LastWrite(ss, i, slot) ==
  IF Writers(ss, i, slot) = {} THEN None
  ELSE Root(ss[CHOOSE m \in Writers(ss, i, slot) : \A n \in Writers(ss, i, slot) : n <= m]).id

\* The operation whose value an operand of statement i is.
Feed(ss, i, place) ==
  LET o == CHOOSE q \in Range(ss[i].code) : q.at = place
  IN IF o.kind = "slot" THEN LastWrite(ss, i, o.slot) ELSE o.id

\* stepjit_plan.go:88-91 and 247-249: a value that loses its slot travels as a
\* closure's return value, and the planner keeps a producer while anything
\* still points at its slot.  So every operation of the plan, every field
\* store and the return work on the values they work on in the source; a name left without storage
\* refuses the program.
PlanKeepsReads ==
  phase \in {"splice", "planned"} =>
    /\ \A i \in DOMAIN stmts : \A o \in Range(stmts[i].code) :
         \E m \in DOMAIN prog.stmts :
           /\ \E q \in Range(prog.stmts[m].code) : q.id = o.id
           /\ o.slot \in Live \ {None} => LastWrite(stmts, i, o.slot) = LastWrite(prog.stmts, m, o.slot)
           /\ \A q \in Range(stmts[i].code) :
                q.at \in Range(o.sub) /\ q.slot \in Live \cup {None} =>
                  Feed(stmts, i, q.at) = Feed(prog.stmts, m, q.at)
    /\ \A i \in DOMAIN stmts : stmts[i].kind = "set" =>
         LastWrite(stmts, i, stmts[i].out) = LastWrite(prog.stmts, stmts[i].line, stmts[i].out)
    /\ retSlot # None =>
         \E m \in DOMAIN prog.stmts :
           /\ prog.stmts[m].kind = "return"
           /\ LastWrite(stmts, Len(stmts) + 1, retSlot) = LastWrite(prog.stmts, m, retSlot)
=============================================================================
