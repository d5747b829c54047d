------------------------- MODULE ProgramTiersProofs -------------------------
(***************************************************************************)
(* The two tiers agree on every program that takes no address, unless it   *)
(* has one of the shapes of ProgramTiers and InlinePlan on which they are  *)
(* known not to.                                                           *)
(***************************************************************************)
EXTENDS ProgramTiers, InlinePlanProofs

-----------------------------------------------------------------------------
(***************************************************************************)
(* The layout of the plan.  Operands come before what takes them; what a   *)
(* statement of the plan runs comes from its own line and the lines of the *)
(* statements spliced into it; only calls are spliced, into calls; what is *)
(* not in the plan at the end is a return of a name, or a bare one.        *)
(***************************************************************************)
Linked ==
  \A i \in DOMAIN stmts : \A j \in DOMAIN stmts[i].code : \A place \in Range(stmts[i].code[j].sub) :
    \E n \in 1..(j - 1) : stmts[i].code[n].at = place

Blocks ==
  \A j \in DOMAIN stmts : \A o \in Range(stmts[j].code) : \E n \in DOMAIN prog.stmts :
    /\ FromLine(o, n) /\ n <= stmts[j].line
    /\ \A i \in DOMAIN stmts : i < j => stmts[i].line < n

Untouched ==
  \A j \in DOMAIN stmts : stmts[j].kind # "call" => stmts[j] = prog.stmts[stmts[j].line]

Present ==
  \A n \in DOMAIN prog.stmts : prog.stmts[n].kind \in Kept \ {"call"} =>
    \E j \in DOMAIN stmts : stmts[j].line = n

LayoutInv == phase \in {"splice", "planned"} => Linked /\ Blocks /\ Untouched /\ Present

\* Of the lines the first loop is past.
EndingInv ==
  phase # "refused" =>
    \A n \in DOMAIN prog.stmts : prog.stmts[n].kind \notin Kept /\ (phase = "collect" => n < index) =>
      /\ n = Len(prog.stmts)
      /\ prog.stmts[n].kind \in {"return", "stop"}
      /\ prog.stmts[n].kind = "return" => Root(prog.stmts[n]).kind = "slot" /\ retSlot = Root(prog.stmts[n]).slot

\* The operands of an operation come before it.
LEMMA StmtLinks ==
  ASSUME NEW s, IsStmt(s)
  PROVE  \A j \in DOMAIN s.code : \A place \in Range(s.code[j].sub) :
           \E n \in 1..(j - 1) : s.code[n].at = place
BY DEF IsStmt

\* A splice brings the producer's operands with it, and its value comes before
\* what took the read.
LEMMA SpliceLinked ==
  ASSUME NEW k, Splices(k), Linked
  PROVE  Linked'
<1>1. /\ Spliceable(k) /\ SpliceAt(k) /\ prog \in Programs /\ index \in DOMAIN stmts /\ index + 1 \in DOMAIN stmts
      /\ k \in Nat \ {0} /\ ReaderLen \in Nat /\ k < ReaderLen /\ ProducerLen \in Nat \ {0}
      /\ DOMAIN Producer.code = 1..ProducerLen /\ DOMAIN Reader.code = 1..ReaderLen
  BY LoopText, PosNumbers, SpliceSites DEF Splices, Spliceable, Producer, Reader
<1>2. SUFFICES ASSUME NEW i \in DOMAIN stmts', NEW j \in DOMAIN stmts'[i].code,
                      NEW place \in Range(stmts'[i].code[j].sub)
               PROVE  \E n \in 1..(j - 1) : stmts'[i].code[n].at = place
  BY DEF Linked
<1>3. CASE i # index
  <2>1. stmts'[i] = stmts[OldLine(i)] /\ OldLine(i) \in DOMAIN stmts
    BY <1>1, <1>3, PosAround DEF OldLine
  <2> QED BY <1>2, <2>1 DEF Linked
<1>4. CASE i = index
  <2> DEFINE a == Reader.code
             b == Producer.code
             c == stmts'[i].code
             A == ReaderLen
             B == ProducerLen
  <2>1. /\ DOMAIN c = 1..(A + B - 1)
        /\ \A m \in 1..(A + B - 1) :
             c[m] = IF m < k THEN a[m]
                    ELSE IF m < k + B - 1 THEN b[m - k + 1]
                    ELSE IF m = k + B - 1 THEN SentTo(b[B], a[k].at)
                    ELSE a[m - B + 1]
    BY <1>1, <1>4, SplicedReader DEF ReaderLen, ProducerLen
  <2>2. \A m \in 1..A : \A p \in Range(a[m].sub) : \E n \in 1..(m - 1) : a[n].at = p
    BY <1>1 DEF Linked, Reader
  <2>3. \A m \in 1..B : \A p \in Range(b[m].sub) : \E n \in 1..(m - 1) : b[n].at = p
    BY <1>1 DEF Linked, Producer
  <2>4. SentTo(b[B], a[k].at).sub = b[B].sub /\ SentTo(b[B], a[k].at).at = a[k].at
    <3>1. b[B] = Root(Producer) /\ IsOp(Root(Producer))
      BY <1>1, SpliceSites, CallRoot DEF Root, ProducerLen
    <3> QED BY <3>1, SentToFields
  <2> HIDE DEF a, b, c, A, B
  <2>5. j \in 1..(A + B - 1) /\ place \in Range(c[j].sub) /\ A \in Nat /\ B \in Nat \ {0} /\ k < A /\ k \in Nat \ {0}
    BY <1>1, <1>2, <2>1 DEF A, B, c
  <2>6. CASE j < k
    <3>0. j \in 1..A /\ c[j] = a[j]
      BY <2>1, <2>5, <2>6
    <3>1. PICK n \in 1..(j - 1) : a[n].at = place
      BY <2>2, <2>5, <3>0
    <3>2. n \in 1..(A + B - 1) /\ n < k
      BY <2>5, <2>6, <3>1
    <3>3. c[n] = a[n]
      BY <2>1, <3>2
    <3> QED BY <3>1, <3>3 DEF c
  <2>7. CASE j >= k /\ j < k + B - 1
    <3>1. j - k + 1 \in 1..B /\ c[j] = b[j - k + 1]
      BY <2>1, <2>5, <2>7
    <3>2. PICK n \in 1..(j - k) : b[n].at = place
      BY <2>3, <2>5, <3>1
    <3> DEFINE m == n + k - 1
    <3>3. m \in 1..(j - 1) /\ m \in 1..(A + B - 1) /\ ~ (m < k) /\ m < k + B - 1 /\ m - k + 1 = n
      BY <2>5, <2>7, <3>2
    <3>4. c[m] = b[n]
      BY <2>1, <3>3
    <3> QED BY <3>2, <3>3, <3>4 DEF c
  <2>8. CASE j = k + B - 1
    <3>1. B \in 1..B /\ c[j].sub = b[B].sub
      BY <2>1, <2>4, <2>5, <2>8
    <3>2. PICK n \in 1..(B - 1) : b[n].at = place
      BY <2>3, <2>5, <3>1
    <3> DEFINE m == n + k - 1
    <3>3. m \in 1..(j - 1) /\ m \in 1..(A + B - 1) /\ ~ (m < k) /\ m < k + B - 1 /\ m - k + 1 = n
      BY <2>5, <2>8, <3>2
    <3>4. c[m] = b[n]
      BY <2>1, <3>3
    <3> QED BY <3>2, <3>3, <3>4 DEF c
  <2>9. CASE j > k + B - 1
    <3>1. j - B + 1 \in 1..A /\ c[j] = a[j - B + 1]
      BY <2>1, <2>5, <2>9
    <3>2. PICK n \in 1..(j - B) : a[n].at = place
      BY <2>2, <2>5, <3>1
    <3>3. CASE n < k
      <4>1. n \in 1..(j - 1) /\ n \in 1..(A + B - 1)
        BY <2>5, <2>9, <3>2
      <4>2. c[n] = a[n]
        BY <2>1, <3>3, <4>1
      <4> QED BY <3>2, <4>1, <4>2 DEF c
    <3>4. CASE n = k
      <4> DEFINE m == k + B - 1
      <4>1. m \in 1..(j - 1) /\ m \in 1..(A + B - 1) /\ ~ (m < k)
        BY <2>5, <2>9
      <4>2. c[m] = SentTo(b[B], a[k].at)
        BY <2>1, <4>1
      <4> QED BY <2>4, <3>2, <3>4, <4>1, <4>2 DEF c
    <3>5. CASE n > k
      <4> DEFINE m == n + B - 1
      <4>1. m \in 1..(j - 1) /\ m \in 1..(A + B - 1) /\ m > k + B - 1 /\ m - B + 1 = n
        BY <2>5, <2>9, <3>2, <3>5
      <4>2. c[m] = a[n]
        BY <2>1, <2>5, <4>1
      <4> QED BY <3>2, <4>1, <4>2 DEF c
    <3> QED BY <2>5, <3>2, <3>3, <3>4, <3>5
  <2> QED BY <2>5, <2>6, <2>7, <2>8, <2>9
<1> QED BY <1>3, <1>4

\* It joins the lines of two neighbours.
LEMMA SpliceBlocks ==
  ASSUME NEW k, Splices(k), Blocks
  PROVE  Blocks'
<1>1. /\ Spliceable(k) /\ SpliceAt(k) /\ prog' = prog /\ prog \in Programs /\ Shape
      /\ index \in Nat \ {0} /\ index < Len(stmts) /\ Len(stmts) \in Nat
      /\ DOMAIN stmts = 1..Len(stmts) /\ DOMAIN stmts' = 1..(Len(stmts) - 1)
      /\ Producer = stmts[index] /\ Reader = stmts[index + 1]
  BY LoopText, PosNumbers DEF Splices, Spliceable, Producer, Reader
<1>2. SUFFICES ASSUME NEW j \in DOMAIN stmts', NEW o \in Range(stmts'[j].code)
               PROVE  \E n \in DOMAIN prog.stmts :
                        /\ FromLine(o, n) /\ n <= stmts'[j].line
                        /\ \A i \in DOMAIN stmts' : i < j => stmts'[i].line < n
  <2>1. \A o, n : FromLine(o, n)' <=> FromLine(o, n)
    BY <1>1 DEF FromLine, MovedFrom
  <2> QED BY <1>1, <2>1 DEF Blocks
<1>3. stmts'[j].line = stmts[OldLine(j)].line /\ OldLine(j) \in DOMAIN stmts
  BY <1>1, SplicedLines
<1>4. ASSUME NEW l \in DOMAIN stmts, NEW n \in DOMAIN prog.stmts, FromLine(o, n),
             l = OldLine(j) \/ (j = index /\ l = index),
             n <= stmts[l].line, \A i \in DOMAIN stmts : i < l => stmts[i].line < n
      PROVE  /\ n <= stmts'[j].line
             /\ \A i \in DOMAIN stmts' : i < j => stmts'[i].line < n
  <2>1. stmts[l].line <= stmts[OldLine(j)].line
    <3>1. CASE l = OldLine(j)
      <4>1. stmts[l].line \in Int
        BY <1>1, SourceLines DEF Shape, StmtShape
      <4> QED BY <3>1, <4>1
    <3>2. CASE j = index /\ l = index
      <4>1. index < OldLine(j) /\ index \in DOMAIN stmts /\ stmts[index].line \in Int /\ stmts[OldLine(j)].line \in Int
        BY <1>1, <1>3, <3>2, SourceLines DEF OldLine, Shape, StmtShape
      <4>2. stmts[index].line < stmts[OldLine(j)].line
        BY <1>1, <1>3, <4>1 DEF Shape
      <4> QED BY <3>2, <4>1, <4>2
    <3> QED BY <1>4, <3>1, <3>2
  <2>2. n \in Int /\ stmts[l].line \in Int /\ stmts[OldLine(j)].line \in Int
    BY <1>1, <1>3, SourceLines DEF Shape, StmtShape
  <2>3. ASSUME NEW i \in DOMAIN stmts', i < j PROVE stmts'[i].line < n
    <3>1. stmts'[i].line = stmts[OldLine(i)].line /\ OldLine(i) \in DOMAIN stmts
      BY <1>1, SplicedLines
    <3>2. OldLine(i) < l
      BY <1>1, <1>4, <2>3 DEF OldLine
    <3> QED BY <1>4, <3>1, <3>2
  <2> QED BY <1>3, <1>4, <2>1, <2>2, <2>3
<1>5. CASE o \in Range(stmts[OldLine(j)].code)
  BY <1>3, <1>4, <1>5 DEF Blocks
<1>6. CASE j = index /\ o \in Range(Producer.code)
  <2>1. index \in DOMAIN stmts
    BY <1>1
  <2> QED BY <1>1, <1>4, <1>6, <2>1 DEF Blocks
<1>7. CASE j = index /\ MovedFrom(o, Producer.line)
  <2>1. /\ index \in DOMAIN stmts /\ Producer.line \in DOMAIN prog.stmts /\ FromLine(o, Producer.line)
        /\ Producer.line \in Int
    BY <1>1, <1>7, SpliceSites, SourceLines DEF FromLine
  <2>2. \A i \in DOMAIN stmts : i < index => stmts[i].line < Producer.line
    BY <1>1, <2>1 DEF Shape
  <2> QED BY <1>1, <1>4, <1>7, <2>1, <2>2
<1> QED BY <1>1, <1>5, <1>6, <1>7, SplicedOp

\* It changes a call statement and drops one.
LEMMA SpliceUntouched ==
  ASSUME NEW k, Splices(k), Untouched, Present
  PROVE  Untouched' /\ Present'
<1>1. /\ Spliceable(k) /\ SpliceAt(k) /\ prog' = prog /\ Shape
      /\ index \in Nat \ {0} /\ index < Len(stmts) /\ Len(stmts) \in Nat
      /\ DOMAIN stmts = 1..Len(stmts) /\ DOMAIN stmts' = 1..(Len(stmts) - 1)
  BY LoopText, PosNumbers DEF Splices, Spliceable
<1>2. Producer.kind = "call" /\ Reader.kind = "call"
  BY <1>1, SpliceSites
<1>3. ASSUME NEW j \in DOMAIN stmts', stmts'[j].kind # "call"
      PROVE  stmts'[j] = prog.stmts[stmts'[j].line]
  <2>1. OldLine(j) \in DOMAIN stmts /\ stmts'[j].kind = stmts[OldLine(j)].kind
    BY <1>1, SplicedLines
  <2>2. j # index
    BY <1>1, <1>2, <1>3, <2>1 DEF OldLine, Reader
  <2>3. stmts'[j] = stmts[OldLine(j)]
    BY <1>1, <2>2, PosAround DEF OldLine
  <2> QED BY <1>3, <2>1, <2>3 DEF Untouched
<1>4. ASSUME NEW n \in DOMAIN prog.stmts, prog.stmts[n].kind \in Kept \ {"call"}
      PROVE  \E j \in DOMAIN stmts' : stmts'[j].line = n
  <2>1. PICK l \in DOMAIN stmts : stmts[l].line = n
    BY <1>4 DEF Present
  <2>2. l # index
    BY <1>1, <1>2, <1>4, <2>1 DEF Shape, StmtShape, Producer
  <2>3. PICK j \in DOMAIN stmts' : OldLine(j) = l
    <3>1. CASE l < index
      <4>1. l \in DOMAIN stmts' /\ OldLine(l) = l
        BY <1>1, <3>1 DEF OldLine
      <4> QED BY <4>1
    <3>2. CASE l > index
      <4>1. l - 1 \in DOMAIN stmts' /\ OldLine(l - 1) = l
        BY <1>1, <3>2 DEF OldLine
      <4> QED BY <4>1
    <3> QED BY <1>1, <2>2, <3>1, <3>2
  <2> QED BY <1>1, <2>1, <2>3, SplicedLines
<1> QED BY <1>1, <1>3, <1>4 DEF Untouched, Present

\* The second loop begins with the layout of the source.
LEMMA CollectedLayout ==
  ASSUME FirstLoopDone
  PROVE  LayoutInv'
<1>1. /\ prog \in Programs /\ DOMAIN stmts = 1..Len(stmts)
      /\ \A j \in DOMAIN stmts :
           /\ j \in DOMAIN prog.stmts /\ j \in Nat \ {0} /\ stmts[j] = prog.stmts[j]
           /\ stmts[j].line = j /\ stmts[j].kind \in Kept
      /\ \A j \in DOMAIN prog.stmts : prog.stmts[j].kind \in Kept => j \in DOMAIN stmts
  BY CollectedText
<1>2. prog' = prog /\ stmts' = stmts
  BY DEF FirstLoopDone, Collected
<1>3. Linked
  <2>1. ASSUME NEW i \in DOMAIN stmts
        PROVE  \A j \in DOMAIN stmts[i].code : \A place \in Range(stmts[i].code[j].sub) :
                 \E n \in 1..(j - 1) : stmts[i].code[n].at = place
    <3>1. i \in DOMAIN prog.stmts /\ IsStmt(prog.stmts[i]) /\ stmts[i] = prog.stmts[i]
      BY <1>1, SourceLines
    <3> QED BY <3>1, StmtLinks
  <2> QED BY <2>1 DEF Linked
<1>4. Blocks
  <2>1. ASSUME NEW j \in DOMAIN stmts, NEW o \in Range(stmts[j].code)
        PROVE  /\ j \in DOMAIN prog.stmts /\ FromLine(o, j) /\ j <= stmts[j].line
               /\ \A i \in DOMAIN stmts : i < j => stmts[i].line < j
    BY <1>1 DEF FromLine
  <2> QED BY <2>1 DEF Blocks
<1>5. Untouched /\ Present
  BY <1>1 DEF Untouched, Present
<1> QED BY <1>2, <1>3, <1>4, <1>5 DEF LayoutInv, Linked, Blocks, Untouched, Present, FromLine, MovedFrom

\* Every step of the planner keeps the layout.
LEMMA StepLayout ==
  ASSUME BInv, LayoutInv, [PlanNext]_planVars, ~ EarlyReturn(prog)
  PROVE  LayoutInv'
<1>1. CASE FirstLoop /\ (Keep \/ KeepName \/ DropReturn)
  BY <1>1 DEF FirstLoop, Collecting, Keep, KeepName, DropReturn, LayoutInv
<1>2. CASE phase' = "refused"
  BY <1>2 DEF LayoutInv
<1>3. CASE FirstLoopDone
  BY <1>3, CollectedLayout
<1>4. CASE \E k : Splices(k)
  <2>1. PICK k : Splices(k)
    BY <1>4
  <2>2. phase = "splice"
    BY <2>1 DEF Splices, Spliceable, Looping
  <2> QED BY <2>1, <2>2, SpliceLinked, SpliceBlocks, SpliceUntouched DEF LayoutInv
<1>5. CASE /\ phase = "splice" /\ phase' \in {"splice", "planned"}
           /\ UNCHANGED <<prog, stmts>>
  <2>1. Linked /\ Blocks /\ Untouched /\ Present
    BY <1>5 DEF LayoutInv
  <2> QED BY <1>5, <2>1 DEF LayoutInv, Linked, Blocks, Untouched, Present, FromLine, MovedFrom
<1>6. CASE UNCHANGED planVars
  <2>1. CASE phase \in {"splice", "planned"}
    <3>1. Linked /\ Blocks /\ Untouched /\ Present
      BY <2>1 DEF LayoutInv
    <3> QED BY <1>6, <3>1 DEF planVars, LayoutInv, Linked, Blocks, Untouched, Present, FromLine, MovedFrom
  <2>2. CASE phase \notin {"splice", "planned"}
    BY <1>6, <2>2 DEF planVars, LayoutInv
  <2> QED BY <2>1, <2>2
<1> QED BY <1>1, <1>2, <1>3, <1>4, <1>5, <1>6, StepKinds

\* Only a return of a name and a bare return are left out of a plan.
LEMMA StepEnding ==
  ASSUME BInv, EndingInv, [PlanNext]_planVars, ~ EarlyReturn(prog)
  PROVE  EndingInv'
<1>1. CASE FirstLoop /\ Keep
  <2>1. Current.kind \in Kept /\ phase = "collect" /\ index \in Nat /\ DOMAIN prog.stmts \subseteq Nat
    BY <1>1, CollectText, SourceLines DEF Keep, Collecting
  <2>2. /\ index' = index + 1 /\ phase' = phase /\ UNCHANGED <<prog, retSlot>>
    BY <1>1 DEF Keep
  <2>3. \A n \in DOMAIN prog.stmts : n < index + 1 /\ prog.stmts[n].kind \notin Kept => n < index
    BY <2>1 DEF Current
  <2> QED BY <2>1, <2>2, <2>3 DEF EndingInv
<1>2. CASE FirstLoop /\ (KeepName \/ DropReturn)
  <2>1. /\ phase = "collect" /\ index \in Nat /\ index \in DOMAIN prog.stmts /\ DOMAIN prog.stmts \subseteq Nat
        /\ retSlot = None /\ prog \in Programs
    BY <1>2, CollectText, SourceLines DEF KeepName, DropReturn, Collecting
  <2>2. index = Len(prog.stmts) /\ index' = index + 1 /\ phase' = phase /\ prog' = prog
    BY <1>2, CollectText DEF KeepName, DropReturn, Kept
  <2>3. \/ /\ Current.kind = "return" /\ Root(Current).kind = "slot" /\ retSlot' = Root(Current).slot
        \/ Current.kind = "stop"
    BY <1>2 DEF KeepName, DropReturn
  <2>4. ASSUME NEW n \in DOMAIN prog.stmts, prog.stmts[n].kind \notin Kept, n < index + 1
        PROVE  n = index
    <3>1. SUFFICES ASSUME n # index PROVE FALSE
      OBVIOUS
    <3>2. n < Len(prog.stmts)
      BY <2>1, <2>2, <2>4, <3>1
    <3> QED BY <1>2, <2>4, <3>2 DEF FirstLoop, EarlyReturn
  <2> QED BY <2>1, <2>2, <2>3, <2>4 DEF EndingInv, Current
<1>3. CASE phase' = "refused"
  BY <1>3 DEF EndingInv
<1>4. CASE FirstLoopDone
  <2>1. phase = "collect" /\ index > Len(prog.stmts) /\ UNCHANGED <<prog, retSlot>> /\ phase' = "splice" /\ prog \in Programs
    BY <1>4, CollectedText DEF FirstLoopDone, Collected
  <2>2. \A n \in DOMAIN prog.stmts : n < index
    BY <1>4, <2>1, SourceLines DEF FirstLoopDone, BInv, PlanTypes
  <2> QED BY <2>1, <2>2 DEF EndingInv
<1>5. CASE \E k : Splices(k)
  BY <1>5 DEF Splices, Spliceable, Looping, EndingInv
<1>6. CASE /\ phase = "splice" /\ phase' \in {"splice", "planned"} /\ UNCHANGED <<prog, retSlot>>
  BY <1>6 DEF EndingInv
<1>7. CASE UNCHANGED planVars
  BY <1>7 DEF planVars, EndingInv
<1> QED BY <1>1, <1>2, <1>3, <1>4, <1>5, <1>6, <1>7, StepKinds


-----------------------------------------------------------------------------
(***************************************************************************)
(* What a tier runs, apart from how far it is.  A world is the text of a   *)
(* tier, the steps it makes of each statement, the names that hold structs *)
(* and the name the tier reads at the end.  A point is a step of it.       *)
(***************************************************************************)
Structs == {s \in Slots : IsStruct(s)}

World(tier) ==
  [text |-> Text(tier), script |-> [i \in DOMAIN Text(tier) |-> Steps(tier, Text(tier)[i])],
   structs |-> Structs, returns |-> IF tier = "jit" THEN retSlot ELSE None]

Points(w) == UNION {{i} \X DOMAIN w.script[i] : i \in DOMAIN w.text}
StepAt(w, e) == w.script[e[1]][e[2]]
IsCode(q) == q.kind \in OpKinds

\* The steps of a statement are its operations, behind at most one step of
\* another kind, and the one that does something with their value, in front of
\* which a field store may check its base.
LastMark(s) ==
  CASE s.kind \in {"call", "assign", "lit"} -> IF s.out = None THEN "drop" ELSE "store"
    [] s.kind = "set" -> "put"
    [] s.kind = "return" -> "result"
    [] OTHER -> "end"

Lead(c) == IF c[1].kind \in {"check", "clear"} THEN 1 ELSE 0

LineOK(s, c) ==
  /\ Len(c) \in Nat /\ DOMAIN c = 1..Len(c) /\ Len(s.code) \in Nat /\ DOMAIN s.code = 1..Len(s.code)
  /\ Lead(c) + Len(s.code) < Len(c)
  /\ s.kind = "set" => Len(c) = Len(s.code) + 2
  /\ \A l \in DOMAIN s.code : c[Lead(c) + l] = s.code[l]
  /\ c[Len(c)] = Mark(LastMark(s), s)
  /\ \A h \in DOMAIN c : h < Len(c) /\ (h <= Lead(c) \/ h > Lead(c) + Len(s.code)) =>
       \/ s.kind = "assign" /\ h = 1 /\ c[h] = Mark("clear", s)
       \/ s.kind = "set" /\ c[h] = Mark("check", s)

\* A text whose operations take their operands from before them, in places of
\* their own; a literal does not read the name it is built in.
OperationOK(s, j) ==
  LET q == s.code[j] IN
  /\ q.kind \in OpKinds \ {"addr"}
  /\ q.kind \in Naming => q.slot \in Slots
  /\ q.kind \in {"lit", "slice", "part"} => DOMAIN q.sub = {1}
  /\ q.kind = "call" => \E n \in Nat : DOMAIN q.sub = 1..n
  /\ \A place \in Range(q.sub) : \E n \in 1..(j - 1) : s.code[n].at = place
  /\ s.kind = "assign" => q.slot # s.out

TextOK(ss) ==
  /\ Len(ss) \in Nat /\ DOMAIN ss = 1..Len(ss)
  /\ \A i \in DOMAIN ss :
       /\ ss[i].kind \in Kept \cup {"return", "stop"} /\ (ss[i].kind \notin Kept => i = Len(ss) /\ ss[i].out = None)
       /\ ss[i].kind # "stop" => Len(ss[i].code) > 0
       /\ ss[i].out \in Slots \cup {None} /\ (ss[i].kind \in {"assign", "lit", "set"} => ss[i].out \in Slots)
       /\ \A j \in DOMAIN ss[i].code : OperationOK(ss[i], j)
  /\ \A i, m \in DOMAIN ss : \A j \in DOMAIN ss[i].code, n \in DOMAIN ss[m].code :
       ss[i].code[j].at = ss[m].code[n].at => i = m /\ j = n

WorldOK(w) ==
  /\ TextOK(w.text)
  /\ \A i \in DOMAIN w.text : LineOK(w.text[i], w.script[i])
  /\ w.structs \subseteq Slots
  /\ w.returns \in Slots \cup {None}
  /\ w.returns # None => \A i \in DOMAIN w.text : w.text[i].kind \in Kept

\* Where a point is.
LEMMA PointParts ==
  ASSUME NEW w, WorldOK(w), NEW e \in Points(w)
  PROVE  /\ e[1] \in DOMAIN w.text /\ e[2] \in DOMAIN w.script[e[1]] /\ e = <<e[1], e[2]>>
         /\ e[1] \in Nat \ {0} /\ e[2] \in Nat \ {0} /\ e[1] <= Len(w.text) /\ e[2] <= Len(w.script[e[1]])
         /\ Len(w.text) \in Nat /\ Len(w.script[e[1]]) \in Nat \ {0}
<1>1. e[1] \in DOMAIN w.text /\ e[2] \in DOMAIN w.script[e[1]] /\ e = <<e[1], e[2]>>
  BY DEF Points
<1>2. Len(w.text) \in Nat /\ DOMAIN w.text = 1..Len(w.text)
  BY DEF WorldOK, TextOK
<1>3. Len(w.script[e[1]]) \in Nat /\ DOMAIN w.script[e[1]] = 1..Len(w.script[e[1]])
  BY <1>1 DEF WorldOK, LineOK
<1> QED BY <1>1, <1>2, <1>3

\* A step of a statement is a point.
LEMMA PointIn ==
  ASSUME NEW w, NEW i \in DOMAIN w.text, NEW h \in DOMAIN w.script[i]
  PROVE  <<i, h>> \in Points(w) /\ StepAt(w, <<i, h>>) = w.script[i][h]
BY DEF Points, StepAt

\* The order of points is total.
LEMMA LtOrder ==
  ASSUME NEW w, WorldOK(w), NEW d \in Points(w), NEW e \in Points(w)
  PROVE  /\ Lt(d, e) \/ d = e \/ Lt(e, d)
         /\ ~ (Lt(d, e) /\ Lt(e, d)) /\ ~ Lt(e, e)
         /\ \A c \in Points(w) : Lt(c, d) /\ Lt(d, e) => Lt(c, e)
<1>1. /\ d[1] \in Nat /\ d[2] \in Nat /\ d = <<d[1], d[2]>>
      /\ e[1] \in Nat /\ e[2] \in Nat /\ e = <<e[1], e[2]>>
  BY PointParts
<1>2. \A c \in Points(w) : c[1] \in Nat /\ c[2] \in Nat
  BY PointParts
<1> QED BY <1>1, <1>2 DEF Lt

\* The kinds of marks.
Marks == {"store", "drop", "clear", "check", "put", "result", "end"}

\* What a mark takes.
LEMMA MarkFields ==
  ASSUME NEW k, NEW s
  PROVE  LET q == Mark(k, s) IN
         q.kind = k /\ q.slot = s.out /\ q.sub = (IF s.code = <<>> THEN <<>> ELSE <<Root(s).at>>)
BY DEF Mark, Op

\* No mark is an operation.
LEMMA KindsApart == OpKinds \cap Marks = {}
BY DEF OpKinds, Naming, Marks

\* A statement ends with one of the other marks.
LEMMA LastMarkKind ==
  ASSUME NEW s
  PROVE  LastMark(s) \in Marks \ {"check", "clear"}
BY DEF LastMark, Marks

\* An operation of a statement is a point, behind what leads.
LEMMA CodePoint ==
  ASSUME NEW w, WorldOK(w), NEW i \in DOMAIN w.text, NEW j \in DOMAIN w.text[i].code
  PROVE  LET e == <<i, Lead(w.script[i]) + j>>
         IN  /\ e \in Points(w) /\ StepAt(w, e) = w.text[i].code[j] /\ IsCode(StepAt(w, e))
             /\ e[2] < Len(w.script[i])
<1> DEFINE c == w.script[i]
<1>1. LineOK(w.text[i], c)
  BY DEF WorldOK
<1>2. w.text[i].code[j].kind \in OpKinds
  BY DEF WorldOK, TextOK, OperationOK
<1>3. Lead(c) \in Nat
  BY DEF Lead
<1>4. Lead(c) + j \in DOMAIN c /\ c[Lead(c) + j] = w.text[i].code[j] /\ Lead(c) + j < Len(c)
  BY <1>1, <1>3 DEF LineOK
<1> QED BY <1>2, <1>4, PointIn DEF IsCode

\* What a step of a line is.
LEMMA LineStep ==
  ASSUME NEW s, NEW c, LineOK(s, c), \A j \in DOMAIN s.code : IsCode(s.code[j]), NEW h \in DOMAIN c
  PROVE  \/ \E j \in DOMAIN s.code : h = Lead(c) + j /\ c[h] = s.code[j] /\ IsCode(c[h])
         \/ h = Len(c) /\ c[h] = Mark(LastMark(s), s)
         \/ h < Len(c) /\ s.kind = "assign" /\ h = 1 /\ c[h] = Mark("clear", s)
         \/ h < Len(c) /\ s.kind = "set" /\ c[h] = Mark("check", s)
<1>1. /\ Lead(c) \in Nat /\ Len(s.code) \in Nat /\ DOMAIN s.code = 1..Len(s.code)
      /\ Len(c) \in Nat /\ DOMAIN c = 1..Len(c)
  BY DEF LineOK, Lead
<1>2. CASE h > Lead(c) /\ h <= Lead(c) + Len(s.code)
  <2>1. h - Lead(c) \in DOMAIN s.code /\ h = Lead(c) + (h - Lead(c))
    BY <1>1, <1>2
  <2>2. c[h] = s.code[h - Lead(c)]
    BY <2>1 DEF LineOK
  <2> QED BY <2>1, <2>2
<1>3. CASE h = Len(c)
  BY <1>3 DEF LineOK
<1>4. CASE h < Len(c) /\ (h <= Lead(c) \/ h > Lead(c) + Len(s.code))
  BY <1>4 DEF LineOK
<1> QED BY <1>1, <1>2, <1>3, <1>4

\* What a point is.
LEMMA PointKind ==
  ASSUME NEW w, WorldOK(w), NEW e \in Points(w)
  PROVE  LET s == w.text[e[1]]
             c == w.script[e[1]]
             q == StepAt(w, e)
         IN  \/ \E j \in DOMAIN s.code : e[2] = Lead(c) + j /\ q = s.code[j] /\ IsCode(q)
             \/ e[2] = Len(c) /\ q = Mark(LastMark(s), s) /\ q.kind = LastMark(s)
             \/ e[2] < Len(c) /\ s.kind = "assign" /\ e[2] = 1 /\ q = Mark("clear", s) /\ q.kind = "clear"
             \/ e[2] < Len(c) /\ s.kind = "set" /\ q = Mark("check", s) /\ q.kind = "check"
<1>1. PICK s : s = w.text[e[1]]
  OBVIOUS
<1>2. PICK c : c = w.script[e[1]]
  OBVIOUS
<1>3. PICK h : h = e[2]
  OBVIOUS
<1>4. e[1] \in DOMAIN w.text /\ h \in DOMAIN c /\ StepAt(w, e) = c[h]
  BY <1>2, <1>3, PointParts DEF StepAt
<1>5. LineOK(s, c) /\ TextOK(w.text)
  BY <1>1, <1>2, <1>4 DEF WorldOK
<1>6. \A j \in DOMAIN s.code : IsCode(s.code[j])
  BY <1>1, <1>4, <1>5 DEF TextOK, OperationOK, IsCode
<1>7. \/ \E j \in DOMAIN s.code : h = Lead(c) + j /\ c[h] = s.code[j] /\ IsCode(c[h])
      \/ h = Len(c) /\ c[h] = Mark(LastMark(s), s)
      \/ h < Len(c) /\ s.kind = "assign" /\ h = 1 /\ c[h] = Mark("clear", s)
      \/ h < Len(c) /\ s.kind = "set" /\ c[h] = Mark("check", s)
  BY ONLY <1>4, <1>5, <1>6, LineStep
<1>8. \A k : Mark(k, s).kind = k
  BY MarkFields
<1> QED BY <1>1, <1>2, <1>3, <1>4, <1>7, <1>8

\* A place of a text is filled by one operation.
LEMMA TextPlace ==
  ASSUME NEW ss, TextOK(ss), NEW i \in DOMAIN ss, NEW m \in DOMAIN ss,
         NEW j \in DOMAIN ss[i].code, NEW n \in DOMAIN ss[m].code,
         ss[i].code[j].at = ss[m].code[n].at
  PROVE  i = m /\ j = n
BY DEF TextOK

\* An operation is at one point, behind those it takes its operands from.
LEMMA PointPlace ==
  ASSUME NEW w, WorldOK(w), NEW d \in Points(w), NEW e \in Points(w),
         IsCode(StepAt(w, d)), IsCode(StepAt(w, e)), StepAt(w, d).at = StepAt(w, e).at
  PROVE  d = e
<1>1. /\ d[1] \in DOMAIN w.text /\ d = <<d[1], d[2]>>
      /\ e[1] \in DOMAIN w.text /\ e = <<e[1], e[2]>>
  BY PointParts
<1>2. ~ (StepAt(w, d).kind \in Marks) /\ ~ (StepAt(w, e).kind \in Marks)
  BY KindsApart DEF IsCode
<1>3. PICK j \in DOMAIN w.text[d[1]].code : d[2] = Lead(w.script[d[1]]) + j /\ StepAt(w, d) = w.text[d[1]].code[j]
  BY <1>2, PointKind, LastMarkKind DEF Marks
<1>4. PICK n \in DOMAIN w.text[e[1]].code : e[2] = Lead(w.script[e[1]]) + n /\ StepAt(w, e) = w.text[e[1]].code[n]
  BY <1>2, PointKind, LastMarkKind DEF Marks
<1>5. d[1] = e[1] /\ j = n
  <2>1. TextOK(w.text)
    BY DEF WorldOK
  <2> QED BY <1>1, <1>3, <1>4, <2>1, TextPlace
<1> QED BY <1>1, <1>3, <1>4, <1>5

\* What a step takes comes from operations of its line before it.
LEMMA PointOperands ==
  ASSUME NEW w, WorldOK(w), NEW e \in Points(w), NEW place \in Range(StepAt(w, e).sub),
         StepAt(w, e).kind \notin {"clear", "check"}
  PROVE  \E d \in Points(w) :
           d[1] = e[1] /\ Lt(d, e) /\ IsCode(StepAt(w, d)) /\ StepAt(w, d).at = place
<1> DEFINE i == e[1]
           s == w.text[i]
           c == w.script[i]
<1>1. /\ i \in DOMAIN w.text /\ e[2] \in Nat /\ Lead(c) \in Nat /\ Len(s.code) \in Nat
      /\ DOMAIN s.code = 1..Len(s.code)
  <2>1. LineOK(s, c)
    BY PointParts DEF WorldOK
  <2> QED BY <2>1, PointParts DEF Lead, LineOK
<1>2. SUFFICES \E n \in DOMAIN s.code : s.code[n].at = place /\ Lead(c) + n < e[2]
  <2>1. PICK n \in DOMAIN s.code : s.code[n].at = place /\ Lead(c) + n < e[2]
    BY <1>2
  <2> DEFINE d == <<i, Lead(c) + n>>
  <2>2. d \in Points(w) /\ StepAt(w, d) = s.code[n] /\ IsCode(StepAt(w, d))
    BY <1>1, CodePoint
  <2>3. d[1] = i /\ Lt(d, e)
    BY <2>1 DEF Lt
  <2> QED BY <2>1, <2>2, <2>3
<1>3. CASE \E j \in DOMAIN s.code : e[2] = Lead(c) + j /\ StepAt(w, e) = s.code[j]
  <2>1. PICK j \in DOMAIN s.code : e[2] = Lead(c) + j /\ StepAt(w, e) = s.code[j]
    BY <1>3
  <2>2. PICK n \in 1..(j - 1) : s.code[n].at = place
    <3>1. OperationOK(s, j)
      BY <1>1, <2>1 DEF WorldOK, TextOK
    <3> QED BY <2>1, <3>1 DEF OperationOK
  <2>3. n \in DOMAIN s.code /\ Lead(c) + n < e[2]
    BY <1>1, <2>1, <2>2
  <2> QED BY <2>2, <2>3
<1>4. CASE e[2] = Len(c) /\ StepAt(w, e) = Mark(LastMark(s), s)
  <2>1. s.code # <<>> /\ place = Root(s).at
    <3>1. StepAt(w, e).sub = IF s.code = <<>> THEN <<>> ELSE <<Root(s).at>>
      BY <1>4, MarkFields
    <3>2. Range(<<>>) = {} /\ Range(<<Root(s).at>>) = {Root(s).at}
      BY DEF Range
    <3> QED BY <3>1, <3>2
  <2>2. Len(s.code) \in DOMAIN s.code /\ Lead(c) + Len(s.code) < e[2]
    <3>1. LineOK(s, c)
      BY <1>1 DEF WorldOK
    <3>2. Len(s.code) # 0
      <4>1. s.kind # "stop" => Len(s.code) > 0
        BY <1>1 DEF WorldOK, TextOK
      <4>2. Len(s.code) = 0 => s.code = <<>>
        BY <1>1
      <4> QED BY <1>1, <2>1, <4>1, <4>2
    <3> QED BY <1>1, <1>4, <3>1, <3>2 DEF LineOK
  <2> QED BY <2>1, <2>2 DEF Root
<1> QED BY <1>3, <1>4, PointKind

-----------------------------------------------------------------------------
(***************************************************************************)
(* An execution of a world: what an operation is worth, given the values   *)
(* of the operations before it, which steps fail, and what a step does.    *)
(***************************************************************************)

\* The value a name holds when statement i begins.
Held(w, vals, i, slot) ==
  LET W == Writers(w.text, i, slot)
  IN IF W = {} THEN Zero ELSE vals[Root(w.text[CHOOSE m \in W : \A n \in W : n <= m]).at].val

Worth(w, vals, e) ==
  LET q == StepAt(w, e)
      held == Held(w, vals, e[1], q.slot)
      first == vals[q.sub[1]].val
  IN CASE q.kind = "slot" -> held
       [] q.kind = "field" -> FieldOf(held)
       [] q.kind = "deref" -> <<"pointee", held>>
       [] q.kind = "const" -> <<"const">>
       [] q.kind \in {"lit", "slice"} -> <<"lit", first>>
       [] q.kind = "part" -> FieldOf(first)
       [] OTHER -> IF q.does = "echo" /\ 1 \in DOMAIN q.sub THEN first ELSE <<"by", q.id>>

\* A step that finds nothing where it needs something.
Stuck(w, vals, e) ==
  LET q == StepAt(w, e)
  IN \/ q.kind = "field" /\ q.slot \notin w.structs /\ Held(w, vals, e[1], q.slot) = Zero
     \/ q.kind \in {"deref", "check"} /\ Held(w, vals, e[1], q.slot) = Zero
     \/ q.kind = "part" /\ vals[q.sub[1]].val = Zero

Faulty(w, f, vals, e) ==
  Stuck(w, vals, e) \/ (StepAt(w, e).kind = "call" /\ f[StepAt(w, e).id] = "error")

\* What is seen of a call or a field store.
Seen == {"call", "put"}
EventAt(w, vals, e) ==
  LET q == StepAt(w, e)
  IN IF q.kind = "put" THEN <<"put", Shown(Held(w, vals, e[1], q.slot)), vals[q.sub[1]].val>>
     ELSE <<q.id, [k \in DOMAIN q.sub |-> Shown(vals[q.sub[k]].val)]>>

Outcome(w, vals) ==
  LET last == Len(w.text)
  IN IF last > 0 /\ w.text[last].kind = "return" THEN Shown(vals[Root(w.text[last]).at].val)
     ELSE IF w.returns # None THEN Shown(Held(w, vals, last + 1, w.returns))
     ELSE Zero

\* A value with no pointer in it.
PointerFree(v) == \E S : v \in S /\ \A u \in S : u[1] # "ptr" /\ (u[1] = "lit" => u[2] \in S)

Here(r) == <<r.line, r.pos>>
Done(r, e) == Lt(e, Here(r))
Final(w, r, e) == e \in Points(w) /\ Done(r, e) /\ \A d \in Points(w) : Done(r, d) => d = e \/ Lt(d, e)

IsRun(r) ==
  r = [line |-> r.line, pos |-> r.pos, vals |-> r.vals, trace |-> r.trace, mem |-> r.mem,
       outcome |-> r.outcome, result |-> r.result]

IsMem(mem) == mem = [s \in Slots |-> mem[s]] /\ \A s \in Slots : mem[s] \in Seq(Range(mem[s]))

\* A run is somewhere in its text.
Somewhere(w, r) ==
  /\ r.line \in 1..(Len(w.text) + 1) /\ r.pos \in Nat \ {0}
  /\ r.line <= Len(w.text) => r.pos <= Len(w.script[r.line])
  /\ r.line = Len(w.text) + 1 => r.pos = 1
  /\ r.outcome \in {"running", "ok", "error"}

\* The operations done have left their values.
Filled(w, r) ==
  /\ \A p \in DOMAIN r.vals : \E e \in Points(w) :
       Done(r, e) /\ IsCode(StepAt(w, e)) /\ StepAt(w, e).at = p
  /\ \A e \in Points(w) : Done(r, e) /\ IsCode(StepAt(w, e)) =>
       StepAt(w, e).at \in DOMAIN r.vals \/ (r.outcome = "error" /\ Final(w, r, e))

Cleared(w, r, slot) ==
  /\ r.line \in DOMAIN w.text /\ r.pos > 1
  /\ w.script[r.line][1].kind = "clear" /\ w.text[r.line].out = slot

\* A name holds what the last statement that bound it made.
MemOK(w, r) ==
  r.outcome = "running" =>
    \A s \in Slots : Now(r, s) = IF Cleared(w, r, s) THEN Zero ELSE Held(w, r.vals, r.line, s)

\* What a call will find is what its operands were when they were read.
Loads(w, r) ==
  r.outcome = "running" =>
    \A e \in Points(w) : e[1] = r.line /\ Done(r, e) /\ IsCode(StepAt(w, e)) =>
      LET u == r.vals[StepAt(w, e).at] IN Loaded(r.mem, u) = u.val

Clean(r) == \A p \in DOMAIN r.vals : PointerFree(r.vals[p].val)

Valued(w, r) ==
  \A e \in Points(w) :
    Done(r, e) /\ IsCode(StepAt(w, e)) /\ StepAt(w, e).at \in DOMAIN r.vals =>
      r.vals[StepAt(w, e).at].val = Worth(w, r.vals, e)

\* A run fails at the first step that does.
Judged(w, f, r) ==
  \A e \in Points(w) : Done(r, e) =>
    /\ StepAt(w, e).kind = "call" => StepAt(w, e).id \in DOMAIN f
    /\ Faulty(w, f, r.vals, e) <=> r.outcome = "error" /\ Final(w, r, e)

\* The trace is that of the calls and field stores done, in their order.
Lists(w, r, es) ==
  /\ es \in Seq(Points(w))
  /\ \A m, n \in DOMAIN es : m < n => Lt(es[m], es[n])
  /\ \A e \in Points(w) : Done(r, e) /\ StepAt(w, e).kind \in Seen <=> \E n \in DOMAIN es : es[n] = e
Traced(w, r) == \E es : Lists(w, r, es) /\ r.trace = [n \in DOMAIN es |-> EventAt(w, r.vals, es[n])]

Concluded(w, r) ==
  /\ r.outcome = "ok" => (\A e \in Points(w) : Done(r, e)) /\ r.result = Outcome(w, r.vals)
  /\ r.outcome = "error" => (\E e \in Points(w) : Final(w, r, e)) /\ r.result = Zero
  /\ r.outcome = "running" =>
       r.result = Zero /\ \A e \in Points(w) : Done(r, e) => StepAt(w, e).kind \notin {"result", "end"}

General(w, f, r) ==
  /\ IsRun(r) /\ IsMem(r.mem) /\ Somewhere(w, r) /\ Filled(w, r) /\ MemOK(w, r) /\ Loads(w, r) /\ Clean(r)
  /\ Valued(w, r) /\ Judged(w, f, r) /\ Traced(w, r) /\ Concluded(w, r)

\* The step a run makes at a point,
Moves(w, r, r2) ==
  IF r.pos < Len(w.script[r.line]) THEN r2.line = r.line /\ r2.pos = r.pos + 1
                                   ELSE r2.line = r.line + 1 /\ r2.pos = 1

Leaves(w, r, r2) ==
  LET q == StepAt(w, Here(r))
  IN IF IsCode(q) /\ ~ Stuck(w, r.vals, Here(r))
     THEN \E u : /\ r2.vals = [p \in DOMAIN r.vals \cup {q.at} |-> IF p = q.at THEN u ELSE r.vals[p]]
                 /\ u.val = Worth(w, r.vals, Here(r)) /\ PointerFree(u.val) /\ Loaded(r.mem, u) = u.val
     ELSE r2.vals = r.vals

Binds(w, r, r2) ==
  LET q == StepAt(w, Here(r)) IN
  /\ IsMem(r2.mem)
  /\ q.kind \notin {"store", "clear"} => r2.mem = r.mem
  /\ \A s \in Slots : Now(r2, s) = IF s = q.slot /\ q.kind = "store" THEN r.vals[q.sub[1]].val
                                   ELSE IF s = q.slot /\ q.kind = "clear" THEN Zero
                                   ELSE Now(r, s)

Judges(w, f, f2, r, r2) ==
  LET q == StepAt(w, Here(r)) IN
  /\ IF q.kind = "call" THEN DOMAIN f2 = DOMAIN f \cup {q.id} /\ \A d \in DOMAIN f : f2[d] = f[d]
                        ELSE f2 = f
  /\ r2.outcome = IF Faulty(w, f2, r.vals, Here(r)) THEN "error"
                  ELSE IF q.kind \in {"result", "end"} THEN "ok" ELSE "running"

Shows(w, r, r2) ==
  LET q == StepAt(w, Here(r)) IN
  /\ r2.trace = IF q.kind \in Seen THEN Append(r.trace, EventAt(w, r.vals, Here(r))) ELSE r.trace
  /\ r2.result = IF q.kind = "result" THEN Shown(r.vals[q.sub[1]].val) ELSE Zero

Effect(w, f, f2, r, r2) ==
  /\ r.outcome = "running" /\ Here(r) \in Points(w)
  /\ IsRun(r2) /\ Moves(w, r, r2) /\ Leaves(w, r, r2) /\ Binds(w, r, r2)
  /\ Judges(w, f, f2, r, r2) /\ Shows(w, r, r2)

\* or past the last one.
Stops(w, r, r2) ==
  /\ r.outcome = "running" /\ r.line > Len(w.text)
  /\ r2 = [r EXCEPT !.outcome = "ok",
                    !.result = IF w.returns # None THEN Shown(Held(w, r.vals, r.line, w.returns)) ELSE Zero]

\* A name holds the value of the last statement before that binds it.
LEMMA HeldIs ==
  ASSUME NEW w, WorldOK(w), NEW vals, NEW i, NEW slot,
         NEW m \in Writers(w.text, i, slot), \A n \in Writers(w.text, i, slot) : n <= m
  PROVE  Held(w, vals, i, slot) = vals[Root(w.text[m]).at].val
<1> DEFINE W == Writers(w.text, i, slot)
           c == CHOOSE n \in W : \A l \in W : l <= n
<1>1. c \in W /\ \A l \in W : l <= c
  OBVIOUS
<1>2. W \subseteq Nat
  <2>1. DOMAIN w.text = 1..Len(w.text) /\ Len(w.text) \in Nat
    BY DEF WorldOK, TextOK
  <2> QED BY <2>1 DEF Writers
<1> HIDE DEF c
<1>3. c = m
  BY <1>1, <1>2
<1> QED BY <1>3 DEF Held, c

\* A name that nothing bound holds a zero.
LEMMA HeldNone ==
  ASSUME NEW w, NEW vals, NEW i, NEW slot, Writers(w.text, i, slot) = {}
  PROVE  Held(w, vals, i, slot) = Zero
BY DEF Held

\* Of the statements that bound a name one is the last.
LEMMA WriterIs ==
  ASSUME NEW w, WorldOK(w), NEW i \in Nat, NEW slot, Writers(w.text, i, slot) # {}
  PROVE  \E m \in Writers(w.text, i, slot) : \A n \in Writers(w.text, i, slot) : n <= m
<1>1. DOMAIN w.text = 1..Len(w.text) /\ Len(w.text) \in Nat
  BY DEF WorldOK, TextOK
<1>2. Writers(w.text, i, slot) \subseteq 1..Len(w.text)
  BY <1>1 DEF Writers
<1> QED BY <1>1, <1>2, LastExists

\* What a statement binds a name to is the value of its last operation.
LEMMA RootPoint ==
  ASSUME NEW w, WorldOK(w), NEW i \in DOMAIN w.text, w.text[i].kind # "stop"
  PROVE  \E e \in Points(w) :
           /\ e[1] = i /\ e[2] < Len(w.script[i]) /\ IsCode(StepAt(w, e))
           /\ StepAt(w, e) = Root(w.text[i])
<1>1. LineOK(w.text[i], w.script[i]) /\ Len(w.text[i].code) > 0
  BY DEF WorldOK, TextOK
<1>2. Len(w.text[i].code) \in DOMAIN w.text[i].code
  BY <1>1 DEF LineOK
<1> QED BY <1>2, CodePoint DEF Root

\* What bound a name is a point too.
LEMMA WriterPoint ==
  ASSUME NEW w, WorldOK(w), NEW i, NEW slot \in Slots, NEW m \in Writers(w.text, i, slot)
  PROVE  /\ m \in DOMAIN w.text /\ m < i /\ w.text[m].kind \in {"call", "assign", "lit"} /\ w.text[m].out = slot
         /\ \E e \in Points(w) : e[1] = m /\ IsCode(StepAt(w, e)) /\ StepAt(w, e) = Root(w.text[m])
<1>1. m \in DOMAIN w.text /\ m < i /\ w.text[m].out = slot /\ w.text[m].kind # "set"
  BY DEF Writers
<1>2. w.text[m].kind \in {"call", "assign", "lit"}
  <2>1. w.text[m].kind \in Kept \cup {"return", "stop"} /\ (w.text[m].kind \notin Kept => w.text[m].out = None)
    BY <1>1 DEF WorldOK, TextOK
  <2> QED BY <1>1, <2>1, PlanAssumption DEF Kept
<1>3. \E e \in Points(w) : e[1] = m /\ IsCode(StepAt(w, e)) /\ StepAt(w, e) = Root(w.text[m])
  BY <1>1, <1>2, RootPoint
<1> QED BY <1>1, <1>2, <1>3

\* What has run before a point has left its values.
Known(w, vals, e) ==
  \A d \in Points(w) : Lt(d, e) /\ IsCode(StepAt(w, d)) => StepAt(w, d).at \in DOMAIN vals

\* That is so of every point a run is past, and of the one it is at.
LEMMA KnownBefore ==
  ASSUME NEW w, WorldOK(w), NEW r, Somewhere(w, r), Filled(w, r), NEW e,
         \/ e \in Points(w) /\ Done(r, e)
         \/ e = Here(r) /\ r.outcome # "error"
  PROVE  Known(w, r.vals, e)
<1>1. SUFFICES ASSUME NEW d \in Points(w), Lt(d, e), IsCode(StepAt(w, d))
               PROVE  StepAt(w, d).at \in DOMAIN r.vals
  BY DEF Known
<1>2. CASE e = Here(r) /\ r.outcome # "error"
  BY <1>1, <1>2 DEF Filled, Done
<1>3. CASE e \in Points(w) /\ Done(r, e)
  <2>1. ~ (d = e \/ Lt(e, d))
    BY <1>1, <1>3, LtOrder
  <2>2. ~ Final(w, r, d)
    BY <1>3, <2>1 DEF Final
  <2>3. Done(r, d)
    <3>1. /\ d[1] \in Nat /\ d[2] \in Nat /\ e[1] \in Nat /\ e[2] \in Nat
      BY <1>3, PointParts
    <3>2. r.line \in Int /\ r.pos \in Int
      <4>1. Len(w.text) \in Nat
        BY DEF WorldOK, TextOK
      <4> QED BY <4>1 DEF Somewhere
    <3> QED BY <1>1, <1>3, <3>1, <3>2 DEF Done, Lt, Here
  <2> QED BY <1>1, <2>2, <2>3 DEF Filled
<1> QED BY <1>2, <1>3

\* Then the operands of a step have their values,
LEMMA KnownOperand ==
  ASSUME NEW w, WorldOK(w), NEW vals, NEW e \in Points(w), Known(w, vals, e),
         StepAt(w, e).kind \notin {"clear", "check"}, NEW place \in Range(StepAt(w, e).sub)
  PROVE  place \in DOMAIN vals
BY PointOperands DEF Known

\* and so has what bound a name.
LEMMA KnownHeld ==
  ASSUME NEW w, WorldOK(w), NEW vals, NEW e, e[1] \in Nat, Known(w, vals, e),
         NEW slot \in Slots, NEW m \in Writers(w.text, e[1], slot)
  PROVE  Root(w.text[m]).at \in DOMAIN vals
<1>1. m < e[1] /\ m \in DOMAIN w.text
  BY WriterPoint
<1>2. PICK d \in Points(w) : d[1] = m /\ IsCode(StepAt(w, d)) /\ StepAt(w, d) = Root(w.text[m])
  BY WriterPoint
<1>3. Lt(d, e)
  BY <1>1, <1>2 DEF Lt
<1> QED BY <1>2, <1>3 DEF Known

\* Steps that use a name, or operands.
LEMMA PointSlot ==
  ASSUME NEW w, WorldOK(w), NEW e \in Points(w)
  PROVE  LET q == StepAt(w, e) IN
         /\ q.kind \in {"slot", "field", "deref", "check", "put", "store", "clear"} => q.slot \in Slots
         /\ q.kind \in {"lit", "slice", "part", "put", "store", "result"} => 1 \in DOMAIN q.sub /\ q.sub[1] \in Range(q.sub)
         /\ q.kind = "call" => \E n \in Nat : DOMAIN q.sub = 1..n
         /\ q.kind \in OpKinds \cup Marks /\ q.kind # "addr"
<1> DEFINE s == w.text[e[1]]
<1>1. e[1] \in DOMAIN w.text
  BY PointParts
<1>2. CASE \E j \in DOMAIN s.code : StepAt(w, e) = s.code[j] /\ IsCode(StepAt(w, e))
  <2>1. PICK j \in DOMAIN s.code : StepAt(w, e) = s.code[j]
    BY <1>2
  <2>2. OperationOK(s, j)
    BY <1>1 DEF WorldOK, TextOK
  <2>3. s.code[j].kind \notin Marks
    BY <2>2, KindsApart DEF OperationOK
  <2> QED BY <2>1, <2>2, <2>3 DEF OperationOK, Naming, Marks, Range
<1>3. CASE \E k : StepAt(w, e) = Mark(k, s) /\ StepAt(w, e).kind = k /\ k \in Marks
             /\ (k = LastMark(s) \/ (k = "clear" /\ s.kind = "assign") \/ (k = "check" /\ s.kind = "set"))
  <2>1. PICK k : StepAt(w, e) = Mark(k, s) /\ StepAt(w, e).kind = k /\ k \in Marks
             /\ (k = LastMark(s) \/ (k = "clear" /\ s.kind = "assign") \/ (k = "check" /\ s.kind = "set"))
    BY <1>3
  <2>2. /\ s.out \in Slots \cup {None} /\ (s.kind \in {"assign", "lit", "set"} => s.out \in Slots)
        /\ s.kind # "stop" => Len(s.code) > 0
        /\ s.kind \in Kept \cup {"return", "stop"}
    BY <1>1 DEF WorldOK, TextOK
  <2>3. StepAt(w, e).slot = s.out /\ StepAt(w, e).sub = IF s.code = <<>> THEN <<>> ELSE <<Root(s).at>>
    BY <2>1, MarkFields
  <2>4. k \in {"put", "store", "result"} => s.code # <<>>
    <3>1. k \in {"put", "store", "result"} => s.kind # "stop"
      BY <2>1 DEF LastMark
    <3>2. Len(<<>>) = 0
      OBVIOUS
    <3> QED BY <2>2, <3>1, <3>2
  <2>5. k \in {"put", "store", "clear", "check"} => s.out \in Slots
    BY <2>1, <2>2 DEF LastMark, Kept
  <2>6. k \notin OpKinds
    BY <2>1, KindsApart
  <2>7. k \in {"put", "store", "result"} => 1 \in DOMAIN StepAt(w, e).sub /\ StepAt(w, e).sub[1] \in Range(StepAt(w, e).sub)
    BY <2>3, <2>4 DEF Range
  <2>8. k \notin {"slot", "field", "deref", "lit", "slice", "part", "call", "addr"}
    BY <2>6 DEF OpKinds, Naming
  <2>9. StepAt(w, e).slot \in Slots <=> s.out \in Slots
    BY <2>3
  <2> QED BY <2>1, <2>5, <2>7, <2>8, <2>9
<1> QED BY <1>2, <1>3, PointKind, LastMarkKind DEF Marks

\* More values do not change what a step was worth, how it ended, or what was seen of it.
LEMMA HeldStays ==
  ASSUME NEW w, WorldOK(w), NEW vals, NEW vals2, NEW e, e[1] \in Nat, Known(w, vals, e),
         \A p \in DOMAIN vals : vals2[p] = vals[p], NEW slot \in Slots
  PROVE  Held(w, vals2, e[1], slot) = Held(w, vals, e[1], slot)
<1>1. CASE Writers(w.text, e[1], slot) = {}
  BY <1>1, HeldNone
<1>2. CASE Writers(w.text, e[1], slot) # {}
  <2>1. PICK m \in Writers(w.text, e[1], slot) : \A n \in Writers(w.text, e[1], slot) : n <= m
    BY <1>2, WriterIs
  <2>2. Root(w.text[m]).at \in DOMAIN vals
    BY <2>1, KnownHeld
  <2>3. /\ Held(w, vals, e[1], slot) = vals[Root(w.text[m]).at].val
        /\ Held(w, vals2, e[1], slot) = vals2[Root(w.text[m]).at].val
    BY <2>1, HeldIs
  <2> QED BY <2>2, <2>3
<1> QED BY <1>1, <1>2

\* Nor what comes of it.
LEMMA StepStays ==
  ASSUME NEW w, WorldOK(w), NEW vals, NEW vals2, NEW e \in Points(w), Known(w, vals, e),
         \A p \in DOMAIN vals : vals2[p] = vals[p]
  PROVE  /\ IsCode(StepAt(w, e)) => Worth(w, vals2, e) = Worth(w, vals, e)
         /\ Stuck(w, vals2, e) <=> Stuck(w, vals, e)
         /\ StepAt(w, e).kind \in Seen => EventAt(w, vals2, e) = EventAt(w, vals, e)
<1> DEFINE q == StepAt(w, e)
<1>1. e[1] \in Nat /\ e[2] \in Nat
  BY PointParts
<1>2. \A s \in Slots : Held(w, vals2, e[1], s) = Held(w, vals, e[1], s)
  BY <1>1, HeldStays
<1>3. /\ q.kind \in {"slot", "field", "deref", "check", "put"} => q.slot \in Slots
      /\ q.kind \in {"lit", "slice", "part", "put"} => 1 \in DOMAIN q.sub
      /\ q.kind \in OpKinds \cup Marks /\ q.kind # "addr"
  BY PointSlot
<1>4. ASSUME NEW k \in DOMAIN q.sub, q.kind \notin {"clear", "check"}
      PROVE  vals2[q.sub[k]] = vals[q.sub[k]]
  <2>1. q.sub[k] \in Range(q.sub)
    BY DEF Range
  <2> QED BY <1>4, <2>1, KnownOperand
<1> HIDE DEF q
<1>5. ASSUME q.kind \in OpKinds PROVE Worth(w, vals2, e) = Worth(w, vals, e)
  <2>1. CASE q.kind = "slot"
    BY <1>2, <1>3, <2>1 DEF Worth, q
  <2>2. CASE q.kind = "field"
    BY <1>2, <1>3, <2>2 DEF Worth, q
  <2>3. CASE q.kind = "deref"
    BY <1>2, <1>3, <2>3 DEF Worth, q
  <2>4. CASE q.kind = "const"
    BY <2>4 DEF Worth, q
  <2>5. CASE q.kind \in {"lit", "slice", "part"}
    BY <1>3, <1>4, <2>5 DEF Worth, q
  <2>6. CASE q.kind = "call"
    BY <1>4, <2>6 DEF Worth, q
  <2> QED BY <1>3, <1>5, <2>1, <2>2, <2>3, <2>4, <2>5, <2>6 DEF OpKinds, Naming
<1>6. Stuck(w, vals2, e) <=> Stuck(w, vals, e)
  BY <1>2, <1>3, <1>4 DEF Stuck, q
<1>7. ASSUME q.kind \in Seen PROVE EventAt(w, vals2, e) = EventAt(w, vals, e)
  <2>1. CASE q.kind = "put"
    BY <1>2, <1>3, <1>4, <2>1 DEF EventAt, q
  <2>2. CASE q.kind = "call"
    <3>1. [k \in DOMAIN q.sub |-> Shown(vals2[q.sub[k]].val)] = [k \in DOMAIN q.sub |-> Shown(vals[q.sub[k]].val)]
      BY <1>4, <2>2
    <3> QED BY <2>2, <3>1 DEF EventAt, q
  <2> QED BY <1>7, <2>1, <2>2 DEF Seen
<1> QED BY <1>5, <1>6, <1>7 DEF IsCode, q

\* Where a run is after a step.
LEMMA Advance ==
  ASSUME NEW w, WorldOK(w), NEW r, Somewhere(w, r), Here(r) \in Points(w), NEW r2, Moves(w, r, r2)
  PROVE  /\ r2.line \in 1..(Len(w.text) + 1) /\ r2.pos \in Nat \ {0}
         /\ r2.line <= Len(w.text) => r2.pos <= Len(w.script[r2.line])
         /\ r2.line = Len(w.text) + 1 => r2.pos = 1
         /\ \A e \in Points(w) : Done(r2, e) <=> Done(r, e) \/ e = Here(r)
         /\ ~ Done(r, Here(r))
<1>1. Here(r)[1] = r.line /\ Here(r)[2] = r.pos
  BY DEF Here
<1>2. /\ r.line \in DOMAIN w.text /\ r.line \in Nat \ {0} /\ r.line <= Len(w.text) /\ Len(w.text) \in Nat
      /\ r.pos \in Nat \ {0} /\ r.pos <= Len(w.script[r.line]) /\ Len(w.script[r.line]) \in Nat \ {0}
  BY <1>1, PointParts
<1>3. \A i \in 1..Len(w.text) : Len(w.script[i]) \in Nat \ {0}
  <2>1. DOMAIN w.text = 1..Len(w.text)
    BY DEF WorldOK, TextOK
  <2>2. \A i \in DOMAIN w.text : Len(w.script[i]) \in Nat /\ Len(w.script[i]) # 0
    <3>1. SUFFICES ASSUME NEW i \in DOMAIN w.text PROVE Len(w.script[i]) \in Nat /\ Len(w.script[i]) # 0
      OBVIOUS
    <3>2. LineOK(w.text[i], w.script[i])
      BY DEF WorldOK
    <3>3. Lead(w.script[i]) \in Nat
      BY DEF Lead
    <3> QED BY <3>2, <3>3 DEF LineOK
  <2> QED BY <2>1, <2>2
<1>4. \/ r.pos < Len(w.script[r.line]) /\ r2.line = r.line /\ r2.pos = r.pos + 1
      \/ r.pos = Len(w.script[r.line]) /\ r2.line = r.line + 1 /\ r2.pos = 1
  BY <1>2 DEF Moves
<1>5. ASSUME NEW e \in Points(w)
      PROVE  Done(r2, e) <=> Done(r, e) \/ e = Here(r)
  <2>1. /\ e[1] \in Nat /\ e[2] \in Nat \ {0} /\ e[2] <= Len(w.script[e[1]]) /\ e = <<e[1], e[2]>>
    BY PointParts
  <2>2. e = Here(r) <=> e[1] = r.line /\ e[2] = r.pos
    BY <2>1 DEF Here
  <2>3. Done(r, e) <=> e[1] < r.line \/ (e[1] = r.line /\ e[2] < r.pos)
    BY DEF Done, Lt, Here
  <2>4. Done(r2, e) <=> e[1] < r2.line \/ (e[1] = r2.line /\ e[2] < r2.pos)
    BY DEF Done, Lt, Here
  <2> QED BY <1>2, <1>4, <2>1, <2>2, <2>3, <2>4
<1>6. ~ Done(r, Here(r))
  BY <1>1, <1>2 DEF Done, Lt
<1>7. r2.line \in 1..(Len(w.text) + 1) /\ r2.pos \in Nat \ {0}
  BY <1>2, <1>4
<1>8. r2.line <= Len(w.text) => r2.pos <= Len(w.script[r2.line])
  <2>1. CASE r2.line = r.line
    BY <1>2, <1>4, <2>1
  <2>2. CASE r2.line = r.line + 1 /\ r2.line <= Len(w.text)
    <3>1. r2.line \in 1..Len(w.text) /\ r2.pos = 1
      BY <1>2, <1>4, <2>2
    <3> QED BY <1>3, <3>1
  <2> QED BY <1>4, <2>1, <2>2
<1>9. r2.line = Len(w.text) + 1 => r2.pos = 1
  BY <1>2, <1>4
<1> QED BY <1>5, <1>6, <1>7, <1>8, <1>9

\* A step adds the value of its operation and changes none.
LEMMA ValuesGrow ==
  ASSUME NEW w, WorldOK(w), NEW r, Somewhere(w, r), Filled(w, r), Here(r) \in Points(w),
         NEW r2, Leaves(w, r, r2)
  PROVE  LET e == Here(r)
             q == StepAt(w, e)
         IN  /\ \A p \in DOMAIN r.vals : p \in DOMAIN r2.vals /\ r2.vals[p] = r.vals[p]
             /\ IsCode(q) => q.at \notin DOMAIN r.vals
             /\ IF IsCode(q) /\ ~ Stuck(w, r.vals, e)
                THEN /\ DOMAIN r2.vals = DOMAIN r.vals \cup {q.at} /\ r2.vals[q.at].val = Worth(w, r.vals, e)
                     /\ PointerFree(r2.vals[q.at].val) /\ Loaded(r.mem, r2.vals[q.at]) = r2.vals[q.at].val
                ELSE DOMAIN r2.vals = DOMAIN r.vals
<1> DEFINE e == Here(r)
           q == StepAt(w, e)
<1>1. ASSUME IsCode(q), q.at \in DOMAIN r.vals PROVE FALSE
  <2>1. PICK d \in Points(w) : Done(r, d) /\ IsCode(StepAt(w, d)) /\ StepAt(w, d).at = q.at
    BY <1>1 DEF Filled
  <2>2. d = e
    BY <1>1, <2>1, PointPlace
  <2>3. e[1] \in Nat /\ e[2] \in Nat
    BY PointParts
  <2> QED BY <2>1, <2>2, <2>3 DEF Done, Lt
<1>2. CASE IsCode(q) /\ ~ Stuck(w, r.vals, e)
  <2>1. PICK u : /\ r2.vals = [p \in DOMAIN r.vals \cup {q.at} |-> IF p = q.at THEN u ELSE r.vals[p]]
                 /\ u.val = Worth(w, r.vals, e) /\ PointerFree(u.val) /\ Loaded(r.mem, u) = u.val
    BY <1>2 DEF Leaves
  <2>2. q.at \notin DOMAIN r.vals
    BY <1>1, <1>2
  <2> HIDE DEF q, e
  <2>3. DOMAIN r2.vals = DOMAIN r.vals \cup {q.at} /\ r2.vals[q.at] = u
    BY <2>1
  <2>4. \A p \in DOMAIN r.vals : p \in DOMAIN r2.vals /\ r2.vals[p] = r.vals[p]
    BY <2>1, <2>2
  <2> QED BY <1>2, <2>1, <2>2, <2>3, <2>4 DEF q, e
<1>3. CASE ~ (IsCode(q) /\ ~ Stuck(w, r.vals, e))
  <2>1. r2.vals = r.vals
    BY <1>3 DEF Leaves
  <2> QED BY <1>1, <1>3, <2>1
<1> QED BY <1>2, <1>3

\* The point of a step is the last that is done after it.
LEMMA EffectFinal ==
  ASSUME NEW w, WorldOK(w), NEW r, Somewhere(w, r), Here(r) \in Points(w), NEW r2, Moves(w, r, r2),
         NEW d \in Points(w)
  PROVE  Final(w, r2, d) <=> d = Here(r)
<1> DEFINE e == Here(r)
<1>1. \A c \in Points(w) : Done(r2, c) <=> Done(r, c) \/ c = e
  BY Advance
<1>2. \A c \in Points(w) : Done(r, c) => Lt(c, e)
  BY DEF Done
<1>3. Final(w, r2, e)
  BY <1>1, <1>2 DEF Final
<1>4. ASSUME Final(w, r2, d) PROVE d = e
  <2>1. e = d \/ Lt(e, d)
    BY <1>1, <1>4 DEF Final
  <2>2. d = e \/ Lt(d, e)
    BY <1>1, <1>2, <1>4 DEF Final
  <2> QED BY <2>1, <2>2, LtOrder
<1> QED BY <1>3, <1>4

\* The operation of a step leaves its value unless it is stuck.
LEMMA EffectFilled ==
  ASSUME NEW w, WorldOK(w), NEW f, NEW f2, NEW r, Somewhere(w, r), Filled(w, r), NEW r2, Effect(w, f, f2, r, r2)
  PROVE  Filled(w, r2)
<1> DEFINE e == Here(r)
           q == StepAt(w, e)
<1>1. /\ r.outcome = "running" /\ e \in Points(w) /\ Moves(w, r, r2) /\ Leaves(w, r, r2) /\ Judges(w, f, f2, r, r2)
  BY DEF Effect
<1>2. \A c \in Points(w) : Done(r2, c) <=> Done(r, c) \/ c = e
  BY <1>1, Advance
<1>3. /\ \A p \in DOMAIN r.vals : p \in DOMAIN r2.vals
      /\ IF IsCode(q) /\ ~ Stuck(w, r.vals, e) THEN DOMAIN r2.vals = DOMAIN r.vals \cup {q.at}
                                               ELSE DOMAIN r2.vals = DOMAIN r.vals
  BY <1>1, ValuesGrow
<1>4. ASSUME NEW p \in DOMAIN r2.vals
      PROVE  \E c \in Points(w) : Done(r2, c) /\ IsCode(StepAt(w, c)) /\ StepAt(w, c).at = p
  <2>1. CASE p \in DOMAIN r.vals
    BY <1>2, <2>1 DEF Filled
  <2>2. CASE p \notin DOMAIN r.vals
    BY <1>1, <1>2, <1>3, <1>4, <2>2
  <2> QED BY <2>1, <2>2
<1>5. ASSUME NEW c \in Points(w), Done(r2, c), IsCode(StepAt(w, c))
      PROVE  StepAt(w, c).at \in DOMAIN r2.vals \/ (r2.outcome = "error" /\ Final(w, r2, c))
  <2>1. CASE Done(r, c)
    BY <1>1, <1>3, <1>5, <2>1 DEF Filled
  <2>2. CASE c = e /\ ~ Stuck(w, r.vals, e)
    BY <1>3, <1>5, <2>2
  <2>3. CASE c = e /\ Stuck(w, r.vals, e)
    <3>1. Final(w, r2, c)
      BY <1>1, <2>3, EffectFinal
    <3>2. r2.outcome = "error"
      BY <1>1, <2>3 DEF Judges, Faulty
    <3> QED BY <3>1, <3>2
  <2> QED BY <1>2, <1>5, <2>1, <2>2, <2>3
<1> QED BY <1>4, <1>5 DEF Filled

\* The value is what the operation is worth.
LEMMA EffectValued ==
  ASSUME NEW w, WorldOK(w), NEW f, NEW f2, NEW r, Somewhere(w, r), Filled(w, r), Valued(w, r),
         NEW r2, Effect(w, f, f2, r, r2)
  PROVE  Valued(w, r2)
<1> DEFINE e == Here(r)
           q == StepAt(w, e)
<1>1. /\ r.outcome = "running" /\ e \in Points(w) /\ Moves(w, r, r2) /\ Leaves(w, r, r2)
  BY DEF Effect
<1>2. \A c \in Points(w) : Done(r2, c) <=> Done(r, c) \/ c = e
  BY <1>1, Advance
<1>3. /\ \A p \in DOMAIN r.vals : p \in DOMAIN r2.vals /\ r2.vals[p] = r.vals[p]
      /\ IsCode(q) => q.at \notin DOMAIN r.vals
      /\ IF IsCode(q) /\ ~ Stuck(w, r.vals, e)
         THEN DOMAIN r2.vals = DOMAIN r.vals \cup {q.at} /\ r2.vals[q.at].val = Worth(w, r.vals, e)
         ELSE DOMAIN r2.vals = DOMAIN r.vals
  BY <1>1, ValuesGrow
<1>4. ASSUME NEW c \in Points(w), Done(r2, c), IsCode(StepAt(w, c)), StepAt(w, c).at \in DOMAIN r2.vals
      PROVE  r2.vals[StepAt(w, c).at].val = Worth(w, r2.vals, c)
  <2>1. Known(w, r.vals, c)
    BY <1>1, <1>2, <1>4, KnownBefore
  <2>2. Worth(w, r2.vals, c) = Worth(w, r.vals, c)
    BY <1>3, <1>4, <2>1, StepStays
  <2>3. CASE c = e
    BY <1>3, <1>4, <2>2, <2>3
  <2>4. CASE c # e
    <3>1. Done(r, c)
      BY <1>2, <1>4, <2>4
    <3>2. StepAt(w, c).at \in DOMAIN r.vals
      BY <1>1, <1>4, <3>1 DEF Filled
    <3> QED BY <1>3, <1>4, <2>2, <3>1, <3>2 DEF Valued
  <2> QED BY <2>3, <2>4
<1> QED BY <1>4 DEF Valued

\* A step ends the run when it fails, and then only.
LEMMA EffectJudged ==
  ASSUME NEW w, WorldOK(w), NEW f, NEW f2, NEW r, Somewhere(w, r), Filled(w, r), Judged(w, f, r),
         NEW r2, Effect(w, f, f2, r, r2)
  PROVE  Judged(w, f2, r2)
<1> DEFINE e == Here(r)
           q == StepAt(w, e)
<1>1. /\ r.outcome = "running" /\ e \in Points(w) /\ Moves(w, r, r2) /\ Leaves(w, r, r2) /\ Judges(w, f, f2, r, r2)
  BY DEF Effect
<1>2. \A c \in Points(w) : Done(r2, c) <=> Done(r, c) \/ c = e
  BY <1>1, Advance
<1>3. \A p \in DOMAIN r.vals : r2.vals[p] = r.vals[p]
  BY <1>1, ValuesGrow
<1>4. /\ \A d \in DOMAIN f : d \in DOMAIN f2 /\ f2[d] = f[d]
      /\ q.kind = "call" => q.id \in DOMAIN f2
      /\ r2.outcome = "error" <=> Faulty(w, f2, r.vals, e)
  BY <1>1 DEF Judges
<1>5. ASSUME NEW c \in Points(w), Done(r2, c)
      PROVE  /\ StepAt(w, c).kind = "call" => StepAt(w, c).id \in DOMAIN f2
             /\ Faulty(w, f2, r2.vals, c) <=> r2.outcome = "error" /\ Final(w, r2, c)
  <2>1. Known(w, r.vals, c)
    BY <1>1, <1>2, <1>5, KnownBefore
  <2>2. Stuck(w, r2.vals, c) <=> Stuck(w, r.vals, c)
    BY <1>3, <1>5, <2>1, StepStays
  <2>3. Final(w, r2, c) <=> c = e
    BY <1>1, <1>5, EffectFinal
  <2>4. CASE c = e
    BY <1>4, <2>2, <2>3, <2>4 DEF Faulty
  <2>5. CASE c # e
    <3>1. Done(r, c)
      BY <1>2, <1>5, <2>5
    <3>2. /\ StepAt(w, c).kind = "call" => StepAt(w, c).id \in DOMAIN f
          /\ ~ Faulty(w, f, r.vals, c)
      BY <1>1, <3>1 DEF Judged
    <3> QED BY <1>4, <2>2, <2>3, <2>5, <3>2 DEF Faulty
  <2> QED BY <2>4, <2>5
<1> QED BY <1>5 DEF Judged

\* A call or a field store is listed behind those before it.
LEMMA EffectTraced ==
  ASSUME NEW w, WorldOK(w), NEW f, NEW f2, NEW r, Somewhere(w, r), Filled(w, r), Traced(w, r),
         NEW r2, Effect(w, f, f2, r, r2)
  PROVE  Traced(w, r2)
<1> DEFINE e == Here(r)
           q == StepAt(w, e)
<1>1. /\ r.outcome = "running" /\ e \in Points(w) /\ Moves(w, r, r2) /\ Leaves(w, r, r2) /\ Shows(w, r, r2)
  BY DEF Effect
<1>2. \A c \in Points(w) : Done(r2, c) <=> Done(r, c) \/ c = e
  BY <1>1, Advance
<1>3. \A p \in DOMAIN r.vals : r2.vals[p] = r.vals[p]
  BY <1>1, ValuesGrow
<1>4. PICK es : Lists(w, r, es) /\ r.trace = [n \in DOMAIN es |-> EventAt(w, r.vals, es[n])]
  BY DEF Traced
<1>5. /\ es \in Seq(Points(w)) /\ Len(es) \in Nat /\ DOMAIN es = 1..Len(es)
      /\ \A m, n \in DOMAIN es : m < n => Lt(es[m], es[n])
      /\ \A c \in Points(w) : Done(r, c) /\ StepAt(w, c).kind \in Seen <=> \E n \in DOMAIN es : es[n] = c
      /\ \A n \in DOMAIN es : es[n] \in Points(w)
  BY <1>4 DEF Lists
<1>6. ASSUME NEW c \in Points(w), Done(r2, c), StepAt(w, c).kind \in Seen
      PROVE  EventAt(w, r2.vals, c) = EventAt(w, r.vals, c)
  <2>1. Known(w, r.vals, c)
    BY <1>1, <1>2, <1>6, KnownBefore
  <2> QED BY <1>3, <1>6, <2>1, StepStays
<1>7. \A n \in DOMAIN es : EventAt(w, r2.vals, es[n]) = EventAt(w, r.vals, es[n])
  BY <1>2, <1>5, <1>6
<1> DEFINE ev(n) == EventAt(w, r.vals, es[n])
           ev2(n) == EventAt(w, r2.vals, es[n])
<1>8. CASE q.kind \notin Seen
  <2>1. r2.trace = r.trace
    BY <1>1, <1>8 DEF Shows
  <2>2. Lists(w, r2, es)
    BY <1>2, <1>5, <1>8 DEF Lists
  <2>3. r2.trace = [n \in DOMAIN es |-> EventAt(w, r2.vals, es[n])]
    BY <1>4, <1>7, <2>1
  <2> QED BY <2>2, <2>3 DEF Traced
<1>9. CASE q.kind \in Seen
  <2> DEFINE fs == Append(es, e)
  <2>1. /\ fs \in Seq(Points(w)) /\ DOMAIN fs = 1..(Len(es) + 1)
        /\ \A n \in DOMAIN es : fs[n] = es[n]
        /\ fs[Len(es) + 1] = e
    BY <1>1, <1>5
  <2> HIDE DEF fs
  <2>2. ASSUME NEW m \in DOMAIN fs, NEW n \in DOMAIN fs, m < n
        PROVE  Lt(fs[m], fs[n])
    <3>1. m \in DOMAIN es
      BY <1>5, <2>1, <2>2
    <3>2. CASE n \in DOMAIN es
      BY <1>5, <2>1, <2>2, <3>1, <3>2
    <3>3. CASE n \notin DOMAIN es
      <4>1. n = Len(es) + 1
        BY <1>5, <2>1, <3>3
      <4>2. Done(r, es[m])
        BY <1>5, <3>1
      <4> QED BY <2>1, <3>1, <4>1, <4>2 DEF Done
    <3> QED BY <3>2, <3>3
  <2>3. ASSUME NEW c \in Points(w)
        PROVE  Done(r2, c) /\ StepAt(w, c).kind \in Seen <=> \E n \in DOMAIN fs : fs[n] = c
    <3>1. (\E n \in DOMAIN fs : fs[n] = c) <=> c = e \/ \E n \in DOMAIN es : es[n] = c
      <4>1. Len(es) + 1 \in DOMAIN fs /\ \A n \in DOMAIN fs : n \in DOMAIN es \/ n = Len(es) + 1
        BY <1>5, <2>1
      <4>2. \A n \in DOMAIN es : n \in DOMAIN fs
        BY <1>5, <2>1
      <4> QED BY <2>1, <4>1, <4>2
    <3> QED BY <1>2, <1>5, <1>9, <3>1
  <2>4. Lists(w, r2, fs)
    BY <2>1, <2>2, <2>3 DEF Lists
  <2>5. r2.trace = Append([n \in 1..Len(es) |-> EventAt(w, r.vals, es[n])], EventAt(w, r.vals, e))
    BY <1>1, <1>4, <1>5, <1>9 DEF Shows
  <2>6. EventAt(w, r2.vals, e) = EventAt(w, r.vals, e)
    BY <1>1, <1>2, <1>6, <1>9
  <2>7. Append([n \in 1..Len(es) |-> EventAt(w, r.vals, es[n])], EventAt(w, r.vals, e))
          = [n \in 1..(Len(es) + 1) |-> IF n = Len(es) + 1 THEN EventAt(w, r.vals, e) ELSE EventAt(w, r.vals, es[n])]
    <3>1. PICK g : g = [n \in 1..Len(es) |-> EventAt(w, r.vals, es[n])]
      OBVIOUS
    <3>2. PICK v : v = EventAt(w, r.vals, e)
      OBVIOUS
    <3>3. PICK N \in Nat : N = Len(es)
      BY <1>5
    <3>4. g \in Seq(Range(g)) /\ Len(g) = N /\ DOMAIN g = 1..N
      <4>1. g = [j \in 1..N |-> g[j]]
        BY <3>1, <3>3
      <4> QED BY <4>1, IsSequence
    <3>5. Append(g, v) = [n \in 1..(N + 1) |-> IF n = N + 1 THEN v ELSE g[n]]
      <4>1. PICK S : S = Range(g) \cup {v}
        OBVIOUS
      <4>2. g \in Seq(S) /\ v \in S
        <5>1. \A n \in 1..N : g[n] \in S
          BY <3>4, <4>1 DEF Range
        <5>2. g \in [1..N -> S]
          BY <3>1, <3>3, <5>1
        <5> QED BY <4>1, <5>2
      <4>3. PICK h : h = Append(g, v)
        OBVIOUS
      <4>4. h \in Seq(S) /\ Len(h) = N + 1 /\ (\A n \in 1..N : h[n] = g[n]) /\ h[N + 1] = v
        BY <3>4, <4>2, <4>3, AppendProperties
      <4>5. h = [n \in 1..(N + 1) |-> h[n]]
        BY <4>4
      <4>6. \A n \in 1..(N + 1) : h[n] = IF n = N + 1 THEN v ELSE g[n]
        BY <4>4
      <4> QED BY <4>3, <4>5, <4>6
    <3>6. \A n \in 1..N : g[n] = EventAt(w, r.vals, es[n])
      BY <3>1, <3>3
    <3>7. [n \in 1..(N + 1) |-> IF n = N + 1 THEN v ELSE g[n]]
            = [n \in 1..(N + 1) |-> IF n = N + 1 THEN v ELSE EventAt(w, r.vals, es[n])]
      BY <3>6
    <3> QED BY <3>1, <3>2, <3>3, <3>5, <3>7
  <2>8. \A n \in 1..(Len(es) + 1) :
          (IF n = Len(es) + 1 THEN EventAt(w, r.vals, e) ELSE EventAt(w, r.vals, es[n])) = EventAt(w, r2.vals, fs[n])
    BY <1>5, <1>7, <2>1, <2>6
  <2>9. r2.trace = [n \in DOMAIN fs |-> EventAt(w, r2.vals, fs[n])]
    BY <2>1, <2>5, <2>7, <2>8
  <2> QED BY <2>4, <2>9 DEF Traced
<1> QED BY <1>8, <1>9

\* No value has a pointer in it.
LEMMA EffectClean ==
  ASSUME NEW w, WorldOK(w), NEW f, NEW f2, NEW r, Somewhere(w, r), Filled(w, r), Clean(r),
         NEW r2, Effect(w, f, f2, r, r2)
  PROVE  Clean(r2)
<1> DEFINE e == Here(r)
           q == StepAt(w, e)
<1>1. e \in Points(w) /\ Leaves(w, r, r2)
  BY DEF Effect
<1>2. /\ \A p \in DOMAIN r.vals : r2.vals[p] = r.vals[p]
      /\ IF IsCode(q) /\ ~ Stuck(w, r.vals, e)
         THEN DOMAIN r2.vals = DOMAIN r.vals \cup {q.at} /\ PointerFree(r2.vals[q.at].val)
         ELSE DOMAIN r2.vals = DOMAIN r.vals
  BY <1>1, ValuesGrow
<1> QED BY <1>2 DEF Clean

\* A mark takes the name of its statement and the value of its last operation.
LEMMA MarkPoint ==
  ASSUME NEW w, WorldOK(w), NEW e \in Points(w), ~ IsCode(StepAt(w, e))
  PROVE  LET s == w.text[e[1]]
         IN  /\ StepAt(w, e).slot = s.out
             /\ StepAt(w, e).sub = IF s.code = <<>> THEN <<>> ELSE <<Root(s).at>>
BY PointKind, MarkFields

\* The last step of a statement, and what it does for the names.
LEMMA LastStep ==
  ASSUME NEW w, WorldOK(w), NEW e \in Points(w)
  PROVE  LET s == w.text[e[1]]
             q == StepAt(w, e)
         IN  /\ e[2] = Len(w.script[e[1]]) <=> q.kind \in Marks \ {"clear", "check"}
             /\ q.kind \in Marks \ {"clear", "check"} => q = Mark(LastMark(s), s) /\ q.kind = LastMark(s)
             /\ q.kind = "clear" => s.kind = "assign" /\ e[2] = 1
<1> DEFINE s == w.text[e[1]]
           q == StepAt(w, e)
           c == w.script[e[1]]
<1>1. CASE \E j \in DOMAIN s.code : e[2] = Lead(c) + j /\ q = s.code[j] /\ IsCode(q)
  <2>1. PICK j \in DOMAIN s.code : e[2] = Lead(c) + j
    BY <1>1
  <2>2. e[1] \in DOMAIN w.text
    BY PointParts
  <2>3. e[2] < Len(c) /\ Len(c) \in Nat /\ e[2] \in Nat
    BY <2>1, <2>2, CodePoint, PointParts
  <2>4. q.kind \notin Marks
    BY <1>1, KindsApart DEF IsCode
  <2> QED BY <2>3, <2>4 DEF Marks
<1>2. CASE e[2] = Len(c) /\ q = Mark(LastMark(s), s) /\ q.kind = LastMark(s)
  BY <1>2, LastMarkKind
<1>3. CASE e[2] < Len(c) /\ s.kind = "assign" /\ e[2] = 1 /\ q.kind = "clear"
  <2>1. Len(c) \in Nat /\ e[2] \in Nat
    BY PointParts
  <2>2. e[2] # Len(c)
    <3>1. e[2] < Len(c)
      BY <1>3
    <3> HIDE DEF c
    <3> QED BY ONLY <2>1, <3>1
  <2>3. q.kind \notin Marks \ {"clear", "check"}
    BY <1>3
  <2> QED BY ONLY <1>3, <2>2, <2>3
<1>4. CASE e[2] < Len(c) /\ q.kind = "check"
  <2>1. Len(c) \in Nat /\ e[2] \in Nat
    BY PointParts
  <2> QED BY <1>4, <2>1
<1> QED BY <1>1, <1>2, <1>3, <1>4, PointKind

\* Behind a statement, a name holds what the statement bound it to.
LEMMA HeldNext ==
  ASSUME NEW w, WorldOK(w), NEW vals, NEW i \in DOMAIN w.text, NEW slot \in Slots
  PROVE  Held(w, vals, i + 1, slot) = IF w.text[i].out = slot /\ w.text[i].kind # "set"
                                      THEN vals[Root(w.text[i]).at].val
                                      ELSE Held(w, vals, i, slot)
<1> DEFINE W == Writers(w.text, i, slot)
           V == Writers(w.text, i + 1, slot)
<1>1. DOMAIN w.text = 1..Len(w.text) /\ Len(w.text) \in Nat /\ i \in Nat
  BY DEF WorldOK, TextOK
<1>2. \A m : m \in V <=> m \in W \/ (m = i /\ w.text[i].out = slot /\ w.text[i].kind # "set")
  BY <1>1 DEF Writers
<1>3. CASE w.text[i].out = slot /\ w.text[i].kind # "set"
  <2>1. i \in V /\ \A n \in V : n <= i
    BY <1>1, <1>2, <1>3 DEF Writers
  <2> QED BY <1>3, <2>1, HeldIs
<1>4. CASE ~ (w.text[i].out = slot /\ w.text[i].kind # "set")
  <2>1. V = W
    BY <1>2, <1>4
  <2>2. CASE W = {}
    BY <1>4, <2>1, <2>2, HeldNone
  <2>3. CASE W # {}
    <3>1. PICK m \in W : \A n \in W : n <= m
      BY <1>1, <2>3, WriterIs
    <3>2. m \in V /\ \A n \in V : n <= m
      BY <2>1, <3>1
    <3> QED BY <1>4, <3>1, <3>2, HeldIs
  <2> QED BY <2>2, <2>3
<1> QED BY <1>3, <1>4

\* A name holds what was bound to it last.
LEMMA EffectMem ==
  ASSUME NEW w, WorldOK(w), NEW f, NEW f2, NEW r, Somewhere(w, r), Filled(w, r), MemOK(w, r),
         NEW r2, Effect(w, f, f2, r, r2)
  PROVE  MemOK(w, r2)
<1> DEFINE e == Here(r)
           q == StepAt(w, e)
           i == r.line
           s == w.text[i]
<1>1. /\ r.outcome = "running" /\ e \in Points(w) /\ Moves(w, r, r2) /\ Leaves(w, r, r2)
      /\ Binds(w, r, r2) /\ Judges(w, f, f2, r, r2)
  BY DEF Effect
<1>2. SUFFICES ASSUME r2.outcome = "running", NEW n \in Slots
               PROVE  Now(r2, n) = IF Cleared(w, r2, n) THEN Zero ELSE Held(w, r2.vals, r2.line, n)
  BY DEF MemOK
<1>3. /\ e[1] = i /\ e[2] = r.pos /\ i \in DOMAIN w.text /\ i \in Nat \ {0} /\ r.pos \in Nat \ {0}
      /\ r.pos <= Len(w.script[i]) /\ Len(w.script[i]) \in Nat \ {0} /\ Len(w.text) \in Nat /\ r.pos \in DOMAIN w.script[i]
      /\ DOMAIN w.text = 1..Len(w.text)
  <2>1. e[1] = i /\ e[2] = r.pos
    BY DEF Here
  <2> QED BY <1>1, <2>1, PointParts DEF WorldOK, TextOK
<1>4. /\ \A p \in DOMAIN r.vals : r2.vals[p] = r.vals[p]
  BY <1>1, ValuesGrow
<1>5. Known(w, r.vals, e)
  BY <1>1, KnownBefore
<1>6. Held(w, r2.vals, i, n) = Held(w, r.vals, i, n)
  BY <1>3, <1>4, <1>5, HeldStays
<1>7. Now(r, n) = IF Cleared(w, r, n) THEN Zero ELSE Held(w, r.vals, i, n)
  BY <1>1 DEF MemOK
<1>8. Now(r2, n) = IF n = q.slot /\ q.kind = "store" THEN r.vals[q.sub[1]].val
                   ELSE IF n = q.slot /\ q.kind = "clear" THEN Zero
                   ELSE Now(r, n)
  BY <1>1 DEF Binds
<1>9. /\ r.pos = Len(w.script[i]) <=> q.kind \in Marks \ {"clear", "check"}
      /\ q.kind \in Marks \ {"clear", "check"} => q = Mark(LastMark(s), s) /\ q.kind = LastMark(s)
      /\ q.kind = "clear" => s.kind = "assign" /\ r.pos = 1
  BY <1>1, <1>3, LastStep
<1>10. <<i, 1>> \in Points(w) /\ StepAt(w, <<i, 1>>) = w.script[i][1]
  <2>1. 1 \in DOMAIN w.script[i]
    <3>1. DOMAIN w.script[i] = 1..Len(w.script[i])
      BY <1>3 DEF WorldOK, LineOK
    <3> QED BY <1>3, <3>1
  <2> QED BY <1>3, <2>1, PointIn
<1>11. w.script[i][1].kind = "clear" => s.kind = "assign"
  <2>1. <<i, 1>>[1] = i
    OBVIOUS
  <2> QED BY <1>10, <2>1, LastStep
<1>12. q = w.script[i][r.pos]
  BY <1>3 DEF StepAt
<1> HIDE DEF e, q, s
<1>13. CASE r.pos < Len(w.script[i])
  <2>1. r2.line = i /\ r2.pos = r.pos + 1
    BY <1>1, <1>13 DEF Moves
  <2>2. q.kind # "store"
    BY <1>3, <1>9, <1>13 DEF Marks
  <2>3. CASE q.kind = "clear"
    <3>1. r.pos = 1 /\ q.slot = s.out
      <4>1. q.slot = s.out
        <5>1. ~ IsCode(q)
          BY <2>3, KindsApart DEF IsCode, Marks
        <5> QED BY <1>1, <1>3, <5>1, MarkPoint DEF q, s
      <4> QED BY <1>9, <2>3, <4>1
    <3>2. Cleared(w, r2, n) <=> n = q.slot
      BY <1>3, <1>12, <2>1, <2>3, <3>1 DEF Cleared, s
    <3>3. ~ Cleared(w, r, n)
      BY <3>1 DEF Cleared
    <3> QED BY <1>6, <1>7, <1>8, <2>1, <2>3, <3>2, <3>3
  <2>4. CASE q.kind # "clear"
    <3>1. Cleared(w, r2, n) <=> Cleared(w, r, n)
      BY <1>3, <1>12, <2>1, <2>4 DEF Cleared
    <3> QED BY <1>6, <1>7, <1>8, <2>1, <2>2, <2>4, <3>1
  <2> QED BY <2>3, <2>4
<1>14. CASE r.pos = Len(w.script[i])
  <2>1. r2.line = i + 1 /\ r2.pos = 1
    BY <1>1, <1>3, <1>14 DEF Moves
  <2>2. ~ Cleared(w, r2, n)
    BY <2>1 DEF Cleared
  <2>3. q = Mark(LastMark(s), s) /\ q.kind = LastMark(s) /\ q.kind # "clear"
    BY <1>9, <1>14
  <2>4. q.slot = s.out /\ q.sub = IF s.code = <<>> THEN <<>> ELSE <<Root(s).at>>
    BY <2>3, MarkFields
  <2>5. Held(w, r2.vals, i + 1, n) = IF s.out = n /\ s.kind # "set" THEN r2.vals[Root(s).at].val
                                     ELSE Held(w, r2.vals, i, n)
    BY <1>3, HeldNext DEF s
  <2>6. CASE q.kind = "store"
    <3>1. s.kind \in {"call", "assign", "lit"} /\ s.out # None
      BY <2>3, <2>6 DEF LastMark
    <3>2. 1 \in DOMAIN q.sub /\ q.sub[1] \in Range(q.sub)
      BY <1>1, <2>6, PointSlot DEF q
    <3>3. q.sub[1] = Root(s).at
      BY <2>4, <3>2
    <3>4. Root(s).at \in DOMAIN r.vals
      BY <1>1, <1>5, <2>6, <3>2, <3>3, KnownOperand DEF q
    <3>5. CASE s.out = n
      BY <1>4, <1>8, <2>1, <2>2, <2>4, <2>5, <2>6, <3>1, <3>3, <3>4, <3>5
    <3>6. CASE s.out # n
      <4>1. ~ Cleared(w, r, n)
        BY <3>6 DEF Cleared, s
      <4> QED BY <1>6, <1>7, <1>8, <2>1, <2>2, <2>4, <2>5, <2>6, <3>6, <4>1
    <3> QED BY <3>5, <3>6
  <2>7. CASE q.kind # "store"
    <3>1. s.out = n => s.kind = "set"
      <4>1. q.kind \notin {"result", "end"}
        BY <1>1, <1>2 DEF Judges, q, e
      <4>2. s.kind \in Kept \cup {"return", "stop"}
        BY <1>3 DEF WorldOK, TextOK, s
      <4> QED BY <2>3, <2>7, <4>1, <4>2, PlanAssumption DEF LastMark, Kept
    <3>2. ~ Cleared(w, r, n)
      BY <1>11, <3>1 DEF Cleared, s
    <3> QED BY <1>6, <1>7, <1>8, <2>1, <2>2, <2>3, <2>5, <2>7, <3>1, <3>2
  <2> QED BY <2>6, <2>7
<1> QED BY <1>3, <1>13, <1>14

\* No cell that an operand was read from changes before the call.
LEMMA EffectLoads ==
  ASSUME NEW w, WorldOK(w), NEW f, NEW f2, NEW r, Somewhere(w, r), Filled(w, r), Loads(w, r),
         NEW r2, Effect(w, f, f2, r, r2)
  PROVE  Loads(w, r2)
<1> DEFINE e == Here(r)
           q == StepAt(w, e)
<1>1. /\ r.outcome = "running" /\ e \in Points(w) /\ Moves(w, r, r2) /\ Leaves(w, r, r2)
      /\ Binds(w, r, r2) /\ Judges(w, f, f2, r, r2)
  BY DEF Effect
<1>2. \A c \in Points(w) : Done(r2, c) <=> Done(r, c) \/ c = e
  BY <1>1, Advance
<1>3. /\ \A p \in DOMAIN r.vals : r2.vals[p] = r.vals[p]
      /\ IsCode(q) /\ ~ Stuck(w, r.vals, e) => Loaded(r.mem, r2.vals[q.at]) = r2.vals[q.at].val
  BY <1>1, ValuesGrow
<1>4. SUFFICES ASSUME r2.outcome = "running", NEW c \in Points(w), c[1] = r2.line, Done(r2, c), IsCode(StepAt(w, c))
               PROVE  Loaded(r2.mem, r2.vals[StepAt(w, c).at]) = r2.vals[StepAt(w, c).at].val
  BY DEF Loads
<1>5. /\ e[1] = r.line /\ e[2] = r.pos /\ r.line \in Nat /\ r.pos \in Nat
      /\ c[1] \in Nat /\ c[2] \in Nat \ {0}
  <2>1. e[1] = r.line /\ e[2] = r.pos
    BY DEF Here
  <2> QED BY <1>1, <2>1, PointParts
<1>6. r2.line = r.line /\ r2.pos = r.pos + 1 /\ r.pos < Len(w.script[r.line])
  <2>1. SUFFICES ASSUME r2.line = r.line + 1, r2.pos = 1 PROVE FALSE
    BY <1>1 DEF Moves
  <2> QED BY <1>4, <1>5, <2>1 DEF Done, Lt, Here
<1>7. q.kind # "store"
  BY <1>1, <1>5, <1>6, LastStep DEF Marks
<1>8. q.kind # "clear"
  <2>1. SUFFICES ASSUME q.kind = "clear" PROVE FALSE
    OBVIOUS
  <2>2. r.pos = 1
    BY <1>1, <1>5, <2>1, LastStep
  <2>3. c = e
    <3>1. c[1] = e[1] /\ c[2] = e[2]
      BY <1>4, <1>5, <1>6, <2>2 DEF Done, Lt, Here
    <3> QED BY <1>1, <3>1, PointParts
  <2> QED BY <1>4, <2>1, <2>3, KindsApart DEF IsCode, Marks
<1>9. r2.mem = r.mem
  BY <1>1, <1>7, <1>8 DEF Binds
<1>10. CASE c = e
  <2>1. ~ Stuck(w, r.vals, e)
    BY <1>1, <1>4 DEF Judges, Faulty
  <2> QED BY <1>3, <1>4, <1>9, <1>10, <2>1
<1>11. CASE c # e
  <2>1. Done(r, c)
    BY <1>2, <1>4, <1>11
  <2>2. StepAt(w, c).at \in DOMAIN r.vals
    BY <1>1, <1>4, <2>1 DEF Filled
  <2> QED BY <1>1, <1>3, <1>4, <1>6, <1>9, <2>1, <2>2 DEF Loads
<1> QED BY <1>10, <1>11

\* A text that ends with a return ends there.
LEMMA EffectConcluded ==
  ASSUME NEW w, WorldOK(w), NEW f, NEW f2, NEW r, Somewhere(w, r), Filled(w, r), Concluded(w, r),
         NEW r2, Effect(w, f, f2, r, r2)
  PROVE  Concluded(w, r2)
<1> DEFINE e == Here(r)
           q == StepAt(w, e)
           i == r.line
           s == w.text[i]
<1>1. /\ r.outcome = "running" /\ e \in Points(w) /\ Moves(w, r, r2) /\ Leaves(w, r, r2)
      /\ Judges(w, f, f2, r, r2) /\ Shows(w, r, r2)
  BY DEF Effect
<1>2. \A c \in Points(w) : Done(r2, c) <=> Done(r, c) \/ c = e
  BY <1>1, Advance
<1>3. \A p \in DOMAIN r.vals : r2.vals[p] = r.vals[p]
  BY <1>1, ValuesGrow
<1>4. e[1] = i /\ e[2] = r.pos /\ i \in DOMAIN w.text /\ i \in Nat \ {0} /\ r.pos <= Len(w.script[i])
  <2>1. e[1] = i /\ e[2] = r.pos
    BY DEF Here
  <2> QED BY <1>1, <2>1, PointParts
<1>5. r2.result = IF q.kind = "result" THEN Shown(r.vals[q.sub[1]].val) ELSE Zero
  BY <1>1 DEF Shows
<1>6. /\ Len(w.text) \in Nat /\ DOMAIN w.text = 1..Len(w.text)
      /\ s.kind \in Kept \cup {"return", "stop"} /\ (s.kind \notin Kept => i = Len(w.text))
      /\ s.kind = "return" => Len(s.code) > 0
      /\ w.returns # None => s.kind \in Kept
  BY <1>4 DEF WorldOK, TextOK
<1>7. q.kind \in {"result", "end"} =>
        q = Mark(LastMark(s), s) /\ q.kind = LastMark(s) /\ r.pos = Len(w.script[i])
  BY <1>1, <1>4, LastStep DEF Marks
<1>8. (q.kind = "result" => s.kind = "return") /\ (q.kind = "end" => s.kind = "stop")
  BY <1>6, <1>7 DEF LastMark, Kept
<1>9. CASE r2.outcome = "error"
  <2>1. Final(w, r2, e)
    BY <1>1, EffectFinal
  <2>2. ~ (q.kind = "result")
    <3>1. Faulty(w, f2, r.vals, e)
      BY <1>1, <1>9 DEF Judges
    <3> QED BY <3>1 DEF Faulty, Stuck
  <2> QED BY <1>1, <1>5, <1>9, <2>1, <2>2 DEF Concluded
<1>10. CASE r2.outcome = "ok"
  <2>1. q.kind \in {"result", "end"}
    BY <1>1, <1>10 DEF Judges
  <2>2. i = Len(w.text) /\ r.pos = Len(w.script[i])
    BY <1>6, <1>7, <1>8, <2>1 DEF Kept
  <2>3. ASSUME NEW c \in Points(w) PROVE Done(r2, c)
    <3>1. /\ c[1] \in Nat /\ c[2] \in Nat /\ c[1] <= Len(w.text) /\ c[2] <= Len(w.script[c[1]]) /\ c = <<c[1], c[2]>>
      BY PointParts
    <3>2. r2.line = i + 1 /\ r2.pos = 1
      BY <1>1, <1>4, <2>2, PointParts DEF Moves
    <3> QED BY <1>4, <2>2, <3>1, <3>2 DEF Done, Lt, Here
  <2>4. CASE q.kind = "result"
    <3>1. 1 \in DOMAIN q.sub /\ q.sub[1] \in Range(q.sub)
      BY <1>1, <2>4, PointSlot
    <3>2. ~ IsCode(q)
      BY <2>4, KindsApart DEF IsCode, Marks
    <3>3. q.sub[1] = Root(s).at
      <4>1. q.sub = IF s.code = <<>> THEN <<>> ELSE <<Root(s).at>>
        BY <1>1, <1>4, <3>2, MarkPoint
      <4> HIDE DEF q, s
      <4> QED BY <3>1, <4>1
    <3>4. Known(w, r.vals, e)
      BY <1>1, KnownBefore
    <3>5. q.sub[1] \in DOMAIN r.vals
      BY <1>1, <2>4, <3>1, <3>4, KnownOperand
    <3>6. s = w.text[Len(w.text)] /\ s.kind = "return" /\ Len(w.text) > 0
      BY <1>4, <1>6, <1>8, <2>2, <2>4
    <3>7. Outcome(w, r2.vals) = Shown(r2.vals[Root(s).at].val)
      BY <3>6 DEF Outcome
    <3>8. r2.vals[Root(s).at] = r.vals[Root(s).at]
      BY <1>3, <3>3, <3>5
    <3> QED BY <1>5, <1>10, <2>3, <2>4, <3>3, <3>7, <3>8 DEF Concluded
  <2>5. CASE q.kind = "end"
    <3>1. s = w.text[Len(w.text)] /\ s.kind = "stop" /\ w.returns = None
      BY <1>6, <1>8, <2>2, <2>5 DEF Kept
    <3>2. Outcome(w, r2.vals) = Zero
      BY <3>1 DEF Outcome
    <3> QED BY <1>5, <1>10, <2>3, <2>5, <3>2 DEF Concluded
  <2> QED BY <2>1, <2>4, <2>5
<1>11. CASE r2.outcome = "running"
  <2>1. q.kind \notin {"result", "end"}
    BY <1>1, <1>11 DEF Judges
  <2> QED BY <1>1, <1>2, <1>5, <1>11, <2>1 DEF Concluded
<1> QED BY <1>1, <1>9, <1>10, <1>11 DEF Judges

\* A step keeps what holds of a run.
LEMMA EffectGeneral ==
  ASSUME NEW w, WorldOK(w), NEW f, NEW f2, NEW r, General(w, f, r), NEW r2, Effect(w, f, f2, r, r2)
  PROVE  General(w, f2, r2)
<1>1. /\ Somewhere(w, r) /\ Filled(w, r) /\ MemOK(w, r) /\ Loads(w, r) /\ Clean(r)
      /\ Valued(w, r) /\ Judged(w, f, r) /\ Traced(w, r) /\ Concluded(w, r)
  BY DEF General
<1>2. Somewhere(w, r2)
  <2>1. Here(r) \in Points(w) /\ Moves(w, r, r2) /\ r2.outcome \in {"running", "ok", "error"}
    BY DEF Effect, Judges
  <2> QED BY <1>1, <2>1, Advance DEF Somewhere
<1>3. IsRun(r2) /\ IsMem(r2.mem)
  BY DEF Effect, Binds
<1>4. Filled(w, r2) /\ MemOK(w, r2) /\ Loads(w, r2) /\ Clean(r2)
  BY <1>1, EffectFilled, EffectMem, EffectLoads, EffectClean
<1>5. Valued(w, r2) /\ Judged(w, f2, r2) /\ Traced(w, r2) /\ Concluded(w, r2)
  BY <1>1, EffectValued, EffectJudged, EffectTraced, EffectConcluded
<1> QED BY <1>2, <1>3, <1>4, <1>5 DEF General

\* So does stopping behind the last statement,
LEMMA StopsGeneral ==
  ASSUME NEW w, WorldOK(w), NEW f, NEW r, General(w, f, r), NEW r2, Stops(w, r, r2)
  PROVE  General(w, f, r2)
<1>1. /\ IsRun(r) /\ IsMem(r.mem) /\ Somewhere(w, r) /\ Filled(w, r) /\ MemOK(w, r) /\ Loads(w, r) /\ Clean(r)
      /\ Valued(w, r) /\ Judged(w, f, r) /\ Traced(w, r) /\ Concluded(w, r)
  BY DEF General
<1>2. /\ r.outcome = "running" /\ r.line = Len(w.text) + 1 /\ r.pos = 1 /\ Len(w.text) \in Nat
      /\ DOMAIN w.text = 1..Len(w.text)
  BY <1>1 DEF Stops, Somewhere, WorldOK, TextOK
<1>3. /\ IsRun(r2) /\ r2.line = r.line /\ r2.pos = r.pos /\ r2.vals = r.vals /\ r2.trace = r.trace /\ r2.mem = r.mem
      /\ r2.outcome = "ok"
      /\ r2.result = IF w.returns # None THEN Shown(Held(w, r.vals, r.line, w.returns)) ELSE Zero
  BY <1>1 DEF IsRun, Stops
<1>4. \A c : (Done(r2, c) <=> Done(r, c)) /\ (Final(w, r2, c) <=> Final(w, r, c))
  BY <1>3 DEF Done, Final, Here
<1>5. ASSUME NEW c \in Points(w) PROVE Done(r, c)
  <2>1. c[1] \in Nat /\ c[2] \in Nat /\ c[1] <= Len(w.text)
    BY PointParts
  <2> QED BY <1>2, <2>1 DEF Done, Lt, Here
<1>6. Somewhere(w, r2) /\ Filled(w, r2) /\ MemOK(w, r2) /\ Loads(w, r2) /\ Clean(r2)
  BY <1>1, <1>2, <1>3, <1>4 DEF Somewhere, Filled, MemOK, Loads, Clean
<1>7. Valued(w, r2) /\ Judged(w, f, r2)
  BY <1>1, <1>2, <1>3, <1>4 DEF Valued, Judged
<1>8. Traced(w, r2)
  <2>1. PICK es : Lists(w, r, es) /\ r.trace = [n \in DOMAIN es |-> EventAt(w, r.vals, es[n])]
    BY <1>1 DEF Traced
  <2>2. Lists(w, r2, es)
    BY <1>4, <2>1 DEF Lists
  <2> QED BY <1>3, <2>1, <2>2 DEF Traced
<1>9. Concluded(w, r2)
  <2>1. ~ (Len(w.text) > 0 /\ w.text[Len(w.text)].kind = "return")
    <3>1. SUFFICES ASSUME Len(w.text) > 0, w.text[Len(w.text)].kind = "return" PROVE FALSE
      OBVIOUS
    <3> DEFINE i == Len(w.text)
               e == <<i, Len(w.script[i])>>
    <3>2. i \in DOMAIN w.text
      BY <1>2, <3>1
    <3>3. LineOK(w.text[i], w.script[i]) /\ Lead(w.script[i]) \in Nat
      BY <3>2 DEF WorldOK, Lead
    <3>4. Len(w.script[i]) \in DOMAIN w.script[i] /\ w.script[i][Len(w.script[i])] = Mark(LastMark(w.text[i]), w.text[i])
      BY <3>3 DEF LineOK
    <3>5. e \in Points(w) /\ StepAt(w, e).kind = LastMark(w.text[i])
      <4>1. e \in Points(w) /\ StepAt(w, e) = w.script[i][Len(w.script[i])]
        BY <3>2, <3>4, PointIn
      <4>2. PICK q : q = StepAt(w, e)
        OBVIOUS
      <4>3. q = Mark(LastMark(w.text[i]), w.text[i])
        BY <3>4, <4>1, <4>2
      <4>4. q.kind = LastMark(w.text[i])
        BY ONLY <4>3, MarkFields
      <4> QED BY <4>1, <4>2, <4>4
    <3>6. LastMark(w.text[i]) = "result"
      BY <3>1 DEF LastMark
    <3> QED BY <1>1, <1>2, <1>5, <3>5, <3>6 DEF Concluded
  <2>2. r2.result = Outcome(w, r2.vals)
    BY <1>2, <1>3, <2>1 DEF Outcome
  <2> QED BY <1>3, <1>4, <1>5, <2>2 DEF Concluded
<1> QED BY <1>1, <1>3, <1>6, <1>7, <1>8, <1>9 DEF General

\* and what other runs learn about the callees.
LEMMA FateGeneral ==
  ASSUME NEW w, NEW f, NEW f2, NEW r, General(w, f, r),
         \A d \in DOMAIN f : d \in DOMAIN f2 /\ f2[d] = f[d]
  PROVE  General(w, f2, r)
<1>1. Judged(w, f2, r)
  BY DEF General, Judged, Faulty
<1> QED BY <1>1 DEF General

\* It holds when a run starts.
LEMMA BootGeneral ==
  ASSUME NEW w, WorldOK(w), NEW f, NEW r, r.mem = [s \in Slots |-> r.mem[s]],
         \A s \in Slots : r.mem[s] \in {<<>>, <<Zero>>},
         r = [line |-> 1, pos |-> 1, vals |-> <<>>, trace |-> <<>>, mem |-> r.mem,
              outcome |-> "running", result |-> Zero]
  PROVE  General(w, f, r)
<1>1. Len(w.text) \in Nat /\ DOMAIN w.text = 1..Len(w.text)
  BY DEF WorldOK, TextOK
<1>2. /\ r.line = 1 /\ r.pos = 1 /\ r.vals = <<>> /\ r.trace = <<>> /\ r.outcome = "running" /\ r.result = Zero
  OBVIOUS
<1>3. ASSUME NEW c \in Points(w) PROVE ~ Done(r, c)
  <2>1. c[1] \in Nat \ {0} /\ c[2] \in Nat \ {0}
    BY PointParts
  <2> QED BY <1>2, <2>1 DEF Done, Lt, Here
<1>4. IsRun(r)
  BY DEF IsRun
<1>5. IsMem(r.mem)
  <2>1. <<>> \in Seq(Range(<<>>)) /\ <<Zero>> \in Seq(Range(<<Zero>>))
    BY DEF Range
  <2> QED BY <2>1 DEF IsMem
<1>6. Somewhere(w, r)
  <2>1. 1 <= Len(w.text) => 1 <= Len(w.script[1])
    <3>1. SUFFICES ASSUME 1 <= Len(w.text) PROVE 1 <= Len(w.script[1])
      OBVIOUS
    <3>2. LineOK(w.text[1], w.script[1]) /\ Lead(w.script[1]) \in Nat
      BY <1>1, <3>1 DEF WorldOK, Lead
    <3> QED BY <3>2 DEF LineOK
  <2> QED BY <1>1, <1>2, <2>1 DEF Somewhere
<1>7. Filled(w, r) /\ Loads(w, r) /\ Clean(r) /\ Valued(w, r) /\ Judged(w, f, r)
  BY <1>2, <1>3 DEF Filled, Loads, Clean, Valued, Judged
<1>8. MemOK(w, r)
  <2>1. ASSUME NEW s \in Slots PROVE Now(r, s) = Zero /\ Held(w, r.vals, 1, s) = Zero /\ ~ Cleared(w, r, s)
    <3>1. Writers(w.text, 1, s) = {}
      BY <1>1 DEF Writers
    <3>2. Now(r, s) = Zero
      <4>1. r.mem[s] = <<>> \/ r.mem[s] = <<Zero>>
        OBVIOUS
      <4>2. Len(<<>>) = 0 /\ Len(<<Zero>>) = 1 /\ <<Zero>>[1] = Zero
        OBVIOUS
      <4> QED BY <4>1, <4>2 DEF Now, Cell
    <3> QED BY <1>2, <3>1, <3>2, HeldNone DEF Cleared
  <2> QED BY <1>2, <2>1 DEF MemOK
<1>9. Traced(w, r)
  <2>1. Lists(w, r, <<>>)
    BY <1>3 DEF Lists
  <2> QED BY <1>2, <2>1 DEF Traced
<1>10. Concluded(w, r)
  BY <1>2, <1>3 DEF Concluded
<1> QED BY <1>4, <1>5, <1>6, <1>7, <1>8, <1>9, <1>10 DEF General

-----------------------------------------------------------------------------
(***************************************************************************)
(* The actions of ProgramTiers make these steps.                           *)
(***************************************************************************)

\* A tier is at turn.
AtTurn(w, r) ==
  /\ stage \in Tiers /\ DOMAIN run = Tiers
  /\ w = World(stage) /\ r = run[stage]
  /\ WorldOK(w) /\ General(w, fate, r)
  /\ \A d \in DOMAIN fate : fate[d] \in {"ok", "error"}

\* The tier is at a point.
AtPoint(w, r) ==
  /\ AtTurn(w, r) /\ r.outcome = "running" /\ Here(r) \in Points(w)
  /\ op = StepAt(w, Here(r)) /\ exec = r /\ Todo = w.script[r.line] /\ r.result = Zero

\* The operation at turn is a point.
LEMMA OpPoint ==
  ASSUME NEW w, NEW r, AtTurn(w, r), NEW kinds, AtOp(kinds)
  PROVE  AtPoint(w, r) /\ op.kind \in kinds
<1>1. /\ IsRun(r) /\ Somewhere(w, r) /\ Concluded(w, r)
  BY DEF AtTurn, General
<1>2. exec = r /\ r.outcome = "running" /\ r.line <= Len(w.text) /\ op.kind \in kinds
  <2>1. w.text = Text(stage)
    BY DEF AtTurn, World
  <2> QED BY <2>1 DEF AtTurn, AtOp, exec
<1>3. r.line \in DOMAIN w.text /\ r.pos \in DOMAIN w.script[r.line]
  <2>1. Len(w.text) \in Nat /\ DOMAIN w.text = 1..Len(w.text)
    BY DEF AtTurn, WorldOK, TextOK
  <2>2. r.line \in DOMAIN w.text /\ r.pos \in Nat \ {0} /\ r.pos <= Len(w.script[r.line])
    BY <1>1, <1>2, <2>1 DEF Somewhere
  <2>3. Len(w.script[r.line]) \in Nat /\ DOMAIN w.script[r.line] = 1..Len(w.script[r.line])
    BY <2>2 DEF AtTurn, WorldOK, LineOK
  <2> QED BY <2>2, <2>3
<1>4. Todo = w.script[r.line]
  BY <1>2, <1>3 DEF AtTurn, World, Todo, Line
<1>5. Here(r) \in Points(w) /\ StepAt(w, Here(r)) = w.script[r.line][r.pos]
  BY <1>3, PointIn DEF Here
<1>6. op = StepAt(w, Here(r))
  BY <1>2, <1>4, <1>5 DEF op
<1>7. r.result = Zero
  BY <1>1, <1>2 DEF Concluded
<1> QED BY <1>2, <1>4, <1>5, <1>6, <1>7 DEF AtPoint

\* Only the tier at turn moves.
Turned == /\ DOMAIN run' = Tiers /\ \A t \in Tiers : t # stage => run'[t] = run[t]
          /\ stage' = stage /\ UNCHANGED planVars

\* The tier goes on with what the step made.
LEMMA Becoming ==
  ASSUME NEW w, NEW r, AtPoint(w, r), NEW x, IsRun(x), x.line = r.line, x.pos = r.pos, Become(x)
  PROVE  LET r2 == run'[stage] IN
         /\ IsRun(r2) /\ Moves(w, r, r2) /\ Turned
         /\ r2.vals = x.vals /\ r2.trace = x.trace /\ r2.mem = x.mem
         /\ r2.outcome = x.outcome /\ r2.result = x.result
<1> DEFINE y == IF r.pos < Len(Todo) THEN [x EXCEPT !.pos = @ + 1] ELSE [x EXCEPT !.line = @ + 1, !.pos = 1]
<1>1. run' = [run EXCEPT ![stage] = y] /\ stage' = stage /\ UNCHANGED planVars
  BY DEF Become, AtPoint
<1>2. stage \in Tiers /\ DOMAIN run = Tiers /\ Todo = w.script[r.line]
  BY DEF AtPoint, AtTurn
<1>3. /\ IsRun(y) /\ y.vals = x.vals /\ y.trace = x.trace /\ y.mem = x.mem /\ y.outcome = x.outcome /\ y.result = x.result
      /\ IF r.pos < Len(Todo) THEN y.line = r.line /\ y.pos = r.pos + 1 ELSE y.line = r.line + 1 /\ y.pos = 1
  BY DEF IsRun
<1> HIDE DEF y
<1>4. run'[stage] = y /\ Turned
  BY <1>1, <1>2 DEF Turned
<1> QED BY <1>2, <1>3, <1>4 DEF Moves

\* What a step finds: operands, whose cells have not changed, and what a name holds.
LEMMA Sites ==
  ASSUME NEW w, NEW r, AtPoint(w, r)
  PROVE  LET e == Here(r) IN
         /\ WorldOK(w) /\ e[1] = r.line /\ IsMem(r.mem) /\ IsRun(r)
         /\ op.kind \notin {"clear", "check"} =>
              \A place \in Range(op.sub) :
                place \in DOMAIN r.vals /\ PointerFree(r.vals[place].val) /\ Loaded(r.mem, r.vals[place]) = r.vals[place].val
         /\ op.kind \in {"slot", "field", "deref", "check", "put"} =>
              op.slot \in Slots /\ Now(r, op.slot) = Held(w, r.vals, e[1], op.slot)
<1> DEFINE e == Here(r)
           s == w.text[e[1]]
<1>1. /\ WorldOK(w) /\ e \in Points(w) /\ e[1] = r.line /\ op = StepAt(w, e) /\ r.outcome = "running"
      /\ IsMem(r.mem) /\ IsRun(r) /\ Somewhere(w, r) /\ Filled(w, r) /\ MemOK(w, r) /\ Loads(w, r) /\ Clean(r)
  BY DEF AtPoint, AtTurn, General, Here
<1>2. ASSUME op.kind \notin {"clear", "check"}, NEW place \in Range(op.sub)
      PROVE  place \in DOMAIN r.vals /\ PointerFree(r.vals[place].val) /\ Loaded(r.mem, r.vals[place]) = r.vals[place].val
  <2>1. PICK d \in Points(w) : d[1] = e[1] /\ Lt(d, e) /\ IsCode(StepAt(w, d)) /\ StepAt(w, d).at = place
    BY <1>1, <1>2, PointOperands
  <2>2. Done(r, d) /\ d[1] = r.line
    BY <1>1, <2>1 DEF Done
  <2>3. place \in DOMAIN r.vals
    BY <1>1, <2>1, <2>2 DEF Filled
  <2> QED BY <1>1, <2>1, <2>2, <2>3 DEF Loads, Clean
<1>3. ASSUME op.kind \in {"slot", "field", "deref", "check", "put"}
      PROVE  op.slot \in Slots /\ Now(r, op.slot) = Held(w, r.vals, e[1], op.slot)
  <2>1. op.slot \in Slots
    BY <1>1, <1>3, PointSlot
  <2>2. ~ Cleared(w, r, op.slot)
    <3>1. SUFFICES ASSUME w.script[e[1]][1].kind = "clear", s.out = op.slot PROVE FALSE
      BY <1>1 DEF Cleared
    <3>2. s.kind = "assign"
      <4>1. e[1] \in DOMAIN w.text /\ 1 \in DOMAIN w.script[e[1]]
        <5>1. e[1] \in DOMAIN w.text /\ Len(w.script[e[1]]) \in Nat \ {0}
          BY <1>1, PointParts
        <5>2. DOMAIN w.script[e[1]] = 1..Len(w.script[e[1]])
          BY <1>1, <5>1 DEF WorldOK, LineOK
        <5> QED BY <5>1, <5>2
      <4>2. <<e[1], 1>> \in Points(w) /\ StepAt(w, <<e[1], 1>>).kind = "clear" /\ <<e[1], 1>>[1] = e[1]
        BY <3>1, <4>1, PointIn
      <4> QED BY <1>1, <4>2, LastStep
    <3>3. CASE IsCode(op)
      <4>1. op.kind \notin Marks
        BY <3>3, KindsApart DEF IsCode
      <4>2. PICK j \in DOMAIN s.code : op = s.code[j]
        BY <1>1, <4>1, PointKind, LastMarkKind DEF Marks
      <4>3. OperationOK(s, j)
        <5>1. e[1] \in DOMAIN w.text
          BY <1>1, PointParts
        <5> QED BY <1>1, <4>2, <5>1 DEF WorldOK, TextOK
      <4> QED BY <3>1, <3>2, <4>2, <4>3 DEF OperationOK
    <3>4. CASE ~ IsCode(op)
      <4>1. op.kind \in {"check", "put"}
        BY <1>3, <3>4 DEF IsCode, OpKinds, Naming
      <4>2. op.kind = "put" => op.kind = LastMark(s)
        BY <1>1, LastStep DEF Marks
      <4>3. op.kind = "check" => s.kind = "set"
        BY <1>1, <3>4, PointKind, LastMarkKind
      <4> QED BY <3>2, <4>1, <4>2, <4>3 DEF LastMark
    <3> QED BY <3>3, <3>4
  <2> QED BY <1>1, <2>1, <2>2 DEF MemOK
<1> QED BY <1>1, <1>2, <1>3

\* Values without pointers.
LEMMA PointerFreeValues ==
  /\ PointerFree(Zero) /\ PointerFree(<<"const">>)
  /\ \A v : PointerFree(<<"by", v>>) /\ PointerFree(<<"pointee", v>>)
  /\ \A v : PointerFree(v) => v[1] # "ptr" /\ PointerFree(<<"lit", v>>) /\ PointerFree(FieldOf(v))
<1>1. ASSUME NEW v, v[1] # "ptr", v[1] # "lit" PROVE PointerFree(v)
  <2>1. v \in {v} /\ \A u \in {v} : u[1] # "ptr" /\ (u[1] = "lit" => u[2] \in {v})
    BY <1>1
  <2> QED BY <2>1 DEF PointerFree
<1>2. PointerFree(Zero) /\ PointerFree(<<"const">>)
  BY <1>1 DEF Zero
<1>3. ASSUME NEW v PROVE PointerFree(<<"by", v>>) /\ PointerFree(<<"pointee", v>>) /\ PointerFree(<<"field", v>>)
  BY <1>1
<1>4. ASSUME NEW v, PointerFree(v) PROVE v[1] # "ptr" /\ PointerFree(<<"lit", v>>) /\ PointerFree(FieldOf(v))
  <2>1. PICK S : v \in S /\ \A u \in S : u[1] # "ptr" /\ (u[1] = "lit" => u[2] \in S)
    BY <1>4 DEF PointerFree
  <2>2. PointerFree(<<"lit", v>>)
    <3> DEFINE T == S \cup {<<"lit", v>>}
    <3>1. <<"lit", v>>[1] = "lit" /\ <<"lit", v>>[2] = v
      OBVIOUS
    <3>2. <<"lit", v>> \in T /\ \A u \in T : u[1] # "ptr" /\ (u[1] = "lit" => u[2] \in T)
      BY <2>1, <3>1
    <3> QED BY <3>2 DEF PointerFree
  <2>3. v[1] = "lit" => PointerFree(v[2])
    BY <2>1 DEF PointerFree
  <2> QED BY <1>2, <1>3, <2>1, <2>2, <2>3 DEF FieldOf
<1> QED BY <1>2, <1>3, <1>4

\* A name holds no pointer,
LEMMA HeldClean ==
  ASSUME NEW w, WorldOK(w), NEW vals, \A p \in DOMAIN vals : PointerFree(vals[p].val),
         NEW e, e[1] \in Nat, Known(w, vals, e), NEW slot \in Slots
  PROVE  PointerFree(Held(w, vals, e[1], slot))
<1>1. CASE Writers(w.text, e[1], slot) = {}
  BY <1>1, HeldNone, PointerFreeValues
<1>2. CASE Writers(w.text, e[1], slot) # {}
  <2>1. PICK m \in Writers(w.text, e[1], slot) : \A n \in Writers(w.text, e[1], slot) : n <= m
    BY <1>2, WriterIs
  <2>2. Root(w.text[m]).at \in DOMAIN vals
    BY <2>1, KnownHeld
  <2>3. Held(w, vals, e[1], slot) = vals[Root(w.text[m]).at].val
    BY <2>1, HeldIs
  <2> QED BY <2>2, <2>3
<1> QED BY <1>1, <1>2

\* at no point of a run.
LEMMA HeldPointerFree ==
  ASSUME NEW w, NEW r, AtPoint(w, r), NEW slot \in Slots
  PROVE  PointerFree(Held(w, r.vals, Here(r)[1], slot))
<1>1. /\ WorldOK(w) /\ Here(r) \in Points(w) /\ r.outcome = "running" /\ Somewhere(w, r) /\ Filled(w, r) /\ Clean(r)
  BY DEF AtPoint, AtTurn, General
<1>2. PICK e : e = Here(r)
  OBVIOUS
<1>3. PICK vals : vals = r.vals
  OBVIOUS
<1>4. Known(w, vals, e) /\ e[1] \in Nat
  BY <1>1, <1>2, <1>3, KnownBefore, PointParts
<1>5. \A p \in DOMAIN vals : PointerFree(vals[p].val)
  BY <1>1, <1>3 DEF Clean
<1>6. PointerFree(Held(w, vals, e[1], slot))
  BY ONLY <1>1, <1>4, <1>5, HeldClean, slot \in Slots
<1> QED BY <1>2, <1>3, <1>6

\* An operation that leaves a value and nothing else.
LEMMA Yielding ==
  ASSUME NEW w, NEW r, AtPoint(w, r), IsCode(op), op.kind # "call", ~ Stuck(w, r.vals, Here(r)),
         NEW u, u.val = Worth(w, r.vals, Here(r)), PointerFree(u.val), Loaded(r.mem, u) = u.val,
         Become(Yields(u)), UNCHANGED fate
  PROVE  Effect(w, fate, fate', r, run'[stage]) /\ Turned
<1> DEFINE x == Yields(u)
           r2 == run'[stage]
<1>1. /\ exec = r /\ IsRun(r) /\ IsMem(r.mem) /\ r.outcome = "running" /\ r.result = Zero
      /\ Here(r) \in Points(w) /\ op = StepAt(w, Here(r))
  BY Sites DEF AtPoint
<1>2. /\ IsRun(x) /\ x.line = r.line /\ x.pos = r.pos /\ x.trace = r.trace /\ x.mem = r.mem
      /\ x.outcome = r.outcome /\ x.result = r.result
      /\ x.vals = [p \in DOMAIN r.vals \cup {op.at} |-> IF p = op.at THEN u ELSE r.vals[p]]
  BY <1>1 DEF Yields, IsRun
<1> HIDE DEF x
<1>3. /\ IsRun(r2) /\ Moves(w, r, r2) /\ Turned /\ r2.vals = x.vals /\ r2.trace = r.trace /\ r2.mem = r.mem
      /\ r2.outcome = "running" /\ r2.result = Zero
  BY <1>1, <1>2, Becoming DEF x
<1> HIDE DEF r2
<1>4. op.kind \notin {"store", "clear", "put", "call", "result", "end"}
  BY KindsApart DEF IsCode, Marks
<1>5. Leaves(w, r, r2)
  BY <1>1, <1>2, <1>3 DEF Leaves
<1>6. Binds(w, r, r2)
  BY <1>1, <1>3, <1>4 DEF Binds, Now
<1>7. Judges(w, fate, fate', r, r2)
  BY <1>1, <1>3, <1>4 DEF Judges, Faulty
<1>8. Shows(w, r, r2)
  BY <1>1, <1>3, <1>4 DEF Shows, Seen
<1> QED BY <1>1, <1>3, <1>5, <1>6, <1>7, <1>8 DEF Effect, r2

\* A step that fails for what it finds.
LEMMA Sticking ==
  ASSUME NEW w, NEW r, AtPoint(w, r), op.kind \in {"field", "deref", "part", "check"}, Stuck(w, r.vals, Here(r)),
         Become(Ended("error", Zero)), UNCHANGED fate
  PROVE  Effect(w, fate, fate', r, run'[stage]) /\ Turned
<1> DEFINE x == Ended("error", Zero)
           r2 == run'[stage]
<1>1. /\ exec = r /\ IsRun(r) /\ IsMem(r.mem) /\ r.outcome = "running" /\ r.result = Zero
      /\ Here(r) \in Points(w) /\ op = StepAt(w, Here(r))
  BY Sites DEF AtPoint
<1>2. /\ IsRun(x) /\ x.line = r.line /\ x.pos = r.pos /\ x.vals = r.vals /\ x.trace = r.trace /\ x.mem = r.mem
      /\ x.outcome = "error" /\ x.result = Zero
  <2>1. x = [r EXCEPT !.outcome = "error", !.result = Zero]
    BY <1>1 DEF Ended
  <2> HIDE DEF x
  <2>2. r = [line |-> r.line, pos |-> r.pos, vals |-> r.vals, trace |-> r.trace, mem |-> r.mem,
             outcome |-> r.outcome, result |-> r.result]
    BY <1>1 DEF IsRun
  <2> QED BY ONLY <2>1, <2>2 DEF IsRun
<1> HIDE DEF x
<1>3. /\ IsRun(r2) /\ Moves(w, r, r2) /\ Turned /\ r2.vals = r.vals /\ r2.trace = r.trace /\ r2.mem = r.mem
      /\ r2.outcome = "error" /\ r2.result = Zero
  BY <1>1, <1>2, Becoming DEF x
<1> HIDE DEF r2
<1>4. op.kind \notin {"store", "clear", "put", "call", "result", "end"}
  OBVIOUS
<1>5. Leaves(w, r, r2)
  BY <1>1, <1>3 DEF Leaves
<1>6. Binds(w, r, r2)
  BY <1>1, <1>3, <1>4 DEF Binds, Now
<1>7. Judges(w, fate, fate', r, r2)
  BY <1>1, <1>3, <1>4 DEF Judges, Faulty
<1>8. Shows(w, r, r2)
  BY <1>1, <1>3, <1>4 DEF Shows, Seen
<1> QED BY <1>1, <1>3, <1>5, <1>6, <1>7, <1>8 DEF Effect, r2

\* A step of another kind, that does not fail.
LEMMA Marking ==
  ASSUME NEW w, NEW r, AtPoint(w, r), op.kind \in Marks, ~ Stuck(w, r.vals, Here(r)), UNCHANGED fate,
         NEW x, IsRun(x), x.line = r.line, x.pos = r.pos, x.vals = r.vals, Become(x),
         IsMem(x.mem), op.kind \notin {"store", "clear"} => x.mem = r.mem,
         \A s \in Slots : Now(x, s) = IF s = op.slot /\ op.kind = "store" THEN r.vals[op.sub[1]].val
                                      ELSE IF s = op.slot /\ op.kind = "clear" THEN Zero
                                      ELSE Now(r, s),
         x.outcome = IF op.kind \in {"result", "end"} THEN "ok" ELSE "running",
         x.trace = IF op.kind = "put" THEN Append(r.trace, EventAt(w, r.vals, Here(r))) ELSE r.trace,
         x.result = IF op.kind = "result" THEN Shown(r.vals[op.sub[1]].val) ELSE Zero
  PROVE  Effect(w, fate, fate', r, run'[stage]) /\ Turned
<1> DEFINE r2 == run'[stage]
<1>1. r.outcome = "running" /\ Here(r) \in Points(w) /\ op = StepAt(w, Here(r))
  BY DEF AtPoint
<1>2. /\ IsRun(r2) /\ Moves(w, r, r2) /\ Turned /\ r2.vals = r.vals /\ r2.trace = x.trace /\ r2.mem = x.mem
      /\ r2.outcome = x.outcome /\ r2.result = x.result
  BY Becoming
<1> HIDE DEF r2
<1>3. op.kind # "call" /\ ~ IsCode(op)
  BY KindsApart DEF IsCode, OpKinds, Marks
<1>4. Leaves(w, r, r2)
  BY <1>1, <1>2, <1>3 DEF Leaves
<1>5. \A s \in Slots : Now(r2, s) = Now(x, s)
  BY <1>2 DEF Now
<1>6. Binds(w, r, r2)
  BY <1>1, <1>2, <1>5 DEF Binds
<1>7. Judges(w, fate, fate', r, r2)
  BY <1>1, <1>2, <1>3 DEF Judges, Faulty
<1>8. Shows(w, r, r2)
  BY <1>1, <1>2, <1>3 DEF Shows, Seen
<1> QED BY <1>1, <1>2, <1>4, <1>6, <1>7, <1>8 DEF Effect, r2

\* An operand that is copied, and one that is read where it is.
LEMMA LoadsBack ==
  ASSUME NEW mem, NEW v
  PROVE  Value(v).val = v /\ Loaded(mem, Value(v)) = v
BY DEF Value, Loaded

\* An operand with a cell is loaded from it.
LEMMA LoadsCell ==
  ASSUME NEW mem, NEW v, NEW slot, NEW n, NEW u, u.cell = <<slot, n>>,
         v = IF u.field THEN FieldOf(Cell(mem, slot, n)) ELSE Cell(mem, slot, n)
  PROVE  Loaded(mem, u) = v
<1>1. u.cell # <<>> /\ u.cell[1] = slot /\ u.cell[2] = n
  OBVIOUS
<1> QED BY <1>1 DEF Loaded

\* Reading a name.
LEMMA ReadEffect ==
  ASSUME NEW w, NEW r, AtTurn(w, r), Read
  PROVE  Effect(w, fate, fate', r, run'[stage]) /\ Turned
<1>1. AtPoint(w, r) /\ op.kind = "slot"
  BY OpPoint DEF Read
<1>2. /\ op = StepAt(w, Here(r)) /\ exec = r /\ Here(r)[1] = r.line
      /\ op.slot \in Slots /\ Now(r, op.slot) = Held(w, r.vals, Here(r)[1], op.slot)
  BY <1>1, Sites DEF AtPoint
<1> DEFINE v == Now(r, op.slot)
           u == IF Late(stage, Line.code, op) THEN At(v, op.slot, Len(r.mem[op.slot]), FALSE) ELSE Value(v)
<1>3. Become(Yields(u)) /\ UNCHANGED fate
  BY <1>2 DEF Read, Yield
<1>4. v = Worth(w, r.vals, Here(r)) /\ ~ Stuck(w, r.vals, Here(r))
  BY <1>1, <1>2 DEF Worth, Stuck
<1>5. PointerFree(v)
  BY <1>1, <1>2, HeldPointerFree
<1>6. Cell(r.mem, op.slot, Len(r.mem[op.slot])) = v
  BY DEF Now
<1>7. u.val = v /\ Loaded(r.mem, u) = v
  <2>1. CASE Late(stage, Line.code, op)
    <3>1. u = At(v, op.slot, Len(r.mem[op.slot]), FALSE)
      BY <2>1
    <3>2. PICK mem, slot, n, x, y : mem = r.mem /\ slot = op.slot /\ n = Len(r.mem[op.slot]) /\ x = v /\ y = u
      OBVIOUS
    <3>3. y.cell = <<slot, n>> /\ y.field = FALSE /\ y.val = x /\ Cell(mem, slot, n) = x
      BY <1>6, <3>1, <3>2 DEF At
    <3>4. x = IF y.field THEN FieldOf(Cell(mem, slot, n)) ELSE Cell(mem, slot, n)
      BY ONLY <3>3
    <3>5. Loaded(mem, y) = x
      BY ONLY <3>3, <3>4, LoadsCell
    <3> HIDE DEF u, v
    <3> QED BY <3>2, <3>3, <3>5
  <2>2. CASE ~ Late(stage, Line.code, op)
    <3>1. u = Value(v)
      BY <2>2
    <3> HIDE DEF u, v
    <3> QED BY <3>1, LoadsBack
  <2> QED BY <2>1, <2>2
<1>8. IsCode(op) /\ op.kind # "call"
  BY <1>1 DEF IsCode, OpKinds, Naming
<1> HIDE DEF u, v
<1> QED BY <1>1, <1>3, <1>4, <1>5, <1>7, <1>8, Yielding

\* Reading a field of one.
LEMMA ReadFieldEffect ==
  ASSUME NEW w, NEW r, AtTurn(w, r), ReadField
  PROVE  Effect(w, fate, fate', r, run'[stage]) /\ Turned
<1>1. AtPoint(w, r) /\ op.kind = "field"
  BY OpPoint DEF ReadField
<1>2. /\ op = StepAt(w, Here(r)) /\ exec = r /\ Here(r)[1] = r.line
      /\ op.slot \in Slots /\ Now(r, op.slot) = Held(w, r.vals, Here(r)[1], op.slot)
  BY <1>1, Sites DEF AtPoint
<1> DEFINE h == Now(r, op.slot)
           v == FieldOf(h)
           u == IF Late(stage, Line.code, op) THEN At(v, op.slot, Len(r.mem[op.slot]), TRUE) ELSE Value(v)
<1>3. Become(IF ~ IsStruct(op.slot) /\ h = Zero THEN Ended("error", Zero) ELSE Yields(u)) /\ UNCHANGED fate
  BY <1>2 DEF ReadField, Yield
<1>4. op.slot \in w.structs <=> IsStruct(op.slot)
  BY <1>1, <1>2 DEF AtPoint, AtTurn, World, Structs
<1>5. v = Worth(w, r.vals, Here(r)) /\ (Stuck(w, r.vals, Here(r)) <=> ~ IsStruct(op.slot) /\ h = Zero)
  BY <1>1, <1>2, <1>4 DEF Worth, Stuck
<1>6. PointerFree(v)
  BY <1>1, <1>2, HeldPointerFree, PointerFreeValues
<1>7. FieldOf(Cell(r.mem, op.slot, Len(r.mem[op.slot]))) = v
  BY DEF Now
<1>8. u.val = v /\ Loaded(r.mem, u) = v
  <2>1. CASE Late(stage, Line.code, op)
    <3>1. u = At(v, op.slot, Len(r.mem[op.slot]), TRUE)
      BY <2>1
    <3>2. PICK mem, slot, n, x, y : mem = r.mem /\ slot = op.slot /\ n = Len(r.mem[op.slot]) /\ x = v /\ y = u
      OBVIOUS
    <3>3. y.cell = <<slot, n>> /\ y.field = TRUE /\ y.val = x /\ FieldOf(Cell(mem, slot, n)) = x
      BY <1>7, <3>1, <3>2 DEF At
    <3>4. x = IF y.field THEN FieldOf(Cell(mem, slot, n)) ELSE Cell(mem, slot, n)
      BY ONLY <3>3
    <3>5. Loaded(mem, y) = x
      BY ONLY <3>3, <3>4, LoadsCell
    <3> HIDE DEF u, v
    <3> QED BY <3>2, <3>3, <3>5
  <2>2. CASE ~ Late(stage, Line.code, op)
    <3>1. u = Value(v)
      BY <2>2
    <3> HIDE DEF u, v
    <3> QED BY <3>1, LoadsBack
  <2> QED BY <2>1, <2>2
<1>9. IsCode(op) /\ op.kind # "call"
  BY <1>1 DEF IsCode, OpKinds, Naming
<1> HIDE DEF u, v, h
<1>10. CASE Stuck(w, r.vals, Here(r))
  BY <1>1, <1>3, <1>5, <1>10, Sticking
<1>11. CASE ~ Stuck(w, r.vals, Here(r))
  <2>1. Become(Yields(u))
    BY <1>3, <1>5, <1>11
  <2> QED BY <1>1, <1>3, <1>5, <1>6, <1>8, <1>9, <1>11, <2>1, Yielding
<1> QED BY <1>10, <1>11

\* No name holds a pointer to a name.
LEMMA ReadThroughEffect ==
  ASSUME NEW w, NEW r, AtTurn(w, r), ReadThrough
  PROVE  Effect(w, fate, fate', r, run'[stage]) /\ Turned
<1>1. AtPoint(w, r) /\ op.kind = "deref"
  BY OpPoint DEF ReadThrough
<1>2. /\ op = StepAt(w, Here(r)) /\ exec = r /\ Here(r)[1] = r.line
      /\ op.slot \in Slots /\ Now(r, op.slot) = Held(w, r.vals, Here(r)[1], op.slot)
  BY <1>1, Sites DEF AtPoint
<1> DEFINE h == Now(r, op.slot)
           v == <<"pointee", h>>
<1>3. h[1] # "ptr" /\ PointerFree(v)
  BY <1>1, <1>2, HeldPointerFree, PointerFreeValues
<1>4. UNCHANGED fate /\ IF h = Zero THEN Become(Ended("error", Zero)) ELSE Become(Yields(Value(v)))
  <2>1. Become(CASE h = Zero -> Ended("error", Zero)
                 [] h[1] = "ptr" -> Yield(Cell(exec.mem, h[2], h[3]), h[2], h[3], FALSE)
                 [] OTHER -> Yields(Value(v)))
    BY <1>2 DEF ReadThrough
  <2> HIDE DEF h, v
  <2>2. CASE h = Zero
    <3>1. Zero[1] # "ptr"
      BY DEF Zero
    <3>2. (CASE h = Zero -> Ended("error", Zero)
                 [] h[1] = "ptr" -> Yield(Cell(exec.mem, h[2], h[3]), h[2], h[3], FALSE)
                 [] OTHER -> Yields(Value(v))) = Ended("error", Zero)
      BY <2>2, <3>1
    <3>3. Become(Ended("error", Zero))
      BY <2>1, <3>2
    <3> QED BY <2>2, <3>3 DEF ReadThrough
  <2>3. CASE h # Zero
    <3>1. (CASE h = Zero -> Ended("error", Zero)
                 [] h[1] = "ptr" -> Yield(Cell(exec.mem, h[2], h[3]), h[2], h[3], FALSE)
                 [] OTHER -> Yields(Value(v))) = Yields(Value(v))
      BY <1>3, <2>3
    <3>2. Become(Yields(Value(v)))
      BY <2>1, <3>1
    <3> QED BY <2>3, <3>2 DEF ReadThrough
  <2> QED BY <2>2, <2>3
<1>5. v = Worth(w, r.vals, Here(r)) /\ (Stuck(w, r.vals, Here(r)) <=> h = Zero)
  BY <1>1, <1>2 DEF Worth, Stuck
<1>6. Value(v).val = v /\ Loaded(r.mem, Value(v)) = v
  BY LoadsBack
<1>7. IsCode(op) /\ op.kind # "call"
  BY <1>1 DEF IsCode, OpKinds, Naming
<1> HIDE DEF v, h
<1>8. CASE Stuck(w, r.vals, Here(r))
  BY <1>1, <1>4, <1>5, <1>8, Sticking
<1>9. CASE ~ Stuck(w, r.vals, Here(r))
  BY <1>1, <1>3, <1>4, <1>5, <1>6, <1>7, <1>9, Yielding
<1> QED BY <1>8, <1>9

\* Making a value.
LEMMA MakeEffect ==
  ASSUME NEW w, NEW r, AtTurn(w, r), Make
  PROVE  Effect(w, fate, fate', r, run'[stage]) /\ Turned
<1>1. AtPoint(w, r) /\ op.kind \in {"addr", "const", "lit", "slice"}
  BY OpPoint DEF Make
<1>2. op = StepAt(w, Here(r)) /\ exec = r /\ Here(r) \in Points(w) /\ WorldOK(w)
  BY <1>1 DEF AtPoint, AtTurn
<1>3. op.kind # "addr"
  BY <1>2, PointSlot
<1>4. IsCode(op) /\ op.kind # "call" /\ ~ Stuck(w, r.vals, Here(r)) /\ UNCHANGED fate
  BY <1>1, <1>2 DEF IsCode, OpKinds, Naming, Stuck, Make
<1>5. CASE op.kind = "const"
  <2> DEFINE v == <<"const">>
  <2>1. Become(Yields(Value(v)))
    BY <1>5 DEF Make, AtOp
  <2>2. v = Worth(w, r.vals, Here(r)) /\ PointerFree(v)
    BY <1>2, <1>5, PointerFreeValues DEF Worth
  <2>3. Value(v).val = v /\ Loaded(r.mem, Value(v)) = v
    BY LoadsBack
  <2> HIDE DEF v
  <2> QED BY <1>1, <1>4, <2>1, <2>2, <2>3, Yielding
<1>6. CASE op.kind \in {"lit", "slice"}
  <2> DEFINE v == <<"lit", r.vals[op.sub[1]].val>>
  <2>1. Become(Yields(Value(v)))
    BY <1>2, <1>6 DEF Make, AtOp, Operand
  <2>2. 1 \in DOMAIN op.sub /\ op.sub[1] \in Range(op.sub)
    BY <1>2, <1>6, PointSlot
  <2>3. v = Worth(w, r.vals, Here(r)) /\ PointerFree(v)
    <3>1. PointerFree(r.vals[op.sub[1]].val)
      BY <1>1, <1>6, <2>2, Sites
    <3> QED BY <1>2, <1>6, <3>1, PointerFreeValues DEF Worth
  <2>4. Value(v).val = v /\ Loaded(r.mem, Value(v)) = v
    BY LoadsBack
  <2> HIDE DEF v
  <2> QED BY <1>1, <1>4, <2>1, <2>3, <2>4, Yielding
<1> QED BY <1>1, <1>3, <1>5, <1>6

\* Reading a field of a computed value.
LEMMA PartEffect ==
  ASSUME NEW w, NEW r, AtTurn(w, r), Part
  PROVE  Effect(w, fate, fate', r, run'[stage]) /\ Turned
<1>1. AtPoint(w, r) /\ op.kind = "part"
  BY OpPoint DEF Part
<1>2. op = StepAt(w, Here(r)) /\ exec = r /\ Here(r) \in Points(w) /\ WorldOK(w)
  BY <1>1 DEF AtPoint, AtTurn
<1>3. IsCode(op) /\ op.kind # "call" /\ UNCHANGED fate
  BY <1>1 DEF IsCode, OpKinds, Naming, Part
<1> DEFINE h == r.vals[op.sub[1]].val
           v == FieldOf(h)
<1>4. IF h = Zero THEN Become(Ended("error", Zero)) ELSE Become(Yields(Value(v)))
  BY <1>2 DEF Part, Operand
<1>5. v = Worth(w, r.vals, Here(r)) /\ (Stuck(w, r.vals, Here(r)) <=> h = Zero)
  BY <1>1, <1>2 DEF Worth, Stuck
<1>6. 1 \in DOMAIN op.sub /\ op.sub[1] \in Range(op.sub)
  BY <1>1, <1>2, PointSlot
<1>7. PointerFree(v)
  <2>1. PointerFree(h)
    BY <1>1, <1>6, Sites
  <2> QED BY <2>1, PointerFreeValues
<1>8. Value(v).val = v /\ Loaded(r.mem, Value(v)) = v
  BY LoadsBack
<1> HIDE DEF v, h
<1>9. CASE Stuck(w, r.vals, Here(r))
  BY <1>1, <1>3, <1>4, <1>5, <1>9, Sticking
<1>10. CASE ~ Stuck(w, r.vals, Here(r))
  BY <1>1, <1>3, <1>4, <1>5, <1>7, <1>8, <1>10, Yielding
<1> QED BY <1>9, <1>10

\* The arguments of a call are what its operands were when they were read, and
\* no callee finds a pointer among them.
LEMMA CallEffect ==
  ASSUME NEW w, NEW r, AtTurn(w, r), Call
  PROVE  Effect(w, fate, fate', r, run'[stage]) /\ Turned
<1> DEFINE e == Here(r)
           args == [k \in DOMAIN op.sub |-> Loaded(exec.mem, exec.vals[op.sub[k]])]
           written == IF op.does # "write" THEN {}
                      ELSE {<<args[k][2], args[k][3]>> : k \in {j \in DOMAIN args : args[j][1] = "ptr"}}
           mem == [s \in Slots |-> [n \in DOMAIN exec.mem[s] |->
                     IF <<s, n>> \in written THEN <<"by", op.id>> ELSE exec.mem[s][n]]]
           value == IF op.does = "echo" /\ args # <<>> THEN args[1] ELSE <<"by", op.id>>
           event == <<op.id, [k \in DOMAIN args |-> Shown(args[k])]>>
           called == [Yields(Value(value)) EXCEPT !.trace = Append(@, event), !.mem = mem]
           r2 == run'[stage]
<1>1. AtPoint(w, r) /\ op.kind = "call"
  <2>1. AtOp({"call"})
    BY DEF Call
  <2> QED BY <2>1, OpPoint
<1>2. /\ op = StepAt(w, e) /\ exec = r /\ e \in Points(w) /\ WorldOK(w) /\ IsMem(r.mem) /\ IsRun(r)
      /\ r.outcome = "running" /\ r.result = Zero
  BY <1>1, Sites DEF AtPoint
<1>3. PICK f \in IF op.id \in DOMAIN fate THEN {fate[op.id]} ELSE {"ok", "error"} :
        /\ fate' = [d \in DOMAIN fate \cup {op.id} |-> IF d = op.id THEN f ELSE fate[d]]
        /\ Become(IF f = "ok" THEN called ELSE [called EXCEPT !.outcome = "error"])
  BY DEF Call
<1>4. f \in {"ok", "error"} /\ fate'[op.id] = f /\ DOMAIN fate' = DOMAIN fate \cup {op.id}
      /\ \A d \in DOMAIN fate : fate'[d] = fate[d]
  BY <1>1, <1>3 DEF AtPoint, AtTurn
<1>5. PICK n \in Nat : DOMAIN op.sub = 1..n
  BY <1>1, <1>2, PointSlot
<1>6. ASSUME NEW k \in DOMAIN op.sub PROVE args[k] = r.vals[op.sub[k]].val /\ PointerFree(args[k])
  <2>1. op.sub[k] \in Range(op.sub)
    BY DEF Range
  <2> QED BY <1>1, <1>2, <2>1, Sites
<1>7. mem = r.mem
  <2>1. written = {}
    BY <1>6, PointerFreeValues
  <2>2. \A s \in Slots : [i \in DOMAIN r.mem[s] |-> r.mem[s][i]] = r.mem[s]
    BY <1>2 DEF IsMem
  <2> HIDE DEF written
  <2>3. mem = [s \in Slots |-> [i \in DOMAIN r.mem[s] |-> r.mem[s][i]]]
    BY <1>2, <2>1
  <2> QED BY <1>2, <2>2, <2>3 DEF IsMem
<1>8. args # <<>> <=> 1 \in DOMAIN op.sub
  <2>1. CASE n = 0
    <3>1. args = <<>> /\ 1 \notin DOMAIN op.sub
      BY <1>5, <2>1
    <3> QED BY <3>1
  <2>2. CASE n > 0
    <3>1. 1 \in DOMAIN args /\ 1 \in DOMAIN op.sub
      BY <1>5, <2>2
    <3> QED BY <3>1
  <2> QED BY <1>5, <2>1, <2>2
<1>9. value = Worth(w, r.vals, e) /\ PointerFree(value)
  <2>1. op.does = "echo" /\ args # <<>> => args[1] = r.vals[op.sub[1]].val /\ PointerFree(args[1])
    BY <1>6, <1>8
  <2> HIDE DEF args
  <2> QED BY <1>1, <1>2, <1>8, <2>1, PointerFreeValues DEF Worth
<1>10. event = EventAt(w, r.vals, e)
  <2>1. [k \in DOMAIN args |-> Shown(args[k])] = [k \in DOMAIN op.sub |-> Shown(r.vals[op.sub[k]].val)]
    BY <1>6
  <2> HIDE DEF args
  <2> QED BY <1>1, <1>2, <2>1 DEF EventAt
<1> HIDE DEF args, written, mem, value, event, called
<1>11. PICK v, m, ev : v = value /\ m = mem /\ ev = event
  OBVIOUS
<1>12. PICK x : x = IF f = "ok" THEN called ELSE [called EXCEPT !.outcome = "error"]
  OBVIOUS
<1>13. Become(x)
  BY <1>3, <1>12
<1>14. called = [Yields(Value(v)) EXCEPT !.trace = Append(@, ev), !.mem = m]
  BY <1>11 DEF called
<1>15. PICK y : y = Yields(Value(v))
  OBVIOUS
<1>16. /\ IsRun(y) /\ y.line = r.line /\ y.pos = r.pos /\ y.trace = r.trace
       /\ y.outcome = "running" /\ y.result = Zero
       /\ y.vals = [p \in DOMAIN r.vals \cup {op.at} |-> IF p = op.at THEN Value(v) ELSE r.vals[p]]
  BY <1>2, <1>15 DEF Yields, IsRun
<1>17. x = IF f = "ok" THEN [y EXCEPT !.trace = Append(@, ev), !.mem = m]
           ELSE [[y EXCEPT !.trace = Append(@, ev), !.mem = m] EXCEPT !.outcome = "error"]
  BY <1>12, <1>14, <1>15
<1>18. /\ IsRun(x) /\ x.line = r.line /\ x.pos = r.pos /\ x.vals = y.vals
       /\ x.trace = Append(r.trace, ev) /\ x.mem = m /\ x.result = Zero
       /\ x.outcome = IF f = "ok" THEN "running" ELSE "error"
  <2>1. y = [line |-> y.line, pos |-> y.pos, vals |-> y.vals, trace |-> y.trace, mem |-> y.mem,
             outcome |-> y.outcome, result |-> y.result]
    BY <1>16 DEF IsRun
  <2> QED BY ONLY <1>16, <1>17, <2>1 DEF IsRun
<1>19. /\ IsRun(r2) /\ Moves(w, r, r2) /\ Turned /\ r2.vals = x.vals /\ r2.trace = x.trace /\ r2.mem = x.mem
       /\ r2.outcome = x.outcome /\ r2.result = x.result
  BY <1>1, <1>13, <1>18, Becoming
<1> HIDE DEF r2
<1>20. IsCode(op) /\ ~ Stuck(w, r.vals, e)
  BY <1>1, <1>2 DEF IsCode, OpKinds, Stuck
<1>21. Leaves(w, r, r2)
  <2>1. PICK u : u = Value(v)
    OBVIOUS
  <2>2. u.val = Worth(w, r.vals, e) /\ PointerFree(u.val) /\ Loaded(r.mem, u) = u.val
    <3>1. u.val = v /\ Loaded(r.mem, u) = v
      BY <2>1, LoadsBack
    <3> QED BY <1>9, <1>11, <3>1
  <2>3. r2.vals = [p \in DOMAIN r.vals \cup {op.at} |-> IF p = op.at THEN u ELSE r.vals[p]]
    BY <1>16, <1>18, <1>19, <2>1
  <2> HIDE DEF e
  <2> QED BY <1>2, <1>20, <2>2, <2>3 DEF Leaves, e
<1>22. Binds(w, r, r2)
  BY <1>1, <1>2, <1>7, <1>11, <1>18, <1>19 DEF Binds, Now
<1>23. Judges(w, fate, fate', r, r2)
  BY <1>1, <1>2, <1>4, <1>18, <1>19, <1>20 DEF Judges, Faulty
<1>24. Shows(w, r, r2)
  BY <1>1, <1>2, <1>10, <1>11, <1>18, <1>19 DEF Shows, Seen
<1> QED BY <1>2, <1>19, <1>21, <1>22, <1>23, <1>24 DEF Effect, r2

\* A name gets a value in a new cell or in its one cell.
LEMMA AppendedSeq ==
  ASSUME NEW g, g \in Seq(Range(g)), NEW v
  PROVE  LET h == Append(g, v) IN h \in Seq(Range(h)) /\ Len(h) \in Nat \ {0} /\ h[Len(h)] = v
<1>1. PICK S : S = Range(g) \cup {v}
  OBVIOUS
<1>2. g \in Seq(S) /\ v \in S
  BY <1>1, SeqDomain DEF Range
<1>3. PICK h : h = Append(g, v)
  OBVIOUS
<1>4. h \in Seq(S) /\ Len(h) = Len(g) + 1 /\ h[Len(g) + 1] = v /\ Len(g) \in Nat
  BY ONLY <1>2, <1>3, AppendProperties
<1>5. Len(h) \in Nat /\ h = [j \in 1..Len(h) |-> h[j]]
  BY ONLY <1>4
<1>6. h \in Seq(Range(h))
  BY ONLY <1>5, IsSequence
<1> QED BY <1>3, <1>4, <1>5, <1>6

\* Binding a name.
LEMMA StoreEffect ==
  ASSUME NEW w, NEW r, AtTurn(w, r), Store
  PROVE  Effect(w, fate, fate', r, run'[stage]) /\ Turned
<1>1. UNCHANGED fate
  BY DEF Store
<1>2. CASE AtOp({"store"}) /\ Become([exec EXCEPT !.mem = Assigned(op.slot, Operand(1))])
  <2>1. AtPoint(w, r) /\ op.kind = "store"
    BY <1>2, OpPoint
  <2>2. /\ op = StepAt(w, Here(r)) /\ exec = r /\ Here(r) \in Points(w) /\ WorldOK(w) /\ IsMem(r.mem) /\ IsRun(r)
        /\ r.outcome = "running" /\ r.result = Zero
    BY <2>1, Sites DEF AtPoint
  <2>3. op.slot \in Slots
    BY <2>1, <2>2, PointSlot
  <2>4. PICK v : v = Operand(1) /\ v = r.vals[op.sub[1]].val
    BY <2>2 DEF Operand
  <2>5. PICK c : c = IF stage = "jit" THEN <<v>> ELSE Append(r.mem[op.slot], v)
    OBVIOUS
  <2>6. PICK mem : mem = [r.mem EXCEPT ![op.slot] = c]
    OBVIOUS
  <2>7. mem = Assigned(op.slot, Operand(1))
    BY <2>2, <2>4, <2>5, <2>6 DEF Assigned
  <2>8. c \in Seq(Range(c)) /\ Len(c) \in Nat \ {0} /\ c[Len(c)] = v
    <3>1. CASE stage = "jit"
      <4>1. c = <<v>>
        BY <2>5, <3>1
      <4>2. Len(c) = 1 /\ c[1] = v /\ c = [j \in 1..1 |-> c[j]]
        BY ONLY <4>1
      <4> QED BY <4>2, IsSequence
    <3>2. CASE stage # "jit"
      <4>1. r.mem[op.slot] \in Seq(Range(r.mem[op.slot]))
        BY <2>2, <2>3 DEF IsMem
      <4>2. c = Append(r.mem[op.slot], v)
        BY <2>5, <3>2
      <4> QED BY <4>1, <4>2, AppendedSeq
    <3> QED BY <3>1, <3>2
  <2>9. IsMem(mem) /\ \A s \in Slots : mem[s] = IF s = op.slot THEN c ELSE r.mem[s]
    <3>1. PICK m, slot : m = r.mem /\ slot = op.slot
      OBVIOUS
    <3>2. IsMem(m) /\ slot \in Slots /\ mem = [m EXCEPT ![slot] = c]
      BY <2>2, <2>3, <2>6, <3>1
    <3>3. IsMem(mem) /\ \A s \in Slots : mem[s] = IF s = slot THEN c ELSE m[s]
      BY ONLY <2>8, <3>2 DEF IsMem
    <3> QED BY <3>1, <3>3
  <2>10. PICK x : x = [r EXCEPT !.mem = mem]
    OBVIOUS
  <2>11. Become(x)
    BY <1>2, <2>2, <2>7, <2>10
  <2>12. /\ IsRun(x) /\ x.line = r.line /\ x.pos = r.pos /\ x.vals = r.vals /\ x.trace = r.trace /\ x.mem = mem
         /\ x.outcome = "running" /\ x.result = Zero
    BY ONLY <2>2, <2>10 DEF IsRun
  <2>13. \A s \in Slots : Now(x, s) = IF s = op.slot THEN v ELSE Now(r, s)
    BY <2>8, <2>9, <2>12 DEF Now, Cell
  <2>14. op.kind \in Marks /\ ~ Stuck(w, r.vals, Here(r))
    BY <2>1, <2>2 DEF Marks, Stuck
  <2> QED BY <1>1, <2>1, <2>4, <2>9, <2>11, <2>12, <2>13, <2>14, Marking
<1>3. CASE AtOp({"drop"}) /\ Become(exec)
  <2>1. AtPoint(w, r) /\ op.kind = "drop"
    BY <1>3, OpPoint
  <2>2. /\ op = StepAt(w, Here(r)) /\ exec = r /\ IsMem(r.mem) /\ IsRun(r) /\ r.outcome = "running" /\ r.result = Zero
    BY <2>1, Sites DEF AtPoint
  <2>3. op.kind \in Marks /\ ~ Stuck(w, r.vals, Here(r)) /\ Become(r)
    BY <1>3, <2>1, <2>2 DEF Marks, Stuck
  <2> QED BY <1>1, <2>1, <2>2, <2>3, Marking
<1> QED BY <1>2, <1>3 DEF Store

\* Clearing the name a literal is built in.
LEMMA ClearEffect ==
  ASSUME NEW w, NEW r, AtTurn(w, r), Clear
  PROVE  Effect(w, fate, fate', r, run'[stage]) /\ Turned
<1>1. UNCHANGED fate /\ AtPoint(w, r) /\ op.kind = "clear"
  <2>1. AtOp({"clear"}) /\ UNCHANGED fate
    BY DEF Clear
  <2> QED BY <2>1, OpPoint
<1>2. /\ op = StepAt(w, Here(r)) /\ exec = r /\ Here(r) \in Points(w) /\ WorldOK(w) /\ IsMem(r.mem) /\ IsRun(r)
      /\ r.outcome = "running" /\ r.result = Zero
  BY <1>1, Sites DEF AtPoint
<1>3. op.slot \in Slots
  BY <1>1, <1>2, PointSlot
<1>4. PICK c : c = <<Zero>>
  OBVIOUS
<1>5. c \in Seq(Range(c)) /\ Len(c) = 1 /\ c[1] = Zero
  <2>1. Len(c) = 1 /\ c[1] = Zero /\ c = [j \in 1..1 |-> c[j]]
    BY ONLY <1>4
  <2> QED BY <2>1, IsSequence
<1>6. PICK mem : mem = [r.mem EXCEPT ![op.slot] = c]
  OBVIOUS
<1>7. IsMem(mem) /\ \A s \in Slots : mem[s] = IF s = op.slot THEN c ELSE r.mem[s]
  <2>1. PICK m, slot : m = r.mem /\ slot = op.slot
    OBVIOUS
  <2>2. IsMem(m) /\ slot \in Slots /\ mem = [m EXCEPT ![slot] = c]
    BY <1>2, <1>3, <1>6, <2>1
  <2>3. IsMem(mem) /\ \A s \in Slots : mem[s] = IF s = slot THEN c ELSE m[s]
    BY ONLY <1>5, <2>2 DEF IsMem
  <2> QED BY <2>1, <2>3
<1>8. PICK x : x = [r EXCEPT !.mem = mem]
  OBVIOUS
<1>9. Become(x)
  <2>1. [r EXCEPT !.mem[op.slot] = <<Zero>>] = x
    BY ONLY <1>2, <1>4, <1>6, <1>8 DEF IsRun
  <2>2. Become([r EXCEPT !.mem[op.slot] = <<Zero>>])
    BY <1>2 DEF Clear
  <2> QED BY <2>1, <2>2
<1>10. /\ IsRun(x) /\ x.line = r.line /\ x.pos = r.pos /\ x.vals = r.vals /\ x.trace = r.trace /\ x.mem = mem
       /\ x.outcome = "running" /\ x.result = Zero
  BY ONLY <1>2, <1>8 DEF IsRun
<1>11. \A s \in Slots : Now(x, s) = IF s = op.slot THEN Zero ELSE Now(r, s)
  BY <1>5, <1>7, <1>10 DEF Now, Cell
<1>12. op.kind \in Marks /\ ~ Stuck(w, r.vals, Here(r))
  BY <1>1, <1>2 DEF Marks, Stuck
<1> QED BY <1>1, <1>7, <1>9, <1>10, <1>11, <1>12, Marking

\* Refusing a nil pointer.
LEMMA CheckEffect ==
  ASSUME NEW w, NEW r, AtTurn(w, r), CheckBase
  PROVE  Effect(w, fate, fate', r, run'[stage]) /\ Turned
<1>1. UNCHANGED fate /\ AtPoint(w, r) /\ op.kind = "check"
  <2>1. AtOp({"check"}) /\ UNCHANGED fate
    BY DEF CheckBase
  <2> QED BY <2>1, OpPoint
<1>2. /\ op = StepAt(w, Here(r)) /\ exec = r /\ IsMem(r.mem) /\ IsRun(r) /\ r.outcome = "running" /\ r.result = Zero
      /\ op.slot \in Slots /\ Now(r, op.slot) = Held(w, r.vals, Here(r)[1], op.slot)
  BY <1>1, Sites DEF AtPoint
<1>3. Become(IF Now(r, op.slot) = Zero THEN Ended("error", Zero) ELSE r)
  BY <1>2 DEF CheckBase
<1>4. Stuck(w, r.vals, Here(r)) <=> Now(r, op.slot) = Zero
  BY <1>1, <1>2 DEF Stuck
<1>5. CASE Stuck(w, r.vals, Here(r))
  <2>1. Become(Ended("error", Zero))
    BY <1>3, <1>4, <1>5
  <2> QED BY <1>1, <1>5, <2>1, Sticking
<1>6. CASE ~ Stuck(w, r.vals, Here(r))
  <2>1. Become(r) /\ op.kind \in Marks
    BY <1>1, <1>3, <1>4, <1>6 DEF Marks
  <2> QED BY <1>1, <1>2, <1>6, <2>1, Marking
<1> QED BY <1>5, <1>6

\* Storing a field.
LEMMA PutEffect ==
  ASSUME NEW w, NEW r, AtTurn(w, r), PutField
  PROVE  Effect(w, fate, fate', r, run'[stage]) /\ Turned
<1>1. UNCHANGED fate /\ AtPoint(w, r) /\ op.kind = "put"
  <2>1. AtOp({"put"}) /\ UNCHANGED fate
    BY DEF PutField
  <2> QED BY <2>1, OpPoint
<1>2. /\ op = StepAt(w, Here(r)) /\ exec = r /\ IsMem(r.mem) /\ IsRun(r) /\ r.outcome = "running" /\ r.result = Zero
      /\ op.slot \in Slots /\ Now(r, op.slot) = Held(w, r.vals, Here(r)[1], op.slot)
  BY <1>1, Sites DEF AtPoint
<1>3. PICK ev : ev = <<"put", Shown(Now(r, op.slot)), r.vals[op.sub[1]].val>>
  OBVIOUS
<1>4. ev = EventAt(w, r.vals, Here(r))
  BY <1>1, <1>2, <1>3 DEF EventAt
<1>5. PICK x : x = [r EXCEPT !.trace = Append(@, ev)]
  OBVIOUS
<1>6. Become(x)
  BY <1>2, <1>3, <1>5 DEF PutField, Operand
<1>7. /\ IsRun(x) /\ x.line = r.line /\ x.pos = r.pos /\ x.vals = r.vals /\ x.trace = Append(r.trace, ev) /\ x.mem = r.mem
      /\ x.outcome = "running" /\ x.result = Zero
  BY ONLY <1>2, <1>5 DEF IsRun
<1>8. op.kind \in Marks /\ ~ Stuck(w, r.vals, Here(r)) /\ \A s \in Slots : Now(x, s) = Now(r, s)
  BY <1>1, <1>2, <1>7 DEF Marks, Stuck, Now
<1> QED BY <1>1, <1>2, <1>4, <1>6, <1>7, <1>8, Marking

\* Ending with a value, or without.
LEMMA ReturnEffect ==
  ASSUME NEW w, NEW r, AtTurn(w, r), Return
  PROVE  Effect(w, fate, fate', r, run'[stage]) /\ Turned
<1>1. PICK v : /\ AtOp({"result", "end"}) /\ Become(Ended("ok", v)) /\ UNCHANGED fate
               /\ v = IF op.kind = "result" THEN Shown(Operand(1)) ELSE Zero
  BY DEF Return, AtOp
<1>2. AtPoint(w, r) /\ op.kind \in {"result", "end"}
  BY <1>1, OpPoint
<1>3. /\ op = StepAt(w, Here(r)) /\ exec = r /\ IsMem(r.mem) /\ IsRun(r) /\ r.outcome = "running" /\ r.result = Zero
  BY <1>2, Sites DEF AtPoint
<1>4. PICK x : x = [r EXCEPT !.outcome = "ok", !.result = v]
  OBVIOUS
<1>5. Become(x)
  BY <1>1, <1>3, <1>4 DEF Ended
<1>6. /\ IsRun(x) /\ x.line = r.line /\ x.pos = r.pos /\ x.vals = r.vals /\ x.trace = r.trace /\ x.mem = r.mem
      /\ x.outcome = "ok" /\ x.result = v
  BY ONLY <1>3, <1>4 DEF IsRun
<1>7. v = IF op.kind = "result" THEN Shown(r.vals[op.sub[1]].val) ELSE Zero
  BY <1>1, <1>3 DEF Operand
<1>8. op.kind \in Marks /\ ~ Stuck(w, r.vals, Here(r)) /\ \A s \in Slots : Now(x, s) = Now(r, s)
  BY <1>2, <1>3, <1>6 DEF Marks, Stuck, Now
<1> QED BY <1>1, <1>2, <1>3, <1>5, <1>6, <1>7, <1>8, Marking

\* Running past the last statement.
LEMMA RunOffStops ==
  ASSUME NEW w, NEW r, AtTurn(w, r), RunOff
  PROVE  Stops(w, r, run'[stage]) /\ Turned /\ UNCHANGED fate
<1>1. /\ exec = r /\ r.outcome = "running" /\ r.line > Len(w.text) /\ stage \in Tiers /\ DOMAIN run = Tiers
      /\ w.text = Text(stage) /\ w.returns = IF stage = "jit" THEN retSlot ELSE None
  BY DEF AtTurn, RunOff, exec, World
<1>2. PICK v : v = IF stage = "jit" /\ retSlot # None THEN Shown(Now(r, retSlot)) ELSE Zero
  OBVIOUS
<1>3. run' = [run EXCEPT ![stage] = [r EXCEPT !.outcome = "ok", !.result = v]] /\ UNCHANGED <<planVars, stage, fate>>
  BY <1>1, <1>2 DEF RunOff, Ended
<1>4. PICK r2 : r2 = [r EXCEPT !.outcome = "ok", !.result = v]
  OBVIOUS
<1>5. run'[stage] = r2 /\ Turned
  BY <1>1, <1>3, <1>4 DEF Turned
<1>6. v = IF w.returns # None THEN Shown(Held(w, r.vals, r.line, w.returns)) ELSE Zero
  <2>1. CASE w.returns # None
    <3>1. stage = "jit" /\ w.returns = retSlot /\ retSlot \in Slots
      BY <1>1, <2>1 DEF AtTurn, WorldOK
    <3>2. ~ Cleared(w, r, retSlot)
      <4>1. Len(w.text) \in Nat /\ DOMAIN w.text = 1..Len(w.text) /\ r.line \in Nat
        BY DEF AtTurn, WorldOK, TextOK, General, Somewhere
      <4> QED BY <1>1, <4>1 DEF Cleared
    <3>3. Now(r, retSlot) = Held(w, r.vals, r.line, retSlot)
      BY <1>1, <3>1, <3>2 DEF AtTurn, General, MemOK
    <3> QED BY <1>2, <2>1, <3>1, <3>3
  <2>2. CASE w.returns = None
    BY <1>1, <1>2, <2>2
  <2> QED BY <2>1, <2>2
<1> QED BY <1>1, <1>3, <1>4, <1>5, <1>6 DEF Stops

\* A step of the tier at turn, whichever action it is.
Runs == \/ RunOff \/ Read \/ ReadField \/ ReadThrough \/ Make \/ Part
        \/ Call \/ Store \/ Clear \/ CheckBase \/ PutField \/ Return

\* Each of them keeps what holds of a run.
LEMMA TierStep ==
  ASSUME NEW w, NEW r, AtTurn(w, r), Runs
  PROVE  /\ General(w, fate', run'[stage]) /\ Turned
         /\ \A d \in DOMAIN fate : d \in DOMAIN fate' /\ fate'[d] = fate[d]
         /\ \A d \in DOMAIN fate' : fate'[d] \in {"ok", "error"}
<1>1. WorldOK(w) /\ General(w, fate, r) /\ \A d \in DOMAIN fate : fate[d] \in {"ok", "error"}
  BY DEF AtTurn
<1>2. CASE RunOff
  BY <1>1, <1>2, RunOffStops, StopsGeneral
<1>3. CASE ~ RunOff
  <2>1. Effect(w, fate, fate', r, run'[stage]) /\ Turned
    BY <1>3, ReadEffect, ReadFieldEffect, ReadThroughEffect, MakeEffect, PartEffect, CallEffect,
       StoreEffect, ClearEffect, CheckEffect, PutEffect, ReturnEffect DEF Runs
  <2>2. General(w, fate', run'[stage])
    BY <1>1, <2>1, EffectGeneral
  <2>3. \A d \in DOMAIN fate : d \in DOMAIN fate' /\ fate'[d] = fate[d]
    BY <2>1 DEF Effect, Judges
  <2>4. \A d \in DOMAIN fate' : fate'[d] \in {"ok", "error"}
    <3>1. CASE Call
      <4>1. PICK f \in IF op.id \in DOMAIN fate THEN {fate[op.id]} ELSE {"ok", "error"} :
              fate' = [d \in DOMAIN fate \cup {op.id} |-> IF d = op.id THEN f ELSE fate[d]]
        BY <3>1 DEF Call
      <4>2. f \in {"ok", "error"}
        BY <1>1, <4>1
      <4> QED BY <1>1, <4>1, <4>2
    <3>2. CASE ~ Call
      <4>1. UNCHANGED fate
        BY <1>3, <3>2 DEF Runs, Read, ReadField, ReadThrough, Make, Part, Store, Clear, CheckBase, PutField, Return
      <4> QED BY <1>1, <4>1
    <3> QED BY <3>1, <3>2
  <2> QED BY <2>1, <2>2, <2>3, <2>4
<1> QED BY <1>2, <1>3

-----------------------------------------------------------------------------
(***************************************************************************)
(* The two tiers are worlds once the plan is made and accepted.            *)
(***************************************************************************)

\* A program that takes no address and has none of the known shapes on which
\* the tiers part.
Tame(p) ==
  /\ \A o \in OpsOf(p.stmts) : o.kind # "addr"
  /\ ~ EarlyReturn(p) /\ ~ RunsAhead(p, Loud) /\ ~ HiddenRead(p) /\ ~ SelfRead(p) /\ ~ NilBase(p)

Settled ==
  /\ InPlan /\ LayoutInv /\ EndingInv /\ OrderInv(Loud) /\ ReadsInv /\ SetsInv
  /\ Accepted /\ Tame(prog)

\* The steps of a statement, laid out around its operations.
IsCodeSeq(code) == code \in Seq(Range(code)) /\ \A j \in DOMAIN code : code[j].kind \in OpKinds

\* A statement with one mark,
LEMMA LineAppend ==
  ASSUME NEW s, IsCodeSeq(s.code), s.kind # "set",
         NEW c, c = Append(s.code, Mark(LastMark(s), s))
  PROVE  LineOK(s, c)
<1>1. PICK b, m : b = s.code /\ m = Mark(LastMark(s), s)
  OBVIOUS
<1>2. PICK S : S = Range(b) \cup {m}
  OBVIOUS
<1>3. b \in Seq(S) /\ m \in S /\ Len(b) \in Nat /\ DOMAIN b = 1..Len(b) /\ \A j \in DOMAIN b : b[j].kind \in OpKinds
  BY <1>1, <1>2, SeqDomain DEF Range, IsCodeSeq
<1>4. c = Append(b, m)
  BY <1>1
<1>5. /\ c \in Seq(S) /\ Len(c) = Len(b) + 1 /\ c[Len(b) + 1] = m
      /\ \A j \in 1..Len(b) : c[j] = b[j]
  BY ONLY <1>3, <1>4, AppendProperties
<1>6. DOMAIN c = 1..Len(c)
  BY ONLY <1>5
<1>7. m.kind = LastMark(s)
  BY <1>1, MarkFields
<1>8. Lead(c) = 0
  <2>1. c[1].kind \in OpKinds \/ c[1].kind = LastMark(s)
    BY <1>3, <1>5, <1>7
  <2>2. c[1].kind \notin {"check", "clear"}
    BY <2>1, LastMarkKind DEF OpKinds, Naming
  <2> QED BY <2>2 DEF Lead
<1> QED BY <1>1, <1>3, <1>5, <1>6, <1>8 DEF LineOK

\* with one in front,
LEMMA LineBefore ==
  ASSUME NEW s, IsCodeSeq(s.code), NEW k, NEW c, c = <<Mark(k, s)>> \o Append(s.code, Mark(LastMark(s), s)),
         (s.kind = "assign" /\ k = "clear") \/ (s.kind = "set" /\ k = "check")
  PROVE  LineOK(s, c)
<1>1. PICK b, m, a : b = s.code /\ m = Mark(LastMark(s), s) /\ a = Mark(k, s)
  OBVIOUS
<1>2. PICK S : S = Range(b) \cup {m, a}
  OBVIOUS
<1>3. b \in Seq(S) /\ m \in S /\ a \in S /\ Len(b) \in Nat /\ DOMAIN b = 1..Len(b)
  BY <1>1, <1>2, SeqDomain DEF Range, IsCodeSeq
<1>4. PICK d, e : d = Append(b, m) /\ e = <<a>>
  OBVIOUS
<1>5. /\ d \in Seq(S) /\ Len(d) = Len(b) + 1 /\ d[Len(b) + 1] = m
      /\ \A j \in 1..Len(b) : d[j] = b[j]
  BY ONLY <1>3, <1>4, AppendProperties
<1>6. e \in Seq(S) /\ Len(e) = 1 /\ e[1] = a
  BY ONLY <1>3, <1>4
<1>7. c = e \o d
  BY <1>1, <1>4
<1>8. c \in Seq(S) /\ Len(c) = 1 + Len(d) /\ \A i \in 1..(1 + Len(d)) : c[i] = IF i <= 1 THEN e[i] ELSE d[i - 1]
  BY ONLY <1>5, <1>6, <1>7, ConcatProperties
<1>9. /\ DOMAIN c = 1..Len(c) /\ Len(c) = Len(b) + 2 /\ c[1] = a /\ c[Len(b) + 2] = m
      /\ \A j \in 1..Len(b) : c[1 + j] = b[j]
  BY ONLY <1>3, <1>5, <1>6, <1>8
<1>10. Lead(c) = 1
  <2>1. a.kind = k
    BY <1>1, MarkFields
  <2> QED BY <1>9, <2>1 DEF Lead
<1>11. \A h \in DOMAIN c : h < Len(c) /\ (h <= Lead(c) \/ h > Lead(c) + Len(b)) => h = 1
  BY ONLY <1>3, <1>9, <1>10
<1>12. /\ Len(c) \in Nat /\ Lead(c) + Len(b) < Len(c) /\ c[Len(c)] = m
       /\ \A l \in DOMAIN b : c[Lead(c) + l] = b[l]
  BY ONLY <1>3, <1>9, <1>10
<1> QED BY <1>1, <1>3, <1>9, <1>11, <1>12 DEF LineOK

\* and with two behind.
LEMMA LineBehind ==
  ASSUME NEW s, IsCodeSeq(s.code), s.code # <<>>, s.kind = "set",
         NEW c, c = s.code \o <<Mark("check", s), Mark("put", s)>>
  PROVE  LineOK(s, c)
<1>1. PICK b, m, a : b = s.code /\ m = Mark("put", s) /\ a = Mark("check", s)
  OBVIOUS
<1>2. PICK S : S = Range(b) \cup {m, a}
  OBVIOUS
<1>3. /\ b \in Seq(S) /\ m \in S /\ a \in S /\ Len(b) \in Nat \ {0} /\ DOMAIN b = 1..Len(b)
      /\ \A j \in DOMAIN b : b[j].kind \in OpKinds
  <2>1. b \in Seq(S) /\ m \in S /\ a \in S /\ Len(b) \in Nat /\ DOMAIN b = 1..Len(b)
        /\ \A j \in DOMAIN b : b[j].kind \in OpKinds
    BY <1>1, <1>2, SeqDomain DEF Range, IsCodeSeq
  <2>2. b # <<>>
    BY <1>1
  <2> QED BY <2>1, <2>2
<1>4. PICK e : e = <<a, m>>
  OBVIOUS
<1>5. e \in Seq(S) /\ Len(e) = 2 /\ e[1] = a /\ e[2] = m
  BY ONLY <1>3, <1>4
<1>6. c = b \o e
  BY <1>1, <1>4
<1>7. c \in Seq(S) /\ Len(c) = Len(b) + 2 /\ \A i \in 1..(Len(b) + 2) : c[i] = IF i <= Len(b) THEN b[i] ELSE e[i - Len(b)]
  <2>1. PICK n : n = Len(e)
    OBVIOUS
  <2>2. c \in Seq(S) /\ Len(c) = Len(b) + n /\ \A i \in 1..(Len(b) + n) : c[i] = IF i <= Len(b) THEN b[i] ELSE e[i - Len(b)]
    BY ONLY <1>3, <1>5, <1>6, <2>1, ConcatProperties
  <2>3. n = 2
    BY <1>5, <2>1
  <2> QED BY ONLY <2>2, <2>3
<1>8. /\ DOMAIN c = 1..Len(c) /\ c[Len(b) + 1] = a /\ c[Len(b) + 2] = m
      /\ \A j \in 1..Len(b) : c[j] = b[j]
  BY ONLY <1>3, <1>5, <1>7
<1>9. Lead(c) = 0
  <2>1. c[1].kind \in OpKinds
    BY <1>3, <1>8
  <2> QED BY <2>1 DEF Lead, OpKinds, Naming
<1>10. LastMark(s) = "put"
  BY DEF LastMark
<1>11. \A h \in DOMAIN c : h < Len(c) /\ (h <= Lead(c) \/ h > Lead(c) + Len(b)) => h = Len(b) + 1
  BY ONLY <1>3, <1>7, <1>8, <1>9
<1>12. /\ Len(c) \in Nat /\ Lead(c) + Len(b) < Len(c) /\ c[Len(c)] = m
       /\ \A l \in DOMAIN b : c[Lead(c) + l] = b[l]
  BY ONLY <1>3, <1>7, <1>8, <1>9
<1> QED BY <1>1, <1>3, <1>7, <1>8, <1>10, <1>11, <1>12 DEF LineOK

\* A statement of the plan, and its operations.
LEMMA PlanStmt ==
  ASSUME InPlan, LayoutInv, NEW i \in DOMAIN stmts
  PROVE  LET s == stmts[i] n == s.line IN
         /\ prog \in Programs /\ n \in DOMAIN prog.stmts /\ s.kind = prog.stmts[n].kind /\ s.out = prog.stmts[n].out
         /\ s.kind \in Kept /\ Root(s) = Root(prog.stmts[n]) /\ (s.kind # "call" => s = prog.stmts[n])
         /\ IsCodeSeq(s.code) /\ s.code # <<>> /\ Len(s.code) \in Nat \ {0} /\ DOMAIN s.code = 1..Len(s.code)
         /\ \A j \in DOMAIN s.code : \A place \in Range(s.code[j].sub) : \E m \in 1..(j - 1) : s.code[m].at = place
<1>1. prog \in Programs /\ Shape /\ StmtShape(i) /\ Linked /\ Untouched
  BY DEF InPlan, BInv, PlanTypes, Shape, LayoutInv
<1>2. \A j \in DOMAIN stmts[i].code : stmts[i].code[j].kind \in OpKinds
  <2>1. ASSUME NEW j \in DOMAIN stmts[i].code PROVE stmts[i].code[j].kind \in OpKinds
    <3>1. PICK o : o = stmts[i].code[j]
      OBVIOUS
    <3>2. o \in Range(stmts[i].code)
      BY <3>1 DEF Range
    <3>3. o.kind \in OpKinds
      BY <3>2, PlanOp DEF IsOp
    <3> QED BY <3>1, <3>3
  <2> QED BY <2>1
<1>3. stmts[i].code \in Seq(Range(stmts[i].code)) /\ stmts[i].code # <<>>
  BY <1>1 DEF StmtShape
<1>4. Len(stmts[i].code) \in Nat \ {0} /\ DOMAIN stmts[i].code = 1..Len(stmts[i].code)
  BY <1>3, SeqDomain
<1> QED BY <1>1, <1>2, <1>3, <1>4 DEF StmtShape, Untouched, Linked, IsCodeSeq

\* The steps of the evaluator,
LEMMA EvaluatorLine ==
  ASSUME NEW s, IsCodeSeq(s.code), s.kind \in Kept \cup {"return", "stop"}, s.kind = "stop" => s.code = <<>>
  PROVE  LineOK(s, EvaluatorSteps(s))
<1>1. CASE s.kind \in {"call", "assign", "lit"}
  <2>1. EvaluatorSteps(s) = Append(s.code, Mark(LastMark(s), s))
    BY <1>1 DEF EvaluatorSteps, Bind, LastMark
  <2> QED BY <1>1, <2>1, LineAppend
<1>2. CASE s.kind = "return"
  <2>1. EvaluatorSteps(s) = Append(s.code, Mark(LastMark(s), s))
    BY <1>2 DEF EvaluatorSteps, LastMark
  <2> QED BY <1>2, <2>1, LineAppend
<1>3. CASE s.kind = "stop"
  <2>1. EvaluatorSteps(s) = <<Mark(LastMark(s), s)>>
    BY <1>3 DEF EvaluatorSteps, LastMark
  <2>2. PICK m : m = Mark(LastMark(s), s)
    OBVIOUS
  <2>3. Append(<<>>, m) = <<m>>
    OBVIOUS
  <2>4. EvaluatorSteps(s) = Append(s.code, Mark(LastMark(s), s))
    BY <1>3, <2>1, <2>2, <2>3
  <2> QED BY <1>3, <2>4, LineAppend
<1>4. CASE s.kind = "set"
  <2>1. EvaluatorSteps(s) = <<Mark("check", s)>> \o Append(s.code, Mark(LastMark(s), s))
    BY <1>4 DEF EvaluatorSteps, LastMark
  <2> QED BY <1>4, <2>1, LineBefore
<1> QED BY <1>1, <1>2, <1>3, <1>4 DEF Kept

\* and those of the JIT.
LEMMA JitLine ==
  ASSUME NEW s, IsCodeSeq(s.code), s.kind \in Kept, s.code # <<>>
  PROVE  LineOK(s, JitSteps(s))
<1>1. CASE s.kind \in {"call", "lit"}
  <2>1. JitSteps(s) = Append(s.code, Mark(LastMark(s), s))
    BY <1>1 DEF JitSteps, Bind, LastMark
  <2> QED BY <1>1, <2>1, LineAppend
<1>2. CASE s.kind = "assign" /\ Writes(s.out) > 1
  <2>1. JitSteps(s) = <<Mark("clear", s)>> \o Append(s.code, Mark(LastMark(s), s))
    BY <1>2 DEF JitSteps, Bind, LastMark
  <2>2. PICK k, c : k = "clear" /\ c = <<Mark(k, s)>> \o Append(s.code, Mark(LastMark(s), s))
    OBVIOUS
  <2>3. /\ IsCodeSeq(s.code) /\ c = <<Mark(k, s)>> \o Append(s.code, Mark(LastMark(s), s))
        /\ ((s.kind = "assign" /\ k = "clear") \/ (s.kind = "set" /\ k = "check"))
    BY <1>2, <2>2
  <2>4. LineOK(s, c)
    BY ONLY <2>3, LineBefore
  <2> QED BY <2>1, <2>2, <2>4
<1>3. CASE s.kind = "assign" /\ ~ (Writes(s.out) > 1)
  <2>1. PICK b, m, S : b = s.code /\ m = Mark(LastMark(s), s) /\ S = Range(b) \cup {m}
    OBVIOUS
  <2>2. b \in Seq(S) /\ m \in S
    BY <2>1, SeqDomain DEF Range, IsCodeSeq
  <2>3. PICK c : c = Append(b, m)
    OBVIOUS
  <2>4. c \in Seq(S)
    BY ONLY <2>2, <2>3, AppendProperties
  <2>5. <<>> \o c = c
    BY ONLY <2>4, ConcatEmptySeq
  <2>6. JitSteps(s) = <<>> \o Append(s.code, Mark(LastMark(s), s))
    BY <1>3 DEF JitSteps, Bind, LastMark
  <2>7. JitSteps(s) = c /\ c = Append(s.code, Mark(LastMark(s), s))
    BY <2>1, <2>3, <2>5, <2>6
  <2> QED BY <1>3, <2>7, LineAppend
<1>4. CASE s.kind = "set"
  <2>1. JitSteps(s) = s.code \o <<Mark("check", s), Mark("put", s)>>
    BY <1>4 DEF JitSteps
  <2> QED BY <1>4, <2>1, LineBehind
<1> QED BY <1>1, <1>2, <1>3, <1>4 DEF Kept

\* An operation of the source is one of a world, wherever it is.
LEMMA OpFields ==
  ASSUME NEW o, IsOp(o)
  PROVE  /\ o.kind \in Naming => o.slot \in Slots
         /\ o.kind \in {"lit", "slice", "part"} => DOMAIN o.sub = {1}
         /\ \E n \in Nat : DOMAIN o.sub = 1..n
         /\ o.kind \in OpKinds /\ (o.kind \notin Naming => o.slot = None) /\ o.id # None
<1>1. o.sub \in Seq(Range(o.sub))
  BY DEF IsOp
<1>2. PICK b : b = o.sub
  OBVIOUS
<1>3. Len(b) \in Nat /\ DOMAIN b = 1..Len(b)
  BY <1>1, <1>2, SeqDomain
<1>4. o.kind \in {"lit", "slice", "part"} => DOMAIN o.sub = {1}
  <2>1. o.kind \in {"lit", "slice", "part"} => Len(b) = 1
    BY <1>2 DEF IsOp
  <2>2. ASSUME Len(b) = 1 PROVE DOMAIN b = {1}
    <3>1. DOMAIN b = 1..1
      BY <1>3, <2>2
    <3>2. 1..1 = {1}
      OBVIOUS
    <3> QED BY ONLY <3>1, <3>2
  <2> QED BY <1>2, <2>1, <2>2
<1> QED BY <1>2, <1>3, <1>4 DEF IsOp

\* The source as it is run.
LEMMA SourceLine ==
  ASSUME Settled, NEW i \in DOMAIN prog.stmts
  PROVE  LET s == prog.stmts[i] IN
         /\ IsStmt(s) /\ s.line = i /\ IsCodeSeq(s.code) /\ Len(s.code) \in Nat /\ DOMAIN s.code = 1..Len(s.code)
         /\ s.kind \in Kept \cup {"return", "stop"}
         /\ s.kind \notin Kept => i = Len(prog.stmts) /\ s.out = None
         /\ \A j \in DOMAIN s.code : OperationOK(s, j)
<1>1. prog \in Programs /\ EndingInv /\ phase = "planned" /\ Tame(prog)
  BY DEF Settled, InPlan, BInv, PlanTypes, Accepted
<1>2. PICK s : s = prog.stmts[i]
  OBVIOUS
<1>3. IsStmt(s) /\ s.line = i
  BY <1>1, <1>2, SourceLines
<1>4. s.code \in Seq(Range(s.code)) /\ Len(s.code) \in Nat /\ DOMAIN s.code = 1..Len(s.code)
  BY <1>3, StmtCode
<1>5. s.kind \in Kept \cup {"return", "stop"} /\ (s.kind \notin Kept => i = Len(prog.stmts) /\ s.out = None)
  <2>1. s.kind \notin Kept => s.out = None
    BY <1>3 DEF IsStmt
  <2> QED BY <1>1, <1>2, <2>1 DEF EndingInv
<1>6. ASSUME NEW j \in DOMAIN s.code PROVE OperationOK(s, j)
  <2>1. PICK q : q = s.code[j]
    OBVIOUS
  <2>2. IsOp(q) /\ q \in Range(s.code)
    BY <1>3, <2>1 DEF IsStmt, Range
  <2>3. q.kind # "addr"
    <3>1. q \in OpsOf(prog.stmts)
      BY <1>2, <2>2 DEF OpsOf
    <3> QED BY <1>1, <3>1 DEF Tame
  <2>4. s.kind = "assign" => q.slot # s.out
    <3>1. s \in Range(prog.stmts)
      BY <1>2 DEF Range
    <3> QED BY <1>1, <2>2, <3>1 DEF Tame, SelfRead
  <2>5. \A place \in Range(q.sub) : \E n \in 1..(j - 1) : s.code[n].at = place
    BY <1>3, <2>1 DEF IsStmt
  <2> QED BY <2>1, <2>2, <2>3, <2>4, <2>5, OpFields DEF OperationOK
<1>7. \A j \in DOMAIN s.code : s.code[j].kind \in OpKinds
  BY <1>6 DEF OperationOK
<1> QED BY <1>2, <1>3, <1>4, <1>5, <1>6, <1>7 DEF IsCodeSeq

\* The source is a world,
LEMMA SourceWorld ==
  ASSUME Settled
  PROVE  WorldOK(World("reflect"))
<1>1. PICK w : w = World("reflect")
  OBVIOUS
<1>2. /\ w.text = prog.stmts /\ w.script = [i \in DOMAIN prog.stmts |-> EvaluatorSteps(prog.stmts[i])]
      /\ w.structs = Structs /\ w.returns = None
  BY <1>1 DEF World, Text, Steps
<1>3. prog \in Programs
  BY DEF Settled, InPlan, BInv, PlanTypes
<1>4. TextOK(w.text)
  <2>1. Len(prog.stmts) \in Nat /\ DOMAIN prog.stmts = 1..Len(prog.stmts)
    BY <1>3, SourceLines
  <2>2. ASSUME NEW i \in DOMAIN prog.stmts
        PROVE  LET s == prog.stmts[i] IN
               /\ s.kind # "stop" => Len(s.code) > 0
               /\ s.out \in Slots \cup {None} /\ (s.kind \in {"assign", "lit", "set"} => s.out \in Slots)
    <3>1. PICK s : s = prog.stmts[i]
      OBVIOUS
    <3>2. IsStmt(s) /\ Len(s.code) \in Nat /\ s.code \in Seq(Range(s.code))
      BY <3>1, SourceLine DEF IsCodeSeq
    <3>3. s.code # <<>> => Len(s.code) > 0
      BY <3>2
    <3> QED BY <3>1, <3>2, <3>3 DEF IsStmt
  <2>3. \A i, m \in DOMAIN prog.stmts : \A j \in DOMAIN prog.stmts[i].code, n \in DOMAIN prog.stmts[m].code :
          prog.stmts[i].code[j].at = prog.stmts[m].code[n].at => i = m /\ j = n
    BY <1>3, SourcePos
  <2> QED BY <1>2, <2>1, <2>2, <2>3, SourceLine DEF TextOK
<1>5. ASSUME NEW i \in DOMAIN w.text PROVE LineOK(w.text[i], w.script[i])
  <2>1. PICK s : s = prog.stmts[i]
    OBVIOUS
  <2>2. IsCodeSeq(s.code) /\ s.kind \in Kept \cup {"return", "stop"} /\ (s.kind = "stop" => s.code = <<>>)
    BY <1>2, <2>1, SourceLine DEF IsStmt
  <2>3. LineOK(s, EvaluatorSteps(s))
    BY <2>2, EvaluatorLine
  <2> QED BY <1>2, <2>1, <2>3
<1>6. Structs \subseteq Slots
  BY DEF Structs
<1> QED BY <1>1, <1>2, <1>4, <1>5, <1>6 DEF WorldOK

\* and so is the plan.
LEMMA PlanWorld ==
  ASSUME Settled
  PROVE  WorldOK(World("jit"))
<1>1. PICK w : w = World("jit")
  OBVIOUS
<1>2. /\ w.text = stmts /\ w.script = [i \in DOMAIN stmts |-> JitSteps(stmts[i])]
      /\ w.structs = Structs /\ w.returns = retSlot
  BY <1>1 DEF World, Text, Steps
<1>3. InPlan /\ LayoutInv /\ prog \in Programs /\ Shape /\ Unique /\ Returned /\ Tame(prog) /\ EndingInv /\ phase = "planned"
  BY DEF Settled, InPlan, BInv, PlanTypes, Accepted
<1>4. TextOK(w.text)
  <2>1. Len(stmts) \in Nat /\ DOMAIN stmts = 1..Len(stmts)
    BY <1>3, SeqDomain DEF InPlan, BInv, PlanTypes
  <2>2. ASSUME NEW i \in DOMAIN stmts
        PROVE  LET s == stmts[i] IN
               /\ s.kind \in Kept /\ Len(s.code) > 0
               /\ s.out \in Slots \cup {None} /\ (s.kind \in {"assign", "lit", "set"} => s.out \in Slots)
    <3>1. PICK s, t : s = stmts[i] /\ t = prog.stmts[s.line]
      OBVIOUS
    <3>2. s.kind \in Kept /\ s.kind = t.kind /\ s.out = t.out /\ Len(s.code) \in Nat \ {0} /\ s.line \in DOMAIN prog.stmts
      BY <1>3, <3>1, PlanStmt
    <3>3. IsStmt(t)
      BY <1>3, <3>1, <3>2, SourceLines
    <3> QED BY <3>1, <3>2, <3>3 DEF IsStmt
  <2>3. ASSUME NEW i \in DOMAIN stmts, NEW j \in DOMAIN stmts[i].code PROVE OperationOK(stmts[i], j)
    <3>1. PICK q : q = stmts[i].code[j]
      OBVIOUS
    <3>2. q \in Range(stmts[i].code)
      BY <3>1 DEF Range
    <3>3. PICK n \in DOMAIN prog.stmts : \E x \in Range(prog.stmts[n].code) :
            IsOp(x) /\ q.id = x.id /\ q.kind = x.kind /\ q.slot = x.slot /\ q.sub = x.sub
      BY <1>3, <3>2, PlanOp
    <3>4. PICK x \in Range(prog.stmts[n].code) : IsOp(x) /\ q.id = x.id /\ q.kind = x.kind /\ q.slot = x.slot /\ q.sub = x.sub
      BY <3>3
    <3>5. q.kind # "addr"
      <4>1. x \in OpsOf(prog.stmts)
        BY DEF OpsOf
      <4> QED BY <1>3, <3>4, <4>1 DEF Tame
    <3>6. stmts[i].kind = "assign" => q.slot # stmts[i].out
      <4>1. SUFFICES ASSUME stmts[i].kind = "assign" PROVE q.slot # stmts[i].out
        OBVIOUS
      <4>2. stmts[i] = prog.stmts[stmts[i].line] /\ stmts[i].line \in DOMAIN prog.stmts
        BY <1>3, <4>1, PlanStmt
      <4>3. stmts[i] \in Range(prog.stmts)
        BY <4>2 DEF Range
      <4> QED BY <1>3, <3>2, <4>1, <4>3 DEF Tame, SelfRead
    <3>7. \A place \in Range(q.sub) : \E m \in 1..(j - 1) : stmts[i].code[m].at = place
      BY <1>3, <3>1, PlanStmt
    <3> QED BY <3>1, <3>4, <3>5, <3>6, <3>7, OpFields DEF OperationOK
  <2>4. ASSUME NEW i \in DOMAIN stmts, NEW m \in DOMAIN stmts,
               NEW j \in DOMAIN stmts[i].code, NEW n \in DOMAIN stmts[m].code,
               stmts[i].code[j].at = stmts[m].code[n].at
        PROVE  i = m /\ j = n
    <3>1. PICK a, b : a = <<i, j>> /\ b = <<m, n>>
      OBVIOUS
    <3>2. a \in Pos(stmts) /\ b \in Pos(stmts) /\ OpAt(stmts, a) = stmts[i].code[j] /\ OpAt(stmts, b) = stmts[m].code[n]
      BY <3>1, InPos DEF OpAt
    <3>3. a = b
      BY <1>3, <2>4, <3>2 DEF Unique
    <3> QED BY <3>1, <3>3
  <2>5. \A i \in DOMAIN stmts : Len(stmts[i].code) > 0 /\ stmts[i].kind \in Kept
    BY <2>2
  <2> QED BY <1>2, <2>1, <2>2, <2>3, <2>4 DEF TextOK
<1>5. ASSUME NEW i \in DOMAIN w.text PROVE LineOK(w.text[i], w.script[i])
  <2>1. PICK s : s = stmts[i]
    OBVIOUS
  <2>2. IsCodeSeq(s.code) /\ s.kind \in Kept /\ s.code # <<>>
    BY <1>2, <1>3, <2>1, PlanStmt
  <2>3. LineOK(s, JitSteps(s))
    BY <2>2, JitLine
  <2> QED BY <1>2, <2>1, <2>3
<1>6. Structs \subseteq Slots
  BY DEF Structs
<1>7. retSlot \in Slots \cup {None}
  <2>1. SUFFICES ASSUME retSlot # None PROVE retSlot \in Slots
    OBVIOUS
  <2>2. PICK n : n = Len(prog.stmts)
    OBVIOUS
  <2>3. n > 0 /\ prog.stmts[n].kind = "return"
    BY <1>3, <2>1, <2>2 DEF Returned
  <2>4. n \in DOMAIN prog.stmts
    BY <1>3, <2>2, <2>3, SourceLines
  <2>5. Root(prog.stmts[n]).kind = "slot" /\ retSlot = Root(prog.stmts[n]).slot
    BY <1>3, <2>3, <2>4 DEF EndingInv, Kept
  <2>6. IsStmt(prog.stmts[n])
    BY <1>3, <2>4, SourceLines
  <2>7. prog.stmts[n].code # <<>>
    BY <2>3, <2>6 DEF IsStmt
  <2>8. IsOp(Root(prog.stmts[n]))
    BY <2>6, <2>7, StmtCode
  <2> QED BY <2>5, <2>8, OpFields DEF Naming
<1>8. \A i \in DOMAIN w.text : w.text[i].kind \in Kept
  BY <1>2, <1>3, PlanStmt
<1> QED BY <1>1, <1>2, <1>4, <1>5, <1>6, <1>7, <1>8 DEF WorldOK

-----------------------------------------------------------------------------
(***************************************************************************)
(* What both runs keep.                                                    *)
(***************************************************************************)
PlanInv == BInv /\ LayoutInv /\ EndingInv /\ OrderInv(Loud) /\ ReadsInv /\ SetsInv /\ Tame(prog)

RunsInv ==
  /\ stage \in {"plan", "refused", "done"} \cup Tiers
  /\ \A d \in DOMAIN fate : fate[d] \in {"ok", "error"}
  /\ stage \in Tiers \cup {"done"} =>
       /\ Accepted /\ DOMAIN run = Tiers
       /\ \A t \in Tiers : General(World(t), fate, run[t])
  /\ stage \in {"jit", "done"} => run["reflect"].outcome # "running"
  /\ stage = "done" => run["jit"].outcome # "running"

\* An accepted plan is settled.
LEMMA WorldsOK ==
  ASSUME PlanInv, Accepted
  PROVE  Settled /\ \A t \in Tiers : WorldOK(World(t))
<1>1. Settled
  BY DEF PlanInv, Settled, InPlan, Accepted
<1> QED BY <1>1, SourceWorld, PlanWorld DEF Tiers

\* A world stays what it is once the plan is made.
LEMMA SameWorld ==
  ASSUME UNCHANGED planVars
  PROVE  (\A t : World(t)' = World(t)) /\ (Accepted' <=> Accepted)
<1>1. UNCHANGED prog /\ UNCHANGED phase /\ UNCHANGED index /\ UNCHANGED stmts /\ UNCHANGED retSlot
  BY DEF planVars
<1>2. ASSUME NEW slot PROVE (IsStruct(slot)' <=> IsStruct(slot))
  BY <1>1 DEF IsStruct
<1>3. ASSUME NEW t PROVE World(t)' = World(t)
  BY <1>1 DEF World, Text, Steps, EvaluatorSteps, JitSteps, Writes, IsStruct, Structs
<1>4. Accepted' <=> Accepted
  BY <1>1 DEF Accepted, IsStruct, Live
<1> QED BY <1>3, <1>4

\* The runs begin when the plan is accepted.
LEMMA PlanDoneRuns ==
  ASSUME PlanInv, RunsInv, PlanDone
  PROVE  RunsInv'
<1>1. UNCHANGED planVars /\ UNCHANGED fate /\ stage' = IF Accepted THEN "reflect" ELSE "refused"
  BY DEF PlanDone
<1>2. (\A t : World(t)' = World(t)) /\ (Accepted' <=> Accepted)
  BY <1>1, SameWorld
<1>3. CASE ~ Accepted
  BY <1>1, <1>3 DEF RunsInv, Tiers
<1>4. CASE Accepted
  <2>1. run' = [t \in Tiers |-> Boot(t)]
    BY <1>4 DEF PlanDone
  <2>2. ASSUME NEW t \in Tiers PROVE General(World(t), fate, Boot(t))
    <3>1. PICK w, r : w = World(t) /\ r = Boot(t)
      OBVIOUS
    <3>2. WorldOK(w)
      BY <1>4, <3>1, WorldsOK
    <3>3. r = [line |-> 1, pos |-> 1, vals |-> <<>>, trace |-> <<>>, mem |-> r.mem,
               outcome |-> "running", result |-> Zero]
      BY <3>1 DEF Boot
    <3>4. r.mem = [s \in Slots |-> r.mem[s]] /\ \A s \in Slots : r.mem[s] \in {<<>>, <<Zero>>}
      BY <3>1 DEF Boot
    <3>5. General(w, fate, r)
      BY <3>2, <3>3, <3>4, BootGeneral
    <3> QED BY <3>1, <3>5
  <2>3. stage' = "reflect" /\ stage' \in Tiers
    BY <1>1, <1>4 DEF Tiers
  <2>4. \A t \in Tiers : General(World(t)', fate', run'[t])
    BY <1>1, <1>2, <2>1, <2>2
  <2> QED BY <1>1, <1>2, <1>4, <2>1, <2>3, <2>4 DEF RunsInv
<1> QED BY <1>3, <1>4

\* A step of one tier leaves the other where it is.
LEMMA RunsStep ==
  ASSUME PlanInv, RunsInv, Runs
  PROVE  RunsInv'
<1>1. stage \in Tiers
  BY DEF Runs, RunOff, Read, ReadField, ReadThrough, Make, Part, Call, Store, Clear, CheckBase, PutField, Return, AtOp
<1>2. Accepted /\ DOMAIN run = Tiers /\ (\A t \in Tiers : General(World(t), fate, run[t]))
      /\ \A d \in DOMAIN fate : fate[d] \in {"ok", "error"}
  BY <1>1 DEF RunsInv
<1>3. PICK w, r : w = World(stage) /\ r = run[stage]
  OBVIOUS
<1>4. AtTurn(w, r)
  BY <1>1, <1>2, <1>3, WorldsOK DEF AtTurn
<1>5. /\ General(w, fate', run'[stage]) /\ Turned
      /\ \A d \in DOMAIN fate : d \in DOMAIN fate' /\ fate'[d] = fate[d]
      /\ \A d \in DOMAIN fate' : fate'[d] \in {"ok", "error"}
  BY <1>4, TierStep
<1>6. UNCHANGED planVars /\ stage' = stage /\ DOMAIN run' = Tiers /\ \A t \in Tiers : t # stage => run'[t] = run[t]
  BY <1>5 DEF Turned
<1>7. (\A t : World(t)' = World(t)) /\ (Accepted' <=> Accepted)
  BY <1>6, SameWorld
<1>8. ASSUME NEW t \in Tiers PROVE General(World(t), fate', run'[t])
  <2>1. CASE t = stage
    BY <1>3, <1>5, <2>1
  <2>2. CASE t # stage
    <3>1. PICK v, x, f, f2 : v = World(t) /\ x = run[t] /\ f = fate /\ f2 = fate'
      OBVIOUS
    <3>2. General(v, f, x) /\ \A d \in DOMAIN f : d \in DOMAIN f2 /\ f2[d] = f[d]
      BY <1>2, <1>5, <3>1
    <3>3. General(v, f2, x)
      BY ONLY <3>2, FateGeneral
    <3> QED BY <1>6, <2>2, <3>1, <3>3
  <2> QED BY <2>1, <2>2
<1>9. \A t \in Tiers : General(World(t)', fate', run'[t])
  BY <1>7, <1>8
<1>10. stage # "done" /\ (stage = "jit" => run'["reflect"] = run["reflect"])
  BY <1>1, <1>6 DEF Tiers
<1> QED BY <1>1, <1>2, <1>5, <1>6, <1>7, <1>9, <1>10 DEF RunsInv

\* The other tier begins when one has ended.
LEMMA NextTierRuns ==
  ASSUME PlanInv, RunsInv, NextTier
  PROVE  RunsInv'
<1>1. /\ UNCHANGED planVars /\ UNCHANGED fate /\ UNCHANGED run /\ stage \in Tiers /\ exec.outcome # "running"
      /\ stage' = IF stage = "reflect" THEN "jit" ELSE "done"
  BY DEF NextTier
<1>2. (\A t : World(t)' = World(t)) /\ (Accepted' <=> Accepted)
  BY <1>1, SameWorld
<1>3. Accepted /\ DOMAIN run = Tiers /\ (\A t \in Tiers : General(World(t), fate, run[t]))
  BY <1>1 DEF RunsInv
<1>4. \A t \in Tiers : General(World(t)', fate', run'[t])
  BY <1>1, <1>2, <1>3
<1>5. run[stage].outcome # "running"
  BY <1>1 DEF exec
<1>6. CASE stage = "reflect"
  <2>1. stage' = "jit" /\ run'["reflect"].outcome # "running"
    BY <1>1, <1>5, <1>6
  <2> QED BY <1>1, <1>2, <1>3, <1>4, <2>1 DEF RunsInv, Tiers
<1>7. CASE stage = "jit"
  <2>1. stage' = "done" /\ run'["reflect"].outcome # "running" /\ run'["jit"].outcome # "running"
    BY <1>1, <1>5, <1>7 DEF RunsInv
  <2> QED BY <1>1, <1>2, <1>3, <1>4, <2>1 DEF RunsInv, Tiers
<1> QED BY <1>1, <1>6, <1>7 DEF Tiers

-----------------------------------------------------------------------------
(***************************************************************************)
(* The two runs compared.  R is the source and J the plan, r and j are     *)
(* runs of them.                                                           *)
(***************************************************************************)
Sides(R, J) == Settled /\ R = World("reflect") /\ J = World("jit")

\* The texts of the two.
LEMMA SidesText ==
  ASSUME NEW R, NEW J, Sides(R, J)
  PROVE  /\ WorldOK(R) /\ WorldOK(J) /\ R.text = prog.stmts /\ J.text = stmts /\ R.structs = J.structs
         /\ R.returns = None /\ J.returns = retSlot
         /\ InPlan /\ LayoutInv /\ prog \in Programs /\ stmts \in Seq(Range(stmts)) /\ prog.stmts \in Seq(Range(prog.stmts))
<1>1. InPlan /\ LayoutInv /\ prog \in Programs /\ stmts \in Seq(Range(stmts))
  BY DEF Sides, Settled, InPlan, BInv, PlanTypes
<1>2. WorldOK(R) /\ WorldOK(J)
  BY SourceWorld, PlanWorld DEF Sides
<1>3. R.text = prog.stmts /\ J.text = stmts /\ R.structs = J.structs /\ R.returns = None /\ J.returns = retSlot
  BY DEF Sides, World, Text
<1> QED BY <1>1, <1>2, <1>3, SourceLines

\* An operation of a world is one of its text.
LEMMA PointOp ==
  ASSUME NEW w, WorldOK(w), NEW e \in Points(w), IsCode(StepAt(w, e))
  PROVE  /\ e[1] \in DOMAIN w.text
         /\ \E j \in DOMAIN w.text[e[1]].code : e[2] = Lead(w.script[e[1]]) + j /\ StepAt(w, e) = w.text[e[1]].code[j]
         /\ StepAt(w, e) \in Range(w.text[e[1]].code)
<1>1. e[1] \in DOMAIN w.text
  BY PointParts
<1>2. StepAt(w, e).kind \notin Marks
  BY KindsApart DEF IsCode
<1>3. \E j \in DOMAIN w.text[e[1]].code : e[2] = Lead(w.script[e[1]]) + j /\ StepAt(w, e) = w.text[e[1]].code[j]
  <2>1. LastMark(w.text[e[1]]) \in Marks
    BY LastMarkKind
  <2> QED BY <1>2, <2>1, PointKind DEF Marks
<1> QED BY <1>1, <1>3 DEF Range

\* The point of an operation of a text.
LEMMA OpPointIn ==
  ASSUME NEW w, WorldOK(w), NEW i \in DOMAIN w.text, NEW q \in Range(w.text[i].code)
  PROVE  \E e \in Points(w) : e[1] = i /\ IsCode(StepAt(w, e)) /\ StepAt(w, e) = q
<1>1. PICK j \in DOMAIN w.text[i].code : q = w.text[i].code[j]
  BY DEF Range
<1>2. PICK e : e = <<i, Lead(w.script[i]) + j>>
  OBVIOUS
<1>3. e \in Points(w) /\ StepAt(w, e) = q /\ IsCode(StepAt(w, e)) /\ e[1] = i
  BY <1>1, <1>2, CodePoint
<1> QED BY <1>3

\* The same operation on both sides.
Same(R, J, d, e) ==
  /\ d \in Points(R) /\ e \in Points(J) /\ IsCode(StepAt(R, d)) /\ IsCode(StepAt(J, e))
  /\ StepAt(R, d).id = StepAt(J, e).id

\* The value of a call that moved goes where a read of it was.
Moved(R, d, place) ==
  /\ StepAt(R, d) = Root(prog.stmts[d[1]]) /\ prog.stmts[d[1]].kind = "call"
  /\ \E m \in DOMAIN prog.stmts : \E x \in Range(prog.stmts[m].code) :
       /\ x.kind = "slot" /\ LastWrite(prog.stmts, m, x.slot) = Root(prog.stmts[d[1]]).id /\ x.at = place

\* It is of one kind and takes the same on both sides; only a call that moved goes elsewhere.
LEMMA SameFields ==
  ASSUME NEW R, NEW J, Sides(R, J), NEW d, NEW e, Same(R, J, d, e)
  PROVE  LET q == StepAt(R, d)
             o == StepAt(J, e)
         IN  /\ o.kind = q.kind /\ o.slot = q.slot /\ o.sub = q.sub /\ o.does = q.does
             /\ FromLine(o, d[1]) /\ prog.stmts[d[1]].kind \in Kept
             /\ o = q \/ (o.kind = "call" /\ Moved(R, d, o.at))
<1> DEFINE q == StepAt(R, d)
           o == StepAt(J, e)
<1>1. /\ WorldOK(R) /\ WorldOK(J) /\ R.text = prog.stmts /\ J.text = stmts /\ InPlan /\ prog \in Programs
      /\ d \in Points(R) /\ e \in Points(J) /\ IsCode(q) /\ IsCode(o) /\ q.id = o.id
  BY SidesText DEF Same
<1>2. d[1] \in DOMAIN prog.stmts /\ q \in Range(prog.stmts[d[1]].code)
  BY <1>1, PointOp
<1>3. e[1] \in DOMAIN stmts /\ o \in Range(stmts[e[1]].code)
  BY <1>1, PointOp
<1> HIDE DEF q, o
<1>4. PICK n \in DOMAIN prog.stmts : \E x \in Range(prog.stmts[n].code) :
           /\ prog.stmts[n].kind \in Kept /\ FromLine(o, n) /\ IsOp(x)
           /\ o.id = x.id /\ o.kind = x.kind /\ o.slot = x.slot /\ o.sub = x.sub
           /\ o = x \/ (MovedFrom(o, n) /\ x = Root(prog.stmts[n]) /\ x.kind = "call" /\ x.slot = None)
  BY <1>1, <1>3, PlanOp
<1>5. PICK x \in Range(prog.stmts[n].code) :
           /\ prog.stmts[n].kind \in Kept /\ FromLine(o, n) /\ IsOp(x)
           /\ o.id = x.id /\ o.kind = x.kind /\ o.slot = x.slot /\ o.sub = x.sub
           /\ o = x \/ (MovedFrom(o, n) /\ x = Root(prog.stmts[n]) /\ x.kind = "call" /\ x.slot = None)
  BY <1>4
<1>6. n = d[1] /\ x = q
  BY <1>1, <1>2, <1>5, SameOp
<1>7. CASE o = x
  BY <1>5, <1>6, <1>7 DEF q, o
<1>8. CASE MovedFrom(o, n) /\ x = Root(prog.stmts[n]) /\ x.kind = "call"
  <2>1. PICK m \in DOMAIN prog.stmts : \E y \in Range(prog.stmts[m].code) :
          y.kind = "slot" /\ LastWrite(prog.stmts, m, y.slot) = Root(prog.stmts[n]).id /\ o = SentTo(x, y.at)
    BY <1>8 DEF MovedFrom
  <2>2. PICK y \in Range(prog.stmts[m].code) :
          y.kind = "slot" /\ LastWrite(prog.stmts, m, y.slot) = Root(prog.stmts[n]).id /\ o = SentTo(x, y.at)
    BY <2>1
  <2>3. o.does = x.does /\ o.at = y.at
    BY <1>5, <2>2 DEF IsOp, SentTo
  <2>4. Moved(R, d, o.at)
    BY <1>6, <1>8, <2>2, <2>3 DEF Moved, MovedFrom, q
  <2> QED BY <1>5, <1>6, <1>8, <2>3, <2>4 DEF q, o
<1> QED BY <1>5, <1>7, <1>8

\* It finds the name it reads bound by the same statement.
LEMMA SameReads ==
  ASSUME NEW R, NEW J, Sides(R, J), NEW d, NEW e, Same(R, J, d, e), StepAt(J, e).kind \in {"slot", "field", "deref"}
  PROVE  LET slot == StepAt(J, e).slot
         IN  slot \in Slots /\ LastWrite(stmts, e[1], slot) = LastWrite(prog.stmts, d[1], slot)
<1> DEFINE o == StepAt(J, e)
<1>1. /\ WorldOK(R) /\ WorldOK(J) /\ R.text = prog.stmts /\ J.text = stmts
      /\ d \in Points(R) /\ e \in Points(J) /\ IsCode(StepAt(R, d)) /\ IsCode(o) /\ o = StepAt(R, d)
  BY SidesText, SameFields DEF Same
<1>2. d[1] \in DOMAIN prog.stmts /\ o \in Range(prog.stmts[d[1]].code)
  BY <1>1, PointOp
<1>3. e[1] \in DOMAIN stmts /\ o \in Range(stmts[e[1]].code)
  BY <1>1, PointOp
<1>4. o.slot \in Slots
  BY <1>1, PointSlot
<1>5. o.slot \in Live /\ o.slot # None
  <2>1. o.slot # None
    BY <1>4, PlanAssumption
  <2> QED BY <1>3, <2>1 DEF Sides, Settled, Accepted
<1> QED BY <1>2, <1>3, <1>4, <1>5 DEF Sides, Settled, Accepted, ReadsInv

\* The statement that wrote a name last, as LastWrite names it.
LEMMA LastRoot ==
  ASSUME NEW w, WorldOK(w), w.text \in Seq(Range(w.text)), NEW i \in Nat, NEW slot \in Slots
  PROVE  \/ Writers(w.text, i, slot) = {} /\ LastWrite(w.text, i, slot) = None
         \/ \E m \in Writers(w.text, i, slot) :
              /\ \A n \in Writers(w.text, i, slot) : n <= m
              /\ LastWrite(w.text, i, slot) = Root(w.text[m]).id
<1>1. CASE Writers(w.text, i, slot) = {}
  BY <1>1, NeverWritten
<1>2. CASE Writers(w.text, i, slot) # {}
  <2>1. PICK m \in Writers(w.text, i, slot) : \A n \in Writers(w.text, i, slot) : n <= m
    BY <1>2, WriterIs
  <2>2. LastWrite(w.text, i, slot) = Root(w.text[m]).id
    BY <2>1, LastWriteIs
  <2> QED BY <2>1, <2>2
<1> QED BY <1>1, <1>2

\* The last operation of a statement is one of its operations,
LEMMA SourceRoot ==
  ASSUME prog \in Programs, NEW m \in DOMAIN prog.stmts, prog.stmts[m].kind \in Kept
  PROVE  Root(prog.stmts[m]) \in Range(prog.stmts[m].code) /\ IsOp(Root(prog.stmts[m])) /\ Root(prog.stmts[m]).id # None
<1>1. IsStmt(prog.stmts[m])
  BY SourceLines
<1>2. Root(prog.stmts[m]) \in Range(prog.stmts[m].code)
  BY <1>1, StmtCode
<1>3. IsOp(Root(prog.stmts[m]))
  BY <1>1, <1>2, StmtCode
<1> QED BY <1>2, <1>3 DEF IsOp

\* whichever statement bound a name,
LEMMA SourceWriter ==
  ASSUME prog \in Programs, NEW i, NEW slot \in Slots, NEW m \in Writers(prog.stmts, i, slot)
  PROVE  /\ m \in DOMAIN prog.stmts /\ prog.stmts[m].kind \in Kept
         /\ Root(prog.stmts[m]) \in Range(prog.stmts[m].code) /\ Root(prog.stmts[m]).id # None
<1>1. m \in DOMAIN prog.stmts /\ prog.stmts[m].out # None
  BY PlanAssumption DEF Writers
<1>2. IsStmt(prog.stmts[m])
  BY <1>1, SourceLines
<1>3. prog.stmts[m].kind \in Kept
  BY <1>1, <1>2 DEF IsStmt
<1> QED BY <1>1, <1>3, SourceRoot

\* in the plan too.
LEMMA PlanWriter ==
  ASSUME NEW R, NEW J, Sides(R, J), NEW i, NEW slot \in Slots, NEW m \in Writers(stmts, i, slot)
  PROVE  \E n \in DOMAIN prog.stmts :
           Root(stmts[m]) = Root(prog.stmts[n]) /\ Root(stmts[m]) \in Range(prog.stmts[n].code) /\ Root(stmts[m]).id # None
<1>1. m \in DOMAIN stmts
  BY DEF Writers
<1>2. InPlan /\ LayoutInv /\ prog \in Programs
  BY SidesText
<1>3. PICK n : n = stmts[m].line
  OBVIOUS
<1>4. n \in DOMAIN prog.stmts /\ prog.stmts[n].kind \in Kept /\ Root(stmts[m]) = Root(prog.stmts[n])
  BY <1>1, <1>2, <1>3, PlanStmt
<1> QED BY <1>2, <1>4, SourceRoot

\* What bound a name has left its value, and the same on both sides.
Rooted(rv, n, slot) == \A m \in Writers(prog.stmts, n, slot) : Root(prog.stmts[m]).at \in DOMAIN rv
Rooting(rv, jv, i, slot) ==
  \A m \in Writers(stmts, i, slot) :
    Root(stmts[m]).at \in DOMAIN rv => rv[Root(stmts[m]).at].val = jv[Root(stmts[m]).at].val

\* A name that the same statement bound holds the same on both sides.
LEMMA HeldSame ==
  ASSUME NEW R, NEW J, Sides(R, J), NEW rv, NEW jv, NEW i \in Nat, NEW n \in Nat, NEW slot \in Slots,
         LastWrite(stmts, i, slot) = LastWrite(prog.stmts, n, slot),
         Rooted(rv, n, slot), Rooting(rv, jv, i, slot)
  PROVE  Held(J, jv, i, slot) = Held(R, rv, n, slot)
<1>1. /\ WorldOK(R) /\ WorldOK(J) /\ R.text = prog.stmts /\ J.text = stmts /\ prog \in Programs
      /\ stmts \in Seq(Range(stmts)) /\ prog.stmts \in Seq(Range(prog.stmts))
  BY SidesText
<1>2. \/ Writers(stmts, i, slot) = {} /\ LastWrite(stmts, i, slot) = None
      \/ \E m \in Writers(stmts, i, slot) :
           /\ \A k \in Writers(stmts, i, slot) : k <= m
           /\ LastWrite(stmts, i, slot) = Root(stmts[m]).id
  BY <1>1, LastRoot
<1>3. \/ Writers(prog.stmts, n, slot) = {} /\ LastWrite(prog.stmts, n, slot) = None
      \/ \E m \in Writers(prog.stmts, n, slot) :
           /\ \A k \in Writers(prog.stmts, n, slot) : k <= m
           /\ LastWrite(prog.stmts, n, slot) = Root(prog.stmts[m]).id
  <2>1. R.text \in Seq(Range(R.text))
    BY <1>1
  <2>2. \/ Writers(R.text, n, slot) = {} /\ LastWrite(R.text, n, slot) = None
        \/ \E m \in Writers(R.text, n, slot) :
             /\ \A k \in Writers(R.text, n, slot) : k <= m
             /\ LastWrite(R.text, n, slot) = Root(R.text[m]).id
    BY <1>1, <2>1, LastRoot
  <2> QED BY <1>1, <2>2
<1>4. CASE Writers(stmts, i, slot) = {} /\ LastWrite(stmts, i, slot) = None
  <2>1. Writers(prog.stmts, n, slot) = {}
    BY <1>1, <1>3, <1>4, SourceWriter
  <2> QED BY <1>1, <1>4, <2>1, HeldNone
<1>5. CASE \E m \in Writers(stmts, i, slot) :
             /\ \A k \in Writers(stmts, i, slot) : k <= m
             /\ LastWrite(stmts, i, slot) = Root(stmts[m]).id
  <2>1. PICK m \in Writers(stmts, i, slot) :
             /\ \A k \in Writers(stmts, i, slot) : k <= m
             /\ LastWrite(stmts, i, slot) = Root(stmts[m]).id
    BY <1>5
  <2>2. PICK l \in DOMAIN prog.stmts :
          Root(stmts[m]) = Root(prog.stmts[l]) /\ Root(stmts[m]) \in Range(prog.stmts[l].code) /\ Root(stmts[m]).id # None
    BY PlanWriter
  <2>3. PICK k \in Writers(prog.stmts, n, slot) :
           /\ \A x \in Writers(prog.stmts, n, slot) : x <= k
           /\ LastWrite(prog.stmts, n, slot) = Root(prog.stmts[k]).id
    BY <1>3, <2>1, <2>2
  <2>4. k \in DOMAIN prog.stmts /\ Root(prog.stmts[k]) \in Range(prog.stmts[k].code)
    BY <1>1, SourceWriter
  <2>5. Root(stmts[m]) = Root(prog.stmts[k])
    <3>1. PICK a, b : a = Root(stmts[m]) /\ b = Root(prog.stmts[k])
      OBVIOUS
    <3>2. a \in Range(prog.stmts[l].code) /\ b \in Range(prog.stmts[k].code) /\ a.id = b.id
      BY <2>1, <2>2, <2>3, <2>4, <3>1
    <3>3. a = b
      BY <1>1, <2>4, <3>2, SameOp
    <3> QED BY <3>1, <3>3
  <2>6. Held(J, jv, i, slot) = jv[Root(stmts[m]).at].val
    <3>1. m \in Writers(J.text, i, slot) /\ \A x \in Writers(J.text, i, slot) : x <= m
      BY <1>1, <2>1
    <3>2. Held(J, jv, i, slot) = jv[Root(J.text[m]).at].val
      <4>1. WorldOK(J)
        BY <1>1
      <4> QED BY ONLY <3>1, <4>1, HeldIs
    <3> QED BY <1>1, <3>2
  <2>7. Held(R, rv, n, slot) = rv[Root(prog.stmts[k]).at].val
    <3>1. k \in Writers(R.text, n, slot) /\ \A x \in Writers(R.text, n, slot) : x <= k
      BY <1>1, <2>3
    <3>2. Held(R, rv, n, slot) = rv[Root(R.text[k]).at].val
      <4>1. WorldOK(R)
        BY <1>1
      <4> QED BY ONLY <3>1, <4>1, HeldIs
    <3> QED BY <1>1, <3>2
  <2> QED BY <2>3, <2>5, <2>6, <2>7 DEF Rooted, Rooting
<1> QED BY <1>2, <1>4, <1>5

\* Values left before a point of the plan are those the source left in the same places.
Before(J, rv, jv, e) ==
  \A c \in Points(J) : Lt(c, e) /\ IsCode(StepAt(J, c)) /\ StepAt(J, c).at \in DOMAIN rv =>
    rv[StepAt(J, c).at].val = jv[StepAt(J, c).at].val

\* Then a step finds the operands it finds in the source,
LEMMA OperandsSame ==
  ASSUME NEW R, NEW J, Sides(R, J), NEW rv, NEW jv, NEW d \in Points(R), NEW e \in Points(J),
         StepAt(R, d).sub = StepAt(J, e).sub,
         StepAt(R, d).kind \notin {"clear", "check"}, StepAt(J, e).kind \notin {"clear", "check"},
         Known(R, rv, d), Before(J, rv, jv, e)
  PROVE  \A place \in Range(StepAt(J, e).sub) : rv[place].val = jv[place].val
<1>1. WorldOK(R) /\ WorldOK(J)
  BY SidesText
<1>2. ASSUME NEW place \in Range(StepAt(J, e).sub) PROVE rv[place].val = jv[place].val
  <2>1. place \in DOMAIN rv
    BY <1>1, KnownOperand
  <2>2. PICK c \in Points(J) : Lt(c, e) /\ IsCode(StepAt(J, c)) /\ StepAt(J, c).at = place
    BY <1>1, PointOperands
  <2> QED BY <2>1, <2>2 DEF Before
<1> QED BY <1>2

\* and in a name what the source has there.
LEMMA HeldBefore ==
  ASSUME NEW R, NEW J, Sides(R, J), NEW rv, NEW jv, NEW d \in Points(R), NEW e \in Points(J), NEW slot \in Slots,
         LastWrite(stmts, e[1], slot) = LastWrite(prog.stmts, d[1], slot),
         Known(R, rv, d), Before(J, rv, jv, e)
  PROVE  Held(J, jv, e[1], slot) = Held(R, rv, d[1], slot)
<1>1. WorldOK(R) /\ WorldOK(J) /\ R.text = prog.stmts /\ J.text = stmts
  BY SidesText
<1>2. e[1] \in Nat /\ d[1] \in Nat
  BY <1>1, PointParts
<1>3. \A m \in Writers(prog.stmts, d[1], slot) : Root(prog.stmts[m]).at \in DOMAIN rv
  BY <1>1, <1>2, KnownHeld
<1>4. ASSUME NEW m \in Writers(stmts, e[1], slot), Root(stmts[m]).at \in DOMAIN rv
      PROVE  rv[Root(stmts[m]).at].val = jv[Root(stmts[m]).at].val
  <2>1. m < e[1] /\ \E c \in Points(J) : c[1] = m /\ IsCode(StepAt(J, c)) /\ StepAt(J, c) = Root(stmts[m])
    BY <1>1, WriterPoint
  <2>2. PICK c \in Points(J) : c[1] = m /\ IsCode(StepAt(J, c)) /\ StepAt(J, c) = Root(stmts[m])
    BY <2>1
  <2>3. Lt(c, e)
    BY <2>1, <2>2 DEF Lt
  <2> QED BY <1>4, <2>2, <2>3 DEF Before
<1>5. PICK i, n : i = e[1] /\ n = d[1]
  OBVIOUS
<1>6. Held(J, jv, i, slot) = Held(R, rv, n, slot)
  <2>1. /\ i \in Nat /\ n \in Nat /\ LastWrite(stmts, i, slot) = LastWrite(prog.stmts, n, slot)
        /\ Rooted(rv, n, slot) /\ Rooting(rv, jv, i, slot)
    BY <1>2, <1>3, <1>4, <1>5 DEF Rooted, Rooting
  <2>2. Sides(R, J) /\ slot \in Slots
    OBVIOUS
  <2> QED BY ONLY <2>1, <2>2, HeldSame
<1> QED BY <1>5, <1>6

\* So the same operation is worth the same.
LEMMA SameWorth ==
  ASSUME NEW R, NEW J, Sides(R, J), NEW rv, NEW jv, NEW d, NEW e, Same(R, J, d, e),
         Known(R, rv, d), Before(J, rv, jv, e)
  PROVE  /\ Worth(J, jv, e) = Worth(R, rv, d)
         /\ Stuck(J, jv, e) <=> Stuck(R, rv, d)
<1> DEFINE q == StepAt(R, d)
           o == StepAt(J, e)
<1>1. /\ WorldOK(R) /\ WorldOK(J) /\ d \in Points(R) /\ e \in Points(J) /\ IsCode(q) /\ IsCode(o) /\ q.id = o.id
      /\ o.kind = q.kind /\ o.slot = q.slot /\ o.sub = q.sub /\ o.does = q.does /\ R.structs = J.structs
  BY SidesText, SameFields DEF Same
<1>2. o.kind \notin {"clear", "check"} /\ o.kind \in OpKinds
  BY <1>1, KindsApart DEF IsCode, Marks
<1>3. o.kind \in {"slot", "field", "deref"} => Held(J, jv, e[1], o.slot) = Held(R, rv, d[1], o.slot)
  <2>1. SUFFICES ASSUME o.kind \in {"slot", "field", "deref"} PROVE Held(J, jv, e[1], o.slot) = Held(R, rv, d[1], o.slot)
    OBVIOUS
  <2>2. PICK slot : slot = o.slot
    OBVIOUS
  <2>3. slot \in Slots /\ LastWrite(stmts, e[1], slot) = LastWrite(prog.stmts, d[1], slot)
    BY <2>1, <2>2, SameReads
  <2>4. Held(J, jv, e[1], slot) = Held(R, rv, d[1], slot)
    BY <1>1, <2>3, HeldBefore
  <2> QED BY <2>2, <2>4
<1>4. \A place \in Range(o.sub) : rv[place].val = jv[place].val
  BY <1>1, <1>2, OperandsSame
<1>5. 1 \in DOMAIN o.sub => rv[o.sub[1]].val = jv[o.sub[1]].val
  BY <1>4 DEF Range
<1>6. o.kind \in {"lit", "slice", "part"} => 1 \in DOMAIN o.sub
  BY <1>1, PointSlot
<1> HIDE DEF q, o
<1>7. o.kind # "addr"
  BY <1>1, PointSlot DEF o
<1>8. Stuck(J, jv, e) <=> Stuck(R, rv, d)
  BY <1>1, <1>2, <1>3, <1>5, <1>6 DEF Stuck, q, o
<1>9. Worth(J, jv, e) = Worth(R, rv, d)
  BY <1>1, <1>2, <1>3, <1>5, <1>6, <1>7 DEF Worth, OpKinds, Naming, q, o
<1> QED BY <1>8, <1>9

\* A set of numbers has a first.
LEMMA FirstExists ==
  ASSUME NEW T \in SUBSET Nat, T # {}
  PROVE  \E m \in T : \A k \in T : m <= k
<1>1. PICK m \in T : \A k \in T : ~ (<<k, m>> \in OpToRel(<, Nat))
  BY NatLessThanWellFounded, WFMin
<1>2. \A k \in T : ~ (k < m)
  BY <1>1 DEF OpToRel
<1> QED BY <1>2

\* The first of a set of points.
LEMMA FirstPoint ==
  ASSUME NEW w, WorldOK(w), NEW T \in SUBSET Points(w), T # {}
  PROVE  \E e \in T : \A c \in T : c = e \/ Lt(e, c)
<1>1. \A e \in T : e[1] \in Nat /\ e[2] \in Nat /\ e = <<e[1], e[2]>>
  BY PointParts
<1>2. PICK A : A = {e[1] : e \in T}
  OBVIOUS
<1>3. A \in SUBSET Nat /\ A # {}
  BY <1>1, <1>2
<1>4. PICK a \in A : \A k \in A : a <= k
  BY <1>3, FirstExists
<1>5. PICK B : B = {e[2] : e \in {x \in T : x[1] = a}}
  OBVIOUS
<1>6. B \in SUBSET Nat /\ B # {}
  BY <1>1, <1>2, <1>4, <1>5
<1>7. PICK b \in B : \A k \in B : b <= k
  BY <1>6, FirstExists
<1>8. PICK e \in T : e[1] = a /\ e[2] = b
  BY <1>5, <1>7
<1>9. ASSUME NEW c \in T PROVE c = e \/ Lt(e, c)
  <2>1. c[1] \in A /\ a <= c[1]
    BY <1>2, <1>4
  <2>2. c[1] = a => c[2] \in B /\ b <= c[2]
    BY <1>5, <1>7
  <2>3. c[1] \in Nat /\ c[2] \in Nat /\ a \in Nat /\ b \in Nat
    BY <1>1, <1>8
  <2>4. c[1] = a /\ c[2] = b => c = e
    BY <1>1, <1>8
  <2> QED BY <1>8, <2>1, <2>2, <2>3, <2>4 DEF Lt
<1> QED BY <1>9

\* A value is there because its operation is done.
LEMMA ValueDone ==
  ASSUME NEW w, WorldOK(w), NEW f, NEW r, General(w, f, r), NEW e \in Points(w), IsCode(StepAt(w, e)),
         StepAt(w, e).at \in DOMAIN r.vals
  PROVE  Done(r, e) /\ Known(w, r.vals, e) /\ r.vals[StepAt(w, e).at].val = Worth(w, r.vals, e)
<1>1. Somewhere(w, r) /\ Filled(w, r) /\ Valued(w, r)
  BY DEF General
<1>2. PICK c \in Points(w) : Done(r, c) /\ IsCode(StepAt(w, c)) /\ StepAt(w, c).at = StepAt(w, e).at
  BY <1>1 DEF Filled
<1>3. c = e
  BY <1>2, PointPlace
<1> QED BY <1>1, <1>2, <1>3, KnownBefore DEF Valued

Pair(R, J, f, r, j) == Sides(R, J) /\ General(R, f, r) /\ General(J, f, j)

\* A value of the plan is the value of the same operation of the source.
LEMMA MovedValue ==
  ASSUME NEW R, NEW J, Sides(R, J), NEW f, NEW r, General(R, f, r), NEW d \in Points(R), IsCode(StepAt(R, d)),
         NEW place \in DOMAIN r.vals, Moved(R, d, place)
  PROVE  StepAt(R, d).at \in DOMAIN r.vals /\ r.vals[place].val = r.vals[StepAt(R, d).at].val
<1>1. WorldOK(R) /\ R.text = prog.stmts /\ prog \in Programs /\ prog.stmts \in Seq(Range(prog.stmts))
  BY SidesText
<1>2. PICK m \in DOMAIN prog.stmts : \E x \in Range(prog.stmts[m].code) :
       /\ x.kind = "slot" /\ LastWrite(prog.stmts, m, x.slot) = Root(prog.stmts[d[1]]).id /\ x.at = place
  BY DEF Moved
<1>3. PICK x \in Range(prog.stmts[m].code) :
       /\ x.kind = "slot" /\ LastWrite(prog.stmts, m, x.slot) = Root(prog.stmts[d[1]]).id /\ x.at = place
  BY <1>2
<1>4. PICK c \in Points(R) : c[1] = m /\ IsCode(StepAt(R, c)) /\ StepAt(R, c) = x
  <2>1. WorldOK(R) /\ m \in DOMAIN R.text /\ x \in Range(R.text[m].code)
    BY <1>1
  <2> QED BY ONLY <2>1, OpPointIn
<1>5. Known(R, r.vals, c) /\ r.vals[place].val = Worth(R, r.vals, c)
  BY <1>1, <1>3, <1>4, ValueDone
<1>6. PICK slot : slot = x.slot
  OBVIOUS
<1>7. slot \in Slots /\ m \in Nat
  BY <1>1, <1>3, <1>4, <1>6, PointSlot, SourceLines
<1>8. Worth(R, r.vals, c) = Held(R, r.vals, m, slot)
  BY <1>3, <1>4, <1>6 DEF Worth
<1>9. d[1] \in DOMAIN prog.stmts /\ StepAt(R, d) = Root(prog.stmts[d[1]]) /\ prog.stmts[d[1]].kind \in Kept
      /\ StepAt(R, d) \in Range(prog.stmts[d[1]].code)
  BY <1>1, PointOp DEF Moved, Kept
<1>10. StepAt(R, d).id # None
  BY <1>1, <1>9, SourceRoot
<1>11. PICK n \in Writers(prog.stmts, m, slot) :
         /\ \A k \in Writers(prog.stmts, m, slot) : k <= n
         /\ LastWrite(prog.stmts, m, slot) = Root(prog.stmts[n]).id
  <2>1. R.text \in Seq(Range(R.text))
    BY <1>1
  <2>2. \/ Writers(R.text, m, slot) = {} /\ LastWrite(R.text, m, slot) = None
        \/ \E n \in Writers(R.text, m, slot) :
             /\ \A k \in Writers(R.text, m, slot) : k <= n
             /\ LastWrite(R.text, m, slot) = Root(R.text[n]).id
    BY <1>1, <1>7, <2>1, LastRoot
  <2>3. LastWrite(prog.stmts, m, slot) # None
    BY <1>3, <1>6, <1>9, <1>10
  <2> QED BY <1>1, <2>2, <2>3
<1>12. Root(prog.stmts[n]) = StepAt(R, d)
  <2>1. n \in DOMAIN prog.stmts /\ Root(prog.stmts[n]) \in Range(prog.stmts[n].code)
    BY <1>1, <1>7, SourceWriter
  <2>2. PICK a, b : a = Root(prog.stmts[n]) /\ b = StepAt(R, d)
    OBVIOUS
  <2>3. a \in Range(prog.stmts[n].code) /\ b \in Range(prog.stmts[d[1]].code) /\ a.id = b.id
    BY <1>3, <1>6, <1>9, <1>11, <2>1, <2>2
  <2>4. a = b
    BY <1>1, <1>9, <2>1, <2>3, SameOp
  <2> QED BY <2>2, <2>4
<1>13. n \in Writers(R.text, m, slot) /\ \A k \in Writers(R.text, m, slot) : k <= n
  BY <1>1, <1>11
<1>14. WorldOK(R)
  BY <1>1
<1>15. Held(R, r.vals, m, slot) = r.vals[Root(R.text[n]).at].val
  <2>1. PICK rv : rv = r.vals
    OBVIOUS
  <2>2. Held(R, rv, m, slot) = rv[Root(R.text[n]).at].val
    BY ONLY <1>13, <1>14, HeldIs
  <2> QED BY <2>1, <2>2
<1>16. Root(R.text[n]).at \in DOMAIN r.vals
  <2>1. c[1] = m /\ c[1] \in Nat /\ n \in Writers(R.text, c[1], slot)
    BY <1>4, <1>7, <1>13
  <2> QED BY <1>5, <1>7, <1>14, <2>1, KnownHeld
<1> QED BY <1>1, <1>5, <1>8, <1>12, <1>15, <1>16

\* An operation of the plan is one of the source.
LEMMA SameThere ==
  ASSUME NEW R, NEW J, Sides(R, J), NEW e \in Points(J), IsCode(StepAt(J, e))
  PROVE  \E d : Same(R, J, d, e)
<1>1. WorldOK(R) /\ WorldOK(J) /\ R.text = prog.stmts /\ J.text = stmts /\ InPlan
  BY SidesText
<1>2. e[1] \in DOMAIN stmts /\ StepAt(J, e) \in Range(stmts[e[1]].code)
  BY <1>1, PointOp
<1>3. PICK n \in DOMAIN prog.stmts : \E q \in Range(prog.stmts[n].code) : StepAt(J, e).id = q.id
  BY <1>1, <1>2, PlanOp
<1>4. PICK q \in Range(prog.stmts[n].code) : StepAt(J, e).id = q.id
  BY <1>3
<1>5. PICK d \in Points(R) : IsCode(StepAt(R, d)) /\ StepAt(R, d) = q
  BY <1>1, <1>4, OpPointIn
<1> QED BY <1>4, <1>5 DEF Same

\* Where both runs left a value it is the same.
LEMMA ValuesMeet ==
  ASSUME NEW R, NEW J, NEW f, NEW r, NEW j, Pair(R, J, f, r, j)
  PROVE  \A e \in Points(J) :
           IsCode(StepAt(J, e)) /\ StepAt(J, e).at \in DOMAIN r.vals /\ StepAt(J, e).at \in DOMAIN j.vals =>
             r.vals[StepAt(J, e).at].val = j.vals[StepAt(J, e).at].val
<1>1. Sides(R, J) /\ General(R, f, r) /\ General(J, f, j) /\ WorldOK(R) /\ WorldOK(J)
  BY SidesText DEF Pair
<1>2. PICK T : T = {e \in Points(J) : /\ IsCode(StepAt(J, e)) /\ StepAt(J, e).at \in DOMAIN r.vals
                                      /\ StepAt(J, e).at \in DOMAIN j.vals
                                      /\ r.vals[StepAt(J, e).at].val # j.vals[StepAt(J, e).at].val}
  OBVIOUS
<1>3. SUFFICES ASSUME T # {} PROVE FALSE
  BY <1>2
<1>4. T \in SUBSET Points(J)
  BY <1>2
<1>5. PICK e \in T : \A c \in T : c = e \/ Lt(e, c)
  BY <1>1, <1>3, <1>4, FirstPoint
<1>6. /\ e \in Points(J) /\ IsCode(StepAt(J, e)) /\ StepAt(J, e).at \in DOMAIN r.vals
      /\ StepAt(J, e).at \in DOMAIN j.vals
      /\ r.vals[StepAt(J, e).at].val # j.vals[StepAt(J, e).at].val
  BY <1>2
<1>7. Known(J, j.vals, e) /\ j.vals[StepAt(J, e).at].val = Worth(J, j.vals, e)
  BY <1>1, <1>6, ValueDone
<1>8. Before(J, r.vals, j.vals, e)
  <2>1. ASSUME NEW c \in Points(J), Lt(c, e), IsCode(StepAt(J, c)), StepAt(J, c).at \in DOMAIN r.vals,
               r.vals[StepAt(J, c).at].val # j.vals[StepAt(J, c).at].val
        PROVE  FALSE
    <3>1. StepAt(J, c).at \in DOMAIN j.vals
      BY <1>7, <2>1 DEF Known
    <3>2. c \in T
      BY <1>2, <2>1, <3>1
    <3>3. c = e \/ Lt(e, c)
      BY <1>5, <3>2
    <3> QED BY <1>1, <1>6, <2>1, <3>3, LtOrder
  <2> QED BY <2>1 DEF Before
<1>9. PICK d : Same(R, J, d, e)
  BY <1>1, <1>6, SameThere
<1>10. d \in Points(R) /\ IsCode(StepAt(R, d))
  BY <1>9 DEF Same
<1>11. StepAt(R, d).at \in DOMAIN r.vals /\ r.vals[StepAt(J, e).at].val = r.vals[StepAt(R, d).at].val
  <2>1. StepAt(J, e) = StepAt(R, d) \/ Moved(R, d, StepAt(J, e).at)
    BY <1>1, <1>9, SameFields
  <2>2. CASE Moved(R, d, StepAt(J, e).at)
    BY <1>1, <1>6, <1>10, <2>2, MovedValue
  <2> QED BY <1>6, <2>1, <2>2
<1>12. Known(R, r.vals, d) /\ r.vals[StepAt(R, d).at].val = Worth(R, r.vals, d)
  BY <1>1, <1>10, <1>11, ValueDone
<1>13. Worth(J, j.vals, e) = Worth(R, r.vals, d)
  BY <1>1, <1>8, <1>9, <1>12, SameWorth
<1> QED BY <1>6, <1>7, <1>11, <1>12, <1>13

\* So it is before every point whose operands are there.
LEMMA MeetBefore ==
  ASSUME NEW R, NEW J, NEW f, NEW r, NEW j, Pair(R, J, f, r, j), NEW e, Known(J, j.vals, e)
  PROVE  Before(J, r.vals, j.vals, e)
BY ValuesMeet DEF Before, Known

-----------------------------------------------------------------------------
(***************************************************************************)
(* The points where a run may fail or be seen, and what they are on the    *)
(* other side.  The base of a field store whose value may fail or be seen  *)
(* is never nil.                                                           *)
(***************************************************************************)
Quiet(s) == \A q \in Range(s.code) : q.kind \notin Loud

Key(w, e) ==
  /\ e \in Points(w)
  /\ \/ StepAt(w, e).kind \in Loud \cup {"put"}
     \/ StepAt(w, e).kind = "check" /\ Quiet(w.text[e[1]])

Twin(R, J, d, e) ==
  /\ Key(R, d) /\ Key(J, e)
  /\ \/ Same(R, J, d, e)
     \/ /\ StepAt(J, e).kind \in {"put", "check"} /\ StepAt(R, d).kind = StepAt(J, e).kind
        /\ d[1] = stmts[e[1]].line

\* Where a field store puts its value, and where it checks its base.
LEMMA SetPoint ==
  ASSUME NEW w, WorldOK(w), NEW e \in Points(w), StepAt(w, e).kind \in {"put", "check"}
  PROVE  LET s == w.text[e[1]]
             c == w.script[e[1]]
         IN  /\ s.kind = "set" /\ StepAt(w, e).slot = s.out /\ StepAt(w, e).sub = <<Root(s).at>>
             /\ (StepAt(w, e).kind = "put") <=> (e[2] = Len(c))
             /\ StepAt(w, e).kind = "check" => e[2] = IF Lead(c) = 1 THEN 1 ELSE Len(s.code) + 1
<1> DEFINE s == w.text[e[1]]
           c == w.script[e[1]]
           q == StepAt(w, e)
<1>1. ~ IsCode(q)
  BY DEF IsCode, OpKinds, Naming
<1>2. q.slot = s.out /\ q.sub = IF s.code = <<>> THEN <<>> ELSE <<Root(s).at>>
  BY <1>1, MarkPoint
<1>3. (e[2] = Len(c) <=> q.kind \in Marks \ {"clear", "check"})
      /\ (q.kind \in Marks \ {"clear", "check"} => q.kind = LastMark(s))
  BY LastStep
<1>4. q.kind = "put" <=> e[2] = Len(c)
  BY <1>3 DEF Marks
<1>5. s.kind = "set"
  <2>1. CASE q.kind = "put"
    <3>1. LastMark(s) = "put"
      BY <1>3, <2>1 DEF Marks
    <3> QED BY <3>1 DEF LastMark
  <2>2. CASE q.kind = "check"
    <3>1. LastMark(s) # "check"
      BY LastMarkKind
    <3> QED BY <1>1, <2>2, <3>1, PointKind
  <2> QED BY <2>1, <2>2
<1>6. e[1] \in DOMAIN w.text /\ LineOK(s, c) /\ e[2] \in DOMAIN c /\ e[2] <= Len(c)
  BY PointParts DEF WorldOK
<1>7. s.code # <<>>
  <2>1. Len(s.code) > 0
    BY <1>5, <1>6 DEF WorldOK, TextOK
  <2> QED BY <2>1
<1>8. ASSUME q.kind = "check" PROVE e[2] = IF Lead(c) = 1 THEN 1 ELSE Len(s.code) + 1
  <2>1. /\ Len(c) = Len(s.code) + 2 /\ Len(s.code) \in Nat /\ DOMAIN s.code = 1..Len(s.code) /\ DOMAIN c = 1..Len(c)
        /\ \A l \in DOMAIN s.code : c[Lead(c) + l] = s.code[l]
    BY <1>5, <1>6 DEF LineOK
  <2>2. Lead(c) \in {0, 1}
    BY DEF Lead
  <2>3. e[2] < Len(c)
    BY <1>3, <1>6, <1>8, <2>1
  <2>4. ASSUME e[2] > Lead(c), e[2] <= Lead(c) + Len(s.code) PROVE FALSE
    <3>1. PICK l : l = e[2] - Lead(c)
      OBVIOUS
    <3>2. l \in DOMAIN s.code /\ Lead(c) + l = e[2]
      BY <1>6, <2>1, <2>2, <2>4, <3>1
    <3>3. q = s.code[l]
      BY <2>1, <3>2 DEF StepAt
    <3>4. OperationOK(s, l)
      BY <1>6, <3>2 DEF WorldOK, TextOK
    <3>5. q.kind \in OpKinds
      BY <3>3, <3>4 DEF OperationOK
    <3> QED BY <1>1, <3>5 DEF IsCode
  <2>5. PICK h, a, n, b : h = e[2] /\ a = Lead(c) /\ n = Len(s.code) /\ b = Len(c)
    OBVIOUS
  <2>6. e[2] \in Nat \ {0}
    BY PointParts
  <2>7. h \in Nat \ {0} /\ n \in Nat /\ a \in {0, 1} /\ b = n + 2 /\ h < b /\ ~ (h > a /\ h <= a + n)
    BY <2>1, <2>2, <2>3, <2>4, <2>5, <2>6
  <2>8. h = IF a = 1 THEN 1 ELSE n + 1
    BY ONLY <2>7
  <2> QED BY <2>5, <2>8
<1> QED BY <1>2, <1>4, <1>5, <1>7, <1>8

\* A field store has both.
LEMMA SetPoints ==
  ASSUME NEW w, WorldOK(w), NEW i \in DOMAIN w.text, w.text[i].kind = "set", NEW k \in {"put", "check"}
  PROVE  \E e \in Points(w) : e[1] = i /\ StepAt(w, e).kind = k
<1> DEFINE s == w.text[i]
           c == w.script[i]
<1>1. LineOK(s, c)
  BY DEF WorldOK
<1>2. /\ Len(c) = Len(s.code) + 2 /\ Len(s.code) \in Nat /\ DOMAIN s.code = 1..Len(s.code) /\ DOMAIN c = 1..Len(c)
      /\ c[Len(c)] = Mark(LastMark(s), s)
      /\ \A h \in DOMAIN c : h < Len(c) /\ (h <= Lead(c) \/ h > Lead(c) + Len(s.code)) => c[h] = Mark("check", s)
  BY <1>1 DEF LineOK
<1>3. Lead(c) \in {0, 1}
  BY DEF Lead
<1>4. PICK h : h = IF k = "put" THEN Len(c) ELSE IF Lead(c) = 1 THEN 1 ELSE Len(s.code) + 1
  OBVIOUS
<1>5. h \in DOMAIN c
  BY <1>2, <1>4
<1>6. c[h] = Mark(k, s)
  <2>1. CASE k = "put"
    <3>1. LastMark(s) = "put"
      BY DEF LastMark
    <3> QED BY <1>2, <1>4, <2>1, <3>1
  <2>2. CASE k # "put"
    <3>1. h < Len(c) /\ (h <= Lead(c) \/ h > Lead(c) + Len(s.code))
      BY <1>2, <1>3, <1>4, <2>2
    <3> QED BY <1>2, <1>5, <2>2, <3>1
  <2> QED BY <2>1, <2>2
<1>7. PICK e : e = <<i, h>>
  OBVIOUS
<1>8. e \in Points(w) /\ StepAt(w, e) = c[h] /\ e[1] = i
  BY <1>5, <1>7, PointIn
<1>9. PICK q, t : q = StepAt(w, e) /\ t = s
  OBVIOUS
<1>10. q = Mark(k, t)
  BY <1>6, <1>8, <1>9
<1>11. q.kind = k
  BY ONLY <1>10, MarkFields
<1> QED BY <1>8, <1>9, <1>11

\* Around the mark of a field store only its two marks, or its loud operations and
\* the store, are in the order of the text.
LEMMA SetOrder ==
  ASSUME NEW w, WorldOK(w), NEW d, NEW e, Key(w, d), Key(w, e), d[1] = e[1],
         ~ (StepAt(w, d).kind \in Loud /\ StepAt(w, e).kind \in Loud)
  PROVE  Lt(d, e) <=> (StepAt(w, e).kind = "put" /\ StepAt(w, d).kind # "put")
<1>1. d \in Points(w) /\ e \in Points(w) /\ Loud \subseteq OpKinds
  BY DEF Key, Loud, OpKinds, Naming
<1>2. /\ d[2] \in Nat /\ d[2] <= Len(w.script[d[1]]) /\ e[2] \in Nat /\ e[2] <= Len(w.script[d[1]])
      /\ d = <<d[1], d[2]>> /\ e = <<e[1], e[2]>> /\ d[1] \in Nat /\ Len(w.script[d[1]]) \in Nat
  BY <1>1, PointParts
<1>3. ASSUME NEW c \in {d, e} PROVE (c[2] = Len(w.script[d[1]])) <=> (StepAt(w, c).kind = "put")
  <2>2. StepAt(w, c).kind \in Loud \cup {"put", "check"} /\ c \in Points(w) /\ c[1] = d[1]
    BY <1>1, <1>3 DEF Key
  <2>3. StepAt(w, c).kind \in Marks \ {"clear", "check"} <=> StepAt(w, c).kind = "put"
    BY <1>1, <2>2, KindsApart DEF Marks
  <2> QED BY <2>2, <2>3, LastStep
<1>4. CASE StepAt(w, e).kind = "put" \/ StepAt(w, d).kind = "put"
  BY <1>2, <1>3, <1>4 DEF Lt
<1>5. CASE StepAt(w, e).kind # "put" /\ StepAt(w, d).kind # "put"
  <2>1. \A c \in {d, e} : (StepAt(w, c).kind = "check" /\ Quiet(w.text[d[1]])) \/ StepAt(w, c).kind \in Loud
    BY <1>5 DEF Key
  <2>2. \A c \in {d, e} : StepAt(w, c).kind \in Loud => ~ Quiet(w.text[d[1]])
    <3>1. ASSUME NEW c \in {d, e}, StepAt(w, c).kind \in Loud PROVE ~ Quiet(w.text[d[1]])
      <4>1. c \in Points(w) /\ c[1] = d[1] /\ IsCode(StepAt(w, c))
        BY <1>1, <3>1 DEF IsCode
      <4>2. StepAt(w, c) \in Range(w.text[d[1]].code)
        BY <4>1, PointOp
      <4> QED BY <3>1, <4>2 DEF Quiet
    <3> QED BY <3>1
  <2>3. StepAt(w, d).kind = "check" /\ StepAt(w, e).kind = "check"
    BY <2>1, <2>2
  <2>4. d[2] = e[2]
    BY <1>1, <2>3, SetPoint
  <2> QED BY <1>2, <1>5, <2>4 DEF Lt
<1> QED BY <1>4, <1>5

\* What a program returns is a name, read in the only operation of the line.
LEMMA ReturnLine ==
  ASSUME Settled, NEW n \in DOMAIN prog.stmts, prog.stmts[n].kind \notin Kept, NEW q \in Range(prog.stmts[n].code)
  PROVE  q = Root(prog.stmts[n]) /\ q.kind = "slot" /\ q.slot = retSlot /\ n = Len(prog.stmts) /\ prog.stmts[n].kind = "return"
<1>1. PICK s : s = prog.stmts[n]
  OBVIOUS
<1>2. IsStmt(s) /\ s.kind \in {"return", "stop"} /\ n = Len(prog.stmts)
  BY <1>1, SourceLine
<1>3. s.code \in Seq(Range(s.code)) /\ Len(s.code) \in Nat /\ DOMAIN s.code = 1..Len(s.code)
      /\ (s.code # <<>> => Root(s) \in Range(s.code)) /\ \A o \in Range(s.code) : IsOp(o)
  BY <1>2, StmtCode
<1>4. s.code # <<>> /\ s.kind = "return"
  <2>1. s.code # <<>>
    BY <1>1 DEF Range
  <2> QED BY <1>2, <2>1 DEF IsStmt
<1>5. phase = "planned" /\ EndingInv
  BY DEF Settled, Accepted
<1>6. Root(s).kind = "slot" /\ retSlot = Root(s).slot
  BY <1>1, <1>4, <1>5 DEF EndingInv
<1>7. PICK o : o = Root(s)
  OBVIOUS
<1>8. IsOp(o) /\ o.kind = "slot"
  BY <1>3, <1>4, <1>6, <1>7
<1>9. o.sub = <<>>
  BY <1>8 DEF IsOp, Naming
<1>10. Len(s.code) = 1
  <2>1. PICK b, l : b = s.code /\ l = Len(s.code)
    OBVIOUS
  <2>2. ASSUME l > 1 PROVE FALSE
    <3>1. l - 1 \in DOMAIN s.code /\ l - 1 < Len(s.code)
      BY <1>3, <2>1, <2>2
    <3>2. PICK v \in DOMAIN s.code : v > l - 1 /\ s.code[l - 1].at \in Range(s.code[v].sub)
      BY <1>2, <3>1 DEF IsStmt
    <3>3. v = l
      BY <1>3, <2>1, <3>2
    <3>4. s.code[v] = o
      BY <1>7, <2>1, <3>3 DEF Root
    <3>5. s.code[l - 1].at \in Range(<<>>)
      BY <1>9, <3>2, <3>4
    <3> QED BY <3>5 DEF Range
  <2>3. l # 0
    BY <1>3, <1>4, <2>1
  <2>4. l \in Nat
    BY <1>3, <2>1
  <2>5. l = 1
    BY ONLY <2>2, <2>3, <2>4
  <2> QED BY <2>1, <2>5
<1>11. PICK j \in DOMAIN s.code : q = s.code[j]
  BY <1>1 DEF Range
<1>12. j = Len(s.code)
  BY <1>3, <1>10, <1>11
<1>13. q = o
  BY <1>7, <1>11, <1>12 DEF Root
<1> QED BY <1>1, <1>2, <1>4, <1>6, <1>7, <1>13

\* The line of a field store is the same on both sides.
LEMMA SetLine ==
  ASSUME NEW R, NEW J, Sides(R, J), NEW i \in DOMAIN stmts, stmts[i].kind # "call"
  PROVE  stmts[i].line \in DOMAIN prog.stmts /\ stmts[i] = prog.stmts[stmts[i].line]
<1>1. InPlan /\ LayoutInv
  BY SidesText
<1> QED BY <1>1, PlanStmt

\* What fails or is seen in the source is in the plan,
LEMMA TwinOfSource ==
  ASSUME NEW R, NEW J, Sides(R, J), NEW d, Key(R, d)
  PROVE  \E e : Twin(R, J, d, e)
<1>1. /\ WorldOK(R) /\ WorldOK(J) /\ R.text = prog.stmts /\ J.text = stmts /\ InPlan /\ LayoutInv /\ prog \in Programs
      /\ d \in Points(R) /\ Settled /\ Loud \subseteq OpKinds
  BY SidesText DEF Key, Sides, Loud, OpKinds, Naming
<1>2. CASE StepAt(R, d).kind \in Loud
  <2>1. IsCode(StepAt(R, d))
    BY <1>1, <1>2 DEF IsCode
  <2>2. d[1] \in DOMAIN R.text /\ StepAt(R, d) \in Range(R.text[d[1]].code)
    BY <1>1, <2>1, PointOp
  <2>3. d[1] \in DOMAIN prog.stmts /\ StepAt(R, d) \in Range(prog.stmts[d[1]].code)
    BY <1>1, <2>2
  <2>4. StepAt(R, d).kind # "slot"
    BY <1>2 DEF Loud
  <2>5. prog.stmts[d[1]].kind \in Kept
    BY <1>1, <2>3, <2>4, ReturnLine
  <2>6. NothingLost
    BY <1>1 DEF InPlan, BInv
  <2>7. PICK p \in Pos(stmts) : OpAt(stmts, p).id = StepAt(R, d).id
    BY <2>3, <2>4, <2>5, <2>6 DEF NothingLost
  <2>8. PICK i \in DOMAIN stmts : \E j \in DOMAIN stmts[i].code : p = <<i, j>>
    BY <2>7, PosPair
  <2>9. PICK j \in DOMAIN stmts[i].code : p = <<i, j>>
    BY <2>8
  <2>10. PICK o : o = stmts[i].code[j]
    OBVIOUS
  <2>11. o \in Range(J.text[i].code) /\ i \in DOMAIN J.text /\ o.id = StepAt(R, d).id
    BY <1>1, <2>7, <2>9, <2>10 DEF Range, OpAt
  <2>12. PICK e \in Points(J) : e[1] = i /\ IsCode(StepAt(J, e)) /\ StepAt(J, e) = o
    BY <1>1, <2>11, OpPointIn
  <2>13. Same(R, J, d, e)
    BY <1>1, <2>1, <2>11, <2>12 DEF Same
  <2>14. StepAt(J, e).kind = StepAt(R, d).kind
    BY <2>13, SameFields
  <2>15. Key(J, e)
    BY <1>2, <2>12, <2>14 DEF Key
  <2> QED BY <2>13, <2>15 DEF Twin
<1>3. CASE StepAt(R, d).kind \notin Loud
  <2>1. StepAt(R, d).kind \in {"put", "check"}
    BY <1>3 DEF Key
  <2>2. R.text[d[1]].kind = "set" /\ d[1] \in DOMAIN R.text
    BY <1>1, <2>1, SetPoint, PointParts
  <2>3. prog.stmts[d[1]].kind = "set" /\ d[1] \in DOMAIN prog.stmts
    BY <1>1, <2>2
  <2>4. Present
    BY <1>1 DEF LayoutInv, InPlan
  <2>5. PICK i \in DOMAIN stmts : stmts[i].line = d[1]
    BY <2>3, <2>4 DEF Present, Kept
  <2>6. stmts[i].kind = "set"
    BY <1>1, <2>3, <2>5, PlanStmt
  <2>7. stmts[i] = prog.stmts[d[1]]
    BY <2>5, <2>6, SetLine
  <2>8. PICK k : k = StepAt(R, d).kind
    OBVIOUS
  <2>9. i \in DOMAIN J.text /\ J.text[i].kind = "set" /\ k \in {"put", "check"}
    BY <1>1, <2>1, <2>6, <2>8
  <2>10. PICK e \in Points(J) : e[1] = i /\ StepAt(J, e).kind = k
    BY <1>1, <2>9, SetPoints
  <2>11. Key(J, e)
    <3>1. J.text[e[1]] = R.text[d[1]]
      BY <1>1, <2>7, <2>10
    <3> QED BY <1>3, <2>8, <2>10, <3>1 DEF Key
  <2> QED BY <2>1, <2>5, <2>8, <2>10, <2>11 DEF Twin
<1> QED BY <1>2, <1>3

\* and the other way.
LEMMA TwinOfPlan ==
  ASSUME NEW R, NEW J, Sides(R, J), NEW e, Key(J, e)
  PROVE  \E d : Twin(R, J, d, e)
<1>1. /\ WorldOK(R) /\ WorldOK(J) /\ R.text = prog.stmts /\ J.text = stmts /\ InPlan /\ LayoutInv /\ prog \in Programs
      /\ e \in Points(J) /\ Settled /\ Loud \subseteq OpKinds
  BY SidesText DEF Key, Sides, Loud, OpKinds, Naming
<1>2. CASE StepAt(J, e).kind \in Loud
  <2>1. IsCode(StepAt(J, e))
    BY <1>1, <1>2 DEF IsCode
  <2>2. PICK d : Same(R, J, d, e)
    BY <1>1, <2>1, SameThere
  <2>3. StepAt(J, e).kind = StepAt(R, d).kind /\ d \in Points(R)
    BY <2>2, SameFields DEF Same
  <2>4. Key(R, d)
    BY <1>2, <2>3 DEF Key
  <2> QED BY <2>2, <2>4 DEF Twin
<1>3. CASE StepAt(J, e).kind \notin Loud
  <2>1. StepAt(J, e).kind \in {"put", "check"}
    BY <1>3 DEF Key
  <2>2. J.text[e[1]].kind = "set" /\ e[1] \in DOMAIN J.text
    BY <1>1, <2>1, SetPoint, PointParts
  <2>3. stmts[e[1]].kind = "set" /\ e[1] \in DOMAIN stmts
    BY <1>1, <2>2
  <2>4. PICK n : n = stmts[e[1]].line
    OBVIOUS
  <2>5. n \in DOMAIN prog.stmts /\ stmts[e[1]] = prog.stmts[n]
    BY <2>3, <2>4, SetLine
  <2>6. PICK k : k = StepAt(J, e).kind
    OBVIOUS
  <2>7. n \in DOMAIN R.text /\ R.text[n].kind = "set" /\ k \in {"put", "check"}
    BY <1>1, <2>1, <2>3, <2>5, <2>6
  <2>8. PICK d \in Points(R) : d[1] = n /\ StepAt(R, d).kind = k
    BY <1>1, <2>7, SetPoints
  <2>9. Key(R, d)
    <3>1. J.text[e[1]] = R.text[d[1]]
      BY <1>1, <2>5, <2>8
    <3> QED BY <1>3, <2>6, <2>8, <3>1 DEF Key
  <2> QED BY <2>1, <2>4, <2>6, <2>8, <2>9 DEF Twin
<1> QED BY <1>2, <1>3

\* The lines a statement of the plan runs are its own and those behind the line
\* of the statement before it.
LEMMA TwinLines ==
  ASSUME NEW R, NEW J, Sides(R, J), NEW d, NEW e, Twin(R, J, d, e)
  PROVE  /\ e[1] \in DOMAIN stmts /\ d[1] \in Nat /\ stmts[e[1]].line \in Nat /\ d[1] <= stmts[e[1]].line
         /\ \A i \in DOMAIN stmts : i < e[1] => stmts[i].line < d[1]
         /\ stmts[e[1]].kind # "call" => d[1] = stmts[e[1]].line
         /\ StepAt(R, d).kind = StepAt(J, e).kind
<1>1. /\ WorldOK(R) /\ WorldOK(J) /\ R.text = prog.stmts /\ J.text = stmts /\ InPlan /\ LayoutInv /\ prog \in Programs
      /\ d \in Points(R) /\ e \in Points(J) /\ Shape /\ Blocks
  <2>1. InPlan /\ LayoutInv
    BY SidesText
  <2> QED BY <2>1, SidesText DEF Twin, Key, InPlan, BInv, LayoutInv
<1>2. e[1] \in DOMAIN stmts /\ d[1] \in DOMAIN prog.stmts
  BY <1>1, PointParts
<1>3. stmts[e[1]].line \in DOMAIN prog.stmts
  BY <1>1, <1>2, PlanStmt
<1>4. d[1] \in Nat /\ stmts[e[1]].line \in Nat
  BY <1>1, <1>2, <1>3, SourceLines
<1>5. CASE Same(R, J, d, e)
  <2>1. PICK o : o = StepAt(J, e)
    OBVIOUS
  <2>2. o \in Range(stmts[e[1]].code) /\ FromLine(o, d[1]) /\ o.kind = StepAt(R, d).kind
    BY <1>1, <1>5, <2>1, PointOp, SameFields DEF Same
  <2>3. PICK n \in DOMAIN prog.stmts :
          /\ FromLine(o, n) /\ n <= stmts[e[1]].line
          /\ \A i \in DOMAIN stmts : i < e[1] => stmts[i].line < n
    BY <1>1, <1>2, <2>2 DEF Blocks
  <2>4. PICK q \in Range(prog.stmts[d[1]].code) : o.id = q.id
    BY <1>1, <1>2, <2>2, FromLineOp
  <2>5. PICK x \in Range(prog.stmts[n].code) : o.id = x.id
    BY <1>1, <2>3, FromLineOp
  <2>6. n = d[1]
    BY <1>1, <1>2, <2>4, <2>5, SameOp
  <2>7. ASSUME stmts[e[1]].kind # "call" PROVE d[1] = stmts[e[1]].line
    <3>1. o \in Range(prog.stmts[stmts[e[1]].line].code)
      BY <1>2, <2>2, <2>7, SetLine
    <3>2. PICK l : l = stmts[e[1]].line
      OBVIOUS
    <3>3. l \in DOMAIN prog.stmts /\ o \in Range(prog.stmts[l].code)
      BY <1>3, <3>1, <3>2
    <3>4. l = d[1]
      BY <1>1, <1>2, <2>4, <3>3, SameOp
    <3> QED BY <3>2, <3>4
  <2> QED BY <1>2, <1>4, <2>1, <2>2, <2>3, <2>6, <2>7
<1>6. CASE d[1] = stmts[e[1]].line /\ StepAt(R, d).kind = StepAt(J, e).kind
  <2>1. \A i \in DOMAIN stmts : i < e[1] => stmts[i].line < d[1]
    BY <1>1, <1>2, <1>6 DEF Shape
  <2> QED BY <1>2, <1>4, <1>6, <2>1
<1> QED BY <1>5, <1>6 DEF Twin

\* The position of an operation in its text.
LEMMA PointPos ==
  ASSUME NEW w, WorldOK(w), NEW e \in Points(w), IsCode(StepAt(w, e))
  PROVE  \E j \in Nat : /\ e[2] = Lead(w.script[e[1]]) + j /\ Lead(w.script[e[1]]) \in Nat /\ e[1] \in Nat
                        /\ j \in DOMAIN w.text[e[1]].code /\ e[1] \in DOMAIN w.text
                        /\ <<e[1], j>> \in Pos(w.text) /\ OpAt(w.text, <<e[1], j>>) = StepAt(w, e)
<1>1. PICK j \in DOMAIN w.text[e[1]].code : e[2] = Lead(w.script[e[1]]) + j /\ StepAt(w, e) = w.text[e[1]].code[j]
  BY PointOp
<1>2. e[1] \in DOMAIN w.text /\ e[1] \in Nat
  BY PointParts
<1>3. LineOK(w.text[e[1]], w.script[e[1]])
  BY <1>2 DEF WorldOK
<1>4. j \in Nat
  BY <1>1, <1>3 DEF LineOK
<1>5. <<e[1], j>> \in Pos(w.text) /\ OpAt(w.text, <<e[1], j>>) = StepAt(w, e)
  BY <1>1, <1>2, InPos DEF OpAt
<1> QED BY <1>1, <1>2, <1>4, <1>5 DEF Lead

\* Operations that may fail or be seen are in the order of the source.
LEMMA LoudTwins ==
  ASSUME NEW R, NEW J, Sides(R, J), NEW d, NEW e, Same(R, J, d, e), NEW d2, NEW e2, Same(R, J, d2, e2),
         StepAt(J, e).kind \in Loud, StepAt(J, e2).kind \in Loud, Lt(e, e2)
  PROVE  Lt(d, d2)
<1>1. /\ WorldOK(R) /\ WorldOK(J) /\ R.text = prog.stmts /\ J.text = stmts /\ prog \in Programs
      /\ phase \in {"splice", "planned"} /\ OrderInv(Loud)
  BY SidesText DEF Sides, Settled, InPlan
<1>2. /\ d \in Points(R) /\ d2 \in Points(R) /\ e \in Points(J) /\ e2 \in Points(J)
      /\ IsCode(StepAt(R, d)) /\ IsCode(StepAt(R, d2)) /\ IsCode(StepAt(J, e)) /\ IsCode(StepAt(J, e2))
      /\ StepAt(R, d).id = StepAt(J, e).id /\ StepAt(R, d2).id = StepAt(J, e2).id
  BY DEF Same
<1>3. PICK j \in Nat : /\ e[2] = Lead(J.script[e[1]]) + j /\ Lead(J.script[e[1]]) \in Nat /\ e[1] \in Nat
                       /\ <<e[1], j>> \in Pos(J.text) /\ OpAt(J.text, <<e[1], j>>) = StepAt(J, e)
  BY <1>1, <1>2, PointPos
<1>4. PICK j2 \in Nat : /\ e2[2] = Lead(J.script[e2[1]]) + j2 /\ Lead(J.script[e2[1]]) \in Nat /\ e2[1] \in Nat
                        /\ <<e2[1], j2>> \in Pos(J.text) /\ OpAt(J.text, <<e2[1], j2>>) = StepAt(J, e2)
  BY <1>1, <1>2, PointPos
<1>5. PICK x, x2 : x = StepAt(J, e).id /\ x2 = StepAt(J, e2).id
  OBVIOUS
<1>6. Lt(<<e[1], j>>, <<e2[1], j2>>)
  <2>1. e[1] < e2[1] \/ (e[1] = e2[1] /\ e[2] < e2[2])
    BY DEF Lt
  <2>2. e[1] = e2[1] => Lead(J.script[e[1]]) = Lead(J.script[e2[1]])
    OBVIOUS
  <2>3. PICK a, a2 : a = Lead(J.script[e[1]]) /\ a2 = Lead(J.script[e2[1]])
    OBVIOUS
  <2>4. e[1] < e2[1] \/ (e[1] = e2[1] /\ j < j2)
    BY <1>3, <1>4, <2>1, <2>2, <2>3
  <2> QED BY <2>4 DEF Lt
<1>7. Precedes(prog.stmts, x, x2)
  <2>1. PICK p, p2 : p = <<e[1], j>> /\ p2 = <<e2[1], j2>>
    OBVIOUS
  <2>2. /\ p \in Pos(stmts) /\ p2 \in Pos(stmts) /\ Lt(p, p2)
        /\ OpAt(stmts, p).kind \in Loud /\ OpAt(stmts, p2).kind \in Loud
        /\ OpAt(stmts, p).id = x /\ OpAt(stmts, p2).id = x2
    BY <1>1, <1>3, <1>4, <1>5, <1>6, <2>1
  <2>3. Precedes(prog.stmts, OpAt(stmts, p).id, OpAt(stmts, p2).id)
    BY <1>1, <2>2 DEF OrderInv
  <2> QED BY <2>2, <2>3
<1>8. PICK t \in Pos(prog.stmts) : \E t2 \in Pos(prog.stmts) :
        OpAt(prog.stmts, t).id = x /\ OpAt(prog.stmts, t2).id = x2 /\ Lt(t, t2)
  BY <1>7, PrecedesPos
<1>9. PICK t2 \in Pos(prog.stmts) : OpAt(prog.stmts, t).id = x /\ OpAt(prog.stmts, t2).id = x2 /\ Lt(t, t2)
  BY <1>8
<1>10. ASSUME NEW c \in Points(R), IsCode(StepAt(R, c)), NEW v \in Pos(prog.stmts), OpAt(prog.stmts, v).id = StepAt(R, c).id
       PROVE  \E h \in Nat : v = <<c[1], h>> /\ c[2] = Lead(R.script[c[1]]) + h /\ Lead(R.script[c[1]]) \in Nat /\ c[1] \in Nat
  <2>1. PICK h \in Nat : /\ c[2] = Lead(R.script[c[1]]) + h /\ Lead(R.script[c[1]]) \in Nat /\ c[1] \in Nat
                         /\ h \in DOMAIN R.text[c[1]].code /\ c[1] \in DOMAIN R.text
                         /\ OpAt(R.text, <<c[1], h>>) = StepAt(R, c)
    BY <1>1, <1>10, PointPos
  <2>2. PICK i \in DOMAIN prog.stmts : \E n \in DOMAIN prog.stmts[i].code : v = <<i, n>>
    BY <1>10, PosPair
  <2>3. PICK n \in DOMAIN prog.stmts[i].code : v = <<i, n>>
    BY <2>2
  <2>4. prog.stmts[i].code[n].id = prog.stmts[c[1]].code[h].id /\ h \in DOMAIN prog.stmts[c[1]].code /\ c[1] \in DOMAIN prog.stmts
    BY <1>1, <1>10, <2>1, <2>3 DEF OpAt
  <2>5. i = c[1] /\ n = h
    BY <1>1, <2>4, SourcePos
  <2> QED BY <2>1, <2>3, <2>5
<1>11. PICK h \in Nat : t = <<d[1], h>> /\ d[2] = Lead(R.script[d[1]]) + h /\ Lead(R.script[d[1]]) \in Nat /\ d[1] \in Nat
  BY <1>2, <1>5, <1>9, <1>10
<1>12. PICK h2 \in Nat : t2 = <<d2[1], h2>> /\ d2[2] = Lead(R.script[d2[1]]) + h2 /\ Lead(R.script[d2[1]]) \in Nat /\ d2[1] \in Nat
  BY <1>2, <1>5, <1>9, <1>10
<1>13. d[1] < d2[1] \/ (d[1] = d2[1] /\ h < h2)
  BY <1>9, <1>11, <1>12 DEF Lt
<1>14. PICK a, a2 : a = Lead(R.script[d[1]]) /\ a2 = Lead(R.script[d2[1]])
  OBVIOUS
<1>15. d[1] = d2[1] => a = a2
  BY <1>14
<1>16. d[1] < d2[1] \/ (d[1] = d2[1] /\ d[2] < d2[2])
  BY <1>11, <1>12, <1>13, <1>14, <1>15
<1> QED BY <1>16 DEF Lt

\* So is everything that may fail or be seen.
LEMMA TwinsForward ==
  ASSUME NEW R, NEW J, Sides(R, J), NEW d, NEW e, Twin(R, J, d, e), NEW d2, NEW e2, Twin(R, J, d2, e2), Lt(e, e2)
  PROVE  Lt(d, d2)
<1>1. /\ WorldOK(R) /\ WorldOK(J) /\ R.text = prog.stmts /\ J.text = stmts
      /\ Key(R, d) /\ Key(R, d2) /\ Key(J, e) /\ Key(J, e2)
  BY SidesText DEF Twin
<1>2. /\ e[1] \in DOMAIN stmts /\ d[1] \in Nat /\ stmts[e[1]].line \in Nat /\ d[1] <= stmts[e[1]].line
      /\ stmts[e[1]].kind # "call" => d[1] = stmts[e[1]].line
      /\ StepAt(R, d).kind = StepAt(J, e).kind
  BY TwinLines
<1>3. /\ e2[1] \in DOMAIN stmts /\ d2[1] \in Nat
      /\ \A i \in DOMAIN stmts : i < e2[1] => stmts[i].line < d2[1]
      /\ stmts[e2[1]].kind # "call" => d2[1] = stmts[e2[1]].line
      /\ StepAt(R, d2).kind = StepAt(J, e2).kind
  BY TwinLines
<1>4. e[1] < e2[1] \/ (e[1] = e2[1] /\ e[2] < e2[2])
  BY DEF Lt
<1>5. CASE e[1] < e2[1]
  <2>1. d[1] < d2[1]
    BY <1>2, <1>3, <1>5
  <2> QED BY <2>1 DEF Lt
<1>6. CASE e[1] = e2[1] /\ StepAt(J, e).kind \in Loud /\ StepAt(J, e2).kind \in Loud
  <2>1. Same(R, J, d, e) /\ Same(R, J, d2, e2)
    <3>1. \A k \in Loud : k \notin {"put", "check"}
      BY DEF Loud
    <3> QED BY <1>6, <3>1 DEF Twin
  <2> QED BY <1>6, <2>1, LoudTwins
<1>7. CASE e[1] = e2[1] /\ ~ (StepAt(J, e).kind \in Loud /\ StepAt(J, e2).kind \in Loud)
  <2>1. (StepAt(J, e).kind \in {"put", "check"} /\ e \in Points(J)) \/ (StepAt(J, e2).kind \in {"put", "check"} /\ e2 \in Points(J))
    BY <1>1, <1>7 DEF Key
  <2>2. J.text[e[1]].kind = "set"
    BY <1>1, <1>7, <2>1, SetPoint
  <2>3. d[1] = d2[1]
    BY <1>1, <1>2, <1>3, <1>7, <2>2
  <2>4. StepAt(J, e2).kind = "put" /\ StepAt(J, e).kind # "put"
    BY <1>1, <1>7, SetOrder
  <2> QED BY <1>1, <1>2, <1>3, <1>7, <2>3, <2>4, SetOrder
<1> QED BY <1>4, <1>5, <1>6, <1>7

\* A step of the plan has one twin.
LEMMA TwinOnce ==
  ASSUME NEW R, NEW J, Sides(R, J), NEW d, NEW e, Twin(R, J, d, e), NEW d2, Twin(R, J, d2, e)
  PROVE  d = d2
<1>1. /\ WorldOK(R) /\ WorldOK(J) /\ R.text = prog.stmts /\ J.text = stmts /\ prog \in Programs
      /\ Key(R, d) /\ Key(R, d2) /\ Key(J, e) /\ d \in Points(R) /\ d2 \in Points(R) /\ e \in Points(J)
  BY SidesText DEF Twin, Key
<1>2. /\ stmts[e[1]].kind # "call" => d[1] = stmts[e[1]].line
      /\ stmts[e[1]].kind # "call" => d2[1] = stmts[e[1]].line
      /\ StepAt(R, d).kind = StepAt(J, e).kind /\ StepAt(R, d2).kind = StepAt(J, e).kind
  BY TwinLines
<1>3. CASE StepAt(J, e).kind \in Loud
  <2>1. Same(R, J, d, e) /\ Same(R, J, d2, e)
    <3>1. \A k \in Loud : k \notin {"put", "check"}
      BY DEF Loud
    <3> QED BY <1>3, <3>1 DEF Twin
  <2>2. /\ IsCode(StepAt(R, d)) /\ IsCode(StepAt(R, d2)) /\ StepAt(R, d).id = StepAt(R, d2).id
    BY <2>1 DEF Same
  <2>3. /\ d[1] \in DOMAIN R.text /\ StepAt(R, d) \in Range(R.text[d[1]].code)
        /\ d2[1] \in DOMAIN R.text /\ StepAt(R, d2) \in Range(R.text[d2[1]].code)
    BY <1>1, <2>2, PointOp
  <2>4. PICK q, q2, n, n2 : q = StepAt(R, d) /\ q2 = StepAt(R, d2) /\ n = d[1] /\ n2 = d2[1]
    OBVIOUS
  <2>5. /\ n \in DOMAIN prog.stmts /\ q \in Range(prog.stmts[n].code) /\ q.id = q2.id
        /\ n2 \in DOMAIN prog.stmts /\ q2 \in Range(prog.stmts[n2].code)
    BY <1>1, <2>2, <2>3, <2>4
  <2>6. q = q2
    BY <1>1, <2>5, SameOp
  <2> QED BY <1>1, <2>2, <2>4, <2>6, PointPlace
<1>4. CASE StepAt(J, e).kind \notin Loud
  <2>1. StepAt(J, e).kind \in {"put", "check"}
    BY <1>1, <1>4 DEF Key
  <2>2. J.text[e[1]].kind = "set"
    BY <1>1, <2>1, SetPoint
  <2>3. d[1] = d2[1]
    BY <1>1, <1>2, <2>2
  <2>4. ~ Lt(d, d2) /\ ~ Lt(d2, d)
    BY <1>1, <1>2, <1>4, <2>3, SetOrder
  <2> QED BY <1>1, <2>4, LtOrder
<1> QED BY <1>3, <1>4

\* Twins are in one order.
LEMMA TwinOrder ==
  ASSUME NEW R, NEW J, Sides(R, J), NEW d, NEW e, Twin(R, J, d, e), NEW d2, NEW e2, Twin(R, J, d2, e2)
  PROVE  Lt(d, d2) <=> Lt(e, e2)
<1>1. WorldOK(R) /\ WorldOK(J) /\ d \in Points(R) /\ d2 \in Points(R) /\ e \in Points(J) /\ e2 \in Points(J)
  BY SidesText DEF Twin, Key
<1>2. Lt(e, e2) => Lt(d, d2)
  BY TwinsForward
<1>3. Lt(e2, e) => Lt(d2, d)
  BY TwinsForward
<1>4. e = e2 => d = d2
  BY TwinOnce
<1>5. Lt(e, e2) \/ e = e2 \/ Lt(e2, e)
  BY <1>1, LtOrder
<1>6. ~ (Lt(d, d2) /\ Lt(d2, d)) /\ ~ Lt(d, d)
  BY <1>1, LtOrder
<1> QED BY <1>2, <1>3, <1>4, <1>5, <1>6

-----------------------------------------------------------------------------
(* What fails, and what is seen, on one side and the other *)

\* A name that holds what a constant, a literal or a call that makes something
\* made is not nil.
LEMMA NotNilHeld ==
  ASSUME NEW w, WorldOK(w), NEW f, NEW r, General(w, f, r), NEW i \in Nat, NEW slot \in Slots,
         NEW m \in Writers(w.text, i, slot), \A n \in Writers(w.text, i, slot) : n <= m,
         NotNil(Root(w.text[m])), Root(w.text[m]).at \in DOMAIN r.vals
  PROVE  Held(w, r.vals, i, slot) # Zero
<1>1. PICK vals : vals = r.vals
  OBVIOUS
<1>2. Held(w, vals, i, slot) = vals[Root(w.text[m]).at].val
  BY HeldIs
<1>3. PICK c \in Points(w) : IsCode(StepAt(w, c)) /\ StepAt(w, c) = Root(w.text[m])
  BY WriterPoint
<1>4. vals[StepAt(w, c).at].val = Worth(w, vals, c)
  BY <1>1, <1>3, ValueDone
<1>5. PICK q : q = StepAt(w, c)
  OBVIOUS
<1>6. NotNil(q)
  BY <1>3, <1>5
<1>7. \A x, y : x = <<y>> \/ (\E z : x = <<y, z>>) => x[1] = y
  OBVIOUS
<1>8. Worth(w, vals, c) = <<"const">> \/ (\E z : Worth(w, vals, c) = <<"lit", z>> \/ Worth(w, vals, c) = <<"by", z>>)
  <2>1. CASE q.kind = "const"
    BY <1>5, <2>1 DEF Worth
  <2>2. CASE q.kind \in {"lit", "slice"}
    BY <1>5, <2>2 DEF Worth
  <2>3. CASE q.kind = "call" /\ q.does # "echo"
    BY <1>5, <2>3 DEF Worth
  <2> QED BY <1>6, <2>1, <2>2, <2>3 DEF NotNil
<1>9. Worth(w, vals, c)[1] \in {"const", "lit", "by"}
  BY <1>7, <1>8
<1>10. Zero[1] = "zero"
  BY DEF Zero
<1> QED BY <1>1, <1>2, <1>3, <1>4, <1>9, <1>10

\* The base of a field store whose value may fail or be seen,
LEMMA BaseSet ==
  ASSUME Settled, NEW n \in DOMAIN prog.stmts, prog.stmts[n].kind = "set", ~ Quiet(prog.stmts[n])
  PROVE  \E m \in Writers(prog.stmts, n, prog.stmts[n].out) :
           (\A k \in Writers(prog.stmts, n, prog.stmts[n].out) : k <= m) /\ NotNil(Root(prog.stmts[m]))
<1>1. ~ NilBase(prog)
  BY DEF Settled, Tame
<1>2. \E q \in Range(prog.stmts[n].code) : q.kind \in Loud
  BY DEF Quiet
<1> QED BY <1>1, <1>2 DEF NilBase

\* is not nil in the source,
LEMMA BaseOfSource ==
  ASSUME NEW R, NEW J, Sides(R, J), NEW f, NEW r, General(R, f, r), NEW d \in Points(R), StepAt(R, d).kind = "check",
         Known(R, r.vals, d), ~ Quiet(R.text[d[1]])
  PROVE  Held(R, r.vals, d[1], StepAt(R, d).slot) # Zero
<1>1. WorldOK(R) /\ R.text = prog.stmts /\ Settled
  BY SidesText DEF Sides
<1>2. d[1] \in DOMAIN R.text /\ d[1] \in Nat /\ R.text[d[1]].kind = "set" /\ StepAt(R, d).slot = R.text[d[1]].out
  BY <1>1, PointParts, SetPoint
<1>3. PICK slot : slot = StepAt(R, d).slot
  OBVIOUS
<1>4. slot \in Slots
  BY <1>1, <1>3, PointSlot
<1>5. PICK m \in Writers(R.text, d[1], slot) : (\A k \in Writers(R.text, d[1], slot) : k <= m) /\ NotNil(Root(R.text[m]))
  BY <1>1, <1>2, <1>3, BaseSet
<1>6. Root(R.text[m]).at \in DOMAIN r.vals
  BY <1>1, <1>2, <1>4, <1>5, KnownHeld
<1> QED BY <1>1, <1>2, <1>3, <1>4, <1>5, <1>6, NotNilHeld

\* nor in the plan.
LEMMA BaseOfPlan ==
  ASSUME NEW R, NEW J, Sides(R, J), NEW f, NEW j, General(J, f, j), NEW e \in Points(J), StepAt(J, e).kind = "check",
         Known(J, j.vals, e), ~ Quiet(J.text[e[1]])
  PROVE  Held(J, j.vals, e[1], StepAt(J, e).slot) # Zero
<1>1. /\ WorldOK(R) /\ WorldOK(J) /\ R.text = prog.stmts /\ J.text = stmts /\ Settled /\ prog \in Programs
      /\ stmts \in Seq(Range(stmts)) /\ prog.stmts \in Seq(Range(prog.stmts)) /\ SetsInv /\ phase \in {"splice", "planned"}
  BY SidesText DEF Sides, Settled, InPlan
<1>2. e[1] \in DOMAIN J.text /\ e[1] \in Nat /\ J.text[e[1]].kind = "set" /\ StepAt(J, e).slot = J.text[e[1]].out
  BY <1>1, PointParts, SetPoint
<1>3. PICK slot, i, n : slot = StepAt(J, e).slot /\ i = e[1] /\ n = stmts[i].line
  OBVIOUS
<1>4. slot \in Slots /\ i \in Nat /\ i \in DOMAIN stmts /\ stmts[i].kind = "set" /\ stmts[i].out = slot
  BY <1>1, <1>2, <1>3, PointSlot
<1>5. n \in DOMAIN prog.stmts /\ stmts[i] = prog.stmts[n]
  BY <1>3, <1>4, SetLine
<1>6. n \in Nat
  BY <1>1, <1>5, SourceLines
<1>7. PICK m \in Writers(prog.stmts, n, slot) :
        (\A k \in Writers(prog.stmts, n, slot) : k <= m) /\ NotNil(Root(prog.stmts[m]))
  <2>1. prog.stmts[n].kind = "set" /\ ~ Quiet(prog.stmts[n]) /\ prog.stmts[n].out = slot
    BY <1>1, <1>3, <1>4, <1>5
  <2> QED BY <1>1, <1>5, <2>1, BaseSet
<1>8. LastWrite(prog.stmts, n, slot) = Root(prog.stmts[m]).id
  BY <1>1, <1>6, <1>7, LastWriteIs
<1>9. m \in DOMAIN prog.stmts /\ Root(prog.stmts[m]) \in Range(prog.stmts[m].code) /\ Root(prog.stmts[m]).id # None
  BY <1>1, <1>4, <1>7, SourceWriter
<1>10. LastWrite(stmts, i, slot) = Root(prog.stmts[m]).id
  <2>1. LastWrite(stmts, i, slot) = LastWrite(prog.stmts, n, slot)
    BY <1>1, <1>3, <1>4 DEF SetsInv
  <2> QED BY <1>8, <2>1
<1>11. PICK h \in Writers(J.text, i, slot) :
         (\A k \in Writers(J.text, i, slot) : k <= h) /\ LastWrite(J.text, i, slot) = Root(J.text[h]).id
  <2>1. J.text \in Seq(Range(J.text))
    BY <1>1
  <2>2. LastWrite(J.text, i, slot) # None
    BY <1>1, <1>9, <1>10
  <2> QED BY <1>1, <1>4, <2>1, <2>2, LastRoot
<1>12. PICK l \in DOMAIN prog.stmts : Root(stmts[h]) = Root(prog.stmts[l]) /\ Root(stmts[h]) \in Range(prog.stmts[l].code)
  BY <1>1, <1>4, <1>11, PlanWriter
<1>13. Root(J.text[h]) = Root(prog.stmts[m])
  <2>1. PICK a, b : a = Root(stmts[h]) /\ b = Root(prog.stmts[m])
    OBVIOUS
  <2>2. a \in Range(prog.stmts[l].code) /\ b \in Range(prog.stmts[m].code) /\ a.id = b.id
    BY <1>1, <1>9, <1>10, <1>11, <1>12, <2>1
  <2>3. a = b
    BY <1>1, <1>9, <1>12, <2>2, SameOp
  <2> QED BY <1>1, <2>1, <2>3
<1>14. Root(J.text[h]).at \in DOMAIN j.vals
  BY <1>1, <1>2, <1>3, <1>4, <1>11, KnownHeld
<1>15. NotNil(Root(J.text[h]))
  BY <1>7, <1>13
<1> QED BY <1>1, <1>3, <1>4, <1>11, <1>14, <1>15, NotNilHeld

\* So only twins fail.
LEMMA FaultKinds ==
  ASSUME NEW w, NEW f, NEW vals, NEW e \in Points(w), Faulty(w, f, vals, e)
  PROVE  \/ Key(w, e)
         \/ /\ StepAt(w, e).kind = "check" /\ ~ Quiet(w.text[e[1]])
            /\ Held(w, vals, e[1], StepAt(w, e).slot) = Zero
BY DEF Faulty, Stuck, Key, Loud

\* In the source,
LEMMA FaultOfSource ==
  ASSUME NEW R, NEW J, Sides(R, J), NEW f, NEW r, General(R, f, r), NEW d \in Points(R), Done(r, d),
         Faulty(R, f, r.vals, d)
  PROVE  \E e : Twin(R, J, d, e)
<1>1. WorldOK(R) /\ Somewhere(R, r) /\ Filled(R, r)
  BY SidesText DEF General
<1>2. Known(R, r.vals, d)
  BY <1>1, KnownBefore
<1>3. PICK vals : vals = r.vals
  OBVIOUS
<1>4. \/ Key(R, d)
      \/ StepAt(R, d).kind = "check" /\ ~ Quiet(R.text[d[1]]) /\ Held(R, vals, d[1], StepAt(R, d).slot) = Zero
  BY <1>3, FaultKinds
<1>5. Key(R, d)
  BY <1>2, <1>3, <1>4, BaseOfSource
<1> QED BY <1>5, TwinOfSource

\* and in the plan.
LEMMA FaultOfPlan ==
  ASSUME NEW R, NEW J, Sides(R, J), NEW f, NEW j, General(J, f, j), NEW e \in Points(J), Done(j, e),
         Faulty(J, f, j.vals, e)
  PROVE  \E d : Twin(R, J, d, e)
<1>1. WorldOK(J) /\ Somewhere(J, j) /\ Filled(J, j)
  BY SidesText DEF General
<1>2. Known(J, j.vals, e)
  BY <1>1, KnownBefore
<1>3. PICK vals : vals = j.vals
  OBVIOUS
<1>4. \/ Key(J, e)
      \/ StepAt(J, e).kind = "check" /\ ~ Quiet(J.text[e[1]]) /\ Held(J, vals, e[1], StepAt(J, e).slot) = Zero
  BY <1>3, FaultKinds
<1>5. Key(J, e)
  BY <1>2, <1>3, <1>4, BaseOfPlan
<1> QED BY <1>5, TwinOfPlan

\* A field store finds in its name what it finds there in the source, and stores
\* the value of the same operation.
LEMMA SetTwins ==
  ASSUME NEW R, NEW J, Sides(R, J), NEW d, NEW e, Twin(R, J, d, e), StepAt(J, e).kind \in {"put", "check"}
  PROVE  /\ d \in Points(R) /\ e \in Points(J) /\ StepAt(R, d).kind = StepAt(J, e).kind
         /\ StepAt(R, d).slot = StepAt(J, e).slot /\ StepAt(J, e).slot \in Slots
         /\ StepAt(R, d).sub = StepAt(J, e).sub
         /\ LastWrite(stmts, e[1], StepAt(J, e).slot) = LastWrite(prog.stmts, d[1], StepAt(J, e).slot)
<1>1. /\ WorldOK(R) /\ WorldOK(J) /\ R.text = prog.stmts /\ J.text = stmts /\ SetsInv /\ phase \in {"splice", "planned"}
      /\ d \in Points(R) /\ e \in Points(J)
  BY SidesText DEF Sides, Settled, InPlan, Twin, Key
<1>2. /\ e[1] \in DOMAIN stmts /\ StepAt(R, d).kind = StepAt(J, e).kind
      /\ stmts[e[1]].kind # "call" => d[1] = stmts[e[1]].line
  BY TwinLines
<1>3. J.text[e[1]].kind = "set" /\ StepAt(J, e).slot = J.text[e[1]].out /\ StepAt(J, e).sub = <<Root(J.text[e[1]]).at>>
  BY <1>1, SetPoint
<1>4. StepAt(R, d).slot = R.text[d[1]].out /\ StepAt(R, d).sub = <<Root(R.text[d[1]]).at>>
  BY <1>1, <1>2, SetPoint
<1>5. d[1] = stmts[e[1]].line
  BY <1>1, <1>2, <1>3
<1>6. stmts[e[1]] = prog.stmts[stmts[e[1]].line]
  BY <1>1, <1>2, <1>3, SetLine
<1>7. J.text[e[1]] = R.text[d[1]]
  BY <1>1, <1>5, <1>6
<1>8. StepAt(J, e).slot \in Slots
  BY <1>1, PointSlot
<1>9. LastWrite(stmts, e[1], stmts[e[1]].out) = LastWrite(prog.stmts, stmts[e[1]].line, stmts[e[1]].out)
  BY <1>1, <1>2, <1>3 DEF SetsInv
<1> QED BY <1>1, <1>2, <1>3, <1>4, <1>5, <1>7, <1>8, <1>9

\* Twins that are done fail alike,
LEMMA FaultTwins ==
  ASSUME NEW R, NEW J, NEW f, NEW r, NEW j, Pair(R, J, f, r, j), NEW d, NEW e, Twin(R, J, d, e), Done(r, d), Done(j, e)
  PROVE  /\ Faulty(R, f, r.vals, d) <=> Faulty(J, f, j.vals, e)
         /\ StepAt(J, e).kind \in Seen => EventAt(J, j.vals, e) = EventAt(R, r.vals, d)
<1>1. /\ Sides(R, J) /\ WorldOK(R) /\ WorldOK(J) /\ Somewhere(R, r) /\ Filled(R, r) /\ Somewhere(J, j) /\ Filled(J, j)
      /\ d \in Points(R) /\ e \in Points(J)
  BY SidesText DEF Pair, General, Twin, Key
<1>2. Known(R, r.vals, d) /\ Known(J, j.vals, e)
  BY <1>1, KnownBefore
<1>3. Before(J, r.vals, j.vals, e)
  BY <1>2, MeetBefore
<1>4. PICK rv, jv : rv = r.vals /\ jv = j.vals
  OBVIOUS
<1>5. Known(R, rv, d) /\ Before(J, rv, jv, e)
  BY <1>2, <1>3, <1>4
<1>6. PICK q, o : q = StepAt(R, d) /\ o = StepAt(J, e)
  OBVIOUS
<1>7. o.kind = q.kind
  BY <1>1, <1>6, TwinLines
<1>8. CASE Same(R, J, d, e)
  <2>1. o.sub = q.sub /\ o.id = q.id /\ IsCode(o)
    BY <1>1, <1>6, <1>8, SameFields DEF Same
  <2>2. Stuck(J, jv, e) <=> Stuck(R, rv, d)
    BY <1>1, <1>5, <1>8, SameWorth
  <2>3. Faulty(R, f, rv, d) <=> Faulty(J, f, jv, e)
    BY <1>6, <1>7, <2>1, <2>2 DEF Faulty
  <2>4. ASSUME o.kind \in Seen PROVE EventAt(J, jv, e) = EventAt(R, rv, d)
    <3>1. o.kind = "call" /\ o.kind \notin {"clear", "check"} /\ q.kind \notin {"clear", "check"}
      BY <1>7, <2>1, <2>4, KindsApart DEF Seen, Marks, IsCode
    <3>2. \A place \in Range(o.sub) : rv[place].val = jv[place].val
      BY <1>1, <1>5, <1>6, <2>1, <3>1, OperandsSame
    <3>3. PICK g : g = o.sub
      OBVIOUS
    <3>4. \A k \in DOMAIN g : rv[g[k]].val = jv[g[k]].val
      BY <3>2, <3>3 DEF Range
    <3>5. [k \in DOMAIN g |-> Shown(jv[g[k]].val)] = [k \in DOMAIN g |-> Shown(rv[g[k]].val)]
      BY <3>4
    <3>6. EventAt(J, jv, e) = <<o.id, [k \in DOMAIN g |-> Shown(jv[g[k]].val)]>>
      BY <1>6, <3>1, <3>3 DEF EventAt
    <3>7. EventAt(R, rv, d) = <<o.id, [k \in DOMAIN g |-> Shown(rv[g[k]].val)]>>
      BY <1>6, <1>7, <2>1, <3>1, <3>3 DEF EventAt
    <3> QED BY <3>5, <3>6, <3>7
  <2> QED BY <1>4, <1>6, <2>3, <2>4
<1>9. CASE o.kind \in {"put", "check"}
  <2>1. PICK slot : slot = o.slot
    OBVIOUS
  <2>2. q.slot = slot /\ slot \in Slots /\ q.sub = o.sub
        /\ LastWrite(stmts, e[1], slot) = LastWrite(prog.stmts, d[1], slot)
    BY <1>1, <1>6, <1>9, <2>1, SetTwins
  <2>3. Held(J, jv, e[1], slot) = Held(R, rv, d[1], slot)
    BY <1>1, <1>5, <2>2, HeldBefore
  <2>4. Faulty(R, f, rv, d) <=> Faulty(J, f, jv, e)
    BY <1>6, <1>7, <1>9, <2>1, <2>2, <2>3 DEF Faulty, Stuck
  <2>5. ASSUME o.kind = "put" PROVE EventAt(J, jv, e) = EventAt(R, rv, d)
    <3>1. \A place \in Range(o.sub) : rv[place].val = jv[place].val
      <4>1. /\ StepAt(R, d).sub = StepAt(J, e).sub
            /\ StepAt(R, d).kind \notin {"clear", "check"} /\ StepAt(J, e).kind \notin {"clear", "check"}
        BY <1>6, <1>7, <2>2, <2>5
      <4>2. \A place \in Range(StepAt(J, e).sub) : rv[place].val = jv[place].val
        BY <1>1, <1>5, <4>1, OperandsSame
      <4> QED BY <1>6, <4>2
    <3>2. o.sub[1] \in Range(o.sub)
      BY <1>1, <1>6, <2>5, PointSlot
    <3>3. rv[o.sub[1]].val = jv[o.sub[1]].val
      BY <3>1, <3>2
    <3> QED BY <1>6, <1>7, <2>1, <2>2, <2>3, <2>5, <3>3 DEF EventAt
  <2>6. o.kind \in Seen => o.kind = "put"
    BY <1>9 DEF Seen
  <2> QED BY <1>4, <1>6, <2>4, <2>5, <2>6
<1> QED BY <1>6, <1>8, <1>9 DEF Twin

-----------------------------------------------------------------------------
(***************************************************************************)
(* Two runs with twins, whichever comes first: T holds the pairs.          *)
(***************************************************************************)
InOrder(T) ==
  \A d, e, d2, e2 : <<d, e>> \in T /\ <<d2, e2>> \in T => (Lt(d, d2) <=> Lt(e, e2))

Match(w, v, f, r, s, T) ==
  /\ WorldOK(w) /\ WorldOK(v) /\ General(w, f, r) /\ General(v, f, s)
  /\ \A d, e : <<d, e>> \in T => d \in Points(w) /\ e \in Points(v)
  /\ InOrder(T)
  /\ \A d \in Points(w) : Done(r, d) /\ Faulty(w, f, r.vals, d) => \E e : <<d, e>> \in T
  /\ \A e \in Points(v) : Done(s, e) /\ Faulty(v, f, s.vals, e) => \E d : <<d, e>> \in T
  /\ \A d, e : <<d, e>> \in T /\ Done(r, d) /\ Done(s, e) =>
       (Faulty(w, f, r.vals, d) <=> Faulty(v, f, s.vals, e))

\* The same pairs the other way around.
Turn(T) == {<<p[2], p[1]>> : p \in T}

\* A pair is turned.
LEMMA TurnPair ==
  ASSUME NEW A, NEW B, NEW T \in SUBSET (A \X B), NEW d, NEW e
  PROVE  <<e, d>> \in Turn(T) <=> <<d, e>> \in T
<1>1. ASSUME <<e, d>> \in Turn(T) PROVE <<d, e>> \in T
  <2>1. PICK p \in T : <<e, d>> = <<p[2], p[1]>>
    BY <1>1 DEF Turn
  <2>2. p = <<p[1], p[2]>>
    OBVIOUS
  <2>3. e = p[2] /\ d = p[1]
    BY <2>1
  <2> QED BY <2>2, <2>3
<1>2. ASSUME <<d, e>> \in T PROVE <<e, d>> \in Turn(T)
  <2>1. PICK p : p = <<d, e>>
    OBVIOUS
  <2>2. p \in T /\ <<e, d>> = <<p[2], p[1]>>
    BY <1>2, <2>1
  <2> QED BY <2>2 DEF Turn
<1> QED BY <1>1, <1>2

\* What holds of a match holds of it turned.
LEMMA TurnMatch ==
  ASSUME NEW w, NEW v, NEW f, NEW r, NEW s, NEW T \in SUBSET (Points(w) \X Points(v)), Match(w, v, f, r, s, T)
  PROVE  Match(v, w, f, s, r, Turn(T))
<1>1. \A d, e : <<e, d>> \in Turn(T) <=> <<d, e>> \in T
  BY TurnPair
<1>2. PICK U : U = Turn(T)
  OBVIOUS
<1>3. \A d, e : <<e, d>> \in U <=> <<d, e>> \in T
  BY <1>1, <1>2
<1>4. InOrder(U)
  <2>1. InOrder(T)
    BY DEF Match
  <2> QED BY <1>3, <2>1 DEF InOrder
<1>5. Match(v, w, f, s, r, U)
  BY <1>3, <1>4 DEF Match
<1> QED BY <1>2, <1>5

\* What is before a step that is done is done, and what is not done is behind it.
LEMMA DoneOrder ==
  ASSUME NEW w, WorldOK(w), NEW r, Somewhere(w, r), NEW d \in Points(w), NEW e \in Points(w), Done(r, e)
  PROVE  /\ Lt(d, e) => Done(r, d)
         /\ ~ Done(r, d) => Lt(e, d)
<1>1. r.line \in Nat /\ r.pos \in Nat
  BY PointParts DEF Somewhere
<1>2. Here(r)[1] = r.line /\ Here(r)[2] = r.pos
  BY DEF Here
<1>3. d[1] \in Nat /\ d[2] \in Nat /\ e[1] \in Nat /\ e[2] \in Nat
  BY PointParts
<1>4. Lt(d, e) => Done(r, d)
  BY <1>1, <1>2, <1>3 DEF Done, Lt
<1>5. Lt(d, e) \/ d = e \/ Lt(e, d)
  BY LtOrder
<1> QED BY <1>4, <1>5

\* Where one run fails the other does.
LEMMA FailsToo ==
  ASSUME NEW w, NEW v, NEW f, NEW r, NEW s, NEW T, Match(w, v, f, r, s, T),
         r.outcome = "error", s.outcome # "running"
  PROVE  s.outcome = "error" /\ \E d, e : <<d, e>> \in T /\ Final(w, r, d) /\ Final(v, s, e)
<1>1. /\ WorldOK(w) /\ WorldOK(v) /\ Concluded(w, r) /\ Concluded(v, s) /\ Judged(w, f, r) /\ Judged(v, f, s)
      /\ Somewhere(w, r) /\ Somewhere(v, s)
  BY DEF Match, General
<1>2. PICK d \in Points(w) : Final(w, r, d)
  BY <1>1 DEF Concluded
<1>3. Done(r, d) /\ Faulty(w, f, r.vals, d)
  BY <1>1, <1>2 DEF Final, Judged
<1>4. PICK e : <<d, e>> \in T
  BY <1>3 DEF Match
<1>5. e \in Points(v)
  BY <1>4 DEF Match
<1>6. CASE Done(s, e)
  <2>1. Faulty(v, f, s.vals, e)
    BY <1>3, <1>4, <1>6 DEF Match
  <2>2. s.outcome = "error" /\ Final(v, s, e)
    BY <1>1, <1>5, <1>6, <2>1 DEF Judged
  <2> QED BY <1>2, <1>4, <2>2
<1>7. CASE ~ Done(s, e)
  <2>1. s.outcome = "error"
    <3>1. s.outcome # "ok"
      BY <1>1, <1>5, <1>7 DEF Concluded
    <3> QED BY <1>1, <3>1 DEF Somewhere
  <2>2. PICK e2 \in Points(v) : Final(v, s, e2)
    BY <1>1, <2>1 DEF Concluded
  <2>3. Done(s, e2) /\ Faulty(v, f, s.vals, e2)
    BY <1>1, <2>1, <2>2 DEF Final, Judged
  <2>4. PICK d2 : <<d2, e2>> \in T
    BY <2>3 DEF Match
  <2>5. d2 \in Points(w)
    BY <2>4 DEF Match
  <2>6. Lt(e2, e)
    BY <1>1, <1>5, <1>7, <2>3, DoneOrder
  <2>7. Lt(d2, d)
    BY <1>4, <2>4, <2>6 DEF Match, InOrder
  <2>8. Done(r, d2)
    BY <1>1, <1>3, <2>5, <2>7, DoneOrder
  <2>9. Faulty(w, f, r.vals, d2)
    BY <2>3, <2>4, <2>8 DEF Match
  <2>10. Final(w, r, d2)
    BY <1>1, <2>5, <2>8, <2>9 DEF Judged
  <2>11. d = d2 \/ Lt(d, d2)
    BY <1>3, <2>10 DEF Final
  <2> QED BY <1>1, <2>5, <2>7, <2>11, LtOrder
<1> QED BY <1>6, <1>7

\* Two runs that ended got to the same twins.
LEMMA DoneAlike ==
  ASSUME NEW w, NEW v, NEW f, NEW r, NEW s, NEW T \in SUBSET (Points(w) \X Points(v)), Match(w, v, f, r, s, T),
         r.outcome # "running", s.outcome # "running"
  PROVE  /\ r.outcome = s.outcome
         /\ \A d, e : <<d, e>> \in T => (Done(r, d) <=> Done(s, e))
<1>1. /\ WorldOK(w) /\ WorldOK(v) /\ Concluded(w, r) /\ Concluded(v, s)
      /\ Somewhere(w, r) /\ Somewhere(v, s)
  BY DEF Match, General
<1>2. r.outcome \in {"ok", "error"} /\ s.outcome \in {"ok", "error"}
  BY <1>1 DEF Somewhere
<1>3. s.outcome = "error" => r.outcome = "error"
  <2>1. Match(v, w, f, s, r, Turn(T))
    BY TurnMatch
  <2>2. PICK U : U = Turn(T)
    OBVIOUS
  <2>3. Match(v, w, f, s, r, U)
    BY <2>1, <2>2
  <2> QED BY <2>3, FailsToo
<1>4. r.outcome = "error" => s.outcome = "error"
  BY FailsToo
<1>5. CASE r.outcome = "ok"
  <2>1. s.outcome = "ok"
    BY <1>2, <1>3, <1>5
  <2>2. \A d, e : <<d, e>> \in T => Done(r, d) /\ Done(s, e)
    BY <1>1, <1>5, <2>1 DEF Concluded, Match
  <2> QED BY <1>5, <2>1, <2>2
<1>6. CASE r.outcome = "error"
  <2>1. PICK d0, e0 : <<d0, e0>> \in T /\ Final(w, r, d0) /\ Final(v, s, e0)
    BY <1>6, FailsToo
  <2>2. ASSUME NEW d, NEW e, <<d, e>> \in T PROVE Done(r, d) <=> Done(s, e)
    <3>1. d \in Points(w) /\ e \in Points(v) /\ d0 \in Points(w) /\ e0 \in Points(v)
      BY <2>1, <2>2 DEF Match
    <3>2. Lt(d0, d) <=> Lt(e0, e)
      BY <2>1, <2>2 DEF Match, InOrder
    <3>3. Done(r, d) <=> ~ Lt(d0, d)
      <4>1. Done(r, d0) /\ (Done(r, d) => d = d0 \/ Lt(d, d0))
        BY <2>1, <3>1 DEF Final
      <4>2. Done(r, d) => ~ Lt(d0, d)
        BY <1>1, <3>1, <4>1, LtOrder
      <4>3. ~ Done(r, d) => Lt(d0, d)
        BY <1>1, <3>1, <4>1, DoneOrder
      <4> QED BY <4>2, <4>3
    <3>4. Done(s, e) <=> ~ Lt(e0, e)
      <4>1. Done(s, e0) /\ (Done(s, e) => e = e0 \/ Lt(e, e0))
        BY <2>1, <3>1 DEF Final
      <4>2. Done(s, e) => ~ Lt(e0, e)
        BY <1>1, <3>1, <4>1, LtOrder
      <4>3. ~ Done(s, e) => Lt(e0, e)
        BY <1>1, <3>1, <4>1, DoneOrder
      <4> QED BY <4>2, <4>3
    <3> QED BY <3>2, <3>3, <3>4
  <2> QED BY <1>4, <1>6, <2>2
<1> QED BY <1>2, <1>5, <1>6

\* Two lists with an order between them that pairs each with some of the other
\* are paired in step.
LEMMA InStep ==
  ASSUME NEW M \in Nat, NEW N \in Nat, NEW Z,
         \A a \in 1..M : \E b \in 1..N : <<a, b>> \in Z,
         \A b \in 1..N : \E a \in 1..M : <<a, b>> \in Z,
         \A a, c \in 1..M : \A b, d \in 1..N : <<a, b>> \in Z /\ <<c, d>> \in Z => (a < c <=> b < d)
  PROVE  M = N /\ \A n \in 1..M : <<n, n>> \in Z
<1>1. PICK T : T = {n \in 1..M : ~ (n <= N /\ <<n, n>> \in Z)}
  OBVIOUS
<1>2. T = {}
  <2>1. SUFFICES ASSUME T # {} PROVE FALSE
    OBVIOUS
  <2>2. T \in SUBSET Nat
    BY <1>1
  <2>3. PICK n \in T : \A k \in T : n <= k
    BY <2>1, <2>2, FirstExists
  <2>4. n \in 1..M /\ n \in Nat \ {0} /\ ~ (n <= N /\ <<n, n>> \in Z)
    BY <1>1, <2>3
  <2>5. \A k \in 1..M : k < n => k <= N /\ <<k, k>> \in Z
    BY <1>1, <2>3, <2>4
  <2>6. PICK b \in 1..N : <<n, b>> \in Z
    BY <2>4
  <2>7. ~ (b < n)
    <3>1. SUFFICES ASSUME b < n PROVE FALSE
      OBVIOUS
    <3>2. b \in 1..M /\ <<b, b>> \in Z
      BY <2>4, <2>5, <3>1
    <3>3. n < b <=> b < b
      BY <2>4, <2>6, <3>2
    <3>4. b < n <=> b < b
      BY <2>4, <2>6, <3>2
    <3> QED BY <3>1, <3>4
  <2>8. n \in 1..N
    BY <2>4, <2>7
  <2>9. PICK a \in 1..M : <<a, n>> \in Z
    BY <2>8
  <2>10. ~ (a < n)
    <3>1. SUFFICES ASSUME a < n PROVE FALSE
      OBVIOUS
    <3>2. a \in 1..N /\ <<a, a>> \in Z
      BY <2>5, <2>8, <3>1
    <3>3. a < a <=> a < n
      BY <2>8, <2>9, <3>2
    <3> QED BY <3>1, <3>3
  <2>11. ~ (n < a)
    <3>1. n < a <=> b < n
      BY <2>4, <2>6, <2>8, <2>9
    <3> QED BY <2>7, <3>1
  <2>12. a = n
    BY <2>4, <2>10, <2>11
  <2> QED BY <2>4, <2>8, <2>9, <2>12
<1>3. \A n \in 1..M : n <= N /\ <<n, n>> \in Z
  BY <1>1, <1>2
<1>4. M <= N
  <2>1. CASE M = 0
    BY <2>1
  <2>2. CASE M # 0
    <3>1. M \in 1..M
      BY <2>2
    <3> QED BY <1>3, <3>1
  <2> QED BY <2>1, <2>2
<1>5. ~ (M < N)
  <2>1. SUFFICES ASSUME M < N PROVE FALSE
    OBVIOUS
  <2>2. N \in 1..N
    BY <2>1
  <2>3. PICK a \in 1..M : <<a, N>> \in Z
    BY <2>2
  <2>4. <<a, a>> \in Z /\ a \in 1..N /\ a < N
    BY <1>3, <2>1, <2>3
  <2>5. a < a <=> a < N
    BY <2>2, <2>3, <2>4
  <2> QED BY <2>4, <2>5
<1> QED BY <1>3, <1>4, <1>5

\* The twins of two runs.
Twins(R, J) == {p \in Points(R) \X Points(J) : Twin(R, J, p[1], p[2])}

\* Their pairs.
LEMMA TwinsPair ==
  ASSUME NEW R, NEW J, NEW d, NEW e
  PROVE  <<d, e>> \in Twins(R, J) <=> Twin(R, J, d, e)
<1>1. Twin(R, J, d, e) => d \in Points(R) /\ e \in Points(J)
  BY DEF Twin, Key
<1> QED BY <1>1 DEF Twins

\* They are a match.
LEMMA TwinsMatch ==
  ASSUME NEW R, NEW J, NEW f, NEW r, NEW j, Pair(R, J, f, r, j)
  PROVE  Match(R, J, f, r, j, Twins(R, J))
<1>1. \A d, e : <<d, e>> \in Twins(R, J) <=> Twin(R, J, d, e)
  BY TwinsPair
<1>2. PICK T : T = Twins(R, J)
  OBVIOUS
<1>3. \A d, e : <<d, e>> \in T <=> Twin(R, J, d, e)
  BY <1>1, <1>2
<1>4. Sides(R, J) /\ General(R, f, r) /\ General(J, f, j) /\ WorldOK(R) /\ WorldOK(J)
  BY SidesText DEF Pair
<1>5. InOrder(T)
  BY <1>3, <1>4, TwinOrder DEF InOrder
<1>6. \A d \in Points(R) : Done(r, d) /\ Faulty(R, f, r.vals, d) => \E e : <<d, e>> \in T
  BY <1>3, <1>4, FaultOfSource
<1>7. \A e \in Points(J) : Done(j, e) /\ Faulty(J, f, j.vals, e) => \E d : <<d, e>> \in T
  BY <1>3, <1>4, FaultOfPlan
<1>8. \A d, e : <<d, e>> \in T /\ Done(r, d) /\ Done(j, e) =>
         (Faulty(R, f, r.vals, d) <=> Faulty(J, f, j.vals, e))
  BY <1>3, FaultTwins
<1>9. \A d, e : <<d, e>> \in T => d \in Points(R) /\ e \in Points(J)
  BY <1>3 DEF Twin, Key
<1> QED BY <1>2, <1>4, <1>5, <1>6, <1>7, <1>8, <1>9 DEF Match

\* Two runs that ended, ended alike.
LEMMA EndedAlike ==
  ASSUME NEW R, NEW J, NEW f, NEW r, NEW j, Pair(R, J, f, r, j), r.outcome # "running", j.outcome # "running"
  PROVE  /\ r.outcome = j.outcome
         /\ \A d, e : Twin(R, J, d, e) => (Done(r, d) <=> Done(j, e))
<1>1. Match(R, J, f, r, j, Twins(R, J)) /\ Twins(R, J) \in SUBSET (Points(R) \X Points(J))
  BY TwinsMatch DEF Twins
<1>2. PICK T \in SUBSET (Points(R) \X Points(J)) : T = Twins(R, J)
  BY <1>1
<1>3. Match(R, J, f, r, j, T)
  BY <1>1, <1>2
<1>4. r.outcome = j.outcome /\ \A d, e : <<d, e>> \in T => (Done(r, d) <=> Done(j, e))
  BY <1>3, DoneAlike
<1>5. \A d, e : <<d, e>> \in T <=> Twin(R, J, d, e)
  BY <1>2, TwinsPair
<1> QED BY <1>4, <1>5

\* A list of points is in their order.
LEMMA ListOrder ==
  ASSUME NEW w, WorldOK(w), NEW r, NEW es, Lists(w, r, es)
  PROVE  /\ Len(es) \in Nat /\ DOMAIN es = 1..Len(es)
         /\ \A n \in DOMAIN es : es[n] \in Points(w) /\ Done(r, es[n]) /\ StepAt(w, es[n]).kind \in Seen
         /\ \A a, c \in DOMAIN es : a < c <=> Lt(es[a], es[c])
<1>1. es \in Seq(Points(w)) /\ \A m, n \in DOMAIN es : m < n => Lt(es[m], es[n])
  BY DEF Lists
<1>2. Len(es) \in Nat /\ DOMAIN es = 1..Len(es) /\ \A n \in DOMAIN es : es[n] \in Points(w)
  BY <1>1
<1>3. \A n \in DOMAIN es : Done(r, es[n]) /\ StepAt(w, es[n]).kind \in Seen
  BY <1>2 DEF Lists
<1>4. ASSUME NEW a \in DOMAIN es, NEW c \in DOMAIN es, Lt(es[a], es[c]) PROVE a < c
  <2>1. ~ Lt(es[c], es[a]) /\ es[a] # es[c]
    BY <1>2, <1>4, LtOrder
  <2>2. ~ (c < a) /\ a # c
    BY <1>1, <2>1
  <2>3. a \in Nat /\ c \in Nat
    BY <1>2
  <2> QED BY <2>2, <2>3
<1> QED BY <1>1, <1>2, <1>3, <1>4

\* The same calls and field stores were seen of them.
LEMMA SeenAlike ==
  ASSUME NEW R, NEW J, NEW f, NEW r, NEW j, Pair(R, J, f, r, j), r.outcome # "running", j.outcome # "running"
  PROVE  r.trace = j.trace
<1>1. Sides(R, J) /\ WorldOK(R) /\ WorldOK(J) /\ Traced(R, r) /\ Traced(J, j)
  BY SidesText DEF Pair, General
<1>2. PICK es : Lists(R, r, es) /\ r.trace = [n \in DOMAIN es |-> EventAt(R, r.vals, es[n])]
  BY <1>1 DEF Traced
<1>3. PICK fs : Lists(J, j, fs) /\ j.trace = [n \in DOMAIN fs |-> EventAt(J, j.vals, fs[n])]
  BY <1>1 DEF Traced
<1>4. /\ Len(es) \in Nat /\ DOMAIN es = 1..Len(es)
      /\ \A n \in DOMAIN es : es[n] \in Points(R) /\ Done(r, es[n]) /\ StepAt(R, es[n]).kind \in Seen
      /\ \A a, c \in DOMAIN es : a < c <=> Lt(es[a], es[c])
  BY <1>1, <1>2, ListOrder
<1>5. /\ Len(fs) \in Nat /\ DOMAIN fs = 1..Len(fs)
      /\ \A n \in DOMAIN fs : fs[n] \in Points(J) /\ Done(j, fs[n]) /\ StepAt(J, fs[n]).kind \in Seen
      /\ \A a, c \in DOMAIN fs : a < c <=> Lt(fs[a], fs[c])
  BY <1>1, <1>3, ListOrder
<1>6. \A d, e : Twin(R, J, d, e) => (Done(r, d) <=> Done(j, e))
  BY EndedAlike
<1>7. Seen \subseteq Loud \cup {"put"}
  BY DEF Seen, Loud
<1>8. \A a \in DOMAIN es : \E b \in DOMAIN fs : Twin(R, J, es[a], fs[b])
  <2>1. ASSUME NEW a \in DOMAIN es PROVE \E b \in DOMAIN fs : Twin(R, J, es[a], fs[b])
    <3>1. Key(R, es[a])
      BY <1>4, <1>7 DEF Key
    <3>2. PICK e : Twin(R, J, es[a], e)
      BY <1>1, <3>1, TwinOfSource
    <3>3. e \in Points(J) /\ Done(j, e) /\ StepAt(J, e).kind \in Seen
      <4>1. StepAt(J, e).kind = StepAt(R, es[a]).kind
        BY <1>1, <3>2, TwinLines
      <4> QED BY <1>4, <1>6, <3>2, <4>1 DEF Twin, Key
    <3>4. \E b \in DOMAIN fs : fs[b] = e
      BY <1>3, <3>3 DEF Lists
    <3> QED BY <3>2, <3>4
  <2> QED BY <2>1
<1>9. \A b \in DOMAIN fs : \E a \in DOMAIN es : Twin(R, J, es[a], fs[b])
  <2>1. ASSUME NEW b \in DOMAIN fs PROVE \E a \in DOMAIN es : Twin(R, J, es[a], fs[b])
    <3>1. Key(J, fs[b])
      BY <1>5, <1>7 DEF Key
    <3>2. PICK d : Twin(R, J, d, fs[b])
      BY <1>1, <3>1, TwinOfPlan
    <3>3. d \in Points(R) /\ Done(r, d) /\ StepAt(R, d).kind \in Seen
      <4>1. StepAt(J, fs[b]).kind = StepAt(R, d).kind
        BY <1>1, <3>2, TwinLines
      <4> QED BY <1>5, <1>6, <3>2, <4>1 DEF Twin, Key
    <3>4. \E a \in DOMAIN es : es[a] = d
      BY <1>2, <3>3 DEF Lists
    <3> QED BY <3>2, <3>4
  <2> QED BY <2>1
<1>10. PICK Z : Z = {p \in (DOMAIN es) \X (DOMAIN fs) : Twin(R, J, es[p[1]], fs[p[2]])}
  OBVIOUS
<1>11. \A a \in DOMAIN es, b \in DOMAIN fs : <<a, b>> \in Z <=> Twin(R, J, es[a], fs[b])
  BY <1>10
<1>12. \A a, c \in DOMAIN es : \A b, d \in DOMAIN fs : <<a, b>> \in Z /\ <<c, d>> \in Z => (a < c <=> b < d)
  <2>1. ASSUME NEW a \in DOMAIN es, NEW c \in DOMAIN es, NEW b \in DOMAIN fs, NEW d \in DOMAIN fs,
               <<a, b>> \in Z, <<c, d>> \in Z
        PROVE  a < c <=> b < d
    <3>1. Twin(R, J, es[a], fs[b]) /\ Twin(R, J, es[c], fs[d])
      BY <1>11, <2>1
    <3>2. Lt(es[a], es[c]) <=> Lt(fs[b], fs[d])
      BY <1>1, <3>1, TwinOrder
    <3> QED BY <1>4, <1>5, <3>2
  <2> QED BY <2>1
<1>13. PICK M \in Nat, N \in Nat : M = Len(es) /\ N = Len(fs)
  BY <1>4, <1>5
<1>14. M = N /\ \A n \in 1..M : <<n, n>> \in Z
  <2>1. DOMAIN es = 1..M /\ DOMAIN fs = 1..N /\ M \in Nat /\ N \in Nat
    BY <1>4, <1>5, <1>13
  <2>2. \A a \in 1..M : \E b \in 1..N : <<a, b>> \in Z
    BY <1>8, <1>11, <2>1
  <2>3. \A b \in 1..N : \E a \in 1..M : <<a, b>> \in Z
    BY <1>9, <1>11, <2>1
  <2>4. \A a, c \in 1..M : \A b, d \in 1..N : <<a, b>> \in Z /\ <<c, d>> \in Z => (a < c <=> b < d)
    BY <1>12, <2>1
  <2> QED BY ONLY <2>1, <2>2, <2>3, <2>4, InStep
<1>15. DOMAIN es = DOMAIN fs /\ \A n \in DOMAIN es : Twin(R, J, es[n], fs[n])
  BY <1>4, <1>5, <1>11, <1>13, <1>14
<1>16. \A n \in DOMAIN es : EventAt(J, j.vals, fs[n]) = EventAt(R, r.vals, es[n])
  BY <1>4, <1>5, <1>15, FaultTwins
<1> QED BY <1>2, <1>3, <1>15, <1>16

\* The plan ends with a statement that runs.
LEMMA PlanOutcome ==
  ASSUME NEW R, NEW J, Sides(R, J), NEW vals
  PROVE  Outcome(J, vals) = IF retSlot # None THEN Shown(Held(J, vals, Len(stmts) + 1, retSlot)) ELSE Zero
<1>1. WorldOK(J) /\ J.text = stmts /\ J.returns = retSlot /\ InPlan /\ LayoutInv
  BY SidesText
<1>2. Len(stmts) \in Nat /\ DOMAIN stmts = 1..Len(stmts)
  BY <1>1 DEF WorldOK, TextOK
<1>3. Len(stmts) > 0 => stmts[Len(stmts)].kind # "return"
  <2>1. ASSUME Len(stmts) > 0 PROVE stmts[Len(stmts)].kind # "return"
    <3>1. Len(stmts) \in DOMAIN stmts
      BY <1>2, <2>1
    <3>2. stmts[Len(stmts)].kind \in Kept
      BY <1>1, <3>1, PlanStmt
    <3> QED BY <3>2 DEF Kept
  <2> QED BY <2>1
<1> QED BY <1>1, <1>3 DEF Outcome

\* A program that returns a name returns what it holds, and so does its plan.
LEMMA ResultAlike ==
  ASSUME NEW R, NEW J, NEW f, NEW r, NEW j, Pair(R, J, f, r, j), r.outcome # "running", j.outcome # "running"
  PROVE  r.result = j.result
<1>1. /\ Sides(R, J) /\ WorldOK(R) /\ WorldOK(J) /\ Concluded(R, r) /\ Concluded(J, j) /\ Somewhere(R, r) /\ Filled(R, r)
      /\ Somewhere(J, j) /\ Filled(J, j) /\ General(R, f, r) /\ General(J, f, j)
  BY SidesText DEF Pair, General
<1>2. /\ R.text = prog.stmts /\ J.text = stmts /\ R.returns = None /\ prog \in Programs /\ Returned
      /\ phase = "planned" /\ EndingInv /\ Settled
  BY <1>1, SidesText DEF Sides, Settled, Accepted, InPlan, BInv
<1>3. r.outcome = j.outcome
  BY EndedAlike
<1>4. CASE r.outcome = "error"
  BY <1>1, <1>3, <1>4 DEF Concluded
<1>5. CASE r.outcome = "ok"
  <2>1. (\A d \in Points(R) : Done(r, d)) /\ (\A e \in Points(J) : Done(j, e))
        /\ r.result = Outcome(R, r.vals) /\ j.result = Outcome(J, j.vals)
    BY <1>1, <1>3, <1>5 DEF Concluded
  <2>2. PICK rv, jv, last, n : rv = r.vals /\ jv = j.vals /\ last = Len(prog.stmts) /\ n = Len(stmts) + 1
    OBVIOUS
  <2>3. last \in Nat /\ n \in Nat /\ DOMAIN prog.stmts = 1..last
    BY <1>1, <1>2, <2>2 DEF WorldOK, TextOK
  <2>4. Outcome(J, jv) = IF retSlot # None THEN Shown(Held(J, jv, n, retSlot)) ELSE Zero
    BY <1>1, <2>2, PlanOutcome
  <2>5. CASE last > 0 /\ prog.stmts[last].kind = "return"
    <3>1. last \in DOMAIN prog.stmts /\ prog.stmts[last].kind \notin Kept
      BY <2>3, <2>5 DEF Kept
    <3>2. PICK q : q = Root(prog.stmts[last])
      OBVIOUS
    <3>3. last \in DOMAIN R.text /\ R.text[last].kind # "stop"
      BY <1>2, <2>5, <3>1
    <3>4. PICK d \in Points(R) : d[1] = last /\ IsCode(StepAt(R, d)) /\ StepAt(R, d) = Root(R.text[last])
      BY <1>1, <3>3, RootPoint
    <3>5. StepAt(R, d) \in Range(R.text[last].code)
      BY <1>1, <3>4, PointOp
    <3>6. q \in Range(prog.stmts[last].code) /\ StepAt(R, d) = q
      BY <1>2, <3>2, <3>4, <3>5
    <3>7. q.kind = "slot" /\ q.slot = retSlot
      BY <1>2, <3>1, <3>6, ReturnLine
    <3>8. PICK slot : slot = retSlot
      OBVIOUS
    <3>9. slot \in Slots /\ slot # None
      <4>1. slot \in Slots
        BY <1>1, <3>6, <3>7, <3>8, PointSlot
      <4> QED BY <4>1, PlanAssumption
    <3>10. q.at \in DOMAIN rv
      BY <1>1, <1>5, <2>1, <2>2, <3>4, <3>6 DEF Filled
    <3>11. Known(R, rv, d) /\ rv[q.at].val = Worth(R, rv, d)
      BY <1>1, <2>2, <3>4, <3>6, <3>10, ValueDone
    <3>12. rv[q.at].val = Held(R, rv, last, slot)
      BY <3>4, <3>6, <3>7, <3>8, <3>11 DEF Worth
    <3>13. LastWrite(stmts, n, slot) = LastWrite(prog.stmts, last, slot)
      BY <1>2, <2>2, <3>8, <3>9 DEF Returned
    <3>14. Rooted(rv, last, slot)
      <4>1. \A m \in Writers(R.text, d[1], slot) : Root(R.text[m]).at \in DOMAIN rv
        BY <1>1, <2>3, <3>4, <3>9, <3>11, KnownHeld
      <4> QED BY <1>2, <3>4, <4>1 DEF Rooted
    <3>15. Rooting(rv, jv, n, slot)
      <4>1. ASSUME NEW m \in Writers(J.text, n, slot), Root(J.text[m]).at \in DOMAIN rv
            PROVE  rv[Root(J.text[m]).at].val = jv[Root(J.text[m]).at].val
        <5>1. PICK e \in Points(J) : IsCode(StepAt(J, e)) /\ StepAt(J, e) = Root(J.text[m])
          BY <1>1, <3>9, <4>1, WriterPoint
        <5>2. StepAt(J, e).at \in DOMAIN jv
          BY <1>1, <1>3, <1>5, <2>1, <2>2, <5>1 DEF Filled
        <5> QED BY <2>2, <4>1, <5>1, <5>2, ValuesMeet
      <4> QED BY <1>2, <4>1 DEF Rooting
    <3>16. Held(J, jv, n, slot) = Held(R, rv, last, slot)
      BY <1>1, <2>3, <3>9, <3>13, <3>14, <3>15, HeldSame
    <3>17. Outcome(R, rv) = Shown(rv[q.at].val)
      BY <1>2, <2>2, <2>5, <3>2 DEF Outcome
    <3> QED BY <2>1, <2>2, <2>4, <3>8, <3>9, <3>12, <3>16, <3>17
  <2>6. CASE ~ (last > 0 /\ prog.stmts[last].kind = "return")
    <3>1. retSlot = None
      BY <1>2, <2>2, <2>6 DEF Returned
    <3>2. Outcome(R, rv) = Zero
      BY <1>2, <2>2, <2>6 DEF Outcome
    <3> QED BY <2>1, <2>2, <2>4, <3>1, <3>2
  <2> QED BY <2>5, <2>6
<1> QED BY <1>1, <1>4, <1>5 DEF Somewhere

-----------------------------------------------------------------------------
(* The theorem *)
AgreeInv == PlanInv /\ RunsInv

\* The invariant holds at the start,
LEMMA AgreeStart ==
  ASSUME \A p \in Programs : Tame(p), Init
  PROVE  AgreeInv
<1>1. PlanInit /\ stage = "plan" /\ fate = <<>> /\ run = <<>>
  BY DEF Init
<1>2. BInv /\ ReadsInv /\ SetsInv /\ OrderInv(Loud)
  BY <1>1, StartInv
<1>3. phase = "collect" /\ index = 1 /\ prog \in Programs
  BY <1>1 DEF PlanInit
<1>4. LayoutInv
  BY <1>3 DEF LayoutInv
<1>5. EndingInv
  <2>1. \A n \in DOMAIN prog.stmts : ~ (n < 1)
    BY <1>3, SourceLines
  <2> QED BY <1>3, <2>1 DEF EndingInv
<1>6. RunsInv
  BY <1>1 DEF RunsInv, Tiers
<1> QED BY <1>2, <1>3, <1>4, <1>5, <1>6 DEF AgreeInv, PlanInv

\* A step that leaves the plan alone leaves what holds of it.
LEMMA PlanStays ==
  ASSUME PlanInv, UNCHANGED planVars
  PROVE  PlanInv'
<1>1. prog' = prog /\ phase' = phase /\ index' = index /\ stmts' = stmts /\ retSlot' = retSlot
  BY DEF planVars
<1>2. BInv'
  <2>1. ~ EarlyReturn(prog) /\ BInv /\ [PlanNext]_planVars
    BY DEF PlanInv, Tame
  <2> QED BY <2>1, StepInv
<1>3. ~ EarlyReturn(prog) /\ ~ HiddenRead(prog) /\ ~ RunsAhead(prog, Loud) /\ [PlanNext]_planVars /\ "slot" \notin Loud
      /\ BInv /\ LayoutInv /\ EndingInv /\ OrderInv(Loud) /\ ReadsInv /\ SetsInv
  BY DEF PlanInv, Tame, Loud
<1>4. LayoutInv' /\ EndingInv' /\ ReadsInv' /\ SetsInv'
  BY <1>3, StepLayout, StepEnding, StepReads, StepSets
<1>5. OrderInv(Loud)'
  BY <1>3, StepOrder
<1>6. Tame(prog)'
  <2>1. Tame(prog)
    BY DEF PlanInv
  <2> QED BY ONLY <1>1, <2>1
<1> QED BY <1>2, <1>4, <1>5, <1>6 DEF PlanInv

\* a step of the planner keeps it,
LEMMA PlanMoves ==
  ASSUME PlanInv, PlanNext
  PROVE  PlanInv'
<1>1. prog' = prog
  BY DEF PlanNext, Keep, KeepName, DropReturn, Refuse, Collected, Splice, Skip, Planned
<1>2. ~ EarlyReturn(prog) /\ ~ HiddenRead(prog) /\ ~ RunsAhead(prog, Loud) /\ [PlanNext]_planVars /\ "slot" \notin Loud
      /\ BInv /\ LayoutInv /\ EndingInv /\ OrderInv(Loud) /\ ReadsInv /\ SetsInv
  BY DEF PlanInv, Tame, Loud
<1>3. BInv' /\ LayoutInv' /\ EndingInv' /\ ReadsInv' /\ SetsInv'
  BY <1>2, StepInv, StepLayout, StepEnding, StepReads, StepSets
<1>4. OrderInv(Loud)'
  BY <1>2, StepOrder
<1>5. Tame(prog)'
  <2>1. Tame(prog)
    BY DEF PlanInv
  <2> QED BY ONLY <1>1, <2>1
<1> QED BY <1>3, <1>4, <1>5 DEF PlanInv

\* so does every step,
LEMMA AgreeStep ==
  ASSUME AgreeInv, [Next]_vars
  PROVE  AgreeInv'
<1>1. PlanInv /\ RunsInv
  BY DEF AgreeInv
<1>2. CASE PlanStep
  <2>1. PlanInv'
    BY <1>1, <1>2, PlanMoves DEF PlanStep
  <2>2. RunsInv'
    BY <1>1, <1>2 DEF PlanStep, RunsInv, Tiers
  <2> QED BY <2>1, <2>2 DEF AgreeInv
<1>3. CASE PlanDone
  <2>1. PlanInv'
    BY <1>1, <1>3, PlanStays DEF PlanDone
  <2> QED BY <1>1, <1>3, <2>1, PlanDoneRuns DEF AgreeInv
<1>4. CASE NextTier
  <2>1. PlanInv'
    BY <1>1, <1>4, PlanStays DEF NextTier
  <2> QED BY <1>1, <1>4, <2>1, NextTierRuns DEF AgreeInv
<1>5. CASE Runs
  <2>1. UNCHANGED planVars
    BY <1>5 DEF Runs, RunOff, Read, ReadField, ReadThrough, Make, Part, Call, Store, Clear, CheckBase, PutField,
                Return, Become
  <2>2. PlanInv'
    BY <1>1, <2>1, PlanStays
  <2> QED BY <1>1, <1>5, <2>2, RunsStep DEF AgreeInv
<1>6. CASE UNCHANGED vars
  <2>1. UNCHANGED planVars /\ stage' = stage /\ fate' = fate /\ run' = run
    BY <1>6 DEF vars
  <2>2. PlanInv'
    BY <1>1, <2>1, PlanStays
  <2>3. (\A t : World(t)' = World(t)) /\ (Accepted' <=> Accepted)
    BY <2>1, SameWorld
  <2>4. RunsInv'
    BY <1>1, <2>1, <2>3 DEF RunsInv
  <2> QED BY <2>2, <2>4 DEF AgreeInv
<1> QED BY <1>2, <1>3, <1>4, <1>5, <1>6 DEF Next, Runs

\* and when both runs have ended they agree.
LEMMA AgreeEnd ==
  ASSUME AgreeInv
  PROVE  TiersAgree
<1>1. SUFFICES ASSUME stage = "done"
      PROVE /\ run["jit"].trace = run["reflect"].trace
            /\ run["jit"].outcome = run["reflect"].outcome
            /\ run["jit"].result = run["reflect"].result
  BY DEF TiersAgree
<1>2. PICK R, J, r, j : R = World("reflect") /\ J = World("jit") /\ r = run["reflect"] /\ j = run["jit"]
  OBVIOUS
<1>3. /\ Accepted /\ r.outcome # "running" /\ j.outcome # "running"
      /\ \A t \in Tiers : General(World(t), fate, run[t])
  BY <1>1, <1>2 DEF AgreeInv, RunsInv
<1>4. General(R, fate, r) /\ General(J, fate, j)
  BY <1>2, <1>3 DEF Tiers
<1>5. Settled
  BY <1>3, WorldsOK DEF AgreeInv
<1>6. PICK f : f = fate
  OBVIOUS
<1>7. Pair(R, J, f, r, j)
  BY <1>2, <1>4, <1>5, <1>6 DEF Pair, Sides
<1> QED BY <1>2, <1>3, <1>7, EndedAlike, SeenAlike, ResultAlike

\* TiersAgree: docs/DESIGN.md:170-174.  Whatever the program, the callees and the calls
\* that fail, the plan the step JIT runs makes the calls and field stores the
\* evaluator makes, with the same arguments and in the same order, and returns the
\* same value or fails as it does: unless the program takes an address, or has
\* one of the five shapes.
THEOREM TiersMeet ==
  ASSUME \A p \in Programs : /\ \A o \in OpsOf(p.stmts) : o.kind # "addr"
                             /\ ~ EarlyReturn(p) /\ ~ RunsAhead(p, Loud) /\ ~ HiddenRead(p)
                             /\ ~ SelfRead(p) /\ ~ NilBase(p)
  PROVE  Spec => []TiersAgree
<1>1. \A p \in Programs : Tame(p)
  BY DEF Tame
<1>2. Init => AgreeInv
  BY <1>1, AgreeStart
<1>3. AgreeInv /\ [Next]_vars => AgreeInv'
  BY AgreeStep
<1>4. AgreeInv => TiersAgree
  BY AgreeEnd
<1> QED BY <1>2, <1>3, <1>4, PTL DEF Spec
=============================================================================
