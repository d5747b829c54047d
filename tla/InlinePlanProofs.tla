-------------------------- MODULE InlinePlanProofs --------------------------
(***************************************************************************)
(* planInline keeps the calls and the reads of every program whose shape   *)
(* none of the known gaps of the planner shows.                            *)
(***************************************************************************)
EXTENDS InlinePlan, SequenceTheorems, WellFoundedInduction, TLAPS

(***************************************************************************)
(* The invariant.  A position of a text is a statement and an operation in *)
(* it, in the order of evaluation.                                         *)
(***************************************************************************)
Pos(ss) == UNION {{i} \X DOMAIN ss[i].code : i \in DOMAIN ss}
OpAt(ss, r) == ss[r[1]].code[r[2]]
Lt(r, t) == r[1] < t[1] \/ (r[1] = t[1] /\ r[2] < t[2])

\* A moved call: the root of line n, its value sent where a read of that value was.
MovedFrom(o, n) ==
  /\ prog.stmts[n].kind = "call"
  /\ \E m \in DOMAIN prog.stmts : \E r \in Range(prog.stmts[m].code) :
       /\ r.kind = "slot" /\ LastWrite(prog.stmts, m, r.slot) = Root(prog.stmts[n]).id
       /\ o = SentTo(Root(prog.stmts[n]), r.at)
FromLine(o, n) == o \in Range(prog.stmts[n].code) \/ MovedFrom(o, n)

PlanTypes ==
  /\ prog \in Programs
  /\ phase \in {"collect", "splice", "planned", "refused"}
  /\ index \in Nat \ {0}
  /\ stmts \in Seq(Range(stmts))

\* The first loop has kept a prefix, and only the last line is not kept.
CollectInv ==
  /\ index <= Len(prog.stmts) + 1
  /\ Len(stmts) < index
  /\ \A j \in 1..Len(stmts) : stmts[j] = prog.stmts[j] /\ prog.stmts[j].kind \in Kept
  /\ \A j \in 1..(index - 1) : j <= Len(stmts) \/ prog.stmts[j].kind \notin Kept
  /\ retSlot # None =>
       /\ index = Len(prog.stmts) + 1 /\ Len(prog.stmts) > 0
       /\ prog.stmts[Len(prog.stmts)].kind = "return"

\* A statement of the plan is one of the source around operations of the source.
StmtShape(j) ==
  LET s == stmts[j] IN
  /\ s = [kind |-> s.kind, out |-> s.out, code |-> s.code, line |-> s.line]
  /\ s.line \in DOMAIN prog.stmts
  /\ s.kind = prog.stmts[s.line].kind /\ s.kind \in Kept
  /\ s.out = prog.stmts[s.line].out
  /\ s.code \in Seq(Range(s.code)) /\ s.code # <<>>
  /\ Root(s) = Root(prog.stmts[s.line])
  /\ \A o \in Range(s.code) : \E n \in DOMAIN prog.stmts : prog.stmts[n].kind \in Kept /\ FromLine(o, n)

Shape ==
  /\ \A j \in DOMAIN stmts : StmtShape(j)
  /\ \A i, j \in DOMAIN stmts : i < j => stmts[i].line < stmts[j].line

\* The second loop has not touched what is behind its statement.
Fresh ==
  \A j \in DOMAIN stmts : j > index =>
    stmts[j] = prog.stmts[stmts[j].line] /\ stmts[j].line = stmts[j - 1].line + 1

Unique ==
  \A r, t \in Pos(stmts) :
    OpAt(stmts, r).id = OpAt(stmts, t).id \/ OpAt(stmts, r).at = OpAt(stmts, t).at => r = t

NothingLost ==
  \A n \in DOMAIN prog.stmts : prog.stmts[n].kind \in Kept =>
    \A q \in Range(prog.stmts[n].code) : q.kind # "slot" =>
      \E r \in Pos(stmts) : OpAt(stmts, r).id = q.id

Returned ==
  retSlot # None =>
    LET last == Len(prog.stmts) IN
    /\ last > 0 /\ prog.stmts[last].kind = "return"
    /\ LastWrite(stmts, Len(stmts) + 1, retSlot) = LastWrite(prog.stmts, last, retSlot)

BInv ==
  /\ PlanTypes
  /\ phase = "collect" => CollectInv
  /\ phase \in {"splice", "planned"} => Shape /\ Fresh /\ Unique /\ NothingLost /\ Returned

ReadsInv ==
  phase \in {"splice", "planned"} =>
    \A i \in DOMAIN stmts : \A o \in Range(stmts[i].code) : \A n \in DOMAIN prog.stmts :
      o \in Range(prog.stmts[n].code) /\ o.slot \in Live \ {None} =>
        LastWrite(stmts, i, o.slot) = LastWrite(prog.stmts, n, o.slot)

SetsInv ==
  phase \in {"splice", "planned"} =>
    \A i \in DOMAIN stmts : stmts[i].kind = "set" =>
      LastWrite(stmts, i, stmts[i].out) = LastWrite(prog.stmts, stmts[i].line, stmts[i].out)

OrderInv(K) ==
  phase \in {"splice", "planned"} =>
    \A r, t \in Pos(stmts) : OpAt(stmts, r).kind \in K /\ OpAt(stmts, t).kind \in K =>
      (Lt(r, t) <=> Precedes(prog.stmts, OpAt(stmts, r).id, OpAt(stmts, t).id))

-----------------------------------------------------------------------------
(* Sequences *)

\* A sequence is a function from the positions up to its length.
LEMMA SeqDomain ==
  ASSUME NEW q, q \in Seq(Range(q))
  PROVE  Len(q) \in Nat /\ DOMAIN q = 1..Len(q) /\ q = [j \in 1..Len(q) |-> q[j]]
OBVIOUS

\* A function from those positions is a sequence.
LEMMA IsSequence ==
  ASSUME NEW n \in Nat, NEW f, f = [j \in 1..n |-> f[j]]
  PROVE  f \in Seq(Range(f)) /\ Len(f) = n /\ DOMAIN f = 1..n
<1>1. DOMAIN f = 1..n
  OBVIOUS
<1>2. \A j \in 1..n : f[j] \in Range(f)
  BY <1>1 DEF Range
<1>3. f \in [1..n -> Range(f)]
  BY <1>1, <1>2
<1> QED BY <1>1, <1>3

\* The last of a set of positions.
LEMMA LastExists ==
  ASSUME NEW n \in Nat, NEW T \in SUBSET (1..n), T # {}
  PROVE  \E m \in T : \A k \in T : k <= m
<1> DEFINE U == {n - k : k \in T}
<1>1. U \subseteq Nat /\ U # {}
  <2>1. \A k \in T : n - k \in Nat
    OBVIOUS
  <2> QED BY <2>1
<1>2. PICK u \in U : \A v \in U : ~ (<<v, u>> \in OpToRel(<, Nat))
  BY <1>1, NatLessThanWellFounded, WFMin
<1>3. PICK m \in T : u = n - m
  BY <1>2
<1>4. ASSUME NEW k \in T PROVE k <= m
  <2>1. ~ (n - k < n - m)
    BY <1>1, <1>2, <1>3 DEF OpToRel
  <2> QED BY <2>1, <1>3
<1> QED BY <1>4

-----------------------------------------------------------------------------
(* Splicing code into code *)

\* Placed changes the last operation only.
LEMMA PlacedOps ==
  ASSUME NEW b, b \in Seq(Range(b)), b # <<>>, NEW place
  PROVE  LET p == Placed(b, place)
         IN  /\ p \in Seq(Range(p)) /\ Len(p) = Len(b)
             /\ \A j \in 1..Len(b) : p[j] = IF j = Len(b) THEN SentTo(b[j], place) ELSE b[j]
<1> DEFINE p == Placed(b, place)
<1>1. Len(b) \in Nat /\ DOMAIN b = 1..Len(b)
  BY SeqDomain
<1>2. p = [j \in 1..Len(b) |-> IF j = Len(b) THEN SentTo(b[j], place) ELSE b[j]]
  BY <1>1 DEF Placed
<1>3. p = [j \in 1..Len(b) |-> p[j]]
  BY <1>2
<1>4. \A j \in 1..Len(b) : p[j] = IF j = Len(b) THEN SentTo(b[j], place) ELSE b[j]
  BY <1>2
<1> HIDE DEF p
<1> QED BY <1>1, <1>3, <1>4, IsSequence DEF p

\* Spliced, operation by operation.
LEMMA SplicedOps ==
  ASSUME NEW S, NEW a \in Seq(S), NEW p \in Seq(S), NEW k \in 1..Len(a)
  PROVE  LET c == Spliced(a, k, p)
         IN  /\ c \in Seq(Range(c)) /\ Len(c) = Len(a) + Len(p) - 1
             /\ \A j \in 1..(Len(a) + Len(p) - 1) :
                  c[j] = IF j < k THEN a[j]
                         ELSE IF j < k + Len(p) THEN p[j - k + 1]
                         ELSE a[j - Len(p) + 1]
<1> DEFINE c == Spliced(a, k, p)
           L == SubSeq(a, 1, k - 1)
           M == SubSeq(a, k + 1, Len(a))
           Q == L \o p
<1>1. /\ Len(a) \in Nat /\ DOMAIN a = 1..Len(a) /\ Len(p) \in Nat /\ DOMAIN p = 1..Len(p)
      /\ k \in Nat \ {0} /\ k <= Len(a)
  OBVIOUS
<1>2. /\ a \in Seq(S) /\ p \in Seq(S)
  OBVIOUS
<1>0. k < Len(a) \/ k = Len(a)
  OBVIOUS
<1>3. c = Q \o M
  BY DEF Spliced
<1> HIDE DEF c
<1>4. /\ L \in Seq(S) /\ Len(L) = k - 1
      /\ \A j \in 1..(k - 1) : L[j] = a[j]
  BY <1>1, <1>2
<1>5. /\ M \in Seq(S) /\ Len(M) = Len(a) - k
      /\ \A j \in 1..(Len(a) - k) : M[j] = a[j + k]
  <2>1. \A i \in (k + 1)..Len(a) : a[i] \in S
    BY <1>1, <1>2
  <2>2. /\ M \in Seq(S) /\ Len(M) = IF k + 1 <= Len(a) THEN Len(a) - (k + 1) + 1 ELSE 0
        /\ \A j \in 1..(Len(a) - (k + 1) + 1) : M[j] = a[k + 1 + j - 1]
    BY <1>1, <2>1, SubSeqProperties
  <2> HIDE DEF M
  <2>3. \A j \in 1..(Len(a) - k) : j \in 1..(Len(a) - (k + 1) + 1) /\ k + 1 + j - 1 = j + k
    BY <1>1
  <2>4. \A j \in 1..(Len(a) - k) : M[j] = a[j + k]
    BY <2>2, <2>3
  <2>5. Len(M) = Len(a) - k
    <3>1. CASE k < Len(a)
      <4>1. Len(M) = Len(a) - (k + 1) + 1
        <5>1. k + 1 <= Len(a)
          BY <1>1, <3>1
        <5> QED BY <2>2, <5>1
      <4> QED BY <1>1, <4>1
    <3>2. CASE k = Len(a)
      <4>1. Len(M) = 0
        BY <1>1, <2>2, <3>2
      <4> QED BY <1>1, <3>2, <4>1
    <3> QED BY <1>0, <3>1, <3>2
  <2> QED BY <2>2, <2>4, <2>5
<1> HIDE DEF L, M
<1>6. /\ Q \in Seq(S) /\ Len(Q) = k - 1 + Len(p)
      /\ \A j \in 1..(k - 1 + Len(p)) : Q[j] = IF j < k THEN L[j] ELSE p[j - k + 1]
  <2>1. /\ Q \in Seq(S) /\ Len(Q) = Len(L) + Len(p)
        /\ \A j \in 1..(Len(L) + Len(p)) : Q[j] = IF j <= Len(L) THEN L[j] ELSE p[j - Len(L)]
    BY <1>2, <1>4, ConcatProperties
  <2> HIDE DEF Q
  <2>2. \A j \in Int : (j <= k - 1 <=> j < k) /\ j - (k - 1) = j - k + 1
    BY <1>1
  <2>3. ASSUME NEW j \in 1..(k - 1 + Len(p)) PROVE Q[j] = IF j < k THEN L[j] ELSE p[j - k + 1]
    BY <1>4, <2>1, <2>2
  <2> QED BY <1>4, <2>1, <2>3
<1> HIDE DEF Q
<1>7. /\ c \in Seq(S) /\ Len(c) = Len(a) + Len(p) - 1
      /\ \A j \in 1..(Len(a) + Len(p) - 1) :
           c[j] = IF j < k + Len(p) THEN Q[j] ELSE M[j - Len(p) - k + 1]
  <2>1. /\ c \in Seq(S) /\ Len(c) = Len(Q) + Len(M)
        /\ \A j \in 1..(Len(Q) + Len(M)) : c[j] = IF j <= Len(Q) THEN Q[j] ELSE M[j - Len(Q)]
    <3>1. Q \in Seq(S) /\ M \in Seq(S)
      BY <1>5, <1>6
    <3>2. /\ Q \o M \in Seq(S) /\ Len(Q \o M) = Len(Q) + Len(M)
          /\ \A j \in 1..(Len(Q) + Len(M)) : (Q \o M)[j] = IF j <= Len(Q) THEN Q[j] ELSE M[j - Len(Q)]
      BY <3>1, ConcatProperties
    <3> QED BY <1>3, <3>2
  <2>2. Len(Q) = k - 1 + Len(p) /\ Len(Q) + Len(M) = Len(a) + Len(p) - 1
    BY <1>1, <1>5, <1>6
  <2>3. \A j \in Int : (j <= k - 1 + Len(p) <=> j < k + Len(p))
                       /\ j - (k - 1 + Len(p)) = j - Len(p) - k + 1
    BY <1>1
  <2>4. ASSUME NEW j \in 1..(Len(a) + Len(p) - 1)
        PROVE  c[j] = IF j < k + Len(p) THEN Q[j] ELSE M[j - Len(p) - k + 1]
    <3>1. c[j] = IF j <= Len(Q) THEN Q[j] ELSE M[j - Len(Q)]
      BY <2>1, <2>2
    <3>2. c[j] = IF j <= k - 1 + Len(p) THEN Q[j] ELSE M[j - (k - 1 + Len(p))]
      BY <2>2, <3>1
    <3>3. j \in Int
      BY <1>1
    <3> QED BY <2>3, <3>2, <3>3
  <2> QED BY <2>1, <2>2, <2>4
<1>8. c \in Seq(Range(c))
  <2>1. c = [j \in 1..Len(c) |-> c[j]] /\ Len(c) \in Nat
    BY <1>7
  <2> QED BY <2>1, IsSequence
<1>9. ASSUME NEW j \in 1..(Len(a) + Len(p) - 1)
      PROVE  c[j] = IF j < k THEN a[j]
                    ELSE IF j < k + Len(p) THEN p[j - k + 1]
                    ELSE a[j - Len(p) + 1]
  <2>1. CASE j < k
    <3>1. j \in 1..(k - 1) /\ j \in 1..(k - 1 + Len(p)) /\ j < k + Len(p)
      BY <1>1, <2>1
    <3>2. c[j] = Q[j] /\ Q[j] = L[j] /\ L[j] = a[j]
      BY <1>4, <1>6, <1>7, <2>1, <3>1
    <3> QED BY <2>1, <3>2
  <2>2. CASE j >= k /\ j < k + Len(p)
    BY <1>1, <1>6, <1>7, <2>2
  <2>3. CASE j >= k + Len(p)
    <3>1. j - Len(p) - k + 1 \in 1..(Len(a) - k) /\ j - Len(p) - k + 1 + k = j - Len(p) + 1
      BY <1>1, <2>3
    <3>2. c[j] = M[j - Len(p) - k + 1]
      BY <1>1, <1>7, <2>3
    <3> QED BY <1>1, <1>5, <2>3, <3>1, <3>2
  <2> QED BY <1>1, <2>1, <2>2, <2>3
<1> QED BY <1>7, <1>8, <1>9 DEF c

-----------------------------------------------------------------------------
(* Programs *)

\* The statements of a program.
LEMMA SourceLines ==
  ASSUME prog \in Programs
  PROVE  /\ prog.stmts \in Seq(Range(prog.stmts))
         /\ Len(prog.stmts) \in Nat /\ DOMAIN prog.stmts = 1..Len(prog.stmts)
         /\ \A i \in DOMAIN prog.stmts : IsStmt(prog.stmts[i]) /\ prog.stmts[i].line = i
<1>1. IsProgram(prog)
  BY PlanAssumption
<1>2. /\ prog.stmts \in Seq(Range(prog.stmts))
      /\ \A i \in DOMAIN prog.stmts : IsStmt(prog.stmts[i]) /\ prog.stmts[i].line = i
  BY <1>1 DEF IsProgram
<1> QED BY <1>2, SeqDomain

\* No two operations of a program share an identity or a place.
LEMMA SameOp ==
  ASSUME prog \in Programs,
         NEW i \in DOMAIN prog.stmts, NEW q \in Range(prog.stmts[i].code),
         NEW m \in DOMAIN prog.stmts, NEW o \in Range(prog.stmts[m].code),
         q.id = o.id \/ q.at = o.at
  PROVE  i = m /\ q = o
<1>1. PICK j \in DOMAIN prog.stmts[i].code : q = prog.stmts[i].code[j]
  BY DEF Range
<1>2. PICK n \in DOMAIN prog.stmts[m].code : o = prog.stmts[m].code[n]
  BY DEF Range
<1>3. i = m /\ j = n
  <2>1. IsProgram(prog)
    BY PlanAssumption
  <2> QED BY <1>1, <1>2, <2>1 DEF IsProgram
<1> QED BY <1>1, <1>2, <1>3

\* The code of a statement, with the operands of every operation in it.
LEMMA StmtCode ==
  ASSUME NEW s, IsStmt(s)
  PROVE  /\ s.code \in Seq(Range(s.code))
         /\ Len(s.code) \in Nat /\ DOMAIN s.code = 1..Len(s.code)
         /\ \A o \in Range(s.code) : IsOp(o)
         /\ \A o \in Range(s.code) : \A place \in Range(o.sub) : \E q \in Range(s.code) : q.at = place
         /\ s.code # <<>> => Root(s) \in Range(s.code)
         /\ s.kind \in Kept => s.code # <<>>
<1>1. /\ s.code \in Seq(Range(s.code))
      /\ Len(s.code) \in Nat /\ DOMAIN s.code = 1..Len(s.code)
  BY SeqDomain DEF IsStmt
<1>2. \A o \in Range(s.code) : IsOp(o)
  BY DEF IsStmt, Range
<1>3. ASSUME NEW o \in Range(s.code), NEW place \in Range(o.sub)
      PROVE  \E q \in Range(s.code) : q.at = place
  <2>1. PICK j \in DOMAIN s.code : o = s.code[j]
    BY DEF Range
  <2>2. PICK n \in 1..(j - 1) : s.code[n].at = place
    BY <2>1 DEF IsStmt
  <2>3. n \in DOMAIN s.code
    BY <1>1, <2>1, <2>2
  <2> QED BY <2>2, <2>3 DEF Range
<1>4. ASSUME s.code # <<>> PROVE Root(s) \in Range(s.code)
  <2>1. Len(s.code) \in DOMAIN s.code
    BY <1>1, <1>4
  <2> QED BY <2>1 DEF Root, Range
<1>5. s.kind \in Kept => s.code # <<>>
  BY DEF IsStmt, Kept
<1> QED BY <1>1, <1>2, <1>3, <1>4, <1>5

\* The last operation of a call statement is its call, which reads no name.
LEMMA CallRoot ==
  ASSUME prog \in Programs, NEW n \in DOMAIN prog.stmts, prog.stmts[n].kind = "call"
  PROVE  LET q == Root(prog.stmts[n])
         IN  q \in Range(prog.stmts[n].code) /\ IsOp(q) /\ q.kind = "call" /\ q.slot = None
<1>1. IsStmt(prog.stmts[n])
  BY SourceLines
<1>2. Root(prog.stmts[n]) \in Range(prog.stmts[n].code) /\ IsOp(Root(prog.stmts[n]))
  BY <1>1, StmtCode DEF Kept
<1>3. Root(prog.stmts[n]).kind = "call"
  BY <1>1 DEF IsStmt
<1> QED BY <1>2, <1>3 DEF IsOp, Naming

\* Sent elsewhere, an operation keeps everything but its place.
LEMMA SentToFields ==
  ASSUME NEW o, IsOp(o), NEW place
  PROVE  LET u == SentTo(o, place)
         IN  /\ u.id = o.id /\ u.at = place /\ u.kind = o.kind /\ u.slot = o.slot
             /\ u.sub = o.sub /\ u.within = o.within
BY DEF IsOp, SentTo

\* An operation of the plan is one of the source, but for where it sends its value.
LEMMA FromLineOp ==
  ASSUME prog \in Programs, NEW n \in DOMAIN prog.stmts, NEW o, FromLine(o, n)
  PROVE  \E q \in Range(prog.stmts[n].code) :
           /\ IsOp(q) /\ o.id = q.id /\ o.kind = q.kind /\ o.slot = q.slot /\ o.sub = q.sub
           /\ o = q \/ (MovedFrom(o, n) /\ q = Root(prog.stmts[n]) /\ q.kind = "call" /\ q.slot = None)
<1>1. CASE o \in Range(prog.stmts[n].code)
  BY <1>1, SourceLines, StmtCode
<1>2. CASE MovedFrom(o, n)
  <2>1. prog.stmts[n].kind = "call" /\ \E place : o = SentTo(Root(prog.stmts[n]), place)
    BY <1>2 DEF MovedFrom
  <2> QED BY <1>2, <2>1, CallRoot, SentToFields
<1> QED BY <1>1, <1>2 DEF FromLine

-----------------------------------------------------------------------------
(* The last write of a name *)

\* LastWrite, once the last of the writers is known,
LEMMA LastWriteIs ==
  ASSUME NEW ss, ss \in Seq(Range(ss)), NEW i \in Nat, NEW slot,
         NEW m \in Writers(ss, i, slot), \A n \in Writers(ss, i, slot) : n <= m
  PROVE  LastWrite(ss, i, slot) = Root(ss[m]).id
<1> DEFINE W == Writers(ss, i, slot)
           c == CHOOSE n \in W : \A l \in W : l <= n
<1>1. c \in W /\ \A l \in W : l <= c
  OBVIOUS
<1>2. W \subseteq Nat
  BY SeqDomain DEF Writers
<1> HIDE DEF c
<1>3. c = m
  BY <1>1, <1>2
<1> QED BY <1>3 DEF LastWrite, c

\* which there is whenever there are writers;
LEMMA LastWriterExists ==
  ASSUME NEW ss, ss \in Seq(Range(ss)), NEW i \in Nat, NEW slot, Writers(ss, i, slot) # {}
  PROVE  \E m \in Writers(ss, i, slot) : \A n \in Writers(ss, i, slot) : n <= m
<1>1. Len(ss) \in Nat /\ Writers(ss, i, slot) \subseteq 1..Len(ss)
  BY SeqDomain DEF Writers
<1> QED BY <1>1, LastExists

\* and without one.
LEMMA NeverWritten ==
  ASSUME NEW ss, NEW i, NEW slot, Writers(ss, i, slot) = {}
  PROVE  LastWrite(ss, i, slot) = None
BY DEF LastWrite

\* The line a statement was on before the one at index went.
OldLine(i) == IF i < index THEN i ELSE i + 1

\* Texts whose writers correspond agree on the last write.
LEMMA SameLastWrite ==
  ASSUME NEW ss, ss \in Seq(Range(ss)), NEW i \in Nat,
         NEW tt, tt \in Seq(Range(tt)), NEW j \in Nat, NEW slot, index \in Nat,
         \A m \in Writers(tt, j, slot) :
            OldLine(m) \in Writers(ss, i, slot) /\ Root(ss[OldLine(m)]).id = Root(tt[m]).id,
         \A n \in Writers(ss, i, slot) : \E m \in Writers(tt, j, slot) : OldLine(m) = n
  PROVE  LastWrite(tt, j, slot) = LastWrite(ss, i, slot)
<1>1. CASE Writers(tt, j, slot) = {}
  BY <1>1, NeverWritten
<1>2. CASE Writers(tt, j, slot) # {}
  <2>1. PICK m \in Writers(tt, j, slot) : \A n \in Writers(tt, j, slot) : n <= m
    BY <1>2, LastWriterExists
  <2>2. LastWrite(tt, j, slot) = Root(tt[m]).id
    BY <2>1, LastWriteIs
  <2>3. \A n \in Writers(ss, i, slot) : n <= OldLine(m)
    <3>1. Writers(tt, j, slot) \subseteq Nat
      BY SeqDomain DEF Writers
    <3> QED BY <2>1, <3>1 DEF OldLine
  <2>4. LastWrite(ss, i, slot) = Root(ss[OldLine(m)]).id
    BY <2>3, LastWriteIs
  <2> QED BY <2>2, <2>4
<1> QED BY <1>1, <1>2

-----------------------------------------------------------------------------
(* A splice *)

Looping == phase = "splice" /\ BInv
Spliceable(k) == Looping /\ Splicing /\ k \in Target

\* The plan in the second loop, by its numbers.
LEMMA LoopText ==
  ASSUME Looping
  PROVE  /\ prog \in Programs /\ index \in Nat \ {0} /\ stmts \in Seq(Range(stmts))
         /\ Shape /\ Fresh /\ Unique /\ NothingLost /\ Returned
         /\ Len(stmts) \in Nat /\ DOMAIN stmts = 1..Len(stmts)
         /\ \A j \in DOMAIN stmts :
              /\ Len(stmts[j].code) \in Nat \ {0} /\ DOMAIN stmts[j].code = 1..Len(stmts[j].code)
              /\ stmts[j].code \in Seq(Range(stmts[j].code))
<1>1. /\ prog \in Programs /\ index \in Nat \ {0} /\ stmts \in Seq(Range(stmts))
      /\ Shape /\ Fresh /\ Unique /\ NothingLost /\ Returned
  BY DEF Looping, BInv, PlanTypes
<1>2. Len(stmts) \in Nat /\ DOMAIN stmts = 1..Len(stmts)
  BY <1>1, SeqDomain
<1>3. ASSUME NEW j \in DOMAIN stmts
      PROVE  /\ Len(stmts[j].code) \in Nat \ {0} /\ DOMAIN stmts[j].code = 1..Len(stmts[j].code)
             /\ stmts[j].code \in Seq(Range(stmts[j].code))
  <2> DEFINE c == stmts[j].code
  <2>1. c \in Seq(Range(c)) /\ c # <<>>
    BY <1>1 DEF Shape, StmtShape
  <2> HIDE DEF c
  <2>2. Len(c) \in Nat \ {0} /\ DOMAIN c = 1..Len(c)
    BY <2>1, SeqDomain
  <2> QED BY <2>1, <2>2 DEF c
<1> QED BY <1>1, <1>2, <1>3

\* What the planner has seen of a producer and its reader.
LEMMA SpliceSites ==
  ASSUME NEW k, Spliceable(k)
  PROVE  /\ index \in DOMAIN stmts /\ index + 1 \in DOMAIN stmts
         /\ Producer.kind = "call" /\ Producer.out # None /\ Reader.kind = "call"
         /\ Producer.line \in DOMAIN prog.stmts /\ Reader.line \in DOMAIN prog.stmts
         /\ Reader.line = Producer.line + 1
         /\ Reader = prog.stmts[Reader.line]
         /\ prog.stmts[Producer.line].kind = "call" /\ prog.stmts[Producer.line].out = Producer.out
         /\ Root(Producer) = Root(prog.stmts[Producer.line])
         /\ k \in DOMAIN Reader.code /\ Reachable(Reader.code, k, Producer.out)
         /\ \E r : Readers(Producer.out) = {r}
<1>1. index \in DOMAIN stmts /\ index + 1 \in DOMAIN stmts
  BY LoopText DEF Spliceable, Splicing
<1>2. /\ Producer.kind = "call" /\ Producer.out # None /\ Reader.kind = "call"
      /\ k \in FindSplice(Reader.code, Producer.out)
      /\ \E r : Readers(Producer.out) = {r}
  BY DEF Spliceable, Target
<1>3. StmtShape(index) /\ StmtShape(index + 1)
  BY <1>1, LoopText DEF Spliceable, Shape
<1>4. Reader = prog.stmts[Reader.line] /\ Reader.line = Producer.line + 1
  <2>1. index + 1 > index /\ index + 1 - 1 = index
    BY LoopText DEF Spliceable
  <2> QED BY <1>1, <2>1, LoopText DEF Spliceable, Fresh, Reader, Producer
<1>5. /\ Producer.line \in DOMAIN prog.stmts /\ Reader.line \in DOMAIN prog.stmts
      /\ prog.stmts[Producer.line].kind = "call" /\ prog.stmts[Producer.line].out = Producer.out
      /\ Root(Producer) = Root(prog.stmts[Producer.line])
  BY <1>2, <1>3 DEF StmtShape, Producer, Reader
<1> QED BY <1>1, <1>2, <1>4, <1>5 DEF FindSplice

\* The value is read in one place.
LEMMA OnlyReader ==
  ASSUME NEW k, Spliceable(k)
  PROVE  Readers(Producer.out) = {<<Reader.line, k>>} /\ retSlot # Producer.out
<1> DEFINE w == Producer.out
           i == Reader.line
<1>1. <<i, k>> \in Readers(w)
  <2>1. /\ prog.stmts[i].kind \in Kept /\ prog.stmts[i].code[k].slot = w
        /\ Counted(prog.stmts[i].code[k])
    BY SpliceSites DEF Reachable, Counted, Kept
  <2>2. i \in DOMAIN prog.stmts /\ k \in DOMAIN prog.stmts[i].code
    BY SpliceSites
  <2>3. <<i, k>> \in UNION {{n} \X DOMAIN prog.stmts[n].code : n \in DOMAIN prog.stmts}
    BY <2>2
  <2> QED BY <2>1, <2>3 DEF Readers
<1>2. Readers(w) = {<<i, k>>}
  <2>1. \E r : Readers(w) = {r}
    BY SpliceSites
  <2> QED BY <1>1, <2>1
<1>3. retSlot # w
  <2>1. SUFFICES ASSUME retSlot = w PROVE FALSE
    OBVIOUS
  <2>2. <<0, 0>> \in Readers(w)
    BY <2>1 DEF Readers
  <2>3. i # 0
    BY SpliceSites, SourceLines, LoopText DEF Spliceable
  <2> QED BY <1>2, <2>2, <2>3
<1> QED BY <1>2, <1>3

\* What the name holds when its reader runs is what the producer made.
LEMMA ReaderReads ==
  ASSUME NEW k, Spliceable(k)
  PROVE  LastWrite(prog.stmts, Reader.line, Producer.out) = Root(prog.stmts[Producer.line]).id
<1> DEFINE W == Writers(prog.stmts, Reader.line, Producer.out)
<1>1. /\ prog.stmts \in Seq(Range(prog.stmts)) /\ DOMAIN prog.stmts \subseteq Nat
      /\ Reader.line = Producer.line + 1 /\ Producer.line \in DOMAIN prog.stmts
  BY SpliceSites, SourceLines, LoopText DEF Spliceable
<1>2. Producer.line \in W
  BY <1>1, SpliceSites DEF Writers
<1>3. \A n \in W : n <= Producer.line
  BY <1>1 DEF Writers
<1>4. Reader.line \in Nat
  BY <1>1
<1> QED BY <1>1, <1>2, <1>3, <1>4, LastWriteIs

\* The plan after a splice, statement by statement,
LEMMA SplicedText ==
  ASSUME NEW k, Spliceable(k), SpliceAt(k)
  PROVE  /\ stmts' \in Seq(Range(stmts')) /\ Len(stmts') = Len(stmts) - 1
         /\ DOMAIN stmts' = 1..(Len(stmts) - 1)
         /\ \A j \in DOMAIN stmts' : j < index => stmts'[j] = stmts[j]
         /\ \A j \in DOMAIN stmts' : j > index => stmts'[j] = stmts[j + 1]
         /\ index \in DOMAIN stmts'
         /\ stmts'[index] = WithCode(Reader, Spliced(Reader.code, k, Placed(Producer.code, Reader.code[k].at)))
<1>1. Len(stmts) \in Nat /\ index \in Nat \ {0} /\ index + 1 \in 1..Len(stmts)
  BY LoopText, SpliceSites DEF Spliceable
<1>2. stmts' = [j \in 1..(Len(stmts) - 1) |-> stmts'[j]] /\ Len(stmts) - 1 \in Nat
  BY <1>1 DEF SpliceAt
<1>3. stmts' \in Seq(Range(stmts')) /\ Len(stmts') = Len(stmts) - 1 /\ DOMAIN stmts' = 1..(Len(stmts) - 1)
  BY <1>2, IsSequence
<1>4. index \in 1..(Len(stmts) - 1)
  BY <1>1
<1> QED BY <1>1, <1>3, <1>4 DEF SpliceAt

\* and the statement that took the producer, operation by operation.
LEMMA SplicedReader ==
  ASSUME NEW k, Spliceable(k), SpliceAt(k)
  PROVE  LET s == stmts'[index] c == s.code a == Reader.code b == Producer.code
         IN  /\ s = [kind |-> Reader.kind, out |-> Reader.out, code |-> c, line |-> Reader.line]
             /\ c \in Seq(Range(c)) /\ Len(c) = Len(a) + Len(b) - 1
             /\ DOMAIN c = 1..(Len(a) + Len(b) - 1)
             /\ \A j \in DOMAIN c :
                  c[j] = IF j < k THEN a[j]
                         ELSE IF j < k + Len(b) - 1 THEN b[j - k + 1]
                         ELSE IF j = k + Len(b) - 1 THEN SentTo(b[Len(b)], a[k].at)
                         ELSE a[j - Len(b) + 1]
             /\ k < Len(a) /\ Root(s) = Root(Reader)
<1> DEFINE s == stmts'[index]
           a == Reader.code
           b == Producer.code
           p == Placed(b, a[k].at)
           d == Spliced(a, k, p)
           S == Range(a) \cup Range(p)
<1>1. /\ Len(a) \in Nat \ {0} /\ DOMAIN a = 1..Len(a) /\ a \in Seq(Range(a))
      /\ Len(b) \in Nat \ {0} /\ DOMAIN b = 1..Len(b) /\ b \in Seq(Range(b))
      /\ k \in DOMAIN a
  BY LoopText, SpliceSites DEF Spliceable, Reader, Producer
<1>2. /\ s = WithCode(Reader, d)
      /\ Reader = [kind |-> Reader.kind, out |-> Reader.out, code |-> Reader.code, line |-> Reader.line]
  <2>1. StmtShape(index + 1)
    BY LoopText, SpliceSites DEF Spliceable, Shape
  <2> QED BY <2>1, SplicedText DEF StmtShape, Reader
<1>3. s = [kind |-> Reader.kind, out |-> Reader.out, code |-> d, line |-> Reader.line]
  BY <1>2 DEF WithCode
<1> HIDE DEF a, b, s
<1>4. /\ p \in Seq(Range(p)) /\ Len(p) = Len(b)
      /\ \A j \in 1..Len(b) : p[j] = IF j = Len(b) THEN SentTo(b[j], a[k].at) ELSE b[j]
  <2>1. b # <<>>
    BY <1>1
  <2> QED BY <1>1, <2>1, PlacedOps
<1> HIDE DEF p
<1>5. a \in Seq(S) /\ p \in Seq(S)
  <2>1. Range(a) \subseteq S /\ Range(p) \subseteq S
    OBVIOUS
  <2> HIDE DEF S
  <2> QED BY <1>1, <1>4, <2>1, SeqMonotonic
<1> HIDE DEF S
<1>6. /\ d \in Seq(Range(d)) /\ Len(d) = Len(a) + Len(p) - 1
      /\ \A j \in 1..(Len(a) + Len(p) - 1) :
           d[j] = IF j < k THEN a[j]
                  ELSE IF j < k + Len(p) THEN p[j - k + 1]
                  ELSE a[j - Len(p) + 1]
  <2>1. PICK A, P, T : A = a /\ P = p /\ T = S
    OBVIOUS
  <2>2. A \in Seq(T) /\ P \in Seq(T) /\ k \in 1..Len(A)
    BY <1>1, <1>5, <2>1
  <2>3. LET c == Spliced(A, k, P)
        IN  /\ c \in Seq(Range(c)) /\ Len(c) = Len(A) + Len(P) - 1
            /\ \A j \in 1..(Len(A) + Len(P) - 1) :
                 c[j] = IF j < k THEN A[j]
                        ELSE IF j < k + Len(P) THEN P[j - k + 1]
                        ELSE A[j - Len(P) + 1]
    BY ONLY <2>2, SplicedOps
  <2> QED BY <2>1, <2>3
<1> HIDE DEF d
<1>7. DOMAIN d = 1..(Len(a) + Len(b) - 1)
  BY <1>4, <1>6, SeqDomain
<1>8. ASSUME NEW j \in 1..(Len(a) + Len(b) - 1)
      PROVE  d[j] = IF j < k THEN a[j]
                    ELSE IF j < k + Len(b) - 1 THEN b[j - k + 1]
                    ELSE IF j = k + Len(b) - 1 THEN SentTo(b[Len(b)], a[k].at)
                    ELSE a[j - Len(b) + 1]
  <2>1. CASE j < k
    BY <1>4, <1>6, <2>1
  <2>2. CASE ~ (j < k) /\ j < k + Len(b)
    <3>1. /\ j - k + 1 \in 1..Len(b)
          /\ (j - k + 1 = Len(b) <=> j = k + Len(b) - 1)
          /\ (j < k + Len(b) - 1 <=> j # k + Len(b) - 1)
      BY <1>1, <2>2
    <3>2. d[j] = p[j - k + 1]
      BY <1>4, <1>6, <2>2
    <3>3. d[j] = IF j - k + 1 = Len(b) THEN SentTo(b[j - k + 1], a[k].at) ELSE b[j - k + 1]
      BY <1>4, <3>1, <3>2
    <3>4. CASE j = k + Len(b) - 1
      BY <2>2, <3>1, <3>3, <3>4
    <3>5. CASE j # k + Len(b) - 1
      BY <2>2, <3>1, <3>3, <3>5
    <3> QED BY <3>4, <3>5
  <2>3. CASE ~ (j < k) /\ ~ (j < k + Len(b))
    <3>1. ~ (j < k + Len(b) - 1) /\ j # k + Len(b) - 1
      BY <1>1, <2>3
    <3>2. d[j] = a[j - Len(b) + 1]
      BY <1>4, <1>6, <2>3
    <3> QED BY <2>3, <3>1, <3>2
  <2> QED BY <2>1, <2>2, <2>3
<1>9. k < Len(a)
  <2>1. a[k].kind = "slot" /\ a[Len(a)].kind = "call"
    <3>1. a[k].kind = "slot" /\ Reader.kind = "call" /\ Reader = prog.stmts[Reader.line]
          /\ Reader.line \in DOMAIN prog.stmts
      BY SpliceSites DEF Reachable, a
    <3>2. Root(Reader).kind = "call"
      BY <3>1, CallRoot, LoopText DEF Spliceable
    <3> QED BY <3>1, <3>2 DEF Root, a
  <2>2. k # Len(a)
    BY <2>1
  <2> QED BY <1>1, <2>2
<1>10. Root(s) = Root(Reader)
  <2> DEFINE n == Len(a) + Len(b) - 1
  <2>1. n \in 1..(Len(a) + Len(b) - 1) /\ ~ (n < k) /\ ~ (n < k + Len(b) - 1) /\ n # k + Len(b) - 1
        /\ n - Len(b) + 1 = Len(a)
    BY <1>1, <1>9
  <2>2. d[n] = a[n - Len(b) + 1]
    BY <1>8, <2>1
  <2>3. d[n] = a[Len(a)] /\ Len(d) = n
    BY <1>4, <1>6, <2>1, <2>2
  <2>4. s.code = d
    BY <1>3
  <2> HIDE DEF n
  <2> QED BY <2>3, <2>4 DEF Root, a
<1>11. s.code = d
  BY <1>3
<1> QED BY <1>3, <1>6, <1>4, <1>7, <1>8, <1>9, <1>10, <1>11 DEF s, a, b

-----------------------------------------------------------------------------
(* Positions before and after a splice *)

\* A position, taken apart and put together.
LEMMA InPos ==
  ASSUME NEW ss, NEW i, NEW j
  PROVE  <<i, j>> \in Pos(ss) <=> i \in DOMAIN ss /\ j \in DOMAIN ss[i].code
BY DEF Pos

\* Every position is such a pair.
LEMMA PosPair ==
  ASSUME NEW ss, NEW r \in Pos(ss)
  PROVE  \E i \in DOMAIN ss : \E j \in DOMAIN ss[i].code : r = <<i, j>>
BY DEF Pos

ProducerLen == Len(Producer.code)
ReaderLen == Len(Reader.code)

\* Where operation j of statement i was, when b operations of statement p have
\* come in place of operation k of the statement behind it.
Back(i, j, p, k, b) ==
  IF i < p THEN <<i, j>>
  ELSE IF i > p THEN <<i + 1, j>>
  ELSE IF j < k THEN <<p + 1, j>>
  ELSE IF j < k + b THEN <<p, j - k + 1>>
  ELSE <<p + 1, j - b + 1>>

OldPos(r, k) == Back(r[1], r[2], index, k, ProducerLen)

\* Going back keeps the order of positions that are not in front of the splice.
LEMMA BackOrder ==
  ASSUME NEW p \in Nat, NEW k \in Nat \ {0}, NEW b \in Nat \ {0},
         NEW i \in Nat, NEW j \in Nat \ {0}, NEW l \in Nat, NEW m \in Nat \ {0},
         ~ (i = p /\ j < k), ~ (l = p /\ m < k)
  PROVE  Lt(<<i, j>>, <<l, m>>) <=> Lt(Back(i, j, p, k, b), Back(l, m, p, k, b))
<1>1. CASE i # p /\ l # p
  BY <1>1 DEF Back, Lt
<1>2. CASE i = p /\ l # p
  BY <1>2 DEF Back, Lt
<1>3. CASE i # p /\ l = p
  BY <1>3 DEF Back, Lt
<1>4. CASE i = p /\ l = p
  <2>1. CASE j < k + b /\ m < k + b
    BY <1>4, <2>1 DEF Back, Lt
  <2>2. CASE j < k + b /\ ~ (m < k + b)
    BY <1>4, <2>2 DEF Back, Lt
  <2>3. CASE ~ (j < k + b) /\ m < k + b
    BY <1>4, <2>3 DEF Back, Lt
  <2>4. CASE ~ (j < k + b) /\ ~ (m < k + b)
    BY <1>4, <2>4 DEF Back, Lt
  <2> QED BY <2>1, <2>2, <2>3, <2>4
<1> QED BY <1>1, <1>2, <1>3, <1>4

\* Where it is then.
Forward(q, p, k, b) ==
  IF q[1] < p THEN q
  ELSE IF q[1] > p + 1 THEN <<q[1] - 1, q[2]>>
  ELSE IF q[1] = p THEN <<p, q[2] + k - 1>>
  ELSE IF q[2] < k THEN <<p, q[2]>>
  ELSE <<p, q[2] + b - 1>>

\* Forward undoes Back.
LEMMA ForwardBack ==
  ASSUME NEW p \in Nat, NEW k \in Nat \ {0}, NEW b \in Nat \ {0}, NEW i \in Nat, NEW j \in Nat \ {0}
  PROVE  Forward(Back(i, j, p, k, b), p, k, b) = <<i, j>>
<1>1. CASE i # p
  BY <1>1 DEF Back, Forward
<1>2. CASE i = p /\ j < k
  BY <1>2 DEF Back, Forward
<1>3. CASE i = p /\ ~ (j < k) /\ j < k + b
  BY <1>3 DEF Back, Forward
<1>4. CASE i = p /\ ~ (j < k + b)
  BY <1>4 DEF Back, Forward
<1> QED BY <1>1, <1>2, <1>3, <1>4

\* The numbers of a splice.
LEMMA PosNumbers ==
  ASSUME NEW k, Spliceable(k), SpliceAt(k)
  PROVE  /\ ReaderLen \in Nat /\ ProducerLen \in Nat \ {0} /\ Len(stmts) \in Nat
         /\ index \in Nat \ {0} /\ index < Len(stmts)
         /\ k \in Nat \ {0} /\ k < ReaderLen
         /\ DOMAIN stmts = 1..Len(stmts) /\ DOMAIN stmts' = 1..(Len(stmts) - 1)
         /\ DOMAIN stmts[index].code = 1..ProducerLen /\ DOMAIN stmts[index + 1].code = 1..ReaderLen
         /\ DOMAIN stmts'[index].code = 1..(ReaderLen + ProducerLen - 1)
<1>1. /\ Len(stmts) \in Nat /\ DOMAIN stmts = 1..Len(stmts)
      /\ index \in Nat \ {0} /\ index \in DOMAIN stmts /\ index + 1 \in DOMAIN stmts
  BY LoopText, SpliceSites DEF Spliceable
<1>2. /\ ReaderLen \in Nat /\ ProducerLen \in Nat \ {0}
      /\ DOMAIN stmts[index].code = 1..ProducerLen /\ DOMAIN stmts[index + 1].code = 1..ReaderLen
  BY <1>1, LoopText DEF Spliceable, Reader, Producer, ReaderLen, ProducerLen
<1>3. k \in Nat \ {0}
  <2>1. k \in DOMAIN stmts[index + 1].code
    BY SpliceSites DEF Reader
  <2> QED BY <1>2, <2>1
<1>4. k < ReaderLen
  BY SplicedReader DEF ReaderLen
<1>5. DOMAIN stmts' = 1..(Len(stmts) - 1)
  BY SplicedText
<1>6. DOMAIN stmts'[index].code = 1..(ReaderLen + ProducerLen - 1)
  BY SplicedReader DEF ReaderLen, ProducerLen
<1>7. index < Len(stmts)
  BY <1>1
<1> QED BY <1>1, <1>2, <1>3, <1>4, <1>5, <1>6, <1>7

\* A statement beside the splice is one of the old plan.
LEMMA PosAround ==
  ASSUME NEW k, Spliceable(k), SpliceAt(k), NEW i \in DOMAIN stmts', i # index
  PROVE  LET l == IF i < index THEN i ELSE i + 1
         IN  /\ l \in DOMAIN stmts /\ l # index /\ l # index + 1 /\ stmts'[i] = stmts[l]
             /\ DOMAIN stmts[l].code \subseteq Nat \ {0}
<1>1. /\ Len(stmts) \in Nat /\ index \in Nat \ {0} /\ index < Len(stmts)
      /\ DOMAIN stmts = 1..Len(stmts) /\ i \in 1..(Len(stmts) - 1)
  BY PosNumbers
<1>2. CASE i < index
  <2>1. i \in DOMAIN stmts /\ i # index + 1
    BY <1>1, <1>2
  <2>2. stmts'[i] = stmts[i]
    BY <1>2, SplicedText
  <2> QED BY <1>2, <2>1, <2>2, LoopText DEF Spliceable
<1>3. CASE ~ (i < index)
  <2>1. i + 1 \in DOMAIN stmts /\ i + 1 # index + 1 /\ i + 1 # index /\ i > index
    BY <1>1, <1>3
  <2>2. stmts'[i] = stmts[i + 1]
    BY <2>1, SplicedText
  <2> QED BY <1>3, <2>1, <2>2, LoopText DEF Spliceable
<1> QED BY <1>2, <1>3

\* A position of the new plan is a pair of numbers.
LEMMA PosNatural ==
  ASSUME NEW k, Spliceable(k), SpliceAt(k), NEW r \in Pos(stmts')
  PROVE  \E i \in DOMAIN stmts' : \E j \in DOMAIN stmts'[i].code :
            r = <<i, j>> /\ i \in Nat \ {0} /\ j \in Nat \ {0}
<1>1. PICK i, j : i \in DOMAIN stmts' /\ j \in DOMAIN stmts'[i].code /\ r = <<i, j>>
  BY PosPair
<1>2. i \in Nat \ {0}
  BY <1>1, PosNumbers
<1>3. CASE i = index
  BY <1>1, <1>2, <1>3, PosNumbers
<1>4. CASE i # index
  <2>1. DOMAIN stmts'[i].code \subseteq Nat \ {0}
    BY <1>1, <1>4, PosAround
  <2> QED BY <1>1, <1>2, <2>1
<1> QED BY <1>3, <1>4

\* The operation at a position is the one at its old position; the read is gone.
LEMMA OldPosOp ==
  ASSUME NEW k, Spliceable(k), SpliceAt(k), NEW r \in Pos(stmts')
  PROVE  /\ OldPos(r, k) \in Pos(stmts) /\ OldPos(r, k) # <<index + 1, k>>
         /\ OpAt(stmts', r) = IF OldPos(r, k) = <<index, ProducerLen>>
                              THEN SentTo(Root(Producer), Reader.code[k].at)
                              ELSE OpAt(stmts, OldPos(r, k))
<1>1. PICK i, j : i \in DOMAIN stmts' /\ j \in DOMAIN stmts'[i].code /\ r = <<i, j>>
          /\ i \in Nat \ {0} /\ j \in Nat \ {0}
  BY PosNatural
<1> DEFINE q == Back(i, j, index, k, ProducerLen)
<1>2. OldPos(r, k) = q /\ OpAt(stmts', r) = stmts'[i].code[j]
  BY <1>1 DEF OldPos, OpAt
<1>3. /\ ReaderLen \in Nat /\ ProducerLen \in Nat \ {0} /\ index \in Nat \ {0} /\ k \in Nat \ {0} /\ k < ReaderLen
      /\ index \in DOMAIN stmts /\ index + 1 \in DOMAIN stmts
      /\ DOMAIN stmts[index].code = 1..ProducerLen /\ DOMAIN stmts[index + 1].code = 1..ReaderLen
      /\ DOMAIN stmts'[index].code = 1..(ReaderLen + ProducerLen - 1)
  BY PosNumbers, SpliceSites
<1>4. CASE i # index
  <2> DEFINE l == IF i < index THEN i ELSE i + 1
  <2>1. l \in DOMAIN stmts /\ l # index /\ l # index + 1 /\ stmts'[i] = stmts[l]
    BY <1>1, <1>4, PosAround
  <2>2. q = <<l, j>>
    BY <1>1, <1>3, <1>4 DEF Back
  <2> HIDE DEF l, q
  <2>3. q \in Pos(stmts) /\ q # <<index, ProducerLen>> /\ q # <<index + 1, k>>
    BY <1>1, <2>1, <2>2, InPos
  <2>4. OpAt(stmts, q) = stmts'[i].code[j]
    BY <2>1, <2>2 DEF OpAt
  <2> QED BY <1>2, <2>3, <2>4
<1>5. CASE i = index
  <2>1. j \in 1..(ReaderLen + ProducerLen - 1)
    BY <1>1, <1>3, <1>5
  <2>2. stmts'[i].code[j] =
          IF j < k THEN Reader.code[j]
          ELSE IF j < k + ProducerLen - 1 THEN Producer.code[j - k + 1]
          ELSE IF j = k + ProducerLen - 1 THEN SentTo(Producer.code[ProducerLen], Reader.code[k].at)
          ELSE Reader.code[j - ProducerLen + 1]
    BY <1>5, <2>1, SplicedReader DEF ReaderLen, ProducerLen
  <2>3. ~ (i < index) /\ ~ (i > index)
    BY <1>3, <1>5
  <2>4. CASE j < k
    <3>1. q = <<index + 1, j>> /\ j \in 1..ReaderLen
      BY <1>1, <1>3, <2>3, <2>4 DEF Back
    <3> HIDE DEF q
    <3>2. q \in Pos(stmts) /\ q # <<index, ProducerLen>> /\ q # <<index + 1, k>>
      BY <1>1, <1>3, <2>4, <3>1, InPos
    <3>3. OpAt(stmts, q) = stmts'[i].code[j]
      BY <2>2, <2>4, <3>1 DEF OpAt, Reader
    <3> QED BY <1>2, <3>2, <3>3
  <2>5. CASE ~ (j < k) /\ j < k + ProducerLen
    <3>1. q = <<index, j - k + 1>> /\ j - k + 1 \in 1..ProducerLen
      BY <1>1, <1>3, <2>3, <2>5 DEF Back
    <3> HIDE DEF q
    <3>2. q \in Pos(stmts) /\ q # <<index + 1, k>>
      <4>1. index # index + 1
        BY <1>3
      <4> QED BY <1>3, <3>1, <4>1, InPos
    <3>3. CASE j = k + ProducerLen - 1
      <4>1. q = <<index, ProducerLen>>
        BY <1>3, <3>1, <3>3
      <4>2. ~ (j < k + ProducerLen - 1)
        BY <1>3, <3>3
      <4>3. stmts'[i].code[j] = SentTo(Root(Producer), Reader.code[k].at)
        BY <2>2, <2>5, <3>3, <4>2 DEF Root, ProducerLen
      <4> QED BY <1>2, <3>2, <4>1, <4>3
    <3>4. CASE j # k + ProducerLen - 1
      <4>1. j - k + 1 # ProducerLen /\ j < k + ProducerLen - 1
        BY <1>1, <1>3, <2>5, <3>4
      <4>2. q # <<index, ProducerLen>>
        BY <3>1, <4>1
      <4>3. OpAt(stmts, q) = stmts'[i].code[j]
        BY <2>2, <2>5, <3>1, <4>1 DEF OpAt, Producer
      <4> QED BY <1>2, <3>2, <4>2, <4>3
    <3> QED BY <3>3, <3>4
  <2>6. CASE ~ (j < k) /\ ~ (j < k + ProducerLen)
    <3>1. q = <<index + 1, j - ProducerLen + 1>>
      BY <1>1, <1>3, <2>3, <2>6 DEF Back
    <3>2. j - ProducerLen + 1 \in 1..ReaderLen
      BY <1>1, <1>3, <2>1, <2>6
    <3>3. j - ProducerLen + 1 # k /\ ~ (j < k + ProducerLen - 1) /\ j # k + ProducerLen - 1 /\ index # index + 1
      BY <1>1, <1>3, <2>6
    <3> HIDE DEF q
    <3>4. q \in Pos(stmts) /\ q # <<index, ProducerLen>> /\ q # <<index + 1, k>>
      BY <1>3, <3>1, <3>2, <3>3, InPos
    <3>5. OpAt(stmts, q) = stmts'[i].code[j]
      BY <2>2, <2>6, <3>1, <3>3 DEF OpAt, Reader
    <3> QED BY <1>2, <3>4, <3>5
  <2> QED BY <2>4, <2>5, <2>6
<1> QED BY <1>4, <1>5

\* Every other old position is the old position of something.
LEMMA OldPosOnto ==
  ASSUME NEW k, Spliceable(k), SpliceAt(k), NEW q \in Pos(stmts), q # <<index + 1, k>>
  PROVE  \E r \in Pos(stmts') : OldPos(r, k) = q
<1>1. PICK i, j : i \in DOMAIN stmts /\ j \in DOMAIN stmts[i].code /\ q = <<i, j>>
  BY PosPair
<1>2. /\ ReaderLen \in Nat /\ ProducerLen \in Nat \ {0} /\ index \in Nat \ {0} /\ k \in Nat \ {0} /\ k < ReaderLen
      /\ Len(stmts) \in Nat /\ index < Len(stmts)
      /\ DOMAIN stmts = 1..Len(stmts) /\ DOMAIN stmts' = 1..(Len(stmts) - 1)
      /\ DOMAIN stmts[index].code = 1..ProducerLen /\ DOMAIN stmts[index + 1].code = 1..ReaderLen
      /\ DOMAIN stmts'[index].code = 1..(ReaderLen + ProducerLen - 1)
  BY PosNumbers
<1>3. i \in Nat \ {0} /\ j \in Nat \ {0}
  BY <1>1, <1>2, LoopText DEF Spliceable
<1>4. SUFFICES \E l, m : <<l, m>> \in Pos(stmts') /\ Back(l, m, index, k, ProducerLen) = <<i, j>>
  BY <1>1 DEF OldPos
<1>5. index \in DOMAIN stmts'
  BY <1>2
<1>6. CASE i < index
  <2>1. i \in DOMAIN stmts' /\ i # index
    BY <1>2, <1>3, <1>6
  <2>2. stmts'[i] = stmts[i]
    BY <1>6, <2>1, PosAround
  <2>3. <<i, j>> \in Pos(stmts') /\ Back(i, j, index, k, ProducerLen) = <<i, j>>
    BY <1>1, <1>6, <2>1, <2>2, InPos DEF Back
  <2> QED BY <2>3
<1>7. CASE i > index + 1
  <2>1. i - 1 \in DOMAIN stmts' /\ i - 1 # index /\ ~ (i - 1 < index) /\ i - 1 > index /\ i - 1 + 1 = i
    BY <1>1, <1>2, <1>3, <1>7
  <2>2. stmts'[i - 1] = stmts[i]
    BY <2>1, PosAround
  <2>3. <<i - 1, j>> \in Pos(stmts') /\ Back(i - 1, j, index, k, ProducerLen) = <<i, j>>
    BY <1>1, <2>1, <2>2, InPos DEF Back
  <2> QED BY <2>3
<1>8. CASE i = index
  <2>1. j \in 1..ProducerLen
    BY <1>1, <1>2, <1>8
  <2>2. /\ j + k - 1 \in 1..(ReaderLen + ProducerLen - 1)
        /\ ~ (j + k - 1 < k) /\ j + k - 1 < k + ProducerLen /\ j + k - 1 - k + 1 = j
        /\ ~ (index < index) /\ ~ (index > index)
    BY <1>2, <1>3, <2>1
  <2>3. <<index, j + k - 1>> \in Pos(stmts')
    BY <1>2, <1>5, <2>2, InPos
  <2>4. Back(index, j + k - 1, index, k, ProducerLen) = <<i, j>>
    BY <1>2, <1>3, <1>8, <2>2 DEF Back
  <2> QED BY <2>3, <2>4
<1>9. CASE i = index + 1
  <2>1. j \in 1..ReaderLen /\ j # k /\ ~ (index < index) /\ ~ (index > index)
    BY <1>1, <1>2, <1>9
  <2>2. CASE j < k
    <3>1. j \in 1..(ReaderLen + ProducerLen - 1)
      BY <1>2, <2>1, <2>2
    <3>2. <<index, j>> \in Pos(stmts') /\ Back(index, j, index, k, ProducerLen) = <<i, j>>
      BY <1>2, <1>5, <1>9, <2>1, <2>2, <3>1, InPos DEF Back
    <3> QED BY <3>2
  <2>3. CASE j > k
    <3>1. /\ j + ProducerLen - 1 \in 1..(ReaderLen + ProducerLen - 1)
          /\ ~ (j + ProducerLen - 1 < k) /\ ~ (j + ProducerLen - 1 < k + ProducerLen)
          /\ j + ProducerLen - 1 - ProducerLen + 1 = j
      BY <1>2, <1>3, <2>1, <2>3
    <3>2. <<index, j + ProducerLen - 1>> \in Pos(stmts')
      BY <1>2, <1>5, <3>1, InPos
    <3>3. Back(index, j + ProducerLen - 1, index, k, ProducerLen) = <<i, j>>
      BY <1>2, <1>3, <1>9, <2>1, <3>1 DEF Back
    <3> QED BY <3>2, <3>3
  <2>4. j < k \/ j > k
    BY <1>2, <1>3, <2>1
  <2> QED BY <2>2, <2>3, <2>4
<1>10. i < index \/ i > index + 1 \/ i = index \/ i = index + 1
  BY <1>2, <1>3
<1> QED BY <1>6, <1>7, <1>8, <1>9, <1>10

\* Positions keep their order, but for those the reader has before the read.
LEMMA OldPosOrder ==
  ASSUME NEW k, Spliceable(k), SpliceAt(k), NEW r \in Pos(stmts'), NEW t \in Pos(stmts')
  PROVE  /\ OldPos(r, k) = OldPos(t, k) => r = t
         /\ \/ Lt(r, t) <=> Lt(OldPos(r, k), OldPos(t, k))
            \/ \E j \in 1..(k - 1) : OldPos(r, k) = <<index + 1, j>> \/ OldPos(t, k) = <<index + 1, j>>
<1>1. ProducerLen \in Nat \ {0} /\ index \in Nat \ {0} /\ k \in Nat \ {0}
  BY PosNumbers
<1>2. PICK i \in Nat \ {0}, j \in Nat \ {0} : r = <<i, j>>
  BY PosNatural
<1>3. PICK l \in Nat \ {0}, m \in Nat \ {0} : t = <<l, m>>
  BY PosNatural
<1>4. OldPos(r, k) = Back(i, j, index, k, ProducerLen) /\ OldPos(t, k) = Back(l, m, index, k, ProducerLen)
  BY <1>2, <1>3 DEF OldPos
<1>5. ASSUME OldPos(r, k) = OldPos(t, k) PROVE r = t
  <2>1. PICK p \in Nat, n \in Nat \ {0}, b \in Nat \ {0} : p = index /\ n = k /\ b = ProducerLen
    BY <1>1
  <2>2. Forward(Back(i, j, p, n, b), p, n, b) = <<i, j>>
    BY ForwardBack
  <2>3. Forward(Back(l, m, p, n, b), p, n, b) = <<l, m>>
    BY ForwardBack
  <2> QED BY <1>2, <1>3, <1>4, <1>5, <2>1, <2>2, <2>3
<1>6. CASE ~ (i = index /\ j < k) /\ ~ (l = index /\ m < k)
  <2>1. Lt(<<i, j>>, <<l, m>>)
          <=> Lt(Back(i, j, index, k, ProducerLen), Back(l, m, index, k, ProducerLen))
    BY <1>1, <1>6, BackOrder
  <2> QED BY <1>2, <1>3, <1>4, <1>5, <2>1
<1>7. CASE i = index /\ j < k
  <2>1. OldPos(r, k) = <<index + 1, j>> /\ j \in 1..(k - 1)
    BY <1>1, <1>4, <1>7 DEF Back
  <2> QED BY <1>5, <2>1
<1>8. CASE l = index /\ m < k
  <2>1. OldPos(t, k) = <<index + 1, m>> /\ m \in 1..(k - 1)
    BY <1>1, <1>4, <1>8 DEF Back
  <2> QED BY <1>5, <2>1
<1> QED BY <1>6, <1>7, <1>8

-----------------------------------------------------------------------------
(* What a splice keeps *)

\* Every statement of the new plan writes what its old one wrote.
LEMMA SplicedLines ==
  ASSUME NEW k, Spliceable(k), SpliceAt(k), NEW i \in DOMAIN stmts'
  PROVE  /\ OldLine(i) \in DOMAIN stmts /\ OldLine(i) # index
         /\ stmts'[i].kind = stmts[OldLine(i)].kind /\ stmts'[i].out = stmts[OldLine(i)].out
         /\ stmts'[i].line = stmts[OldLine(i)].line /\ Root(stmts'[i]) = Root(stmts[OldLine(i)])
<1>1. CASE i = index
  <2>1. OldLine(i) = index + 1 /\ index + 1 \in DOMAIN stmts /\ index + 1 # index
    BY <1>1, PosNumbers DEF OldLine
  <2> DEFINE s == stmts'[index]
  <2>2. s = [kind |-> Reader.kind, out |-> Reader.out, code |-> s.code, line |-> Reader.line]
        /\ Root(s) = Root(Reader)
    BY SplicedReader
  <2> HIDE DEF s
  <2>3. s.kind = Reader.kind /\ s.out = Reader.out /\ s.line = Reader.line
    BY <2>2
  <2> QED BY <1>1, <2>1, <2>2, <2>3 DEF Reader, s
<1>2. CASE i # index
  BY <1>2, PosAround DEF OldLine
<1> QED BY <1>1, <1>2

\* Another name holds what it held.
LEMMA OtherLastWrite ==
  ASSUME NEW k, Spliceable(k), SpliceAt(k), NEW i \in Nat \ {0}, NEW slot, slot # Producer.out
  PROVE  LastWrite(stmts', i, slot) = LastWrite(stmts, OldLine(i), slot)
<1> DEFINE V == Writers(stmts', i, slot)
           W == Writers(stmts, OldLine(i), slot)
<1>1. /\ Len(stmts) \in Nat /\ index \in Nat \ {0} /\ index < Len(stmts)
      /\ DOMAIN stmts = 1..Len(stmts) /\ DOMAIN stmts' = 1..(Len(stmts) - 1)
  BY PosNumbers
<1>2. stmts \in Seq(Range(stmts)) /\ stmts' \in Seq(Range(stmts'))
  BY LoopText, SplicedText DEF Spliceable
<1>3. OldLine(i) \in Nat
  BY <1>1 DEF OldLine
<1>4. ASSUME NEW m \in V PROVE OldLine(m) \in W /\ Root(stmts[OldLine(m)]).id = Root(stmts'[m]).id
  <2>1. m \in DOMAIN stmts' /\ m < i /\ stmts'[m].out = slot /\ stmts'[m].kind # "set"
    BY DEF Writers
  <2>2. OldLine(m) < OldLine(i)
    BY <1>1, <2>1 DEF OldLine
  <2> QED BY <2>1, <2>2, SplicedLines DEF Writers
<1>5. ASSUME NEW n \in W PROVE \E m \in V : OldLine(m) = n
  <2>1. n \in DOMAIN stmts /\ n < OldLine(i) /\ stmts[n].out = slot /\ stmts[n].kind # "set"
    BY DEF Writers
  <2>2. n # index
    BY <2>1 DEF Producer
  <2>3. PICK m \in DOMAIN stmts' : m < i /\ OldLine(m) = n
    <3>1. CASE n < index
      <4>1. n \in DOMAIN stmts' /\ n < i /\ OldLine(n) = n
        BY <1>1, <2>1, <3>1 DEF OldLine
      <4> QED BY <4>1
    <3>2. CASE n > index
      <4>1. n - 1 \in DOMAIN stmts' /\ n - 1 < i /\ OldLine(n - 1) = n
        BY <1>1, <2>1, <3>2 DEF OldLine
      <4> QED BY <4>1
    <3> QED BY <1>1, <2>1, <2>2, <3>1, <3>2
  <2>4. m \in V
    BY <2>1, <2>3, SplicedLines DEF Writers
  <2> QED BY <2>3, <2>4
<1>6. index \in Nat /\ i \in Nat
  BY <1>1
<1> QED BY <1>2, <1>3, <1>4, <1>5, <1>6, SameLastWrite

\* So does every name, up to the statement that changes.
LEMMA EarlierLastWrite ==
  ASSUME NEW k, Spliceable(k), SpliceAt(k), NEW i \in Nat, i <= index, NEW slot
  PROVE  LastWrite(stmts', i, slot) = LastWrite(stmts, i, slot)
<1> DEFINE V == Writers(stmts', i, slot)
           W == Writers(stmts, i, slot)
<1>1. /\ Len(stmts) \in Nat /\ index \in Nat \ {0} /\ index < Len(stmts)
      /\ DOMAIN stmts = 1..Len(stmts) /\ DOMAIN stmts' = 1..(Len(stmts) - 1)
  BY PosNumbers
<1>2. stmts \in Seq(Range(stmts)) /\ stmts' \in Seq(Range(stmts'))
  BY LoopText, SplicedText DEF Spliceable
<1>3. ASSUME NEW m \in V PROVE OldLine(m) \in W /\ Root(stmts[OldLine(m)]).id = Root(stmts'[m]).id
  <2>1. m \in DOMAIN stmts' /\ m < i /\ stmts'[m].out = slot /\ stmts'[m].kind # "set"
    BY DEF Writers
  <2>2. m < index /\ m \in 1..index /\ m \in DOMAIN stmts
    BY <1>1, <2>1
  <2>3. stmts'[m] = stmts[m]
    BY <2>1, <2>2, SplicedText
  <2> QED BY <2>1, <2>2, <2>3 DEF Writers, OldLine
<1>4. ASSUME NEW n \in W PROVE \E m \in V : OldLine(m) = n
  <2>1. n \in DOMAIN stmts /\ n < i /\ stmts[n].out = slot /\ stmts[n].kind # "set"
    BY DEF Writers
  <2>2. n < index /\ n \in 1..index /\ n \in DOMAIN stmts'
    BY <1>1, <2>1
  <2>3. stmts'[n] = stmts[n]
    BY <2>2, SplicedText
  <2>4. n \in V /\ OldLine(n) = n
    BY <2>1, <2>2, <2>3 DEF Writers, OldLine
  <2> QED BY <2>4
<1>5. index \in Nat
  BY <1>1
<1> QED BY <1>2, <1>3, <1>4, <1>5, SameLastWrite

\* The operations of the new text are those of the old, but for the read that
\* is gone, and the producer's call now fills the place of that read.
LEMMA SplicedOp ==
  ASSUME NEW k, Spliceable(k), SpliceAt(k),
         NEW i \in DOMAIN stmts', NEW o \in Range(stmts'[i].code)
  PROVE  \/ o \in Range(stmts[OldLine(i)].code)
         \/ i = index /\ o \in Range(Producer.code)
         \/ i = index /\ MovedFrom(o, Producer.line)
<1>1. PICK j \in DOMAIN stmts'[i].code : o = stmts'[i].code[j]
  BY DEF Range
<1>2. CASE i # index
  <2>1. stmts'[i] = stmts[OldLine(i)]
    BY <1>2, PosAround DEF OldLine
  <2> QED BY <2>1
<1>3. CASE i = index
  <2> DEFINE r == <<i, j>>
             q == OldPos(r, k)
  <2>1. r \in Pos(stmts') /\ OpAt(stmts', r) = o
    BY <1>1, InPos DEF OpAt
  <2>2. q \in Pos(stmts) /\ (o = OpAt(stmts, q) \/ o = SentTo(Root(Producer), Reader.code[k].at))
    BY <2>1, OldPosOp
  <2>3. CASE o = OpAt(stmts, q)
    <3>1. q[1] = index \/ q[1] = index + 1
      BY <1>3, PosNumbers DEF OldPos, Back
    <3>2. o \in Range(stmts[q[1]].code)
      <4>1. PICK l, m : l \in DOMAIN stmts /\ m \in DOMAIN stmts[l].code /\ q = <<l, m>>
        BY <2>2, PosPair
      <4> HIDE DEF q
      <4> QED BY <2>3, <4>1 DEF OpAt, Range
    <3>3. OldLine(i) = index + 1
      BY <1>3, PosNumbers DEF OldLine
    <3> QED BY <1>3, <3>1, <3>2, <3>3 DEF Producer
  <2>4. CASE o = SentTo(Root(Producer), Reader.code[k].at)
    <3>1. /\ Reader.line \in DOMAIN prog.stmts /\ Reader.code[k] \in Range(prog.stmts[Reader.line].code)
          /\ Reader.code[k].kind = "slot" /\ Reader.code[k].slot = Producer.out
          /\ prog.stmts[Producer.line].kind = "call" /\ Root(Producer) = Root(prog.stmts[Producer.line])
      BY SpliceSites DEF Reachable, Range
    <3>2. MovedFrom(o, Producer.line)
      BY <2>4, <3>1, ReaderReads DEF MovedFrom
    <3> QED BY <1>3, <3>2
  <2> QED BY <2>2, <2>3, <2>4
<1> QED BY <1>2, <1>3

Splices(k) == Spliceable(k) /\ SpliceAt(k) /\ UNCHANGED <<prog, phase, index, retSlot>>

\* A splice keeps the shape of the plan,
LEMMA SpliceShape ==
  ASSUME NEW k, Splices(k)
  PROVE  Shape'
<1>1. /\ Spliceable(k) /\ SpliceAt(k) /\ prog' = prog /\ Shape /\ stmts \in Seq(Range(stmts))
      /\ index \in Nat \ {0} /\ DOMAIN stmts = 1..Len(stmts) /\ Len(stmts) \in Nat
      /\ DOMAIN stmts' = 1..(Len(stmts) - 1)
  BY LoopText, SplicedText DEF Splices, Spliceable
<1>2. ASSUME NEW j \in DOMAIN stmts' PROVE StmtShape(j)'
  <2> DEFINE l == OldLine(j)
             s == stmts'[j]
  <2>1. /\ l \in DOMAIN stmts /\ s.kind = stmts[l].kind /\ s.out = stmts[l].out
        /\ s.line = stmts[l].line /\ Root(s) = Root(stmts[l]) /\ StmtShape(l)
    BY <1>1, SplicedLines DEF Shape
  <2>2. /\ s = [kind |-> s.kind, out |-> s.out, code |-> s.code, line |-> s.line]
        /\ s.code \in Seq(Range(s.code)) /\ s.code # <<>>
    <3>1. CASE j = index
      <4>1. /\ s = [kind |-> Reader.kind, out |-> Reader.out, code |-> s.code, line |-> Reader.line]
            /\ s.code \in Seq(Range(s.code)) /\ Len(s.code) = ReaderLen + ProducerLen - 1
        BY <1>1, <3>1, SplicedReader DEF ReaderLen, ProducerLen
      <4>2. Len(s.code) # 0
        BY <1>1, <4>1, PosNumbers
      <4> HIDE DEF s
      <4>3. s.code # <<>>
        BY <4>2
      <4>4. s.kind = Reader.kind /\ s.out = Reader.out /\ s.line = Reader.line
        BY <4>1
      <4> QED BY <4>1, <4>3, <4>4
    <3>2. CASE j # index
      <4>1. s = stmts[l]
        BY <1>1, <3>2, PosAround DEF OldLine
      <4> QED BY <2>1, <4>1 DEF StmtShape
    <3> QED BY <3>1, <3>2
  <2>3. ASSUME NEW o \in Range(s.code)
        PROVE  \E n \in DOMAIN prog.stmts : prog.stmts[n].kind \in Kept /\ FromLine(o, n)
    <3>1. CASE o \in Range(stmts[l].code)
      BY <2>1, <3>1 DEF StmtShape
    <3>2. CASE o \in Range(Producer.code)
      <4>1. StmtShape(index) /\ Producer = stmts[index]
        BY <1>1, SpliceSites DEF Shape, Producer
      <4> QED BY <3>2, <4>1 DEF StmtShape
    <3>3. CASE MovedFrom(o, Producer.line)
      BY <1>1, <3>3, SpliceSites DEF FromLine, Kept
    <3> QED BY <1>1, <3>1, <3>2, <3>3, SplicedOp
  <2>4. s.code \in Seq(Range(s.code))
    BY <2>2
  <2>5. /\ s.line \in DOMAIN prog.stmts /\ s.kind = prog.stmts[s.line].kind /\ s.kind \in Kept
        /\ s.out = prog.stmts[s.line].out /\ Root(s) = Root(prog.stmts[s.line])
    BY <2>1 DEF StmtShape
  <2>6. ASSUME NEW o \in Range(s.code)
        PROVE  \E n \in DOMAIN prog'.stmts : prog'.stmts[n].kind \in Kept /\ FromLine(o, n)'
    BY <1>1, <2>3 DEF FromLine, MovedFrom
  <2> QED BY <1>1, <2>2, <2>5, <2>6 DEF StmtShape
<1>3. ASSUME NEW i \in DOMAIN stmts', NEW j \in DOMAIN stmts', i < j PROVE stmts'[i].line < stmts'[j].line
  <2>1. OldLine(i) < OldLine(j)
    BY <1>1, <1>3 DEF OldLine
  <2>2. OldLine(i) \in DOMAIN stmts /\ OldLine(j) \in DOMAIN stmts
        /\ stmts'[i].line = stmts[OldLine(i)].line /\ stmts'[j].line = stmts[OldLine(j)].line
    BY <1>1, SplicedLines
  <2> QED BY <1>1, <2>1, <2>2 DEF Shape
<1> QED BY <1>2, <1>3 DEF Shape

\* touches nothing behind its statement,
LEMMA SpliceFresh ==
  ASSUME NEW k, Splices(k)
  PROVE  Fresh'
<1>1. /\ Spliceable(k) /\ SpliceAt(k) /\ prog' = prog /\ index' = index /\ Fresh
      /\ index \in Nat \ {0} /\ DOMAIN stmts = 1..Len(stmts) /\ Len(stmts) \in Nat
      /\ DOMAIN stmts' = 1..(Len(stmts) - 1)
  BY LoopText, SplicedText DEF Splices, Spliceable
<1>2. SUFFICES ASSUME NEW j \in DOMAIN stmts', j > index
               PROVE  stmts'[j] = prog.stmts[stmts'[j].line] /\ stmts'[j].line = stmts'[j - 1].line + 1
  BY <1>1 DEF Fresh
<1>3. stmts'[j] = stmts[j + 1] /\ j + 1 \in DOMAIN stmts /\ j + 1 > index /\ j + 1 - 1 = j
  <2>1. j + 1 \in DOMAIN stmts /\ j + 1 > index /\ j + 1 - 1 = j
    BY <1>1, <1>2
  <2>2. stmts'[j] = stmts[j + 1]
    BY <1>1, <1>2, SplicedText
  <2> QED BY <2>1, <2>2
<1>4. stmts[j + 1] = prog.stmts[stmts[j + 1].line] /\ stmts[j + 1].line = stmts[j].line + 1
  BY <1>1, <1>3 DEF Fresh
<1>5. j - 1 \in DOMAIN stmts' /\ OldLine(j - 1) = j
  BY <1>1, <1>2 DEF OldLine
<1>6. stmts'[j - 1].line = stmts[j].line
  BY <1>1, <1>5, SplicedLines
<1> QED BY <1>3, <1>4, <1>6

\* The read that is gone, and the operations that stay.
LEMMA SplicedIds ==
  ASSUME NEW k, Spliceable(k), SpliceAt(k), NEW r \in Pos(stmts')
  PROVE  /\ OldPos(r, k) \in Pos(stmts) /\ OldPos(r, k) # <<index + 1, k>>
         /\ OpAt(stmts', r).id = OpAt(stmts, OldPos(r, k)).id
         /\ OpAt(stmts', r).kind = OpAt(stmts, OldPos(r, k)).kind
         /\ OpAt(stmts', r).at = IF OldPos(r, k) = <<index, ProducerLen>>
                                 THEN OpAt(stmts, <<index + 1, k>>).at
                                 ELSE OpAt(stmts, OldPos(r, k)).at
<1> DEFINE q == OldPos(r, k)
<1>1. q \in Pos(stmts) /\ q # <<index + 1, k>>
      /\ OpAt(stmts', r) = IF q = <<index, ProducerLen>> THEN SentTo(Root(Producer), Reader.code[k].at)
                                                         ELSE OpAt(stmts, q)
  BY OldPosOp
<1>2. CASE q = <<index, ProducerLen>>
  <2>1. IsOp(Root(Producer))
    <3>1. Root(Producer) = Root(prog.stmts[Producer.line])
          /\ Producer.line \in DOMAIN prog.stmts /\ prog.stmts[Producer.line].kind = "call"
          /\ prog \in Programs
      BY SpliceSites, LoopText DEF Spliceable
    <3> QED BY <3>1, CallRoot
  <2>2. OpAt(stmts, q) = Root(Producer)
    BY <1>2 DEF OpAt, Root, Producer, ProducerLen
  <2>3. OpAt(stmts, <<index + 1, k>>) = Reader.code[k]
    BY DEF OpAt, Reader
  <2> DEFINE o == Root(Producer)
             u == SentTo(o, Reader.code[k].at)
  <2>4. u.id = o.id /\ u.at = Reader.code[k].at /\ u.kind = o.kind
    BY <2>1, SentToFields
  <2>5. OpAt(stmts', r) = u
    BY <1>1, <1>2
  <2>6. OpAt(stmts, q) = o
    BY <2>2
  <2> HIDE DEF u, o
  <2> QED BY <1>1, <1>2, <2>3, <2>4, <2>5, <2>6
<1>3. CASE q # <<index, ProducerLen>>
  BY <1>1, <1>3
<1> QED BY <1>2, <1>3

\* The read that goes was in the plan.
LEMMA ReadIsThere ==
  ASSUME NEW k, Spliceable(k), SpliceAt(k)
  PROVE  /\ <<index + 1, k>> \in Pos(stmts) /\ <<index, ProducerLen>> \in Pos(stmts)
         /\ OpAt(stmts, <<index + 1, k>>) = Reader.code[k] /\ Reader.code[k].kind = "slot"
         /\ Reader.code[k] \in Range(prog.stmts[Reader.line].code) /\ Reader.line \in DOMAIN prog.stmts
<1>1. index \in DOMAIN stmts /\ index + 1 \in DOMAIN stmts /\ Reader.code[k].kind = "slot"
      /\ Reader.code[k] \in Range(prog.stmts[Reader.line].code) /\ Reader.line \in DOMAIN prog.stmts
  BY SpliceSites DEF Reachable, Range
<1>2. k \in DOMAIN stmts[index + 1].code /\ ProducerLen \in DOMAIN stmts[index].code
  BY PosNumbers
<1> QED BY <1>1, <1>2, InPos DEF OpAt, Reader

\* A splice runs nothing twice,
LEMMA SpliceUnique ==
  ASSUME NEW k, Splices(k)
  PROVE  Unique'
<1>1. Spliceable(k) /\ SpliceAt(k) /\ Unique
  BY LoopText DEF Splices, Spliceable
<1>2. SUFFICES ASSUME NEW r \in Pos(stmts'), NEW t \in Pos(stmts'),
                      \/ OpAt(stmts', r).id = OpAt(stmts', t).id
                      \/ OpAt(stmts', r).at = OpAt(stmts', t).at
               PROVE  r = t
  BY DEF Unique, Pos, OpAt
<1> DEFINE q == OldPos(r, k)
           u == OldPos(t, k)
           e == <<index + 1, k>>
           f == <<index, ProducerLen>>
<1>3. /\ q \in Pos(stmts) /\ q # e /\ OpAt(stmts', r).id = OpAt(stmts, q).id
      /\ OpAt(stmts', r).at = IF q = f THEN OpAt(stmts, e).at ELSE OpAt(stmts, q).at
  BY <1>1, SplicedIds
<1>4. /\ u \in Pos(stmts) /\ u # e /\ OpAt(stmts', t).id = OpAt(stmts, u).id
      /\ OpAt(stmts', t).at = IF u = f THEN OpAt(stmts, e).at ELSE OpAt(stmts, u).at
  BY <1>1, SplicedIds
<1>5. e \in Pos(stmts)
  BY <1>1, ReadIsThere
<1>6. q = u => r = t
  BY <1>1, OldPosOrder
<1> HIDE DEF q, u, e, f
<1>7. q = u
  <2>1. CASE OpAt(stmts', r).id = OpAt(stmts', t).id
    BY <1>1, <1>3, <1>4, <2>1 DEF Unique
  <2>2. CASE OpAt(stmts', r).at = OpAt(stmts', t).at
    <3>1. CASE q = f /\ u # f
      <4>1. OpAt(stmts, e).at = OpAt(stmts, u).at
        BY <1>3, <1>4, <2>2, <3>1
      <4> QED BY <1>1, <1>4, <1>5, <4>1 DEF Unique
    <3>2. CASE q # f /\ u = f
      <4>1. OpAt(stmts, e).at = OpAt(stmts, q).at
        BY <1>3, <1>4, <2>2, <3>2
      <4> QED BY <1>1, <1>3, <1>5, <4>1 DEF Unique
    <3>3. CASE q # f /\ u # f
      BY <1>1, <1>3, <1>4, <2>2, <3>3 DEF Unique
    <3> QED BY <3>1, <3>2, <3>3
  <2> QED BY <1>2, <2>1, <2>2
<1> QED BY <1>6, <1>7

\* drops nothing but the read,
LEMMA SpliceNothingLost ==
  ASSUME NEW k, Splices(k)
  PROVE  NothingLost'
<1>1. Spliceable(k) /\ SpliceAt(k) /\ prog' = prog /\ NothingLost /\ prog \in Programs
  BY LoopText DEF Splices, Spliceable
<1>2. SUFFICES ASSUME NEW n \in DOMAIN prog.stmts, prog.stmts[n].kind \in Kept,
                      NEW q \in Range(prog.stmts[n].code), q.kind # "slot"
               PROVE  \E r \in Pos(stmts') : OpAt(stmts', r).id = q.id
  BY <1>1 DEF NothingLost, Pos, OpAt
<1>3. PICK t \in Pos(stmts) : OpAt(stmts, t).id = q.id
  BY <1>1, <1>2 DEF NothingLost
<1>4. t # <<index + 1, k>>
  <2>1. SUFFICES ASSUME t = <<index + 1, k>> PROVE FALSE
    OBVIOUS
  <2>2. Reader.code[k].id = q.id /\ Reader.code[k].kind = "slot"
    BY <1>1, <1>3, <2>1, ReadIsThere
  <2>3. Reader.code[k] \in Range(prog.stmts[Reader.line].code) /\ Reader.line \in DOMAIN prog.stmts
    BY <1>1, ReadIsThere
  <2>4. Reader.code[k] = q
    BY <1>1, <1>2, <2>2, <2>3, SameOp
  <2> QED BY <1>2, <2>2, <2>4
<1>5. PICK r \in Pos(stmts') : OldPos(r, k) = t
  BY <1>1, <1>4, OldPosOnto
<1> QED BY <1>1, <1>3, <1>5, SplicedIds

\* and returns the same value.
LEMMA SpliceReturned ==
  ASSUME NEW k, Splices(k)
  PROVE  Returned'
<1>1. Spliceable(k) /\ SpliceAt(k) /\ prog' = prog /\ retSlot' = retSlot /\ Returned
  BY LoopText DEF Splices, Spliceable
<1>2. retSlot # Producer.out
  BY <1>1, OnlyReader
<1>3. Len(stmts) \in Nat /\ index < Len(stmts) /\ Len(stmts') = Len(stmts) - 1 /\ index \in Nat \ {0}
  BY <1>1, PosNumbers, SplicedText
<1>4. Len(stmts') + 1 \in Nat \ {0} /\ OldLine(Len(stmts') + 1) = Len(stmts) + 1
  BY <1>3 DEF OldLine
<1>5. LastWrite(stmts', Len(stmts') + 1, retSlot) = LastWrite(stmts, Len(stmts) + 1, retSlot)
  BY <1>1, <1>2, <1>4, OtherLastWrite
<1> QED BY <1>1, <1>5 DEF Returned

-----------------------------------------------------------------------------
(* What the names of the plan hold *)

\* The name that loses its storage keeps it when it is also written elsewhere.
LEMMA StillLive ==
  ASSUME NEW k, Splices(k), Producer.out \in Live'
  PROVE  Producer.out \in Rewritten(prog)
<1> DEFINE w == Producer.out
<1>1. /\ Spliceable(k) /\ SpliceAt(k) /\ prog' = prog /\ retSlot' = retSlot /\ Shape
      /\ w \in Slots /\ retSlot # w
  <2>1. /\ Producer.line \in DOMAIN prog.stmts /\ prog.stmts[Producer.line].out = w /\ w # None
        /\ prog \in Programs
    BY SpliceSites, LoopText DEF Splices, Spliceable
  <2>2. w \in Slots
    BY <2>1, SourceLines DEF IsStmt
  <2> QED BY <2>2, OnlyReader, LoopText DEF Splices, Spliceable
<1>2. CASE w \in prog.inits
  BY <1>2 DEF Rewritten
<1>3. CASE \E i \in DOMAIN stmts' : w = stmts'[i].out
  <2>1. PICK i \in DOMAIN stmts' : w = stmts'[i].out
    BY <1>3
  <2>2. PICK l \in DOMAIN stmts : l # index /\ stmts[l].out = w
    BY <1>1, <2>1, SplicedLines
  <2>3. /\ index \in DOMAIN stmts /\ StmtShape(l) /\ StmtShape(index) /\ Producer = stmts[index]
        /\ DOMAIN stmts \subseteq Int
    BY <1>1, SpliceSites, LoopText DEF Shape, Producer, Spliceable
  <2>4. stmts[l].line # stmts[index].line
    <3>1. DOMAIN prog.stmts \subseteq Int
      BY <1>1, SourceLines, LoopText DEF Spliceable
    <3>2. stmts[l].line < stmts[index].line \/ stmts[index].line < stmts[l].line
      BY <1>1, <2>2, <2>3 DEF Shape
    <3>3. stmts[l].line \in Int /\ stmts[index].line \in Int
      BY <2>3, <3>1 DEF StmtShape
    <3> QED BY <3>2, <3>3
  <2>5. /\ prog.stmts[stmts[l].line].out = w /\ prog.stmts[stmts[index].line].out = w
        /\ stmts[l].line \in DOMAIN prog.stmts /\ stmts[index].line \in DOMAIN prog.stmts
    BY <2>2, <2>3 DEF StmtShape
  <2>6. DOMAIN prog.stmts \subseteq Int
    BY <1>1, SourceLines, LoopText DEF Spliceable
  <2>7. stmts[l].line < stmts[index].line \/ stmts[index].line < stmts[l].line
    BY <2>4, <2>5, <2>6
  <2> QED BY <1>1, <2>5, <2>7 DEF Rewritten
<1> QED BY <1>1, <1>2, <1>3 DEF Live

\* So nothing else of the plan reads it.
LEMMA NoOtherRead ==
  ASSUME NEW k, Splices(k), ~ HiddenRead(prog),
         NEW i \in DOMAIN stmts', NEW o \in Range(stmts'[i].code), o.slot = Producer.out
  PROVE  Producer.out \notin Live'
<1> DEFINE w == Producer.out
<1>1. SUFFICES ASSUME w \in Live' PROVE FALSE
  OBVIOUS
<1>2. w \in Rewritten(prog)
  BY <1>1, StillLive
<1>3. /\ Spliceable(k) /\ SpliceAt(k) /\ prog' = prog /\ prog \in Programs /\ Unique /\ w # None
  BY SpliceSites, LoopText DEF Splices, Spliceable
<1>4. PICK n \in DOMAIN prog.stmts : prog.stmts[n].kind \in Kept /\ FromLine(o, n)
  <2>1. StmtShape(i)'
    BY SpliceShape DEF Shape
  <2> QED BY <1>3, <2>1 DEF StmtShape, FromLine, MovedFrom
<1>5. PICK j \in DOMAIN prog.stmts[n].code : o = prog.stmts[n].code[j] /\ IsOp(o)
  BY <1>3, <1>4, FromLineOp DEF Range
<1>6. Counted(o)
  <2>1. o.kind \in Naming
    BY <1>3, <1>5 DEF IsOp
  <2>2. o \in OpsOf(prog.stmts)
    BY <1>5 DEF OpsOf, Range
  <2> QED BY <1>2, <2>1, <2>2 DEF HiddenRead, Counted, Naming
<1>7. <<n, j>> \in Readers(w)
  <2>1. <<n, j>> \in UNION {{m} \X DOMAIN prog.stmts[m].code : m \in DOMAIN prog.stmts}
    BY <1>5
  <2> QED BY <1>4, <1>5, <1>6, <2>1 DEF Readers
<1>8. o = Reader.code[k]
  <2>1. <<n, j>> = <<Reader.line, k>>
    BY <1>3, <1>7, OnlyReader
  <2> QED BY <1>3, <1>5, <2>1, SpliceSites
<1>9. PICK m \in DOMAIN stmts'[i].code : o = stmts'[i].code[m]
  BY DEF Range
<1> DEFINE r == <<i, m>>
<1>10. r \in Pos(stmts') /\ OpAt(stmts', r) = o
  BY <1>9, InPos DEF OpAt
<1>11. /\ OldPos(r, k) \in Pos(stmts) /\ OldPos(r, k) # <<index + 1, k>>
       /\ OpAt(stmts, OldPos(r, k)).id = o.id
  BY <1>3, <1>10, SplicedIds
<1>12. <<index + 1, k>> \in Pos(stmts) /\ OpAt(stmts, <<index + 1, k>>) = o
  BY <1>3, <1>8, ReadIsThere
<1> QED BY <1>3, <1>11, <1>12 DEF Unique

\* A splice leaves what every other read of a live name sees.
LEMMA SpliceReads ==
  ASSUME NEW k, Splices(k), ReadsInv, ~ HiddenRead(prog)
  PROVE  ReadsInv'
<1>1. /\ Spliceable(k) /\ SpliceAt(k) /\ prog' = prog /\ retSlot' = retSlot /\ phase = "splice"
      /\ prog \in Programs
  BY LoopText DEF Splices, Spliceable, Looping
<1>2. SUFFICES ASSUME NEW i \in DOMAIN stmts', NEW o \in Range(stmts'[i].code), NEW n \in DOMAIN prog.stmts,
                      o \in Range(prog.stmts[n].code), o.slot \in Live' \ {None}
               PROVE  LastWrite(stmts', i, o.slot) = LastWrite(prog.stmts, n, o.slot)
  BY <1>1 DEF ReadsInv
<1>3. o.slot # Producer.out
  BY <1>2, NoOtherRead
<1>4. o.slot \in Live \ {None}
  <2>1. CASE o.slot \in prog.inits \/ o.slot = retSlot
    BY <1>2, <2>1 DEF Live
  <2>2. CASE \E m \in DOMAIN stmts' : o.slot = stmts'[m].out
    <3>1. PICK m \in DOMAIN stmts' : o.slot = stmts'[m].out
      BY <2>2
    <3>2. OldLine(m) \in DOMAIN stmts /\ o.slot = stmts[OldLine(m)].out
      BY <1>1, <3>1, SplicedLines
    <3> QED BY <1>2, <3>2 DEF Live
  <2> QED BY <1>1, <1>2, <2>1, <2>2 DEF Live
<1>5. /\ DOMAIN stmts' \subseteq Nat \ {0} /\ index \in Nat \ {0} /\ index \in DOMAIN stmts
  BY <1>1, PosNumbers
<1>6. OldLine(i) \in DOMAIN stmts
  BY <1>1, SplicedLines
<1>7. CASE o \in Range(stmts[OldLine(i)].code)
  <2>1. LastWrite(stmts, OldLine(i), o.slot) = LastWrite(prog.stmts, n, o.slot)
    BY <1>1, <1>2, <1>4, <1>6, <1>7 DEF ReadsInv
  <2>2. LastWrite(stmts', i, o.slot) = LastWrite(stmts, OldLine(i), o.slot)
    BY <1>1, <1>3, <1>5, OtherLastWrite
  <2> QED BY <2>1, <2>2
<1>8. CASE i = index /\ o \in Range(Producer.code)
  <2>1. LastWrite(stmts, index, o.slot) = LastWrite(prog.stmts, n, o.slot)
    BY <1>1, <1>2, <1>4, <1>5, <1>8 DEF ReadsInv, Producer
  <2>2. LastWrite(stmts', index, o.slot) = LastWrite(stmts, index, o.slot)
    <3>1. index \in Nat /\ index <= index
      BY <1>5
    <3> QED BY <1>1, <3>1, EarlierLastWrite
  <2> QED BY <1>8, <2>1, <2>2
<1>9. CASE MovedFrom(o, Producer.line)
  <2>1. o.slot = None
    <3>1. Producer.line \in DOMAIN prog.stmts /\ prog.stmts[Producer.line].kind = "call"
      BY <1>1, SpliceSites
    <3>2. \E place : o = SentTo(Root(prog.stmts[Producer.line]), place)
      BY <1>9 DEF MovedFrom
    <3> QED BY <1>1, <3>1, <3>2, CallRoot, SentToFields
  <2> QED BY <1>2, <2>1
<1> QED BY <1>1, <1>2, <1>7, <1>8, <1>9, SplicedOp

\* Nothing stores into a field of a name that loses its storage.
LEMMA SpliceSets ==
  ASSUME NEW k, Splices(k), SetsInv
  PROVE  SetsInv'
<1>1. /\ Spliceable(k) /\ SpliceAt(k) /\ prog' = prog /\ phase = "splice" /\ prog \in Programs /\ Shape
      /\ DOMAIN stmts' \subseteq Nat \ {0}
  BY LoopText, PosNumbers DEF Splices, Spliceable, Looping
<1>2. SUFFICES ASSUME NEW i \in DOMAIN stmts', stmts'[i].kind = "set"
               PROVE  LastWrite(stmts', i, stmts'[i].out) = LastWrite(prog.stmts, stmts'[i].line, stmts'[i].out)
  BY <1>1 DEF SetsInv
<1>3. PICK l \in DOMAIN stmts :
        /\ l = OldLine(i) /\ stmts'[i].kind = stmts[l].kind /\ stmts'[i].out = stmts[l].out
        /\ stmts'[i].line = stmts[l].line
  BY <1>1, SplicedLines
<1>4. stmts[l].out # Producer.out
  <2>1. SUFFICES ASSUME stmts[l].out = Producer.out PROVE FALSE
    OBVIOUS
  <2>2. PICK n \in DOMAIN prog.stmts : prog.stmts[n].kind = "set" /\ prog.stmts[n].out = Producer.out
    BY <1>1, <1>2, <1>3, <2>1 DEF Shape, StmtShape
  <2>3. <<n, 0>> \in Readers(Producer.out)
    BY <2>2 DEF Readers
  <2>4. k # 0
    BY <1>1, PosNumbers
  <2> QED BY <1>1, <2>3, <2>4, OnlyReader
<1>5. LastWrite(stmts', i, stmts[l].out) = LastWrite(stmts, l, stmts[l].out)
  BY <1>1, <1>3, <1>4, OtherLastWrite
<1>6. LastWrite(stmts, l, stmts[l].out) = LastWrite(prog.stmts, stmts[l].line, stmts[l].out)
  BY <1>1, <1>2, <1>3 DEF SetsInv
<1> QED BY <1>3, <1>5, <1>6

-----------------------------------------------------------------------------
(* The order of the operations *)

\* A splice keeps the order of the operations that nothing runs ahead of.
LEMMA SpliceOrder ==
  ASSUME NEW K, "slot" \notin K, NEW k, Splices(k), OrderInv(K), ~ RunsAhead(prog, K)
  PROVE  OrderInv(K)'
<1>1. /\ Spliceable(k) /\ SpliceAt(k) /\ prog' = prog /\ phase = "splice" /\ prog \in Programs
  BY LoopText DEF Splices, Spliceable, Looping
<1>2. SUFFICES ASSUME NEW r \in Pos(stmts'), NEW t \in Pos(stmts'),
                      OpAt(stmts', r).kind \in K, OpAt(stmts', t).kind \in K
               PROVE  Lt(r, t) <=> Precedes(prog.stmts, OpAt(stmts', r).id, OpAt(stmts', t).id)
  BY <1>1 DEF OrderInv, Pos, OpAt
<1> DEFINE q == OldPos(r, k)
           u == OldPos(t, k)
<1>3. /\ q \in Pos(stmts) /\ OpAt(stmts', r).id = OpAt(stmts, q).id /\ OpAt(stmts, q).kind \in K
      /\ u \in Pos(stmts) /\ OpAt(stmts', t).id = OpAt(stmts, u).id /\ OpAt(stmts, u).kind \in K
  BY <1>1, <1>2, SplicedIds
<1>4. Lt(q, u) <=> Precedes(prog.stmts, OpAt(stmts, q).id, OpAt(stmts, u).id)
  BY <1>1, <1>3 DEF OrderInv
<1>5. ASSUME NEW j \in 1..(k - 1), q = <<index + 1, j>> \/ u = <<index + 1, j>> PROVE FALSE
  <2>1. Reader.code[j].kind \in K
    BY <1>3, <1>5 DEF OpAt, Reader
  <2>2. /\ Reader = prog.stmts[Reader.line] /\ Reader.line \in DOMAIN prog.stmts
        /\ Producer.line \in DOMAIN prog.stmts /\ Reader.line = Producer.line + 1
        /\ prog.stmts[Producer.line].kind = "call" /\ prog.stmts[Producer.line].out = Producer.out
        /\ Reader.kind = "call" /\ k \in DOMAIN Reader.code
        /\ Reachable(Reader.code, k, Producer.out) /\ ~ BehindCall(Reader.code, k)
    <3>1. ~ BehindCall(Reader.code, k)
      BY <1>1 DEF Spliceable, Target, FindSplice
    <3> QED BY <1>1, <3>1, SpliceSites
  <2>3. Reader.line > 1 /\ Reader.line - 1 = Producer.line
    <3>1. Producer.line \in Nat \ {0}
      BY <1>1, <2>2, SourceLines
    <3> QED BY <2>2, <3>1
  <2>4. RunsAhead(prog, K)
    <3> DEFINE i == Reader.line
    <3>1. /\ i \in DOMAIN prog.stmts /\ i > 1 /\ prog.stmts[i].kind = "call" /\ prog.stmts[i - 1].kind = "call"
          /\ k \in DOMAIN prog.stmts[i].code
          /\ Reachable(prog.stmts[i].code, k, prog.stmts[i - 1].out) /\ ~ BehindCall(prog.stmts[i].code, k)
          /\ prog.stmts[i].code[j].kind \in K
      BY <2>1, <2>2, <2>3
    <3> HIDE DEF i
    <3> QED BY <3>1 DEF RunsAhead
  <2> QED BY <2>4
<1>6. Lt(r, t) <=> Lt(q, u)
  BY <1>1, <1>5, OldPosOrder
<1> QED BY <1>3, <1>4, <1>6

-----------------------------------------------------------------------------
(* The first loop *)

FirstLoop == BInv /\ Collecting /\ ~ EarlyReturn(prog)

\* The plan in the first loop is the source up to the statement at index.
LEMMA CollectText ==
  ASSUME FirstLoop
  PROVE  /\ prog \in Programs /\ CollectInv /\ retSlot = None
         /\ index \in Nat \ {0} /\ index \in DOMAIN prog.stmts
         /\ stmts \in Seq(Range(stmts)) /\ Len(stmts) = index - 1 /\ DOMAIN stmts = 1..(index - 1)
         /\ Current.kind \notin Kept => index = Len(prog.stmts)
<1>1. /\ prog \in Programs /\ CollectInv /\ index \in Nat \ {0} /\ stmts \in Seq(Range(stmts))
      /\ index <= Len(prog.stmts)
  BY DEF FirstLoop, BInv, PlanTypes, Collecting
<1>2. Len(prog.stmts) \in Nat /\ DOMAIN prog.stmts = 1..Len(prog.stmts)
  BY <1>1, SourceLines
<1>3. \A j \in DOMAIN prog.stmts : prog.stmts[j].kind \notin Kept => ~ (j < Len(prog.stmts))
  BY DEF FirstLoop, EarlyReturn
<1>4. Len(stmts) \in Nat /\ Len(stmts) < index /\ DOMAIN stmts = 1..Len(stmts)
  BY <1>1, SeqDomain DEF CollectInv
<1>5. Len(stmts) = index - 1
  <2>1. SUFFICES ASSUME Len(stmts) + 1 < index PROVE FALSE
    BY <1>1, <1>4
  <2>2. Len(stmts) + 1 \in 1..(index - 1) /\ ~ (Len(stmts) + 1 <= Len(stmts))
        /\ Len(stmts) + 1 \in DOMAIN prog.stmts /\ Len(stmts) + 1 < Len(prog.stmts)
    BY <1>1, <1>2, <1>4, <2>1
  <2>3. prog.stmts[Len(stmts) + 1].kind \notin Kept
    BY <1>1, <2>2 DEF CollectInv
  <2> QED BY <1>3, <2>2, <2>3
<1>6. retSlot = None
  BY <1>1, <1>2 DEF CollectInv
<1>7. index \in DOMAIN prog.stmts
  BY <1>1, <1>2
<1>8. Current.kind \notin Kept => index = Len(prog.stmts)
  BY <1>1, <1>2, <1>3, <1>7 DEF Current
<1> QED BY <1>1, <1>4, <1>5, <1>6, <1>7, <1>8

\* Keeping a statement keeps the invariant,
LEMMA KeepInv ==
  ASSUME FirstLoop, Keep
  PROVE  BInv'
<1>1. /\ prog \in Programs /\ CollectInv /\ retSlot = None
      /\ index \in Nat \ {0} /\ index \in DOMAIN prog.stmts
      /\ stmts \in Seq(Range(stmts)) /\ Len(stmts) = index - 1 /\ DOMAIN stmts = 1..(index - 1)
  BY CollectText
<1>2. /\ stmts' = Append(stmts, Current) /\ index' = index + 1 /\ Current.kind \in Kept
      /\ prog' = prog /\ phase' = phase /\ retSlot' = retSlot /\ phase = "collect"
      /\ Current = prog.stmts[index]
  BY DEF Keep, Collecting, Current
<1>3. Len(prog.stmts) \in Nat /\ index <= Len(prog.stmts)
  BY <1>1, SourceLines
<1> DEFINE S == Range(stmts) \cup {Current}
<1>4. /\ Len(stmts') = index /\ stmts' \in Seq(Range(stmts'))
      /\ \A j \in 1..index : stmts'[j] = IF j = index THEN Current ELSE stmts[j]
  <2>1. Range(stmts) \subseteq S /\ Current \in S
    OBVIOUS
  <2> HIDE DEF S
  <2>2. stmts \in Seq(S)
    BY <1>1, <2>1, SeqMonotonic
  <2>3. /\ stmts' \in Seq(S) /\ Len(stmts') = index
        /\ \A j \in 1..index : stmts'[j] = IF j = index THEN Current ELSE stmts[j]
    BY <1>1, <1>2, <2>1, <2>2
  <2>4. stmts' = [j \in 1..index |-> stmts'[j]] /\ index \in Nat
    BY <1>1, <2>3
  <2>5. stmts' \in Seq(Range(stmts'))
    BY <2>4, IsSequence
  <2> QED BY <2>3, <2>5
<1>5. PlanTypes'
  BY <1>1, <1>2, <1>4 DEF PlanTypes, BInv, FirstLoop
<1>6. CollectInv'
  <2>1. index' <= Len(prog'.stmts) + 1 /\ Len(stmts') < index'
    BY <1>1, <1>2, <1>3, <1>4
  <2>2. \A j \in 1..Len(stmts') : stmts'[j] = prog'.stmts[j] /\ prog'.stmts[j].kind \in Kept
    BY <1>1, <1>2, <1>4 DEF CollectInv
  <2>3. \A j \in 1..(index' - 1) : j <= Len(stmts')
    BY <1>1, <1>2, <1>4
  <2> QED BY <1>1, <1>2, <2>1, <2>2, <2>3 DEF CollectInv
<1> QED BY <1>2, <1>5, <1>6 DEF BInv

\* and so does leaving one out: it is the last.
LEMMA LeaveLine ==
  ASSUME FirstLoop, Current.kind \notin Kept, UNCHANGED <<prog, phase, stmts>>, index' = index + 1,
         retSlot' # None => Current.kind = "return"
  PROVE  BInv'
<1>1. /\ prog \in Programs /\ CollectInv /\ index \in Nat \ {0} /\ stmts \in Seq(Range(stmts))
      /\ Len(stmts) = index - 1 /\ index = Len(prog.stmts) /\ phase = "collect"
  BY CollectText DEF FirstLoop, Collecting
<1>2. PlanTypes'
  BY <1>1 DEF PlanTypes, BInv, FirstLoop
<1>3. CollectInv'
  <2>1. index' <= Len(prog.stmts) + 1 /\ Len(stmts) < index' /\ index' = Len(prog.stmts) + 1 /\ Len(prog.stmts) > 0
    BY <1>1
  <2>2. \A j \in 1..Len(stmts) : stmts[j] = prog.stmts[j] /\ prog.stmts[j].kind \in Kept
    BY <1>1 DEF CollectInv
  <2>3. ASSUME NEW j \in 1..(index' - 1) PROVE j <= Len(stmts) \/ prog.stmts[j].kind \notin Kept
    <3>1. j <= Len(stmts) \/ j = index
      BY <1>1
    <3> QED BY <3>1 DEF Current
  <2>4. retSlot' # None => prog.stmts[Len(prog.stmts)].kind = "return"
    BY <1>1 DEF Current
  <2> QED BY <2>1, <2>2, <2>3, <2>4 DEF CollectInv
<1> QED BY <1>1, <1>2, <1>3 DEF BInv

-----------------------------------------------------------------------------
(* Between the loops *)

\* Texts that agree on the statements before one agree on what a name holds there.
LEMMA SameText ==
  ASSUME NEW ss, ss \in Seq(Range(ss)), NEW tt, tt \in Seq(Range(tt)), NEW i \in Nat, NEW slot,
         \A m \in Nat : m < i => (m \in DOMAIN ss <=> m \in DOMAIN tt),
         \A m \in DOMAIN ss : m < i => ss[m] = tt[m]
  PROVE  LastWrite(ss, i, slot) = LastWrite(tt, i, slot)
<1>1. DOMAIN ss \subseteq Nat /\ DOMAIN tt \subseteq Nat
  BY SeqDomain
<1>2. Writers(ss, i, slot) = Writers(tt, i, slot)
  BY <1>1 DEF Writers
<1>3. CASE Writers(ss, i, slot) = {}
  BY <1>2, <1>3, NeverWritten
<1>4. CASE Writers(ss, i, slot) # {}
  <2>1. PICK m \in Writers(ss, i, slot) : \A n \in Writers(ss, i, slot) : n <= m
    BY <1>4, LastWriterExists
  <2>2. LastWrite(ss, i, slot) = Root(ss[m]).id
    BY <2>1, LastWriteIs
  <2>3. LastWrite(tt, i, slot) = Root(tt[m]).id
    BY <1>2, <2>1, LastWriteIs
  <2>4. ss[m] = tt[m]
    BY <2>1 DEF Writers
  <2> QED BY <2>2, <2>3, <2>4
<1> QED BY <1>3, <1>4

FirstLoopDone == BInv /\ Collected /\ ~ EarlyReturn(prog)

\* After the first loop the plan is the source without its return,
LEMMA CollectedText ==
  ASSUME FirstLoopDone
  PROVE  /\ prog \in Programs /\ stmts \in Seq(Range(stmts))
         /\ Len(stmts) \in Nat /\ DOMAIN stmts = 1..Len(stmts) /\ DOMAIN prog.stmts = 1..Len(prog.stmts)
         /\ Len(prog.stmts) \in Nat /\ Len(stmts) <= Len(prog.stmts)
         /\ \A j \in DOMAIN stmts :
              /\ j \in DOMAIN prog.stmts /\ j \in Nat \ {0} /\ stmts[j] = prog.stmts[j]
              /\ stmts[j].line = j /\ stmts[j].kind \in Kept
         /\ \A j \in DOMAIN prog.stmts : prog.stmts[j].kind \in Kept => j \in DOMAIN stmts
         /\ retSlot # None => /\ Len(prog.stmts) = Len(stmts) + 1
                              /\ prog.stmts[Len(prog.stmts)].kind = "return"
<1>1. /\ prog \in Programs /\ stmts \in Seq(Range(stmts)) /\ index \in Nat \ {0}
      /\ CollectInv /\ index > Len(prog.stmts)
  BY DEF FirstLoopDone, BInv, PlanTypes, Collected
<1>2. /\ Len(prog.stmts) \in Nat /\ DOMAIN prog.stmts = 1..Len(prog.stmts)
      /\ \A j \in DOMAIN prog.stmts : prog.stmts[j].line = j
      /\ Len(stmts) \in Nat /\ DOMAIN stmts = 1..Len(stmts)
  BY <1>1, SourceLines, SeqDomain
<1>3. index = Len(prog.stmts) + 1 /\ Len(stmts) <= Len(prog.stmts)
  BY <1>1, <1>2 DEF CollectInv
<1>4. ASSUME NEW j \in DOMAIN stmts
      PROVE  /\ j \in DOMAIN prog.stmts /\ j \in Nat \ {0} /\ stmts[j] = prog.stmts[j]
             /\ stmts[j].line = j /\ stmts[j].kind \in Kept
  <2>1. j \in DOMAIN prog.stmts /\ j \in Nat \ {0}
    BY <1>2, <1>3
  <2>2. stmts[j] = prog.stmts[j] /\ prog.stmts[j].kind \in Kept
    BY <1>1, <1>2 DEF CollectInv
  <2> QED BY <1>2, <2>1, <2>2
<1>5. ASSUME NEW j \in DOMAIN prog.stmts, prog.stmts[j].kind \in Kept PROVE j \in DOMAIN stmts
  <2>1. j \in 1..(index - 1)
    BY <1>2, <1>3
  <2>2. j <= Len(stmts)
    BY <1>1, <1>5, <2>1 DEF CollectInv
  <2> QED BY <1>2, <2>2
<1>6. retSlot # None => /\ Len(prog.stmts) = Len(stmts) + 1
                        /\ prog.stmts[Len(prog.stmts)].kind = "return"
  <2>1. SUFFICES ASSUME retSlot # None PROVE Len(prog.stmts) = Len(stmts) + 1
    BY <1>1 DEF CollectInv
  <2>2. Len(prog.stmts) > 0 /\ prog.stmts[Len(prog.stmts)].kind = "return"
    BY <1>1, <2>1 DEF CollectInv
  <2>3. Len(prog.stmts) \notin DOMAIN stmts
    BY <1>4, <2>2 DEF Kept
  <2>4. Len(stmts) < Len(prog.stmts)
    BY <1>2, <1>3, <2>2, <2>3
  <2>5. Len(stmts) + 1 \in DOMAIN prog.stmts /\ Len(stmts) + 1 \notin DOMAIN stmts
    BY <1>2, <2>4
  <2>6. prog.stmts[Len(stmts) + 1].kind \notin Kept
    BY <1>5, <2>5
  <2>7. ~ (Len(stmts) + 1 < Len(prog.stmts))
    BY <2>5, <2>6 DEF FirstLoopDone, EarlyReturn
  <2> QED BY <1>2, <2>4, <2>7
<1> QED BY <1>1, <1>2, <1>3, <1>4, <1>5, <1>6

\* and every name is last written where it is in the source.
LEMMA CollectedLastWrite ==
  ASSUME FirstLoopDone, NEW i \in Nat, i <= Len(stmts) + 1, NEW slot
  PROVE  LastWrite(stmts, i, slot) = LastWrite(prog.stmts, i, slot)
<1>1. /\ prog.stmts \in Seq(Range(prog.stmts)) /\ stmts \in Seq(Range(stmts))
      /\ Len(stmts) \in Nat /\ DOMAIN stmts = 1..Len(stmts) /\ DOMAIN prog.stmts = 1..Len(prog.stmts)
      /\ Len(prog.stmts) \in Nat /\ Len(stmts) <= Len(prog.stmts)
      /\ \A j \in DOMAIN stmts : stmts[j] = prog.stmts[j]
  BY CollectedText, SourceLines
<1>2. \A m \in Nat : m < i => (m \in DOMAIN stmts <=> m \in DOMAIN prog.stmts)
  BY <1>1
<1>3. PICK ss, tt : ss = stmts /\ tt = prog.stmts
  OBVIOUS
<1>4. ss \in Seq(Range(ss)) /\ tt \in Seq(Range(tt))
  BY <1>1, <1>3
<1>5. \A m \in Nat : m < i => (m \in DOMAIN ss <=> m \in DOMAIN tt)
  BY <1>2, <1>3
<1>6. \A m \in DOMAIN ss : m < i => ss[m] = tt[m]
  BY <1>1, <1>3
<1>7. LastWrite(ss, i, slot) = LastWrite(tt, i, slot)
  BY ONLY SameText, <1>4, <1>5, <1>6, i \in Nat
<1> QED BY <1>3, <1>7

\* No two positions of the source hold operations with one identity or place.
LEMMA SourcePos ==
  ASSUME prog \in Programs,
         NEW i \in DOMAIN prog.stmts, NEW j \in DOMAIN prog.stmts[i].code,
         NEW m \in DOMAIN prog.stmts, NEW n \in DOMAIN prog.stmts[m].code,
         \/ prog.stmts[i].code[j].id = prog.stmts[m].code[n].id
         \/ prog.stmts[i].code[j].at = prog.stmts[m].code[n].at
  PROVE  i = m /\ j = n
BY PlanAssumption DEF IsProgram

\* The second loop begins with the statements that run.
LEMMA CollectedInv ==
  ASSUME FirstLoopDone
  PROVE  BInv'
<1>1. /\ prog \in Programs /\ stmts \in Seq(Range(stmts)) /\ Len(stmts) \in Nat
      /\ DOMAIN stmts = 1..Len(stmts)
      /\ \A j \in DOMAIN stmts :
           /\ j \in DOMAIN prog.stmts /\ j \in Nat \ {0} /\ stmts[j] = prog.stmts[j]
           /\ stmts[j].line = j /\ stmts[j].kind \in Kept
      /\ \A j \in DOMAIN prog.stmts : prog.stmts[j].kind \in Kept => j \in DOMAIN stmts
  BY CollectedText
<1>2. /\ prog' = prog /\ stmts' = stmts /\ retSlot' = retSlot /\ index' = 1 /\ phase' = "splice"
  BY DEF FirstLoopDone, Collected
<1>3. PlanTypes'
  BY <1>1, <1>2 DEF PlanTypes
<1>4. Shape'
  <2>1. ASSUME NEW j \in DOMAIN stmts PROVE StmtShape(j)
    <3> DEFINE s == stmts[j]
    <3>1. s = prog.stmts[j] /\ IsStmt(s) /\ s.line = j /\ j \in DOMAIN prog.stmts /\ s.kind \in Kept
      BY <1>1, SourceLines
    <3>2. s.code \in Seq(Range(s.code)) /\ s.code # <<>>
      BY <3>1, StmtCode
    <3>3. s = [kind |-> s.kind, out |-> s.out, code |-> s.code, line |-> s.line]
      BY <3>1 DEF IsStmt
    <3>4. \A o \in Range(s.code) : \E n \in DOMAIN prog.stmts : prog.stmts[n].kind \in Kept /\ FromLine(o, n)
      BY <3>1 DEF FromLine
    <3> QED BY <3>1, <3>2, <3>3, <3>4 DEF StmtShape
  <2>2. \A i, j \in DOMAIN stmts : i < j => stmts[i].line < stmts[j].line
    BY <1>1
  <2>3. ASSUME NEW j \in DOMAIN stmts PROVE StmtShape(j)'
    <3>1. StmtShape(j)
      BY <2>1
    <3> QED BY <1>2, <3>1 DEF StmtShape, FromLine, MovedFrom
  <2> QED BY <1>2, <2>2, <2>3 DEF Shape
<1>5. Fresh'
  <2>1. ASSUME NEW j \in DOMAIN stmts, j > 1
        PROVE  stmts[j] = prog.stmts[stmts[j].line] /\ stmts[j].line = stmts[j - 1].line + 1
    <3>1. j - 1 \in DOMAIN stmts
      BY <1>1, <2>1
    <3> QED BY <1>1, <3>1
  <2> QED BY <1>2, <2>1 DEF Fresh
<1>6. Unique'
  <2>1. SUFFICES ASSUME NEW r \in Pos(stmts), NEW t \in Pos(stmts),
                        OpAt(stmts, r).id = OpAt(stmts, t).id \/ OpAt(stmts, r).at = OpAt(stmts, t).at
                 PROVE  r = t
    BY <1>2 DEF Unique, Pos, OpAt
  <2>2. PICK i, j : i \in DOMAIN stmts /\ j \in DOMAIN stmts[i].code /\ r = <<i, j>>
    BY PosPair
  <2>3. PICK m, n : m \in DOMAIN stmts /\ n \in DOMAIN stmts[m].code /\ t = <<m, n>>
    BY PosPair
  <2>4. /\ i \in DOMAIN prog.stmts /\ j \in DOMAIN prog.stmts[i].code
        /\ m \in DOMAIN prog.stmts /\ n \in DOMAIN prog.stmts[m].code
        /\ OpAt(stmts, r) = prog.stmts[i].code[j] /\ OpAt(stmts, t) = prog.stmts[m].code[n]
    BY <1>1, <2>2, <2>3 DEF OpAt
  <2>5. i = m /\ j = n
    BY <1>1, <2>1, <2>4, SourcePos
  <2> QED BY <2>2, <2>3, <2>5
<1>7. NothingLost'
  <2>1. ASSUME NEW n \in DOMAIN prog.stmts, prog.stmts[n].kind \in Kept, NEW q \in Range(prog.stmts[n].code)
        PROVE  \E r \in Pos(stmts) : OpAt(stmts, r).id = q.id
    <3>1. n \in DOMAIN stmts /\ stmts[n] = prog.stmts[n]
      BY <1>1, <2>1
    <3>2. PICK j \in DOMAIN stmts[n].code : q = stmts[n].code[j]
      BY <2>1, <3>1 DEF Range
    <3>3. <<n, j>> \in Pos(stmts) /\ OpAt(stmts, <<n, j>>).id = q.id
      BY <3>1, <3>2, InPos DEF OpAt
    <3> QED BY <3>3
  <2> QED BY <1>2, <2>1 DEF NothingLost, Pos, OpAt
<1>8. Returned'
  <2>1. ASSUME retSlot # None
        PROVE  /\ Len(prog.stmts) > 0 /\ prog.stmts[Len(prog.stmts)].kind = "return"
               /\ LastWrite(stmts, Len(stmts) + 1, retSlot) = LastWrite(prog.stmts, Len(prog.stmts), retSlot)
    <3>1. Len(prog.stmts) = Len(stmts) + 1 /\ prog.stmts[Len(prog.stmts)].kind = "return"
      BY <2>1, CollectedText
    <3>2. Len(stmts) + 1 \in Nat /\ Len(stmts) + 1 <= Len(stmts) + 1
      BY <1>1
    <3>3. LastWrite(stmts, Len(stmts) + 1, retSlot) = LastWrite(prog.stmts, Len(stmts) + 1, retSlot)
      BY <3>2, CollectedLastWrite
    <3> QED BY <1>1, <3>1, <3>3
  <2> QED BY <1>2, <2>1 DEF Returned
<1> QED BY <1>2, <1>3, <1>4, <1>5, <1>6, <1>7, <1>8 DEF BInv

\* What every name holds is as in the source,
LEMMA CollectedReads ==
  ASSUME FirstLoopDone
  PROVE  ReadsInv'
<1>1. /\ prog \in Programs /\ Len(stmts) \in Nat /\ DOMAIN stmts = 1..Len(stmts)
      /\ \A j \in DOMAIN stmts : j \in DOMAIN prog.stmts /\ j \in Nat \ {0} /\ stmts[j] = prog.stmts[j]
  BY CollectedText
<1>2. /\ prog' = prog /\ stmts' = stmts /\ retSlot' = retSlot
  BY DEF FirstLoopDone, Collected
<1>3. ASSUME NEW i \in DOMAIN stmts, NEW o \in Range(stmts[i].code), NEW n \in DOMAIN prog.stmts,
             o \in Range(prog.stmts[n].code)
      PROVE  LastWrite(stmts, i, o.slot) = LastWrite(prog.stmts, n, o.slot)
  <2>1. i \in DOMAIN prog.stmts /\ o \in Range(prog.stmts[i].code)
    BY <1>1
  <2>2. n = i
    BY <1>1, <1>3, <2>1, SameOp
  <2>3. i \in Nat /\ i <= Len(stmts) + 1
    BY <1>1
  <2> QED BY <2>2, <2>3, CollectedLastWrite
<1> QED BY <1>2, <1>3 DEF ReadsInv, Live

\* at a field store too,
LEMMA CollectedSets ==
  ASSUME FirstLoopDone
  PROVE  SetsInv'
<1>1. /\ Len(stmts) \in Nat /\ DOMAIN stmts = 1..Len(stmts)
      /\ \A j \in DOMAIN stmts : stmts[j].line = j
  BY CollectedText
<1>2. /\ prog' = prog /\ stmts' = stmts
  BY DEF FirstLoopDone, Collected
<1>3. ASSUME NEW i \in DOMAIN stmts
      PROVE  LastWrite(stmts, i, stmts[i].out) = LastWrite(prog.stmts, stmts[i].line, stmts[i].out)
  <2>1. i \in Nat /\ i <= Len(stmts) + 1 /\ stmts[i].line = i
    BY <1>1
  <2> QED BY <2>1, CollectedLastWrite
<1> QED BY <1>2, <1>3 DEF SetsInv

\* and so is the order.
LEMMA CollectedOrder ==
  ASSUME FirstLoopDone, NEW K
  PROVE  OrderInv(K)'
<1>1. /\ prog \in Programs
      /\ \A j \in DOMAIN stmts : j \in DOMAIN prog.stmts /\ stmts[j] = prog.stmts[j]
  BY CollectedText
<1>2. prog' = prog /\ stmts' = stmts
  BY DEF FirstLoopDone, Collected
<1>3. ASSUME NEW r \in Pos(stmts), NEW t \in Pos(stmts)
      PROVE  Lt(r, t) <=> Precedes(prog.stmts, OpAt(stmts, r).id, OpAt(stmts, t).id)
  <2>1. PICK i, j : i \in DOMAIN stmts /\ j \in DOMAIN stmts[i].code /\ r = <<i, j>>
    BY PosPair
  <2>2. PICK m, n : m \in DOMAIN stmts /\ n \in DOMAIN stmts[m].code /\ t = <<m, n>>
    BY PosPair
  <2>3. /\ i \in DOMAIN prog.stmts /\ j \in DOMAIN prog.stmts[i].code
        /\ m \in DOMAIN prog.stmts /\ n \in DOMAIN prog.stmts[m].code
        /\ OpAt(stmts, r) = prog.stmts[i].code[j] /\ OpAt(stmts, t) = prog.stmts[m].code[n]
    BY <1>1, <2>1, <2>2 DEF OpAt
  <2>4. Lt(r, t) <=> (i < m \/ (i = m /\ j < n))
    BY <2>1, <2>2 DEF Lt
  <2>5. ASSUME Lt(r, t) PROVE Precedes(prog.stmts, OpAt(stmts, r).id, OpAt(stmts, t).id)
    BY <2>3, <2>4, <2>5 DEF Precedes
  <2>6. ASSUME Precedes(prog.stmts, OpAt(stmts, r).id, OpAt(stmts, t).id) PROVE Lt(r, t)
    <3>1. PICK a \in DOMAIN prog.stmts, c \in DOMAIN prog.stmts :
            \E b \in DOMAIN prog.stmts[a].code, d \in DOMAIN prog.stmts[c].code :
              /\ prog.stmts[a].code[b].id = OpAt(stmts, r).id /\ prog.stmts[c].code[d].id = OpAt(stmts, t).id
              /\ a < c \/ (a = c /\ b < d)
      BY <2>6 DEF Precedes
    <3>2. PICK b \in DOMAIN prog.stmts[a].code, d \in DOMAIN prog.stmts[c].code :
              /\ prog.stmts[a].code[b].id = OpAt(stmts, r).id /\ prog.stmts[c].code[d].id = OpAt(stmts, t).id
              /\ a < c \/ (a = c /\ b < d)
      BY <3>1
    <3>3. a = i /\ b = j
      BY <1>1, <2>3, <3>2, SourcePos
    <3>4. c = m /\ d = n
      BY <1>1, <2>3, <3>2, SourcePos
    <3> QED BY <2>4, <3>2, <3>3, <3>4
  <2> QED BY <2>5, <2>6
<1> QED BY <1>2, <1>3 DEF OrderInv, Pos, OpAt

-----------------------------------------------------------------------------
(* Every step *)

\* The planner starts within the invariant.
LEMMA StartInv ==
  ASSUME PlanInit
  PROVE  BInv /\ ReadsInv /\ SetsInv /\ (\A K : OrderInv(K))
<1>1. /\ prog \in Programs /\ phase = "collect" /\ index = 1 /\ stmts = <<>> /\ retSlot = None
      /\ Len(stmts) = 0
  BY DEF PlanInit
<1>2. Len(prog.stmts) \in Nat
  BY <1>1, SourceLines
<1>3. PlanTypes
  BY <1>1 DEF PlanTypes
<1>4. CollectInv
  BY <1>1, <1>2 DEF CollectInv
<1> QED BY <1>1, <1>3, <1>4 DEF BInv, ReadsInv, SetsInv, OrderInv

\* The plan as it is, seen from one statement further or after the loop.
LEMMA PassBy ==
  ASSUME BInv, phase \in {"splice", "planned"}, phase' \in {"splice", "planned"},
         index' \in {index, index + 1}, UNCHANGED <<prog, stmts, retSlot>>
  PROVE  /\ BInv' /\ (ReadsInv => ReadsInv') /\ (\A K : OrderInv(K) => OrderInv(K)')
<1>1. PlanTypes /\ Shape /\ Fresh /\ Unique /\ NothingLost /\ Returned
  BY DEF BInv
<1>2. PlanTypes' /\ DOMAIN stmts \subseteq Nat
  BY <1>1, SeqDomain DEF PlanTypes
<1>3. Shape'
  <2>1. ASSUME NEW j \in DOMAIN stmts PROVE StmtShape(j)'
    <3>1. StmtShape(j)
      BY <1>1 DEF Shape
    <3> QED BY <3>1 DEF StmtShape, FromLine, MovedFrom
  <2> QED BY <1>1, <2>1 DEF Shape
<1>4. Fresh'
  BY <1>1, <1>2 DEF Fresh, PlanTypes
<1>5. Unique' /\ NothingLost'
  BY <1>1 DEF Unique, NothingLost, Pos, OpAt
<1>6. Returned'
  BY <1>1 DEF Returned
<1>7. ReadsInv => ReadsInv'
  BY DEF ReadsInv, Live
<1>8. ASSUME NEW K, OrderInv(K) PROVE OrderInv(K)'
  BY <1>8 DEF OrderInv, Pos, OpAt
<1> QED BY <1>2, <1>3, <1>4, <1>5, <1>6, <1>7, <1>8 DEF BInv

\* A splice keeps the invariant.
LEMMA SpliceInv ==
  ASSUME NEW k, Splices(k)
  PROVE  BInv'
<1>1. /\ prog \in Programs /\ index \in Nat \ {0} /\ phase = "splice"
      /\ prog' = prog /\ phase' = phase /\ index' = index /\ stmts' \in Seq(Range(stmts'))
  BY LoopText, SplicedText DEF Splices, Spliceable, Looping
<1>2. PlanTypes'
  BY <1>1 DEF PlanTypes
<1> QED BY <1>1, <1>2, SpliceShape, SpliceFresh, SpliceUnique, SpliceNothingLost, SpliceReturned DEF BInv

\* A step of the planner does one of these things.
LEMMA StepKinds ==
  ASSUME BInv, PlanNext, ~ EarlyReturn(prog)
  PROVE  \/ FirstLoop /\ (Keep \/ KeepName \/ DropReturn)
         \/ phase' = "refused" /\ UNCHANGED <<prog, index, stmts, retSlot>>
         \/ FirstLoopDone
         \/ \E k : Splices(k)
         \/ /\ phase = "splice" /\ phase' \in {"splice", "planned"} /\ index' \in {index, index + 1}
            /\ UNCHANGED <<prog, stmts, retSlot>>
<1>1. CASE Keep \/ KeepName \/ DropReturn
  BY <1>1 DEF Keep, KeepName, DropReturn, FirstLoop
<1>2. CASE Refuse
  BY <1>2 DEF Refuse
<1>3. CASE Collected
  BY <1>3 DEF FirstLoopDone
<1>4. CASE Splice
  <2>1. PICK k \in Target : SpliceAt(k)
    BY <1>4 DEF Splice
  <2>2. phase = "splice" /\ Splicing /\ UNCHANGED <<prog, phase, index, retSlot>>
    BY <1>4 DEF Splice, Splicing
  <2>3. Spliceable(k)
    BY <2>1, <2>2 DEF Spliceable, Looping
  <2>4. Splices(k)
    BY <2>1, <2>2, <2>3 DEF Splices
  <2> QED BY <2>4
<1>5. CASE Skip \/ Planned
  BY <1>5 DEF Skip, Planned, Splicing
<1> QED BY <1>1, <1>2, <1>3, <1>4, <1>5 DEF PlanNext

\* A program without an early return is planned within the invariant.
LEMMA StepInv ==
  ASSUME BInv, [PlanNext]_planVars, ~ EarlyReturn(prog)
  PROVE  BInv'
<1>1. CASE FirstLoop /\ Keep
  BY <1>1, KeepInv
<1>2. CASE FirstLoop /\ (KeepName \/ DropReturn)
  <2>1. /\ Current.kind \notin Kept /\ index' = index + 1 /\ UNCHANGED <<prog, phase, stmts>>
        /\ retSlot' # None => Current.kind = "return"
    <3>1. retSlot = None
      BY <1>2, CollectText
    <3> QED BY <1>2, <3>1 DEF KeepName, DropReturn, Kept
  <2> QED BY <1>2, <2>1, LeaveLine
<1>3. CASE phase' = "refused" /\ UNCHANGED <<prog, index, stmts, retSlot>>
  BY <1>3 DEF BInv, PlanTypes
<1>4. CASE FirstLoopDone
  BY <1>4, CollectedInv
<1>5. CASE \E k : Splices(k)
  BY <1>5, SpliceInv
<1>6. CASE /\ phase = "splice" /\ phase' \in {"splice", "planned"} /\ index' \in {index, index + 1}
           /\ UNCHANGED <<prog, stmts, retSlot>>
  BY <1>6, PassBy
<1>7. CASE UNCHANGED planVars
  <2>1. CASE phase \in {"splice", "planned"}
    BY <1>7, <2>1, PassBy DEF planVars
  <2>2. CASE phase = "collect"
    BY <1>7, <2>2 DEF planVars, BInv, PlanTypes, CollectInv
  <2>3. CASE phase = "refused"
    BY <1>7, <2>3 DEF planVars, BInv, PlanTypes
  <2> QED BY <2>1, <2>2, <2>3 DEF BInv, PlanTypes
<1> QED BY <1>1, <1>2, <1>3, <1>4, <1>5, <1>6, <1>7, StepKinds

\* If it also hides no read, every read of the plan stays what it was.
LEMMA StepReads ==
  ASSUME BInv, ReadsInv, [PlanNext]_planVars, ~ EarlyReturn(prog), ~ HiddenRead(prog)
  PROVE  ReadsInv'
<1>1. CASE FirstLoop /\ (Keep \/ KeepName \/ DropReturn)
  BY <1>1 DEF FirstLoop, Collecting, Keep, KeepName, DropReturn, ReadsInv
<1>2. CASE phase' = "refused"
  BY <1>2 DEF ReadsInv
<1>3. CASE FirstLoopDone
  BY <1>3, CollectedReads
<1>4. CASE \E k : Splices(k)
  BY <1>4, SpliceReads
<1>5. CASE /\ phase = "splice" /\ phase' \in {"splice", "planned"} /\ index' \in {index, index + 1}
           /\ UNCHANGED <<prog, stmts, retSlot>>
  BY <1>5, PassBy
<1>6. CASE UNCHANGED planVars
  BY <1>6 DEF planVars, ReadsInv, Live
<1> QED BY <1>1, <1>2, <1>3, <1>4, <1>5, <1>6, StepKinds

\* Every field store goes where it went.
LEMMA StepSets ==
  ASSUME BInv, SetsInv, [PlanNext]_planVars, ~ EarlyReturn(prog)
  PROVE  SetsInv'
<1>1. CASE FirstLoop /\ (Keep \/ KeepName \/ DropReturn)
  BY <1>1 DEF FirstLoop, Collecting, Keep, KeepName, DropReturn, SetsInv
<1>2. CASE phase' = "refused"
  BY <1>2 DEF SetsInv
<1>3. CASE FirstLoopDone
  BY <1>3, CollectedSets
<1>4. CASE \E k : Splices(k)
  BY <1>4, SpliceSets
<1>5. CASE /\ phase = "splice" /\ phase' \in {"splice", "planned"} /\ index' \in {index, index + 1}
           /\ UNCHANGED <<prog, stmts, retSlot>>
  BY <1>5 DEF SetsInv
<1>6. CASE UNCHANGED planVars
  BY <1>6 DEF planVars, SetsInv
<1> QED BY <1>1, <1>2, <1>3, <1>4, <1>5, <1>6, StepKinds

\* If nothing of some kinds runs ahead of a read that moves, their order stays.
LEMMA StepOrder ==
  ASSUME NEW K, "slot" \notin K,
         BInv, OrderInv(K), [PlanNext]_planVars, ~ EarlyReturn(prog), ~ RunsAhead(prog, K)
  PROVE  OrderInv(K)'
<1>1. CASE FirstLoop /\ (Keep \/ KeepName \/ DropReturn)
  BY <1>1 DEF FirstLoop, Collecting, Keep, KeepName, DropReturn, OrderInv
<1>2. CASE phase' = "refused"
  BY <1>2 DEF OrderInv
<1>3. CASE FirstLoopDone
  BY <1>3, CollectedOrder
<1>4. CASE \E k : Splices(k)
  BY <1>4, SpliceOrder
<1>5. CASE /\ phase = "splice" /\ phase' \in {"splice", "planned"} /\ index' \in {index, index + 1}
           /\ UNCHANGED <<prog, stmts, retSlot>>
  BY <1>5, PassBy
<1>6. CASE UNCHANGED planVars
  BY <1>6 DEF planVars, OrderInv, Pos, OpAt
<1> QED BY <1>1, <1>2, <1>3, <1>4, <1>5, <1>6, StepKinds

-----------------------------------------------------------------------------
(* What follows of the plan *)

InPlan == BInv /\ phase \in {"splice", "planned"}

\* An operation of the plan and where the source has it.
LEMMA PlanOp ==
  ASSUME InPlan, NEW i \in DOMAIN stmts, NEW o \in Range(stmts[i].code)
  PROVE  \E n \in DOMAIN prog.stmts : \E q \in Range(prog.stmts[n].code) :
           /\ prog.stmts[n].kind \in Kept /\ FromLine(o, n) /\ IsOp(q)
           /\ o.id = q.id /\ o.kind = q.kind /\ o.slot = q.slot /\ o.sub = q.sub
           /\ o = q \/ (MovedFrom(o, n) /\ q = Root(prog.stmts[n]) /\ q.kind = "call" /\ q.slot = None)
<1>1. prog \in Programs /\ StmtShape(i)
  BY DEF InPlan, BInv, PlanTypes, Shape
<1>2. PICK n \in DOMAIN prog.stmts : prog.stmts[n].kind \in Kept /\ FromLine(o, n)
  BY <1>1 DEF StmtShape
<1> QED BY <1>1, <1>2, FromLineOp

\* The operation of the plan with the identity of one of the source is of its kind.
LEMMA SameKind ==
  ASSUME InPlan, NEW n \in DOMAIN prog.stmts, NEW q \in Range(prog.stmts[n].code),
         NEW r \in Pos(stmts), OpAt(stmts, r).id = q.id
  PROVE  OpAt(stmts, r).kind = q.kind
<1>1. PICK i, j : i \in DOMAIN stmts /\ j \in DOMAIN stmts[i].code /\ r = <<i, j>>
  BY PosPair
<1>2. OpAt(stmts, r) \in Range(stmts[i].code)
  BY <1>1 DEF OpAt, Range
<1>3. PICK m \in DOMAIN prog.stmts : \E p \in Range(prog.stmts[m].code) :
        OpAt(stmts, r).id = p.id /\ OpAt(stmts, r).kind = p.kind
  BY <1>1, <1>2, PlanOp
<1>4. PICK p \in Range(prog.stmts[m].code) : OpAt(stmts, r).id = p.id /\ OpAt(stmts, r).kind = p.kind
  BY <1>3
<1>5. p = q
  BY <1>4, SameOp DEF InPlan, BInv, PlanTypes
<1> QED BY <1>4, <1>5

\* Precedes, in terms of positions.
LEMMA PrecedesPos ==
  ASSUME NEW ss, NEW x, NEW y
  PROVE  Precedes(ss, x, y) <=>
           \E r \in Pos(ss) : \E t \in Pos(ss) : OpAt(ss, r).id = x /\ OpAt(ss, t).id = y /\ Lt(r, t)
<1>1. ASSUME Precedes(ss, x, y)
      PROVE  \E r \in Pos(ss) : \E t \in Pos(ss) : OpAt(ss, r).id = x /\ OpAt(ss, t).id = y /\ Lt(r, t)
  <2>1. PICK i, m, j, n :
          /\ i \in DOMAIN ss /\ m \in DOMAIN ss /\ j \in DOMAIN ss[i].code /\ n \in DOMAIN ss[m].code
          /\ ss[i].code[j].id = x /\ ss[m].code[n].id = y
          /\ i < m \/ (i = m /\ j < n)
    BY <1>1 DEF Precedes
  <2>2. <<i, j>> \in Pos(ss) /\ <<m, n>> \in Pos(ss)
    BY <2>1, InPos
  <2> QED BY <2>1, <2>2 DEF OpAt, Lt
<1>2. ASSUME NEW r \in Pos(ss), NEW t \in Pos(ss), OpAt(ss, r).id = x, OpAt(ss, t).id = y, Lt(r, t)
      PROVE  Precedes(ss, x, y)
  <2>1. PICK i, j : i \in DOMAIN ss /\ j \in DOMAIN ss[i].code /\ r = <<i, j>>
    BY PosPair
  <2>2. PICK m, n : m \in DOMAIN ss /\ n \in DOMAIN ss[m].code /\ t = <<m, n>>
    BY PosPair
  <2> QED BY <1>2, <2>1, <2>2 DEF OpAt, Lt, Precedes
<1> QED BY <1>1, <1>2

\* The invariant of the order gives KeepsOrder.
LEMMA OrderKept ==
  ASSUME NEW K, "slot" \notin K, InPlan, OrderInv(K)
  PROVE  KeepsOrder(K)
<1> DEFINE source == {l \in DOMAIN prog.stmts : prog.stmts[l].kind \in Kept}
           ids == UNION {{o.id : o \in {q \in Range(prog.stmts[l].code) : q.kind \in K}} : l \in source}
           planned == {o.id : o \in {q \in OpsOf(stmts) : q.kind \in K}}
<1>1. ASSUME NEW x \in planned PROVE x \in ids
  <2>1. PICK o \in OpsOf(stmts) : o.kind \in K /\ x = o.id
    OBVIOUS
  <2>2. PICK i \in DOMAIN stmts : o \in Range(stmts[i].code)
    BY DEF OpsOf
  <2>3. PICK n \in DOMAIN prog.stmts : \E q \in Range(prog.stmts[n].code) :
          prog.stmts[n].kind \in Kept /\ o.id = q.id /\ o.kind = q.kind
    BY <2>2, PlanOp
  <2> QED BY <2>1, <2>3
<1>2. ASSUME NEW x \in ids PROVE \E r \in Pos(stmts) : OpAt(stmts, r).id = x /\ OpAt(stmts, r).kind \in K
  <2>1. PICK n \in source : \E q \in Range(prog.stmts[n].code) : q.kind \in K /\ x = q.id
    OBVIOUS
  <2>2. PICK q \in Range(prog.stmts[n].code) : q.kind \in K /\ x = q.id
    BY <2>1
  <2>3. PICK r \in Pos(stmts) : OpAt(stmts, r).id = x
    BY <2>2 DEF InPlan, BInv, NothingLost
  <2> QED BY <2>2, <2>3, SameKind
<1>3. ASSUME NEW r \in Pos(stmts), OpAt(stmts, r).kind \in K PROVE OpAt(stmts, r).id \in planned
  <2>1. PICK i, j : i \in DOMAIN stmts /\ j \in DOMAIN stmts[i].code /\ r = <<i, j>>
    BY PosPair
  <2>2. OpAt(stmts, r) \in OpsOf(stmts)
    BY <2>1 DEF OpsOf, OpAt, Range
  <2> QED BY <1>3, <2>2
<1>4. planned = ids
  BY <1>1, <1>2, <1>3
<1>5. ASSUME NEW x \in ids, NEW y \in ids PROVE Precedes(stmts, x, y) <=> Precedes(prog.stmts, x, y)
  <2>1. PICK r \in Pos(stmts) : OpAt(stmts, r).id = x /\ OpAt(stmts, r).kind \in K
    BY <1>2
  <2>2. PICK t \in Pos(stmts) : OpAt(stmts, t).id = y /\ OpAt(stmts, t).kind \in K
    BY <1>2
  <2>3. Lt(r, t) <=> Precedes(prog.stmts, x, y)
    BY <2>1, <2>2 DEF OrderInv, InPlan
  <2>4. \A p \in Pos(stmts) : (OpAt(stmts, p).id = x => p = r) /\ (OpAt(stmts, p).id = y => p = t)
    BY <2>1, <2>2 DEF InPlan, BInv, Unique
  <2>5. Precedes(stmts, x, y) <=> Lt(r, t)
    BY <2>1, <2>2, <2>4, PrecedesPos
  <2> QED BY <2>3, <2>5
<1> QED BY <1>4, <1>5 DEF KeepsOrder

\* The operand at a place of the plan is the one at its position.
LEMMA PlanFeed ==
  ASSUME InPlan, NEW i \in DOMAIN stmts, NEW q \in Range(stmts[i].code)
  PROVE  Feed(stmts, i, q.at) = IF q.kind = "slot" THEN LastWrite(stmts, i, q.slot) ELSE q.id
<1>1. ASSUME NEW p \in Range(stmts[i].code), p.at = q.at PROVE p = q
  <2>1. PICK j \in DOMAIN stmts[i].code : p = stmts[i].code[j]
    BY DEF Range
  <2>2. PICK l \in DOMAIN stmts[i].code : q = stmts[i].code[l]
    BY DEF Range
  <2>3. <<i, j>> \in Pos(stmts) /\ <<i, l>> \in Pos(stmts)
    BY <2>1, <2>2, InPos
  <2>4. OpAt(stmts, <<i, j>>) = p /\ OpAt(stmts, <<i, l>>) = q
    BY <2>1, <2>2 DEF OpAt
  <2>5. <<i, j>> = <<i, l>>
    BY <1>1, <2>3, <2>4 DEF InPlan, BInv, Unique
  <2> QED BY <2>4, <2>5
<1>2. (CHOOSE p \in Range(stmts[i].code) : p.at = q.at) = q
  BY <1>1
<1> QED BY <1>2 DEF Feed

\* So is the operand at a place of the source.
LEMMA SourceFeed ==
  ASSUME prog \in Programs, NEW n \in DOMAIN prog.stmts, NEW w \in Range(prog.stmts[n].code)
  PROVE  Feed(prog.stmts, n, w.at) = IF w.kind = "slot" THEN LastWrite(prog.stmts, n, w.slot) ELSE w.id
<1>1. ASSUME NEW p \in Range(prog.stmts[n].code), p.at = w.at PROVE p = w
  BY <1>1, SameOp
<1>2. (CHOOSE p \in Range(prog.stmts[n].code) : p.at = w.at) = w
  BY <1>1
<1> QED BY <1>2 DEF Feed

\* The invariant of the reads gives PlanKeepsReads.
LEMMA ReadsKept ==
  ASSUME InPlan, ReadsInv, SetsInv
  PROVE  PlanKeepsReads
<1>1. prog \in Programs /\ phase \in {"splice", "planned"}
  BY DEF InPlan, BInv, PlanTypes
<1>2. ASSUME NEW i \in DOMAIN stmts, NEW o \in Range(stmts[i].code)
      PROVE  \E m \in DOMAIN prog.stmts :
               /\ \E q \in Range(prog.stmts[m].code) : q.id = o.id
               /\ o.slot \in Live \ {None} => LastWrite(stmts, i, o.slot) = LastWrite(prog.stmts, m, o.slot)
               /\ \A q \in Range(stmts[i].code) :
                    q.at \in Range(o.sub) /\ q.slot \in Live \cup {None} =>
                      Feed(stmts, i, q.at) = Feed(prog.stmts, m, q.at)
  <2>1. PICK n \in DOMAIN prog.stmts : \E q \in Range(prog.stmts[n].code) :
          /\ o.id = q.id /\ o.sub = q.sub
          /\ o = q \/ (q.slot = None /\ o.slot = q.slot)
    BY PlanOp
  <2>2. PICK p \in Range(prog.stmts[n].code) :
          /\ o.id = p.id /\ o.sub = p.sub
          /\ o = p \/ (p.slot = None /\ o.slot = p.slot)
    BY <2>1
  <2>3. o.slot \in Live \ {None} => LastWrite(stmts, i, o.slot) = LastWrite(prog.stmts, n, o.slot)
    BY <1>1, <2>2 DEF ReadsInv
  <2>4. ASSUME NEW q \in Range(stmts[i].code), q.at \in Range(o.sub), q.slot \in Live \cup {None}
        PROVE  Feed(stmts, i, q.at) = Feed(prog.stmts, n, q.at)
    <3>1. PICK w \in Range(prog.stmts[n].code) : w.at = q.at
      <4>1. PICK s : s = prog.stmts[n]
        OBVIOUS
      <4>2. IsStmt(s) /\ p \in Range(s.code) /\ q.at \in Range(p.sub)
        BY <1>1, <2>2, <2>4, <4>1, SourceLines
      <4>3. \E v \in Range(s.code) : v.at = q.at
        BY <4>2, StmtCode
      <4> QED BY <4>1, <4>3
    <3>2. Feed(prog.stmts, n, q.at) = IF w.kind = "slot" THEN LastWrite(prog.stmts, n, w.slot) ELSE w.id
      BY <1>1, <3>1, SourceFeed
    <3>3. Feed(stmts, i, q.at) = IF q.kind = "slot" THEN LastWrite(stmts, i, q.slot) ELSE q.id
      BY PlanFeed
    <3>4. PICK l \in DOMAIN prog.stmts : \E u \in Range(prog.stmts[l].code) :
            /\ IsOp(u) /\ q.id = u.id /\ q.kind = u.kind /\ q.slot = u.slot
            /\ q = u \/ (MovedFrom(q, l) /\ u = Root(prog.stmts[l]) /\ u.kind = "call")
      BY PlanOp
    <3>5. PICK u \in Range(prog.stmts[l].code) :
            /\ IsOp(u) /\ q.id = u.id /\ q.kind = u.kind /\ q.slot = u.slot
            /\ q = u \/ (MovedFrom(q, l) /\ u = Root(prog.stmts[l]) /\ u.kind = "call")
      BY <3>4
    <3>6. CASE q = u
      <4>1. w = q
        BY <1>1, <3>1, <3>5, <3>6, SameOp
      <4>2. CASE q.kind = "slot"
        <5>1. q.slot \in Live \ {None}
          BY <2>4, <3>5, <3>6, <4>2, PlanAssumption DEF IsOp, Naming
        <5>2. LastWrite(stmts, i, q.slot) = LastWrite(prog.stmts, n, q.slot)
          BY <1>1, <4>1, <5>1 DEF ReadsInv
        <5> QED BY <3>2, <3>3, <4>1, <4>2, <5>2
      <4> QED BY <3>2, <3>3, <4>1, <4>2
    <3>7. CASE MovedFrom(q, l) /\ u = Root(prog.stmts[l]) /\ u.kind = "call"
      <4>1. PICK m \in DOMAIN prog.stmts : \E r \in Range(prog.stmts[m].code) :
              /\ r.kind = "slot" /\ LastWrite(prog.stmts, m, r.slot) = u.id /\ q = SentTo(u, r.at)
        BY <3>7 DEF MovedFrom
      <4>2. PICK r \in Range(prog.stmts[m].code) :
              /\ r.kind = "slot" /\ LastWrite(prog.stmts, m, r.slot) = u.id /\ q = SentTo(u, r.at)
        BY <4>1
      <4>3. r.at = w.at
        BY <3>1, <3>5, <4>2, SentToFields
      <4>4. m = n /\ r = w
        BY <1>1, <4>3, SameOp
      <4>5. q.kind # "slot" /\ q.id = u.id
        BY <3>5, <3>7
      <4> QED BY <3>2, <3>3, <4>2, <4>4, <4>5
    <3> QED BY <3>5, <3>6, <3>7
  <2> QED BY <2>2, <2>3, <2>4
<1>3. ASSUME retSlot # None
      PROVE  \E m \in DOMAIN prog.stmts :
               /\ prog.stmts[m].kind = "return"
               /\ LastWrite(stmts, Len(stmts) + 1, retSlot) = LastWrite(prog.stmts, m, retSlot)
  <2>1. /\ Len(prog.stmts) > 0 /\ prog.stmts[Len(prog.stmts)].kind = "return"
        /\ LastWrite(stmts, Len(stmts) + 1, retSlot) = LastWrite(prog.stmts, Len(prog.stmts), retSlot)
    BY <1>3 DEF InPlan, BInv, Returned
  <2>2. Len(prog.stmts) \in DOMAIN prog.stmts
    BY <1>1, <2>1, SourceLines
  <2> QED BY <2>1, <2>2
<1>4. \A i \in DOMAIN stmts : stmts[i].kind = "set" =>
        LastWrite(stmts, i, stmts[i].out) = LastWrite(prog.stmts, stmts[i].line, stmts[i].out)
  BY <1>1 DEF SetsInv
<1> QED BY <1>2, <1>3, <1>4 DEF PlanKeepsReads

-----------------------------------------------------------------------------
(* The theorems *)

\* PlanKeepsCalls: stepjit_plan.go:93-95.  Whatever the program, unless a return
\* has statements after it (stepjit_plan.go:104-118) or findSplice would move a
\* producer past a call it does not look at (stepjit_plan.go:266-299), the plan
\* has exactly the calls of the source, in the order the source runs them.
THEOREM CallsKept ==
  ASSUME \A p \in Programs : ~ EarlyReturn(p) /\ ~ RunsAhead(p, {"call"})
  PROVE  PlanSpec => []PlanKeepsCalls
<1> DEFINE Inv == BInv /\ OrderInv({"call"})
<1>1. PlanInit => Inv
  BY StartInv
<1>2. Inv /\ [PlanNext]_planVars => Inv'
  <2>1. SUFFICES ASSUME BInv, OrderInv({"call"}), [PlanNext]_planVars PROVE Inv'
    OBVIOUS
  <2>2. ~ EarlyReturn(prog) /\ ~ RunsAhead(prog, {"call"})
    BY <2>1 DEF BInv, PlanTypes
  <2> QED BY <2>1, <2>2, StepInv, StepOrder
<1>3. Inv => PlanKeepsCalls
  BY OrderKept DEF InPlan, PlanKeepsCalls
<1> QED BY <1>1, <1>2, <1>3, PTL DEF PlanSpec

\* PlanKeepsReads: stepjit_plan.go:88-91, 247-249.  Whatever the program, unless
\* a return has statements after it or a name written twice is read where
\* countArgReads does not look (stepjit_plan.go:250-263), every operation of the
\* plan, every field store and the return work on the values they work on in the
\* source.
THEOREM ReadsStay ==
  ASSUME \A p \in Programs : ~ EarlyReturn(p) /\ ~ HiddenRead(p)
  PROVE  PlanSpec => []PlanKeepsReads
<1> DEFINE Inv == BInv /\ ReadsInv /\ SetsInv
<1>1. PlanInit => Inv
  BY StartInv
<1>2. Inv /\ [PlanNext]_planVars => Inv'
  <2>1. SUFFICES ASSUME BInv, ReadsInv, SetsInv, [PlanNext]_planVars PROVE Inv'
    OBVIOUS
  <2>2. ~ EarlyReturn(prog) /\ ~ HiddenRead(prog)
    BY <2>1 DEF BInv, PlanTypes
  <2> QED BY <2>1, <2>2, StepInv, StepReads, StepSets
<1>3. Inv => PlanKeepsReads
  BY ReadsKept DEF InPlan, PlanKeepsReads
<1> QED BY <1>1, <1>2, <1>3, PTL DEF PlanSpec
=============================================================================
