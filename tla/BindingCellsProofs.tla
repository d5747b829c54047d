-------------------------- MODULE BindingCellsProofs --------------------------
(***************************************************************************)
(* Proofs about BindingCells, for every set of programs and any number of  *)
(* runs, names and types.                                                  *)
(***************************************************************************)
EXTENDS BindingCells, SequenceTheorems, TLAPS

(***************************************************************************)
(* The inductive invariant.  A cell's header shows the host's array or one *)
(* the run made for this very name at an earlier operation, so no two      *)
(* cells meet in an array a run made; and what a header shows was stored.  *)
(***************************************************************************)
MadeFor(r, n) == {<<r, i>> : i \in {j \in 1..(ip[r] - 1) : program[j].name = n}}

HeadsApart ==
  /\ \A n \in Names : heads[n].arr = n /\ heads[n].len = Len(Bound[n])
  /\ \A r \in Runs, n \in Names : heads[<<r, n>>].arr \in {n} \cup MadeFor(r, n)

HeadsFilled ==
  \A at \in Names \cup Cells :
    LET h == heads[at] IN
      /\ h.len <= Len(arrays[h.arr])
      /\ \A k \in 1..h.len : arrays[h.arr][k] \in Elems

CachesRight ==
  /\ \A i \in 1..MaxOps : cache[i] # None => cache[i].ok = (cache[i].typ \in Accepts)
  /\ \A r \in Runs : asked[r] => Turn(r, "stack") /\ given[r] \in Types

IdleRuns == \A r \in Runs : phase[r] = "idle" => ip[r] = 1 /\ ~asked[r]

IInv ==
  /\ TypeOK
  /\ HeadsApart
  /\ HeadsFilled
  /\ CachesRight
  /\ IdleRuns
  /\ AnswersFitTheType

-----------------------------------------------------------------------------
(* Slices *)

\* The first k elements of s.
LEMMA PrefixIs ==
  ASSUME NEW S, NEW s, NEW k \in Nat, \A j \in 1..k : s[j] \in S
  PROVE  /\ SubSeq(s, 1, k) \in Seq(S) /\ Len(SubSeq(s, 1, k)) = k
         /\ \A j \in 1..k : SubSeq(s, 1, k)[j] = s[j]
BY SubSeqProperties

\* One sequence is another with v behind it.
LEMMA AppendIs ==
  ASSUME NEW S, NEW s \in Seq(S), NEW t \in Seq(S), NEW v \in S,
         Len(t) = Len(s) + 1, t[Len(s) + 1] = v, \A j \in 1..Len(s) : t[j] = s[j]
  PROVE  t = Append(s, v)
<1>1. /\ Append(s, v) \in Seq(S) /\ Len(Append(s, v)) = Len(s) + 1
      /\ \A j \in 1..Len(s) : Append(s, v)[j] = s[j]
      /\ Append(s, v)[Len(s) + 1] = v
  BY AppendProperties
<1>2. \A j \in 1..Len(t) : t[j] = Append(s, v)[j]
  BY <1>1
<1>3. QED
  BY <1>1, <1>2, SeqEqual

\* An append in place shows what it stored behind what was there.
LEMMA StoreBehind ==
  ASSUME NEW S, NEW Z, S \subseteq Z, NEW s \in Seq(Z), NEW k \in Nat, k < Len(s),
         NEW v \in S, \A j \in 1..k : s[j] \in S,
         NEW t, t = [s EXCEPT ![k + 1] = v]
  PROVE  /\ t \in Seq(Z) /\ Len(t) = Len(s)
         /\ \A j \in 1..Len(s) : t[j] = IF j = k + 1 THEN v ELSE s[j]
         /\ SubSeq(t, 1, k + 1) = Append(SubSeq(s, 1, k), v)
<1>1. /\ t \in Seq(Z) /\ Len(t) = Len(s)
      /\ \A j \in 1..Len(s) : t[j] = IF j = k + 1 THEN v ELSE s[j]
  <2>1. k + 1 \in 1..Len(s) /\ v \in Z
    OBVIOUS
  <2>2. QED
    BY <2>1, ExceptSeq
<1>2. /\ SubSeq(t, 1, k + 1) \in Seq(S) /\ Len(SubSeq(t, 1, k + 1)) = k + 1
      /\ \A j \in 1..(k + 1) : SubSeq(t, 1, k + 1)[j] = t[j]
  <2>1. k + 1 \in Nat /\ \A j \in 1..(k + 1) : t[j] \in S
    BY <1>1
  <2>2. QED
    BY <2>1, PrefixIs
<1>3. /\ SubSeq(s, 1, k) \in Seq(S) /\ Len(SubSeq(s, 1, k)) = k
      /\ \A j \in 1..k : SubSeq(s, 1, k)[j] = s[j]
  BY PrefixIs
<1>4. SubSeq(t, 1, k + 1) = Append(SubSeq(s, 1, k), v)
  BY <1>1, <1>2, <1>3, AppendIs
<1>5. QED
  BY <1>1, <1>4

\* An array with spare room shows what was put in it.
LEMMA SpareHides ==
  ASSUME NEW S, NEW Z, S \subseteq Z, Zero \in Z, NEW s \in Seq(S), NEW k \in Nat
  PROVE  LET t == s \o Zeros(k) IN
           /\ t \in Seq(Z) /\ Len(t) = Len(s) + k
           /\ \A j \in 1..Len(s) : t[j] = s[j]
           /\ SubSeq(t, 1, Len(s)) = s
<1> DEFINE t == s \o Zeros(k)
<1>1. Zeros(k) \in Seq(Z) /\ Len(Zeros(k)) = k
  BY DEF Zeros
<1>2. s \in Seq(Z)
  OBVIOUS
<1>3. /\ t \in Seq(Z) /\ Len(t) = Len(s) + k
      /\ \A j \in 1..(Len(s) + k) : t[j] = IF j <= Len(s) THEN s[j] ELSE Zeros(k)[j - Len(s)]
  BY <1>1, <1>2, ConcatProperties
<1> HIDE DEF t
<1>4. \A j \in 1..Len(s) : t[j] = s[j]
  BY <1>3
<1>5. /\ SubSeq(t, 1, Len(s)) \in Seq(S) /\ Len(SubSeq(t, 1, Len(s))) = Len(s)
      /\ \A j \in 1..Len(s) : SubSeq(t, 1, Len(s))[j] = t[j]
  <2>1. Len(s) \in Nat /\ \A j \in 1..Len(s) : t[j] \in S
    BY <1>4
  <2>2. QED
    BY <2>1, PrefixIs
<1>6. SubSeq(t, 1, Len(s)) = s
  BY <1>4, <1>5, SeqEqual
<1>7. QED
  BY <1>3, <1>4, <1>6 DEF t

\* What a header shows was stored by the host or by a run.
LEMMA SliceIs ==
  ASSUME IInv, NEW at \in Names \cup Cells
  PROVE  LET h == heads[at] IN
           /\ h \in Header /\ arrays[h.arr] \in Seq(Elems \cup {Zero})
           /\ h.len \in 0..Len(arrays[h.arr])
           /\ \A k \in 1..h.len : arrays[h.arr][k] \in Elems
           /\ Slice(h) \in Seq(Elems) /\ Len(Slice(h)) = h.len
<1> DEFINE h == heads[at]
<1>1. /\ h \in Header /\ arrays[h.arr] \in Seq(Elems \cup {Zero})
      /\ h.len <= Len(arrays[h.arr]) /\ h.len \in Nat
      /\ \A k \in 1..h.len : arrays[h.arr][k] \in Elems
  BY DEF IInv, TypeOK, HeadsFilled, Header
<1> HIDE DEF h
<1>2. Slice(h) \in Seq(Elems) /\ Len(Slice(h)) = h.len
  BY <1>1, PrefixIs DEF Slice
<1>3. QED
  BY <1>1, <1>2 DEF h

-----------------------------------------------------------------------------
(* Turns *)

LEMMA TurnIs ==
  ASSUME TypeOK, NEW r \in Runs, ip[r] \in DOMAIN program
  PROVE  /\ ip[r] \in 1..MaxOps /\ ip[r] + 1 \in 1..(MaxOps + 1)
         /\ <<r, ip[r]>> \in MadeArrays /\ <<r, ip[r]>> \in Elems
         /\ <<r, ip[r]>> \notin Names
         /\ At(r).kind \in {"read", "append", "set"} => At(r).name \in Names
         /\ At(r).kind \in {"load", "store"} => At(r).name \in Pointers
<1>1. IsProgram(program)
  BY BoundNamesAssumption DEF TypeOK
<1>2. ip[r] \in 1..MaxOps
  BY <1>1, BoundNamesAssumption DEF IsProgram, TypeOK
<1>3. QED
  BY <1>1, <1>2, BoundNamesAssumption DEF IsProgram, At, MadeArrays, Elems

\* A name and a cell are different places.
LEMMA PlacesDiffer ==
  /\ Names \cap Cells = {}
  /\ \A r \in Runs, n \in Names : <<r, n>> \in Cells
BY BoundNamesAssumption DEF Cells

LEMMA VarCellsAreNames == ASSUME TypeOK PROVE VarCells \subseteq Names
<1>1. IsProgram(program)
  BY BoundNamesAssumption DEF TypeOK
<1>2. QED
  BY <1>1 DEF IsProgram, VarCells, Assigned, Addressed

\* Where a write lands.
LEMMA CellIs ==
  ASSUME TypeOK, NEW r \in Runs, ip[r] \in DOMAIN program,
         At(r).kind \in {"append", "set"}, Place(r, At(r)) \in Cells
  PROVE  /\ At(r).name \in Names /\ At(r).name \in VarCells
         /\ Cell(r) = <<r, At(r).name>>
BY TurnIs, PlacesDiffer DEF Place, Cell

\* Whatever moves on without asking the caches keeps its answers.
LEMMA AdvanceKeepsAnswers ==
  ASSUME TypeOK, IdleRuns, CachesRight, AnswersFitTheType, NEW r \in Runs,
         ip[r] \in DOMAIN program, phase[r] = "run", Advance(r), UNCHANGED cache,
         asked' = asked, ~asked[r], 
         At(r).kind = "stack" => given[r] \in Accepts \cup {None}
  PROVE  CachesRight' /\ IdleRuns' /\ AnswersFitTheType'
<1>1. /\ \A q \in Runs \ {r} : ip'[q] = ip[q]
      /\ ip'[r] = ip[r] + 1 /\ UNCHANGED <<program, phase, given>>
  BY DEF Advance, TypeOK
<1>2. CachesRight'
  BY <1>1 DEF CachesRight, Turn
<1>3. IdleRuns'
  BY <1>1 DEF IdleRuns
<1>4. \A i \in 1..(ip'[r] - 1) : i \in 1..(ip[r] - 1) \/ i = ip[r]
  BY <1>1 DEF TypeOK
<1>5. AnswersFitTheType'
  <2>1. \A q \in Runs : phase'[q] = "refused" => given'[q] \notin Accepts \cup {None}
    BY <1>1 DEF AnswersFitTheType
  <2>2. ASSUME NEW q \in Runs, NEW i \in 1..(ip'[q] - 1), program'[i].kind = "stack"
        PROVE  given'[q] \in Accepts \cup {None}
    BY <1>1, <1>4, <2>2 DEF AnswersFitTheType, At
  <2>3. QED
    BY <2>1, <2>2 DEF AnswersFitTheType
<1>6. QED
  BY <1>2, <1>3, <1>5

-----------------------------------------------------------------------------
(* Steps that leave the slices alone *)

\* A run keeps the arrays it made.
LEMMA MadeForKept ==
  ASSUME TypeOK, UNCHANGED program, \A q \in Runs : ip'[q] \in Nat /\ ip'[q] >= ip[q]
  PROVE  \A q \in Runs, n \in Names : MadeFor(q, n) \subseteq MadeFor(q, n)'
<1>1. \A q \in Runs : 1..(ip[q] - 1) \subseteq 1..(ip'[q] - 1)
  BY DEF TypeOK
<1>2. QED
  BY <1>1 DEF MadeFor

LEMMA HeadsKept ==
  ASSUME IInv, UNCHANGED <<program, heads, arrays>>,
         \A q \in Runs : ip'[q] \in Nat /\ ip'[q] >= ip[q]
  PROVE  HeadsApart' /\ HeadsFilled'
<1>1. \A q \in Runs, n \in Names : MadeFor(q, n) \subseteq MadeFor(q, n)'
  BY MadeForKept DEF IInv
<1>2. HeadsApart'
  BY <1>1 DEF IInv, HeadsApart
<1>3. QED
  BY <1>2 DEF IInv, HeadsFilled

-----------------------------------------------------------------------------
(* Init, and one lemma per action *)

LEMMA BoundType ==
  ASSUME NEW n \in Names
  PROVE  /\ Bound[n] \in Seq(Elems) /\ Len(Bound[n]) \in Nat
         /\ LET a == Bound[n] \o Zeros(Room[n]) IN
              /\ a \in Seq(Elems \cup {Zero}) /\ Len(a) = Len(Bound[n]) + Room[n]
              /\ \A j \in 1..Len(Bound[n]) : a[j] = Bound[n][j]
              /\ SubSeq(a, 1, Len(Bound[n])) = Bound[n]
<1>1. Bound[n] \in Seq(Elems)
  <2>1. Bound[n] \in Seq(HostElems) /\ HostElems \subseteq Elems
    BY BoundNamesAssumption DEF Elems
  <2>2. QED
    BY <2>1, SeqMonotonic
<1>2. Room[n] \in Nat
  BY BindingCellsAssumption
<1>3. Elems \subseteq Elems \cup {Zero} /\ Zero \in Elems \cup {Zero}
  OBVIOUS
<1> DEFINE Z == Elems \cup {Zero}
<1>4. Elems \subseteq Z /\ Zero \in Z
  BY <1>3
<1> HIDE DEF Z
<1>5. LET a == Bound[n] \o Zeros(Room[n]) IN
        /\ a \in Seq(Z) /\ Len(a) = Len(Bound[n]) + Room[n]
        /\ \A j \in 1..Len(Bound[n]) : a[j] = Bound[n][j]
        /\ SubSeq(a, 1, Len(Bound[n])) = Bound[n]
  BY <1>1, <1>2, <1>4, SpareHides
<1>6. Len(Bound[n]) \in Nat
  BY <1>1, LenProperties
<1>7. QED
  BY <1>1, <1>5, <1>6 DEF Z

LEMMA InitIInv == InitCells => IInv
<1> SUFFICES ASSUME InitCells PROVE IInv
  OBVIOUS
<1>1. ASSUME NEW n \in Names
      PROVE  heads[n] \in Header /\ heads[n].arr = n /\ heads[n].len = Len(Bound[n])
  <2>1. heads[n] = [arr |-> n, len |-> Len(Bound[n])] /\ Len(Bound[n]) \in Nat
    BY BoundType DEF InitCells
  <2>2. QED
    BY <2>1 DEF Header
<1>2. ASSUME NEW r \in Runs, NEW n \in Names
      PROVE  heads[<<r, n>>] \in Header /\ heads[<<r, n>>].arr = n /\ heads[<<r, n>>].len = 0
  <2>1. <<r, n>> \in Names \cup Cells /\ <<r, n>> \notin Names /\ <<r, n>>[2] = n
    BY PlacesDiffer
  <2>2. heads[<<r, n>>] = [arr |-> n, len |-> 0]
    BY <2>1 DEF InitCells
  <2>3. QED
    BY <2>2 DEF Header
<1>3. heads \in [Names \cup Cells -> Header]
  <2>1. \A at \in Names \cup Cells : heads[at] \in Header
    BY <1>1, <1>2 DEF Cells
  <2>2. QED
    BY <2>1 DEF InitCells
<1>4. /\ \A n \in Names : arrays[n] = Bound[n] \o Zeros(Room[n])
      /\ arrays \in [Names \cup MadeArrays -> Seq(Elems \cup {Zero})]
  <2>1. \A n \in Names : Bound[n] \o Zeros(Room[n]) \in Seq(Elems \cup {Zero})
    BY BoundType
  <2>2. <<>> \in Seq(Elems \cup {Zero})
    OBVIOUS
  <2>3. QED
    BY <2>1, <2>2 DEF InitCells
<1>5. TypeOK
  <2>1. ip \in [Runs -> 1..(MaxOps + 1)]
    BY BoundNamesAssumption DEF InitCells, Init
  <2>2. host \in [Pointers -> Elems]
    BY BoundNamesAssumption DEF Elems, InitCells, Init
  <2>3. QED
    BY <1>3, <1>4, <2>1, <2>2 DEF TypeOK, InitCells, Init
<1>6. HeadsApart
  <2>1. ASSUME NEW r \in Runs, NEW n \in Names
        PROVE  heads[<<r, n>>].arr \in {n} \cup MadeFor(r, n)
    BY <1>2
  <2>2. QED
    BY <1>1, <2>1 DEF HeadsApart
<1>7. HeadsFilled
  <2>1. ASSUME NEW n \in Names
        PROVE  /\ heads[n].len <= Len(arrays[heads[n].arr])
               /\ \A k \in 1..heads[n].len : arrays[heads[n].arr][k] \in Elems
    <3>1. Len(Bound[n]) <= Len(arrays[n]) /\ \A k \in 1..Len(Bound[n]) : arrays[n][k] = Bound[n][k]
      BY <1>4, BoundType, BindingCellsAssumption
    <3>2. \A k \in 1..Len(Bound[n]) : Bound[n][k] \in Elems
      <4>1. Bound[n] \in Seq(Elems)
        BY BoundType
      <4>2. QED
        BY <4>1
    <3>3. QED
      BY <1>1, <3>1, <3>2
  <2>2. ASSUME NEW r \in Runs, NEW n \in Names
        PROVE  /\ heads[<<r, n>>].len <= Len(arrays[heads[<<r, n>>].arr])
               /\ \A k \in 1..heads[<<r, n>>].len : arrays[heads[<<r, n>>].arr][k] \in Elems
    <3>1. arrays[n] \in Seq(Elems \cup {Zero})
      BY <1>4
    <3>2. QED
      BY <1>2, <3>1, LenProperties
  <2>3. ASSUME NEW at \in Cells
        PROVE  /\ heads[at].len <= Len(arrays[heads[at].arr])
               /\ \A k \in 1..heads[at].len : arrays[heads[at].arr][k] \in Elems
    <3>1. PICK r \in Runs, n \in Names : at = <<r, n>>
      BY DEF Cells
    <3>2. QED
      BY <2>2, <3>1
  <2>4. QED
    BY <2>1, <2>3 DEF HeadsFilled
<1>8. CachesRight /\ IdleRuns /\ AnswersFitTheType
  BY DEF CachesRight, IdleRuns, AnswersFitTheType, InitCells, Init
<1>9. QED
  BY <1>5, <1>6, <1>7, <1>8 DEF IInv

LEMMA StartKeepsIInv ==
  ASSUME IInv, NEW r \in Runs, NEW t \in Types \cup {None}, Start(r, t)
  PROVE  IInv'
<1>1. /\ UNCHANGED <<program, ip, seen, host, arrays, cache, asked>>
      /\ phase[r] = "idle" /\ phase' = [phase EXCEPT ![r] = "run"]
      /\ given' = [given EXCEPT ![r] = t]
  BY DEF Start, Begin
<1>2. /\ \A n \in Names : heads'[n] = heads[n]
      /\ \A q \in Runs, n \in Names :
           heads'[<<q, n>>] = heads[<<q, n>>] \/ (q = r /\ heads'[<<q, n>>] = heads[n])
  <2>1. \A n \in Names : n \in Names \cup Cells /\ n \notin {r} \X VarCells
    <3>1. {r} \X VarCells \subseteq Cells
      BY VarCellsAreNames DEF IInv, Cells
    <3>2. QED
      BY <3>1, PlacesDiffer
  <2>2. \A q \in Runs, n \in Names : <<q, n>> \in Names \cup Cells
    BY PlacesDiffer
  <2>3. \A n \in Names : heads'[n] = heads[n]
    BY <2>1 DEF Start
  <2>4. ASSUME NEW q \in Runs, NEW n \in Names
        PROVE  heads'[<<q, n>>] = heads[<<q, n>>] \/ (q = r /\ heads'[<<q, n>>] = heads[n])
    <3>1. <<q, n>> \in {r} \X VarCells => q = r /\ <<q, n>>[2] = n
      OBVIOUS
    <3>2. QED
      BY <2>2, <3>1 DEF Start
  <2>5. QED
    BY <2>3, <2>4
<1>3. heads' \in [Names \cup Cells -> Header]
  <2>1. \A at \in Names \cup Cells : heads'[at] \in Header
    <3>1. \A at \in Names \cup Cells : heads[at] \in Header
      BY DEF IInv, TypeOK
    <3>2. \A q \in Runs, n \in Names : heads'[<<q, n>>] \in Header
      BY <1>2, <3>1, PlacesDiffer
    <3>3. QED
      BY <1>2, <3>1, <3>2 DEF Cells
  <2>2. DOMAIN heads' = Names \cup Cells /\ heads' = [at \in Names \cup Cells |-> heads'[at]]
    BY DEF Start
  <2>3. QED
    BY <2>1, <2>2
<1>4. TypeOK'
  BY <1>1, <1>3 DEF IInv, TypeOK
<1>5. HeadsApart'
  <2>1. \A q \in Runs : ip'[q] \in Nat /\ ip'[q] >= ip[q]
    BY <1>1 DEF IInv, TypeOK
  <2>2. \A q \in Runs, n \in Names : MadeFor(q, n) \subseteq MadeFor(q, n)'
    BY <1>1, <2>1, MadeForKept DEF IInv
  <2>3. \A n \in Names : heads[n].arr = n
    BY DEF IInv, HeadsApart
  <2>4. ASSUME NEW q \in Runs, NEW n \in Names
        PROVE  heads'[<<q, n>>].arr \in {n} \cup MadeFor(q, n)'
    <3>1. heads'[<<q, n>>].arr \in {n} \cup MadeFor(q, n)
      BY <1>2, <2>3 DEF IInv, HeadsApart
    <3>2. QED
      BY <2>2, <3>1
  <2>5. QED
    BY <1>2, <2>4 DEF IInv, HeadsApart
<1>6. HeadsFilled'
  BY <1>1, <1>2 DEF IInv, HeadsFilled, Cells
<1>7. ip[r] = 1 /\ ~asked[r]
  BY <1>1 DEF IInv, IdleRuns
<1>8. CachesRight'
  BY <1>1, <1>7 DEF IInv, TypeOK, CachesRight, Turn
<1>9. IdleRuns' /\ AnswersFitTheType'
  BY <1>1, <1>7 DEF IInv, TypeOK, IdleRuns, AnswersFitTheType
<1>10. QED
  BY <1>4, <1>5, <1>6, <1>8, <1>9 DEF IInv

LEMMA ReadKeepsIInv ==
  ASSUME IInv, NEW r \in Runs, ReadName(r)
  PROVE  IInv'
<1>1. /\ Turn(r, "read") /\ Advance(r) /\ UNCHANGED <<host, heads, arrays, cache, asked>>
      /\ seen' = [seen EXCEPT ![r] = Append(@, Slice(heads[Place(r, At(r))]))]
  BY DEF ReadName, Receive
<1>2. /\ ip[r] \in DOMAIN program /\ phase[r] = "run" /\ At(r).kind = "read" /\ ~asked[r]
  BY <1>1 DEF Turn, At, IInv, CachesRight
<1>3. Place(r, At(r)) \in Names \cup Cells
  BY <1>2, TurnIs, PlacesDiffer DEF IInv, Place
<1>4. Slice(heads[Place(r, At(r))]) \in Seq(Elems)
  BY <1>3, SliceIs
<1>5. ip' = [ip EXCEPT ![r] = @ + 1] /\ UNCHANGED <<program, phase, given>>
  BY <1>1 DEF Advance
<1>6. TypeOK'
  <2>1. ip[r] + 1 \in 1..(MaxOps + 1)
    BY <1>2, TurnIs DEF IInv
  <2>2. ip' \in [Runs -> 1..(MaxOps + 1)]
    BY <1>5, <2>1 DEF IInv, TypeOK
  <2>3. seen' \in [Runs -> Seq(Seq(Elems))]
    <3>1. seen[r] \in Seq(Seq(Elems))
      BY DEF IInv, TypeOK
    <3>2. Append(seen[r], Slice(heads[Place(r, At(r))])) \in Seq(Seq(Elems))
      BY <1>4, <3>1, AppendProperties
    <3>3. QED
      BY <1>1, <3>2 DEF IInv, TypeOK
  <2>4. QED
    BY <1>1, <1>5, <2>2, <2>3 DEF IInv, TypeOK
<1>7. HeadsApart' /\ HeadsFilled'
  <2>1. \A q \in Runs : ip'[q] \in Nat /\ ip'[q] >= ip[q]
    BY <1>5 DEF IInv, TypeOK
  <2>2. QED
    BY <1>1, <1>5, <2>1, HeadsKept
<1>8. CachesRight' /\ IdleRuns' /\ AnswersFitTheType'
  BY <1>1, <1>2, AdvanceKeepsAnswers DEF IInv
<1>9. QED
  BY <1>6, <1>7, <1>8 DEF IInv

-----------------------------------------------------------------------------
(* Writes *)

\* An append in place: the array is one this run made for this name, or the
\* host's, and no header but the cell's shows more of it than it did.
LEMMA InPlaceIs ==
  ASSUME IInv, NEW r \in Runs, AppendInPlace(r)
  PROVE  LET n == At(r).name
             h == heads[<<r, n>>]
             v == <<r, ip[r]>>
         IN /\ n \in Names /\ n \in VarCells
            /\ ip[r] \in DOMAIN program /\ phase[r] = "run" /\ At(r).kind = "append" /\ ~asked[r]
            /\ h.len < Len(arrays[h.arr])
            /\ arrays' = [arrays EXCEPT ![h.arr] = [arrays[h.arr] EXCEPT ![h.len + 1] = v]]
            /\ heads' = [heads EXCEPT ![<<r, n>>] = [arr |-> h.arr, len |-> h.len + 1]]
            /\ arrays'[h.arr] \in Seq(Elems \cup {Zero})
            /\ Len(arrays'[h.arr]) = Len(arrays[h.arr])
            /\ \A j \in 1..Len(arrays[h.arr]) :
                 arrays'[h.arr][j] = IF j = h.len + 1 THEN v ELSE arrays[h.arr][j]
            /\ SubSeq(arrays'[h.arr], 1, h.len + 1) = Append(Slice(h), v)
<1> DEFINE n == At(r).name
           h == heads[<<r, n>>]
           v == <<r, ip[r]>>
<1>1. ip[r] \in DOMAIN program /\ phase[r] = "run" /\ At(r).kind = "append" /\ ~asked[r]
  BY DEF AppendInPlace, Appending, Turn, At, IInv, CachesRight
<1>2. n \in Names /\ n \in VarCells /\ Cell(r) = <<r, n>> /\ <<r, n>> \in Cells
  BY <1>1, CellIs, PlacesDiffer DEF IInv, AppendInPlace, Appending
<1>3. /\ h \in Header /\ arrays[h.arr] \in Seq(Elems \cup {Zero})
      /\ \A k \in 1..h.len : arrays[h.arr][k] \in Elems
  BY <1>2, SliceIs
<1>4. v \in Elems
  BY <1>1, TurnIs DEF IInv
<1>5. /\ h.len < Len(arrays[h.arr])
      /\ arrays' = [arrays EXCEPT ![h.arr] = [arrays[h.arr] EXCEPT ![h.len + 1] = v]]
      /\ heads' = [heads EXCEPT ![<<r, n>>] = [h EXCEPT !.len = h.len + 1]]
  BY <1>2 DEF AppendInPlace
<1>6. [h EXCEPT !.len = h.len + 1] = [arr |-> h.arr, len |-> h.len + 1]
  BY <1>3 DEF Header
<1>7. h.arr \in DOMAIN arrays
  BY <1>3 DEF IInv, TypeOK, Header
<1>8. arrays'[h.arr] = [arrays[h.arr] EXCEPT ![h.len + 1] = v]
  BY <1>5, <1>7
<1>9. h.len \in Nat
  BY <1>3 DEF Header
<1> HIDE DEF h, v
<1>10. /\ arrays'[h.arr] \in Seq(Elems \cup {Zero})
       /\ Len(arrays'[h.arr]) = Len(arrays[h.arr])
       /\ \A j \in 1..Len(arrays[h.arr]) :
            arrays'[h.arr][j] = IF j = h.len + 1 THEN v ELSE arrays[h.arr][j]
       /\ SubSeq(arrays'[h.arr], 1, h.len + 1) = Append(Slice(h), v)
  <2> DEFINE Z == Elems \cup {Zero}
             s == arrays[h.arr]
  <2>1. Elems \subseteq Z /\ s \in Seq(Z) /\ h.len < Len(s) /\ \A j \in 1..h.len : s[j] \in Elems
    BY <1>3, <1>5 DEF h, v
  <2> HIDE DEF Z, s
  <2> DEFINE k == h.len
             t == arrays'[h.arr]
  <2>2. k \in Nat /\ k < Len(s) /\ t = [s EXCEPT ![k + 1] = v] /\ \A j \in 1..k : s[j] \in Elems
    BY <1>8, <1>9, <2>1 DEF s
  <2> HIDE DEF k, t
  <2>3. /\ t \in Seq(Z) /\ Len(t) = Len(s)
        /\ \A j \in 1..Len(s) : t[j] = IF j = k + 1 THEN v ELSE s[j]
        /\ SubSeq(t, 1, k + 1) = Append(SubSeq(s, 1, k), v)
    BY <1>4, <2>1, <2>2, StoreBehind
  <2>4. QED
    BY <2>3 DEF Z, s, k, t, Slice
<1>11. QED
  BY <1>1, <1>2, <1>5, <1>6, <1>10 DEF h, v

LEMMA InPlaceKeepsIInv ==
  ASSUME IInv, NEW r \in Runs, AppendInPlace(r)
  PROVE  IInv'
<1> DEFINE n == At(r).name
           h == heads[<<r, n>>]
           v == <<r, ip[r]>>
           made == [arr |-> h.arr, len |-> h.len + 1]
<1>1. /\ n \in Names /\ n \in VarCells
      /\ ip[r] \in DOMAIN program /\ phase[r] = "run" /\ At(r).kind = "append" /\ ~asked[r]
      /\ h.len < Len(arrays[h.arr])
      /\ arrays' = [arrays EXCEPT ![h.arr] = [arrays[h.arr] EXCEPT ![h.len + 1] = v]]
      /\ heads' = [heads EXCEPT ![<<r, n>>] = made]
      /\ arrays'[h.arr] \in Seq(Elems \cup {Zero})
      /\ Len(arrays'[h.arr]) = Len(arrays[h.arr])
      /\ \A j \in 1..Len(arrays[h.arr]) :
           arrays'[h.arr][j] = IF j = h.len + 1 THEN v ELSE arrays[h.arr][j]
  BY InPlaceIs
<1>2. <<r, n>> \in Names \cup Cells /\ <<r, n>> \notin Names
  BY <1>1, PlacesDiffer
<1>3. /\ h \in Header /\ arrays[h.arr] \in Seq(Elems \cup {Zero}) /\ h.len \in Nat
      /\ \A k \in 1..h.len : arrays[h.arr][k] \in Elems
  <2>1. /\ h \in Header /\ arrays[h.arr] \in Seq(Elems \cup {Zero})
        /\ \A k \in 1..h.len : arrays[h.arr][k] \in Elems
    BY <1>2, SliceIs
  <2>2. QED
    BY <2>1 DEF Header
<1>4. Advance(r) /\ UNCHANGED <<seen, host, cache, asked>>
  BY DEF AppendInPlace, Change
<1>5. ip' = [ip EXCEPT ![r] = @ + 1] /\ UNCHANGED <<program, phase, given>>
  BY <1>4 DEF Advance
<1>6. /\ made \in Header /\ made.arr = h.arr /\ made.len = h.len + 1
  BY <1>3 DEF Header
<1> HIDE DEF h, v, made
<1>7. h.arr \in Names \cup MadeArrays /\ v \in Elems
  BY <1>1, <1>3, TurnIs DEF Header, IInv, v
<1>8. TypeOK'
  <2>1. ip' \in [Runs -> 1..(MaxOps + 1)]
    BY <1>1, <1>5, TurnIs DEF IInv, TypeOK
  <2>2. heads' \in [Names \cup Cells -> Header]
    BY <1>1, <1>6 DEF IInv, TypeOK
  <2>3. arrays' \in [Names \cup MadeArrays -> Seq(Elems \cup {Zero})]
    <3>1. [arrays[h.arr] EXCEPT ![h.len + 1] = v] = arrays'[h.arr]
      BY <1>1, <1>7 DEF IInv, TypeOK
    <3>2. QED
      BY <1>1, <3>1 DEF IInv, TypeOK
  <2>4. QED
    BY <1>4, <1>5, <2>1, <2>2, <2>3 DEF IInv, TypeOK
<1>9. /\ heads'[<<r, n>>] = made
      /\ \A at \in (Names \cup Cells) \ {<<r, n>>} : heads'[at] = heads[at]
      /\ \A a \in (Names \cup MadeArrays) \ {h.arr} : arrays'[a] = arrays[a]
  BY <1>1, <1>2, <1>7 DEF IInv, TypeOK
<1>10. HeadsApart'
  <2>1. \A q \in Runs, m \in Names : MadeFor(q, m) \subseteq MadeFor(q, m)'
    <3>1. \A q \in Runs : ip'[q] \in Nat /\ ip'[q] >= ip[q]
      BY <1>5 DEF IInv, TypeOK
    <3>2. QED
      BY <1>5, <3>1, MadeForKept DEF IInv
  <2>2. \A m \in Names : heads'[m] = heads[m]
    BY <1>2, <1>9
  <2>3. \A q \in Runs, m \in Names : heads'[<<q, m>>].arr = heads[<<q, m>>].arr
    <3>1. \A q \in Runs, m \in Names : <<q, m>> \in Names \cup Cells
      BY PlacesDiffer
    <3>2. QED
      BY <1>6, <1>9, <3>1 DEF h
  <2>4. QED
    BY <2>1, <2>2, <2>3 DEF IInv, HeadsApart
<1>11. HeadsFilled'
  <2>1. ASSUME NEW a \in Names \cup MadeArrays
        PROVE  /\ Len(arrays'[a]) = Len(arrays[a])
               /\ \A k \in 1..Len(arrays[a]) : arrays[a][k] \in Elems => arrays'[a][k] \in Elems
    BY <1>1, <1>7, <1>9
  <2>2. ASSUME NEW at \in Names \cup Cells
        PROVE  /\ heads'[at].len <= Len(arrays'[heads'[at].arr])
               /\ \A k \in 1..heads'[at].len : arrays'[heads'[at].arr][k] \in Elems
    <3>1. CASE at = <<r, n>>
      <4>1. heads'[at].arr = h.arr /\ heads'[at].len = h.len + 1
        BY <1>6, <1>9, <3>1
      <4>2. \A k \in 1..(h.len + 1) : k \in 1..Len(arrays[h.arr]) /\ (k \in 1..h.len \/ k = h.len + 1)
        BY <1>1, <1>3
      <4>3. QED
        BY <1>1, <1>3, <1>7, <4>1, <4>2
    <3>2. CASE at # <<r, n>>
      <4> DEFINE g == heads[at]
      <4>1. /\ heads'[at] = g /\ g.len <= Len(arrays[g.arr]) /\ g.arr \in Names \cup MadeArrays
            /\ g.len \in Nat
            /\ \A k \in 1..g.len : arrays[g.arr][k] \in Elems
        BY <1>9, <3>2 DEF IInv, HeadsFilled, TypeOK, Header
      <4> HIDE DEF g
      <4>2. Len(arrays'[g.arr]) = Len(arrays[g.arr])
        BY <2>1, <4>1
      <4>3. \A k \in 1..g.len : k \in 1..Len(arrays[g.arr])
        BY <4>1, LenProperties DEF IInv, TypeOK
      <4>4. QED
        BY <2>1, <4>1, <4>2, <4>3
    <3>3. QED
      BY <3>1, <3>2
  <2>3. QED
    BY <2>2 DEF HeadsFilled
<1>12. CachesRight' /\ IdleRuns' /\ AnswersFitTheType'
  BY <1>1, <1>4, AdvanceKeepsAnswers DEF IInv
<1>13. QED
  BY <1>8, <1>10, <1>11, <1>12 DEF IInv

\* The cell of name n moved to the new array s, of which it shows len elements,
\* and every other header shows what it did.
MovedTo(r, n, s, len) ==
  /\ heads'[<<r, n>>].arr = <<r, ip[r]>> /\ heads'[<<r, n>>].len = len
  /\ arrays'[<<r, ip[r]>>] = s
  /\ \A at \in (Names \cup Cells) \ {<<r, n>>} :
       /\ heads'[at] = heads[at] /\ heads[at].arr # <<r, ip[r]>>
       /\ arrays'[heads[at].arr] = arrays[heads[at].arr]

\* No header shows anything of the array a write makes, so it can move there.
LEMMA NewArrayKeepsIInv ==
  ASSUME IInv, NEW r \in Runs, NEW n \in Names, n = At(r).name, ~asked[r],
         ip[r] \in DOMAIN program, phase[r] = "run", At(r).kind \in {"append", "set"},
         NEW s \in Seq(Elems \cup {Zero}), NEW len \in Nat, len <= Len(s),
         \A k \in 1..len : s[k] \in Elems,
         arrays' = [arrays EXCEPT ![<<r, ip[r]>>] = s],
         heads' = [heads EXCEPT ![<<r, n>>] = [arr |-> <<r, ip[r]>>, len |-> len]],
         Advance(r), UNCHANGED <<seen, host, cache, asked>>
  PROVE  IInv' /\ MovedTo(r, n, s, len)
<1> DEFINE a == <<r, ip[r]>>
           made == [arr |-> a, len |-> len]
<1>1. <<r, n>> \in Names \cup Cells /\ <<r, n>> \notin Names
  BY PlacesDiffer
<1>2. a \in MadeArrays /\ a \notin Names
  BY TurnIs DEF IInv
<1>3. made \in Header /\ made.arr = a /\ made.len = len
  BY <1>2 DEF Header
<1>4. ip' = [ip EXCEPT ![r] = @ + 1] /\ UNCHANGED <<program, phase, given>>
  BY DEF Advance
<1> HIDE DEF made
<1>5. /\ heads'[<<r, n>>] = made
      /\ \A at \in (Names \cup Cells) \ {<<r, n>>} : heads'[at] = heads[at]
      /\ arrays'[a] = s
      /\ \A b \in (Names \cup MadeArrays) \ {a} : arrays'[b] = arrays[b]
  BY <1>1, <1>2 DEF IInv, TypeOK, made
<1>6. TypeOK'
  <2>1. ip' \in [Runs -> 1..(MaxOps + 1)]
    BY <1>4, TurnIs DEF IInv, TypeOK
  <2>2. heads' \in [Names \cup Cells -> Header]
    BY <1>3 DEF IInv, TypeOK, made
  <2>3. arrays' \in [Names \cup MadeArrays -> Seq(Elems \cup {Zero})]
    BY <1>2 DEF IInv, TypeOK
  <2>4. QED
    BY <1>4, <2>1, <2>2, <2>3 DEF IInv, TypeOK
\* No header shows an array of this operation.
<1>7. \A at \in Names \cup Cells : heads[at].arr # a
  <2>1. \A m \in Names : heads[m].arr # a
    BY <1>2 DEF IInv, HeadsApart
  <2>2. ASSUME NEW q \in Runs, NEW m \in Names PROVE heads[<<q, m>>].arr # a
    <3>1. a \notin MadeFor(q, m)
      <4>1. \A i \in 1..(ip[q] - 1) : <<q, i>> # a
        BY DEF IInv, TypeOK
      <4>2. QED
        BY <4>1 DEF MadeFor
    <3>2. QED
      BY <1>2, <3>1 DEF IInv, HeadsApart
  <2>3. ASSUME NEW at \in Cells PROVE heads[at].arr # a
    <3>1. PICK q \in Runs, m \in Names : at = <<q, m>>
      BY DEF Cells
    <3>2. QED
      BY <2>2, <3>1
  <2> HIDE DEF a
  <2>4. QED
    BY <2>1, <2>3
<1>8. \A at \in Names \cup Cells : heads[at].arr \in Names \cup MadeArrays
  BY DEF IInv, TypeOK, Header
<1>9. \A at \in Names \cup Cells : arrays'[heads[at].arr] = arrays[heads[at].arr]
  BY <1>5, <1>7, <1>8
<1>10. HeadsApart'
  <2>1. \A q \in Runs, m \in Names : MadeFor(q, m) \subseteq MadeFor(q, m)'
    <3>1. \A q \in Runs : ip'[q] \in Nat /\ ip'[q] >= ip[q]
      BY <1>4 DEF IInv, TypeOK
    <3>2. QED
      BY <1>4, <3>1, MadeForKept DEF IInv
  <2>2. \A m \in Names : heads'[m] = heads[m]
    BY <1>1, <1>5
  <2>3. a \in MadeFor(r, n)'
    <3>1. ip'[r] = ip[r] + 1 /\ ip[r] \in 1..((ip[r] + 1) - 1) /\ program'[ip[r]].name = n
      BY <1>4 DEF IInv, TypeOK, At
    <3>2. QED
      BY <3>1 DEF MadeFor
  <2>4. ASSUME NEW q \in Runs, NEW m \in Names
        PROVE  heads'[<<q, m>>].arr \in {m} \cup MadeFor(q, m)'
    <3>1. CASE q = r /\ m = n
      BY <1>3, <1>5, <2>3, <3>1
    <3>2. CASE ~(q = r /\ m = n)
      <4>1. heads'[<<q, m>>] = heads[<<q, m>>]
        BY <1>5, <3>2, PlacesDiffer
      <4>2. QED
        BY <2>1, <4>1 DEF IInv, HeadsApart
    <3>3. QED
      BY <3>1, <3>2
  <2>5. QED
    BY <2>2, <2>4 DEF IInv, HeadsApart
<1>11. HeadsFilled'
  <2>1. ASSUME NEW at \in Names \cup Cells
        PROVE  /\ heads'[at].len <= Len(arrays'[heads'[at].arr])
               /\ \A k \in 1..heads'[at].len : arrays'[heads'[at].arr][k] \in Elems
    <3>1. CASE at = <<r, n>>
      <4>1. heads'[at].arr = a /\ heads'[at].len = len /\ arrays'[a] = s
        BY <1>3, <1>5, <3>1
      <4> HIDE DEF a
      <4>2. QED
        BY <4>1
    <3>2. CASE at # <<r, n>>
      <4>1. heads'[at] = heads[at] /\ arrays'[heads[at].arr] = arrays[heads[at].arr]
        BY <1>5, <1>9, <3>2
      <4>2. QED
        BY <4>1 DEF IInv, HeadsFilled
    <3>3. QED
      BY <3>1, <3>2
  <2>2. QED
    BY <2>1 DEF HeadsFilled
<1>12. CachesRight' /\ IdleRuns' /\ AnswersFitTheType'
  BY AdvanceKeepsAnswers DEF IInv
<1>13. IInv'
  BY <1>6, <1>10, <1>11, <1>12 DEF IInv
<1>14. MovedTo(r, n, s, len)
  BY <1>3, <1>5, <1>7, <1>9 DEF MovedTo
<1>15. QED
  BY <1>13, <1>14

\* An append that grows: the new array, and what the cell shows of it.
LEMMA GrowsIs ==
  ASSUME IInv, NEW r \in Runs, NEW spare \in 0..Slack, AppendGrows(r, spare)
  PROVE  LET n == At(r).name
             h == heads[<<r, n>>]
             v == <<r, ip[r]>>
             s == Append(Slice(h), v) \o Zeros(spare)
         IN /\ n \in Names /\ n \in VarCells /\ ~asked[r]
            /\ ip[r] \in DOMAIN program /\ phase[r] = "run" /\ At(r).kind = "append"
            /\ s \in Seq(Elems \cup {Zero}) /\ h.len + 1 \in Nat /\ h.len + 1 <= Len(s)
            /\ \A k \in 1..(h.len + 1) : s[k] \in Elems
            /\ arrays' = [arrays EXCEPT ![v] = s]
            /\ heads' = [heads EXCEPT ![<<r, n>>] = [arr |-> v, len |-> h.len + 1]]
            /\ SubSeq(s, 1, h.len + 1) = Append(Slice(h), v)
<1> DEFINE n == At(r).name
           h == heads[<<r, n>>]
           v == <<r, ip[r]>>
           t == Append(Slice(h), v)
           s == t \o Zeros(spare)
           Z == Elems \cup {Zero}
<1>1. ip[r] \in DOMAIN program /\ phase[r] = "run" /\ At(r).kind = "append" /\ ~asked[r]
  BY DEF AppendGrows, Appending, Turn, At, IInv, CachesRight
<1>2. n \in Names /\ n \in VarCells /\ Cell(r) = <<r, n>> /\ <<r, n>> \in Cells
  BY <1>1, CellIs, PlacesDiffer DEF IInv, AppendGrows, Appending
<1>3. Slice(h) \in Seq(Elems) /\ Len(Slice(h)) = h.len /\ h.len \in Nat
  BY <1>2, SliceIs, LenProperties
<1>4. v \in Elems
  BY <1>1, TurnIs DEF IInv
<1>5. t \in Seq(Elems) /\ Len(t) = h.len + 1
  BY <1>3, <1>4, AppendProperties
<1>6. /\ arrays' = [arrays EXCEPT ![v] = s]
      /\ heads' = [heads EXCEPT ![<<r, n>>] = [arr |-> v, len |-> h.len + 1]]
  BY <1>2 DEF AppendGrows
<1>7. spare \in Nat /\ Elems \subseteq Z /\ Zero \in Z
  BY BindingCellsAssumption
<1> HIDE DEF h, v, t, Z
<1>8. /\ s \in Seq(Z) /\ Len(s) = Len(t) + spare
      /\ \A j \in 1..Len(t) : s[j] = t[j]
      /\ SubSeq(s, 1, Len(t)) = t
  BY <1>5, <1>7, SpareHides
<1> HIDE DEF s
<1>9. /\ h.len + 1 \in Nat /\ h.len + 1 <= Len(s)
      /\ \A k \in 1..(h.len + 1) : s[k] \in Elems
  BY <1>3, <1>5, <1>7, <1>8
<1>10. SubSeq(s, 1, h.len + 1) = t /\ s \in Seq(Elems \cup {Zero})
  BY <1>5, <1>8 DEF Z
<1>11. QED
  BY <1>1, <1>2, <1>6, <1>9, <1>10 DEF h, v, s, t

LEMMA GrowsKeepsIInv ==
  ASSUME IInv, NEW r \in Runs, NEW spare \in 0..Slack, AppendGrows(r, spare)
  PROVE  IInv'
<1>1. Advance(r) /\ UNCHANGED <<seen, host, cache, asked>>
  BY DEF AppendGrows, Change
<1>2. QED
  BY <1>1, GrowsIs, NewArrayKeepsIInv

\* An assignment: a slice of the one element.
LEMMA SetIs ==
  ASSUME IInv, NEW r \in Runs, SetName(r)
  PROVE  LET n == At(r).name
             v == <<r, ip[r]>>
         IN /\ n \in Names /\ n \in VarCells /\ ~asked[r]
            /\ ip[r] \in DOMAIN program /\ phase[r] = "run" /\ At(r).kind = "set"
            /\ <<v>> \in Seq(Elems \cup {Zero}) /\ Len(<<v>>) = 1 /\ v \in Elems
            /\ arrays' = [arrays EXCEPT ![v] = <<v>>]
            /\ heads' = [heads EXCEPT ![<<r, n>>] = [arr |-> v, len |-> 1]]
<1>1. ip[r] \in DOMAIN program /\ phase[r] = "run" /\ At(r).kind = "set" /\ ~asked[r]
  BY DEF SetName, Turn, At, IInv, CachesRight
<1>2. /\ At(r).name \in Names /\ At(r).name \in VarCells /\ Cell(r) = <<r, At(r).name>>
  BY <1>1, CellIs DEF IInv, SetName
<1>3. <<r, ip[r]>> \in Elems
  BY <1>1, TurnIs DEF IInv
<1>4. QED
  BY <1>1, <1>2, <1>3 DEF SetName

LEMMA SetKeepsIInv ==
  ASSUME IInv, NEW r \in Runs, SetName(r)
  PROVE  IInv'
<1> DEFINE s == <<<<r, ip[r]>>>>
<1>1. Advance(r) /\ UNCHANGED <<seen, host, cache, asked>>
  BY DEF SetName, Change
<1>2. \A k \in 1..1 : s[k] \in Elems
  <2>1. s[1] = <<r, ip[r]>> /\ <<r, ip[r]>> \in Elems
    BY SetIs
  <2>2. QED
    BY <2>1
<1>3. 1 <= Len(s) /\ 1 \in Nat
  OBVIOUS
<1>4. QED
  BY <1>1, <1>2, <1>3, SetIs, NewArrayKeepsIInv

\* The steps of the caches leave the slices alone.
LEMMA StackNilKeepsIInv ==
  ASSUME IInv, NEW r \in Runs, StackNil(r)
  PROVE  IInv'
<1>1. /\ ip[r] \in DOMAIN program /\ phase[r] = "run" /\ given[r] = None
      /\ Advance(r) /\ UNCHANGED <<seen, host, heads, arrays, cache, asked>>
  BY DEF StackNil, Turn, Change
<1>2. ~asked[r]
  BY <1>1, BoundNamesAssumption DEF IInv, CachesRight
<1>3. TypeOK'
  <2>1. ip' \in [Runs -> 1..(MaxOps + 1)]
    BY <1>1, TurnIs DEF IInv, TypeOK, Advance
  <2>2. QED
    BY <1>1, <2>1 DEF IInv, TypeOK, Advance
<1>4. HeadsApart' /\ HeadsFilled'
  BY <1>1, HeadsKept DEF IInv, TypeOK, Advance
<1>5. CachesRight' /\ IdleRuns' /\ AnswersFitTheType'
  BY <1>1, <1>2, AdvanceKeepsAnswers DEF IInv
<1>6. QED
  BY <1>3, <1>4, <1>5 DEF IInv

\* A run ends for a reason, and with no question open.
LEMMA EndKeepsIInv ==
  ASSUME IInv, NEW r \in Runs, NEW how \in {"done", "failed", "refused"}, End(r, how),
         phase[r] = "run", UNCHANGED <<heads, arrays>>,
         how = "refused" => given[r] \notin Accepts \cup {None},
         cache' \in [1..MaxOps -> Answers \cup {None}],
         \A i \in 1..MaxOps : cache'[i] # None => cache'[i].ok = (cache'[i].typ \in Accepts),
         asked' = [asked EXCEPT ![r] = FALSE]
  PROVE  IInv'
<1>1. /\ phase' = [phase EXCEPT ![r] = how]
      /\ UNCHANGED <<program, given, ip, seen, host, heads, arrays>>
  BY DEF End
<1>2. TypeOK'
  BY <1>1 DEF IInv, TypeOK
<1>3. HeadsApart' /\ HeadsFilled'
  BY <1>1, HeadsKept DEF IInv, TypeOK
<1>4. CachesRight'
  <2>1. \A q \in Runs : asked'[q] => asked[q] /\ q # r
    BY DEF IInv, TypeOK
  <2>2. \A q \in Runs : asked'[q] => Turn(q, "stack")' /\ given'[q] \in Types
    BY <1>1, <2>1 DEF IInv, CachesRight, Turn
  <2>3. QED
    BY <2>2 DEF CachesRight
<1>5. IdleRuns'
  BY <1>1 DEF IInv, TypeOK, IdleRuns
<1>6. AnswersFitTheType'
  BY <1>1 DEF IInv, TypeOK, AnswersFitTheType
<1>7. QED
  BY <1>2, <1>3, <1>4, <1>5, <1>6 DEF IInv

\* A run goes by the right answer, taken from the cache or stored there.
LEMMA AnswerKeepsIInv ==
  ASSUME IInv, NEW r \in Runs, Turn(r, "stack"), given[r] \in Types,
         Answer(r, given[r] \in Accepts), UNCHANGED <<heads, arrays>>,
         \/ UNCHANGED cache
         \/ cache' = [cache EXCEPT ![ip[r]] = [typ |-> given[r], ok |-> given[r] \in Accepts]],
         asked' = [asked EXCEPT ![r] = FALSE]
  PROVE  IInv'
<1>1. ip[r] \in DOMAIN program /\ phase[r] = "run" /\ ip[r] \in 1..MaxOps
  BY TurnIs DEF Turn, IInv
<1> DEFINE pair == [typ |-> given[r], ok |-> given[r] \in Accepts]
<1>2. pair \in Answers /\ pair.typ = given[r] /\ pair.ok = (pair.typ \in Accepts)
  BY DEF Answers
<1> HIDE DEF pair
<1>3. UNCHANGED cache \/ cache' = [cache EXCEPT ![ip[r]] = pair]
  BY DEF pair
<1>4. /\ cache' \in [1..MaxOps -> Answers \cup {None}]
      /\ \A i \in 1..MaxOps : cache'[i] # None => cache'[i].ok = (cache'[i].typ \in Accepts)
  BY <1>1, <1>2, <1>3 DEF IInv, TypeOK, CachesRight
<1>5. CASE given[r] \in Accepts
  <2>1. Advance(r) /\ UNCHANGED <<seen, host>>
    BY <1>5 DEF Answer, Change
  <2>2. ip' = [ip EXCEPT ![r] = @ + 1] /\ UNCHANGED <<program, phase, given>>
    BY <2>1 DEF Advance
  <2>3. TypeOK'
    <3>1. ip' \in [Runs -> 1..(MaxOps + 1)]
      BY <1>1, <2>2, TurnIs DEF IInv, TypeOK
    <3>2. QED
      BY <1>4, <2>1, <2>2, <3>1 DEF IInv, TypeOK
  <2>4. HeadsApart' /\ HeadsFilled'
    BY <2>2, HeadsKept DEF IInv, TypeOK
  <2>5. CachesRight'
    <3>1. \A q \in Runs : asked'[q] => asked[q] /\ q # r
      BY DEF IInv, TypeOK
    <3>2. \A q \in Runs : asked'[q] => Turn(q, "stack")' /\ given'[q] \in Types
      BY <2>2, <3>1 DEF IInv, TypeOK, CachesRight, Turn
    <3>3. QED
      BY <1>4, <3>2 DEF CachesRight
  <2>6. IdleRuns'
    BY <1>1, <2>2 DEF IInv, TypeOK, IdleRuns
  <2>7. AnswersFitTheType'
    <3>1. \A i \in 1..(ip'[r] - 1) : i \in 1..(ip[r] - 1) \/ i = ip[r]
      BY <2>2 DEF IInv, TypeOK
    <3>2. ASSUME NEW q \in Runs, NEW i \in 1..(ip'[q] - 1), program'[i].kind = "stack"
          PROVE  given'[q] \in Accepts \cup {None}
      BY <1>5, <2>2, <3>1, <3>2 DEF IInv, TypeOK, AnswersFitTheType
    <3>3. QED
      BY <2>2, <3>2 DEF IInv, AnswersFitTheType
  <2>8. QED
    BY <2>3, <2>4, <2>5, <2>6, <2>7 DEF IInv
<1>6. CASE given[r] \notin Accepts
  <2>1. End(r, "refused") /\ given[r] \notin Accepts \cup {None}
    BY <1>6, BoundNamesAssumption DEF Answer
  <2>2. QED
    BY <1>1, <1>4, <2>1, EndKeepsIInv
<1>7. QED
  BY <1>5, <1>6

LEMMA CacheHitKeepsIInv ==
  ASSUME IInv, NEW r \in Runs, CacheHit(r)
  PROVE  IInv'
<1>1. Turn(r, "stack") /\ UNCHANGED <<heads, arrays, cache, asked>>
  BY DEF CacheHit
<1>2. ip[r] \in 1..MaxOps
  BY <1>1, TurnIs DEF IInv, Turn
<1>3. given[r] \in Types /\ cache[ip[r]].ok = (given[r] \in Accepts)
  BY <1>2 DEF CacheHit, Remembers, IInv, TypeOK, CachesRight, Answers
<1>4. asked' = [asked EXCEPT ![r] = FALSE]
  BY <1>1 DEF CacheHit, IInv, TypeOK
<1>5. Answer(r, given[r] \in Accepts)
  BY <1>3 DEF CacheHit
<1>6. QED
  BY <1>1, <1>3, <1>4, <1>5, AnswerKeepsIInv

LEMMA CacheMissKeepsIInv ==
  ASSUME IInv, NEW r \in Runs, CacheMiss(r)
  PROVE  IInv'
<1>1. /\ Turn(r, "stack") /\ given[r] # None
      /\ asked' = [asked EXCEPT ![r] = TRUE]
      /\ UNCHANGED <<program, phase, given, ip, seen, host, heads, arrays, cache>>
  BY DEF CacheMiss, vars
<1>2. TypeOK'
  BY <1>1 DEF IInv, TypeOK
<1>3. HeadsApart' /\ HeadsFilled'
  BY <1>1, HeadsKept DEF IInv, TypeOK
<1>4. CachesRight'
  BY <1>1 DEF IInv, TypeOK, CachesRight, Turn
<1>5. IdleRuns'
  BY <1>1 DEF IInv, TypeOK, IdleRuns, Turn
<1>6. AnswersFitTheType'
  BY <1>1 DEF IInv, AnswersFitTheType
<1>7. QED
  BY <1>2, <1>3, <1>4, <1>5, <1>6 DEF IInv

LEMMA CacheStoreKeepsIInv ==
  ASSUME IInv, NEW r \in Runs, CacheStore(r)
  PROVE  IInv'
<1>1. Turn(r, "stack") /\ given[r] \in Types
  BY DEF CacheStore, IInv, CachesRight
<1>2. QED
  BY <1>1, AnswerKeepsIInv DEF CacheStore

LEMMA ElsewhereKeepsIInv ==
  ASSUME IInv, NEW r \in Runs, Elsewhere(r)
  PROVE  IInv'
<1>1. ~asked[r] /\ UNCHANGED <<heads, arrays, cache, asked>>
  BY DEF Elsewhere
<1>2. CASE Load(r) \/ Store(r)
  <2>1. /\ ip[r] \in DOMAIN program /\ phase[r] = "run"
        /\ At(r).kind \in {"load", "store"} /\ At(r).name \in Pointers
        /\ Advance(r)
    BY <1>2, TurnIs DEF Load, Store, Turn, At, Receive, IInv
  <2>2. ip' = [ip EXCEPT ![r] = @ + 1] /\ UNCHANGED <<program, phase, given>>
    BY <2>1 DEF Advance
  <2>3. host' \in [Pointers -> Elems]
    <3>1. <<r, ip[r]>> \in Elems
      BY <2>1, TurnIs DEF IInv
    <3>2. QED
      BY <1>2, <2>1, <3>1 DEF Load, Store, Receive, IInv, TypeOK
  <2>4. seen' \in [Runs -> Seq(Seq(Elems))]
    <3>1. <<host[At(r).name]>> \in Seq(Elems)
      BY <2>1 DEF IInv, TypeOK
    <3>2. CASE Load(r)
      BY <3>1, <3>2, AppendProperties DEF Load, Receive, IInv, TypeOK
    <3>3. CASE Store(r)
      BY <3>3 DEF Store, IInv, TypeOK
    <3>4. QED
      BY <1>2, <3>2, <3>3
  <2>5. TypeOK'
    <3>1. ip' \in [Runs -> 1..(MaxOps + 1)]
      BY <2>1, <2>2, TurnIs DEF IInv, TypeOK
    <3>2. QED
      BY <1>1, <2>2, <2>3, <2>4, <3>1 DEF IInv, TypeOK
  <2>6. HeadsApart' /\ HeadsFilled'
    BY <1>1, <2>2, HeadsKept DEF IInv, TypeOK
  <2>7. CachesRight' /\ IdleRuns' /\ AnswersFitTheType'
    BY <1>1, <2>1, AdvanceKeepsAnswers DEF IInv
  <2>8. QED
    BY <2>5, <2>6, <2>7 DEF IInv
<1>3. CASE Fail(r) \/ Finish(r)
  <2>1. /\ phase[r] = "run" /\ \E how \in {"failed", "done"} : End(r, how)
        /\ asked' = [asked EXCEPT ![r] = FALSE]
    BY <1>1, <1>3 DEF Fail, Finish, IInv, TypeOK
  <2>2. /\ cache' \in [1..MaxOps -> Answers \cup {None}]
        /\ \A i \in 1..MaxOps : cache'[i] # None => cache'[i].ok = (cache'[i].typ \in Accepts)
    BY <1>1 DEF IInv, TypeOK, CachesRight
  <2>3. QED
    BY <1>1, <2>1, <2>2, EndKeepsIInv
<1>4. QED
  BY <1>2, <1>3 DEF Elsewhere

LEMMA StutterKeepsIInv == IInv /\ UNCHANGED cellVars => IInv'
<1> SUFFICES ASSUME IInv, UNCHANGED cellVars PROVE IInv'
  OBVIOUS
<1>1. /\ UNCHANGED <<program, phase, given, ip, seen, host>>
      /\ UNCHANGED <<heads, arrays, cache, asked>>
  BY DEF cellVars, vars
<1>2. TypeOK'
  BY <1>1 DEF IInv, TypeOK
<1>3. HeadsApart' /\ HeadsFilled'
  BY <1>1, HeadsKept DEF IInv, TypeOK
<1>4. CachesRight'
  BY <1>1 DEF IInv, CachesRight, Turn
<1>5. IdleRuns' /\ AnswersFitTheType'
  BY <1>1 DEF IInv, IdleRuns, AnswersFitTheType
<1>6. QED
  BY <1>2, <1>3, <1>4, <1>5 DEF IInv

LEMMA NextKeepsIInv == IInv /\ [NextCells]_cellVars => IInv'
<1> SUFFICES ASSUME IInv, [NextCells]_cellVars PROVE IInv'
  OBVIOUS
<1>1. CASE UNCHANGED cellVars
  BY <1>1, StutterKeepsIInv
<1>2. ASSUME NEW r \in Runs, NEW t \in Types \cup {None}, Start(r, t) PROVE IInv'
  BY <1>2, StartKeepsIInv
<1>3. ASSUME NEW r \in Runs, ReadName(r) PROVE IInv'
  BY <1>3, ReadKeepsIInv
<1>4. ASSUME NEW r \in Runs, AppendInPlace(r) PROVE IInv'
  BY <1>4, InPlaceKeepsIInv
<1>5. ASSUME NEW r \in Runs, NEW spare \in 0..Slack, AppendGrows(r, spare) PROVE IInv'
  BY <1>5, GrowsKeepsIInv
<1>6. ASSUME NEW r \in Runs, SetName(r) PROVE IInv'
  BY <1>6, SetKeepsIInv
<1>7. ASSUME NEW r \in Runs, StackNil(r) PROVE IInv'
  BY <1>7, StackNilKeepsIInv
<1>8. ASSUME NEW r \in Runs, CacheHit(r) PROVE IInv'
  BY <1>8, CacheHitKeepsIInv
<1>9. ASSUME NEW r \in Runs, CacheMiss(r) PROVE IInv'
  BY <1>9, CacheMissKeepsIInv
<1>10. ASSUME NEW r \in Runs, CacheStore(r) PROVE IInv'
  BY <1>10, CacheStoreKeepsIInv
<1>11. ASSUME NEW r \in Runs, Elsewhere(r) PROVE IInv'
  BY <1>11, ElsewhereKeepsIInv
<1>12. QED
  BY <1>1, <1>2, <1>3, <1>4, <1>5, <1>6, <1>7, <1>8, <1>9, <1>10, <1>11 DEF NextCells

LEMMA Invariance == SpecCells => []IInv
<1>1. InitCells => IInv
  BY InitIInv
<1>2. IInv /\ [NextCells]_cellVars => IInv'
  BY NextKeepsIInv
<1>3. QED
  BY <1>1, <1>2, PTL DEF SpecCells

-----------------------------------------------------------------------------
(* Theorems *)

\* Every variable stays in its type: a cell's header shows an array that exists,
\* the caches hold pairs about types that were asked about, and what the calls
\* received was stored by the host or by a run.
THEOREM TypeCorrect == SpecCells => []TypeOK
<1>1. IInv => TypeOK
  BY DEF IInv
<1>2. QED
  BY <1>1, Invariance, PTL

\* The inline caches never answer for another type (vm.go:119-134), however many
\* runs share them and whatever they store meanwhile: a run is refused only a
\* value that does not fit, and goes on only with one that does.
THEOREM AnswersFit == SpecCells => []AnswersFitTheType
<1>1. IInv => AnswersFitTheType
  BY DEF IInv
<1>2. QED
  BY <1>1, Invariance, PTL

-----------------------------------------------------------------------------
(***************************************************************************)
(* Where the host binds slices without spare capacity, no run writes what  *)
(* the host bound; and where the programs compute no func from a name they *)
(* also write, BindingCells implements PrivateNames.                       *)
(***************************************************************************)

NoSpareRoom == \A n \in Names : Room[n] = 0

\* The host's arrays hold what they held, and a cell that still shows the host's
\* array shows all of it: without spare room, an append there has to move.
HostsArrays ==
  /\ \A n \in Names : arrays[n] = Bound[n] \o Zeros(Room[n])
  /\ \A q \in Runs, n \in VarCells :
       phase[q] # "idle" /\ heads[<<q, n>>].arr = n => heads[<<q, n>>].len = Len(Bound[n])

HInv == IInv /\ HostsArrays

\* A step of no name: the slices stay, and no run starts.
Quiet ==
  /\ UNCHANGED <<program, heads, arrays>>
  /\ \A q \in Runs : (phase'[q] = "idle") <=> (phase[q] = "idle")

\* What a header shows after the step.
SliceThen(h) == SubSeq(arrays'[h.arr], 1, h.len)

-----------------------------------------------------------------------------
(* Which steps are quiet *)

LEMMA AdvanceIsQuiet ==
  ASSUME NEW r \in Runs, Advance(r), UNCHANGED <<heads, arrays>>
  PROVE  Quiet
BY DEF Advance, Quiet

LEMMA EndIsQuiet ==
  ASSUME IInv, NEW r \in Runs, NEW how \in {"done", "failed", "refused"},
         phase[r] = "run", End(r, how), UNCHANGED <<heads, arrays>>
  PROVE  Quiet
BY DEF IInv, TypeOK, End, Quiet

LEMMA QuietSteps ==
  ASSUME IInv, NEW r \in Runs,
         \/ ReadName(r) \/ StackNil(r) \/ CacheHit(r) \/ CacheMiss(r) \/ CacheStore(r)
         \/ Elsewhere(r)
  PROVE  Quiet
<1>1. CASE ReadName(r) \/ StackNil(r)
  BY <1>1, AdvanceIsQuiet DEF ReadName, Receive, StackNil, Change
<1>2. CASE CacheHit(r) \/ CacheStore(r)
  <2>1. phase[r] = "run" /\ UNCHANGED <<heads, arrays>> /\ \E ok \in BOOLEAN : Answer(r, ok)
    <3>1. CASE CacheHit(r)
      <4>1. cache[ip[r]].ok \in BOOLEAN
        <5>1. ip[r] \in 1..MaxOps
          BY <3>1, TurnIs DEF CacheHit, Turn, IInv
        <5>2. QED
          BY <3>1, <5>1 DEF CacheHit, Remembers, IInv, TypeOK, Answers
      <4>2. QED
        BY <3>1, <4>1 DEF CacheHit, Turn
    <3>2. CASE CacheStore(r)
      <4>1. asked[r] /\ UNCHANGED <<heads, arrays>> /\ Answer(r, given[r] \in Accepts)
        BY <3>2 DEF CacheStore
      <4>2. phase[r] = "run"
        BY <4>1 DEF IInv, CachesRight, Turn
      <4>3. (given[r] \in Accepts) \in BOOLEAN
        OBVIOUS
      <4>4. QED
        BY <4>1, <4>2, <4>3
    <3>3. QED
      BY <1>2, <3>1, <3>2
  <2>2. Advance(r) \/ End(r, "refused")
    BY <2>1 DEF Answer, Change
  <2>3. QED
    BY <2>1, <2>2, AdvanceIsQuiet, EndIsQuiet
<1>3. CASE CacheMiss(r)
  BY <1>3 DEF CacheMiss, vars, Quiet
<1>4. CASE Elsewhere(r)
  <2>1. UNCHANGED <<heads, arrays>>
    BY <1>4 DEF Elsewhere
  <2>2. CASE Load(r) \/ Store(r)
    BY <2>1, <2>2, AdvanceIsQuiet DEF Load, Receive, Store
  <2>3. CASE Fail(r) \/ Finish(r)
    BY <2>1, <2>3, EndIsQuiet DEF Fail, Finish
  <2>4. QED
    BY <1>4, <2>2, <2>3 DEF Elsewhere
<1>5. QED
  BY <1>1, <1>2, <1>3, <1>4

-----------------------------------------------------------------------------
(* The host's arrays *)

\* What a start does to the headers.
LEMMA StartIs ==
  ASSUME IInv, NEW r \in Runs, NEW t \in Types \cup {None}, Start(r, t)
  PROVE  /\ UNCHANGED <<program, arrays>>
         /\ \A n \in Names : heads'[n] = heads[n]
         /\ \A n \in VarCells : heads'[<<r, n>>] = heads[n]
         /\ \A q \in Runs, n \in Names : q # r => heads'[<<q, n>>] = heads[<<q, n>>]
         /\ phase[r] = "idle" /\ phase'[r] = "run"
         /\ \A q \in Runs \ {r} : phase'[q] = phase[q]
<1>1. {r} \X VarCells \subseteq Cells
  BY VarCellsAreNames DEF IInv, Cells
<1>2. \A n \in Names : heads'[n] = heads[n]
  BY <1>1, PlacesDiffer DEF Start
<1>3. \A n \in VarCells : heads'[<<r, n>>] = heads[n]
  <2>1. \A n \in VarCells : <<r, n>> \in {r} \X VarCells /\ <<r, n>>[2] = n
    OBVIOUS
  <2>2. QED
    BY <1>1, <2>1 DEF Start
<1>4. \A q \in Runs, n \in Names : q # r => heads'[<<q, n>>] = heads[<<q, n>>]
  <2>1. \A q \in Runs, n \in Names : q # r => <<q, n>> \notin {r} \X VarCells
    OBVIOUS
  <2>2. QED
    BY <2>1, PlacesDiffer DEF Start
<1>5. /\ UNCHANGED <<program, arrays>>
      /\ phase[r] = "idle" /\ phase' = [phase EXCEPT ![r] = "run"]
  BY DEF Start, Begin
<1>6. QED
  BY <1>2, <1>3, <1>4, <1>5 DEF IInv, TypeOK

\* An append in place is never in an array of the host, nor in one that another
\* header shows.
LEMMA InPlaceIsOwn ==
  ASSUME NoSpareRoom, HInv, NEW r \in Runs, AppendInPlace(r)
  PROVE  LET n == At(r).name
             a == heads[<<r, n>>].arr
         IN /\ a \in MadeArrays /\ a \notin Names
            /\ \A m \in Names : heads[m].arr # a
            /\ \A q \in Runs, m \in Names : <<q, m>> # <<r, n>> => heads[<<q, m>>].arr # a
<1> DEFINE n == At(r).name
           h == heads[<<r, n>>]
<1>1. /\ n \in Names /\ n \in VarCells /\ phase[r] = "run" /\ h.len < Len(arrays[h.arr])
  BY InPlaceIs DEF HInv
<1>2. IInv /\ HostsArrays
  BY DEF HInv
<1>3. h.arr # n
  <2>1. Len(arrays[n]) = Len(Bound[n]) + Room[n] /\ Len(Bound[n]) \in Nat
    BY <1>1, <1>2, BoundType DEF HostsArrays
  <2>2. Len(arrays[n]) = Len(Bound[n]) /\ Len(Bound[n]) \in Nat
    BY <1>1, <2>1 DEF NoSpareRoom
  <2>3. SUFFICES ASSUME h.arr = n PROVE FALSE
    OBVIOUS
  <2>4. h.len = Len(Bound[n])
    BY <1>1, <1>2, <2>3 DEF HostsArrays
  <2>5. QED
    BY <1>1, <2>2, <2>3, <2>4
<1>4. PICK i \in 1..(ip[r] - 1) : h.arr = <<r, i>> /\ program[i].name = n
  BY <1>1, <1>2, <1>3 DEF IInv, HeadsApart, MadeFor
<1>5. <<r, i>> \in MadeArrays /\ <<r, i>> \notin Names
  <2>1. i \in 1..MaxOps
    BY <1>2, BoundNamesAssumption DEF IInv, TypeOK
  <2>2. QED
    BY <2>1, BoundNamesAssumption DEF MadeArrays
<1>6. \A m \in Names : heads[m].arr # <<r, i>>
  BY <1>2, <1>5 DEF IInv, HeadsApart
<1>7. ASSUME NEW q \in Runs, NEW m \in Names, <<q, m>> # <<r, n>>
      PROVE  heads[<<q, m>>].arr # <<r, i>>
  <2>1. <<r, i>> \notin MadeFor(q, m)
    BY <1>4, <1>7 DEF MadeFor
  <2>2. <<r, i>> # m
    BY <1>5
  <2>3. QED
    BY <1>2, <2>1, <2>2 DEF IInv, HeadsApart
<1>8. QED
  BY <1>4, <1>5, <1>6, <1>7

\* An append in place and what the headers show then.
LEMMA InPlaceShows ==
  ASSUME NoSpareRoom, HInv, NEW r \in Runs, AppendInPlace(r)
  PROVE  LET n == At(r).name IN
           /\ n \in VarCells /\ UNCHANGED <<program, phase>> /\ phase[r] = "run"
           /\ \A m \in Names : arrays'[m] = arrays[m]
           /\ heads'[<<r, n>>].arr \notin Names
           /\ SliceThen(heads'[<<r, n>>]) = Append(Slice(heads[<<r, n>>]), <<r, ip[r]>>)
           /\ \A at \in (Names \cup Cells) \ {<<r, n>>} :
                /\ heads'[at] = heads[at]
                /\ arrays'[heads[at].arr] = arrays[heads[at].arr]
<1> DEFINE n == At(r).name
           h == heads[<<r, n>>]
           v == <<r, ip[r]>>
<1>1. IInv /\ HostsArrays
  BY DEF HInv
<1>2. /\ n \in Names /\ n \in VarCells /\ phase[r] = "run"
      /\ arrays' = [arrays EXCEPT ![h.arr] = [arrays[h.arr] EXCEPT ![h.len + 1] = v]]
      /\ heads' = [heads EXCEPT ![<<r, n>>] = [arr |-> h.arr, len |-> h.len + 1]]
      /\ SubSeq(arrays'[h.arr], 1, h.len + 1) = Append(Slice(h), v)
  BY <1>1, InPlaceIs
<1>3. UNCHANGED <<program, phase>>
  BY DEF AppendInPlace, Change, Advance
<1>4. /\ h.arr \in MadeArrays /\ h.arr \notin Names
      /\ \A m \in Names : heads[m].arr # h.arr
      /\ \A q \in Runs, m \in Names : <<q, m>> # <<r, n>> => heads[<<q, m>>].arr # h.arr
  BY InPlaceIsOwn
<1>5. \A at \in (Names \cup Cells) \ {<<r, n>>} :
        heads[at].arr # h.arr /\ heads[at].arr \in Names \cup MadeArrays
  <2>1. \A at \in (Names \cup Cells) \ {<<r, n>>} : heads[at].arr # h.arr
    BY <1>4 DEF Cells
  <2>2. QED
    BY <1>1, <2>1 DEF IInv, TypeOK, Header
<1>6. \A b \in (Names \cup MadeArrays) \ {h.arr} : arrays'[b] = arrays[b]
  BY <1>1, <1>2 DEF IInv, TypeOK
<1>7. <<r, n>> \in Names \cup Cells
  BY <1>2, PlacesDiffer
<1>8. heads'[<<r, n>>].arr = h.arr /\ heads'[<<r, n>>].len = h.len + 1
  BY <1>1, <1>2, <1>7 DEF IInv, TypeOK
<1>9. \A at \in (Names \cup Cells) \ {<<r, n>>} : heads'[at] = heads[at]
  BY <1>1, <1>2 DEF IInv, TypeOK
<1>10. SliceThen(heads'[<<r, n>>]) = Append(Slice(h), v)
  BY <1>2, <1>8 DEF SliceThen
<1>11. QED
  BY <1>2, <1>3, <1>4, <1>5, <1>6, <1>8, <1>9, <1>10

\* So does a write to an array of its own.
LEMMA NewArrayShows ==
  ASSUME IInv, NEW r \in Runs, (\E spare \in 0..Slack : AppendGrows(r, spare)) \/ SetName(r)
  PROVE  LET n == At(r).name
             v == <<r, ip[r]>>
         IN
           /\ n \in VarCells /\ UNCHANGED <<program, phase>> /\ phase[r] = "run"
           /\ \A m \in Names : arrays'[m] = arrays[m]
           /\ heads'[<<r, n>>].arr \notin Names
           /\ ~SetName(r) => SliceThen(heads'[<<r, n>>]) = Append(Slice(heads[<<r, n>>]), v)
           /\ SetName(r) => SliceThen(heads'[<<r, n>>]) = <<v>>
           /\ \A at \in (Names \cup Cells) \ {<<r, n>>} :
                /\ heads'[at] = heads[at]
                /\ arrays'[heads[at].arr] = arrays[heads[at].arr]
<1> DEFINE n == At(r).name
           v == <<r, ip[r]>>
           Shown(s, len) ==
             /\ n \in VarCells /\ phase[r] = "run" /\ UNCHANGED <<program, phase>>
             /\ v \in MadeArrays /\ v \notin Names
             /\ heads'[<<r, n>>].arr = v /\ heads'[<<r, n>>].len = len /\ arrays'[v] = s
             /\ \A b \in Names : arrays'[b] = arrays[b]
             /\ \A at \in (Names \cup Cells) \ {<<r, n>>} :
                  /\ heads'[at] = heads[at]
                  /\ arrays'[heads[at].arr] = arrays[heads[at].arr]
<1>1. ASSUME NEW spare \in 0..Slack, AppendGrows(r, spare)
      PROVE  /\ Shown(Append(Slice(heads[<<r, n>>]), v) \o Zeros(spare), heads[<<r, n>>].len + 1)
             /\ SliceThen(heads'[<<r, n>>]) = Append(Slice(heads[<<r, n>>]), v)
             /\ ~SetName(r)
  <2> DEFINE len == heads[<<r, n>>].len + 1
             s == Append(Slice(heads[<<r, n>>]), v) \o Zeros(spare)
  <2>1. /\ n \in Names /\ n \in VarCells /\ ~asked[r]
        /\ ip[r] \in DOMAIN program /\ phase[r] = "run" /\ At(r).kind = "append"
        /\ s \in Seq(Elems \cup {Zero}) /\ len \in Nat /\ len <= Len(s)
        /\ \A k \in 1..len : s[k] \in Elems
        /\ arrays' = [arrays EXCEPT ![v] = s]
        /\ heads' = [heads EXCEPT ![<<r, n>>] = [arr |-> v, len |-> len]]
        /\ SubSeq(s, 1, len) = Append(Slice(heads[<<r, n>>]), v)
    BY <1>1, GrowsIs
  <2>2. Advance(r) /\ UNCHANGED <<seen, host, cache, asked, program, phase>>
    BY <1>1 DEF AppendGrows, Change, Advance
  <2>3. MovedTo(r, n, s, len)
    BY <1>1, <2>2, GrowsIs, NewArrayKeepsIInv
  <2> HIDE DEF s, len
  <2>4. v \in MadeArrays /\ v \notin Names
    BY <2>1, TurnIs DEF IInv
  <2>5. \A b \in Names : arrays'[b] = arrays[b]
    BY <2>1, <2>4 DEF IInv, TypeOK
  <2>6. SliceThen(heads'[<<r, n>>]) = Append(Slice(heads[<<r, n>>]), v)
    BY <2>1, <2>3 DEF SliceThen, MovedTo
  <2>7. ~SetName(r)
    BY <2>1 DEF SetName, Turn, At
  <2>8. Shown(s, len)
    BY <2>1, <2>2, <2>3, <2>4, <2>5 DEF MovedTo
  <2>9. QED
    BY <2>6, <2>7, <2>8 DEF s, len
<1>2. ASSUME SetName(r)
      PROVE  Shown(<<v>>, 1) /\ SliceThen(heads'[<<r, n>>]) = <<v>>
  <2> DEFINE s == <<v>>
             len == 1
  <2>1. /\ n \in Names /\ n \in VarCells /\ ~asked[r]
        /\ ip[r] \in DOMAIN program /\ phase[r] = "run" /\ At(r).kind = "set"
        /\ s \in Seq(Elems \cup {Zero}) /\ Len(s) = 1 /\ v \in Elems
        /\ arrays' = [arrays EXCEPT ![v] = s]
        /\ heads' = [heads EXCEPT ![<<r, n>>] = [arr |-> v, len |-> len]]
    BY <1>2, SetIs
  <2>2. len \in Nat /\ len <= Len(s) /\ \A k \in 1..len : s[k] \in Elems
    BY <2>1
  <2>3. SubSeq(s, 1, len) = s
    <3>1. s \in Seq(Elems) /\ \A k \in 1..len : s[k] \in Elems
      BY <2>1
    <3>2. /\ SubSeq(s, 1, len) \in Seq(Elems) /\ Len(SubSeq(s, 1, len)) = 1
          /\ \A k \in 1..len : SubSeq(s, 1, len)[k] = s[k]
      BY <2>2, PrefixIs
    <3>3. QED
      BY <2>1, <3>1, <3>2, SeqEqual
  <2>4. Advance(r) /\ UNCHANGED <<seen, host, cache, asked, program, phase>>
    BY <1>2 DEF SetName, Change, Advance
  <2>5. MovedTo(r, n, s, len)
    BY <1>2, <2>2, <2>4, SetIs, NewArrayKeepsIInv
  <2> HIDE DEF s, len
  <2>6. v \in MadeArrays /\ v \notin Names
    BY <2>1, TurnIs DEF IInv
  <2>7. \A b \in Names : arrays'[b] = arrays[b]
    BY <2>1, <2>6 DEF IInv, TypeOK
  <2>8. SliceThen(heads'[<<r, n>>]) = s
    BY <2>3, <2>5 DEF SliceThen, MovedTo
  <2>9. Shown(s, len)
    BY <2>1, <2>4, <2>5, <2>6, <2>7 DEF MovedTo
  <2>10. QED
    BY <2>8, <2>9 DEF s, len
<1>3. QED
  BY <1>1, <1>2

\* Either way, what a write leaves of the slices.
WriteLeaves(r) ==
  /\ At(r).name \in VarCells /\ UNCHANGED <<program, phase>> /\ phase[r] = "run"
  /\ \A m \in Names : arrays'[m] = arrays[m]
  /\ heads'[<<r, At(r).name>>].arr \notin Names
  /\ \A at \in (Names \cup Cells) \ {<<r, At(r).name>>} :
       /\ heads'[at] = heads[at]
       /\ arrays'[heads[at].arr] = arrays[heads[at].arr]

Writes(r) == AppendInPlace(r) \/ (\E spare \in 0..Slack : AppendGrows(r, spare)) \/ SetName(r)

LEMMA WritesLeave ==
  ASSUME NoSpareRoom, HInv, NEW r \in Runs, Writes(r)
  PROVE  WriteLeaves(r)
<1>1. CASE AppendInPlace(r)
  BY <1>1, InPlaceShows DEF WriteLeaves
<1>2. CASE (\E spare \in 0..Slack : AppendGrows(r, spare)) \/ SetName(r)
  BY <1>2, NewArrayShows DEF WriteLeaves, HInv
<1>3. QED
  BY <1>1, <1>2 DEF Writes

\* Every step is a start, a write or quiet.
LEMMA StepsAre ==
  ASSUME IInv, NextCells
  PROVE  \/ \E r \in Runs, t \in Types \cup {None} : Start(r, t)
         \/ \E r \in Runs : Writes(r)
         \/ Quiet
BY QuietSteps DEF NextCells, Writes

LEMMA InitHInv == InitCells => HInv
<1> SUFFICES ASSUME InitCells PROVE HostsArrays
  BY InitIInv DEF HInv
<1>1. \A n \in Names : arrays[n] = Bound[n] \o Zeros(Room[n])
  BY DEF InitCells
<1>2. \A q \in Runs : phase[q] = "idle"
  BY DEF InitCells, Init
<1>3. QED
  BY <1>1, <1>2 DEF HostsArrays

LEMMA NextKeepsHInv ==
  ASSUME NoSpareRoom, HInv, [NextCells]_cellVars
  PROVE  HInv'
<1>1. IInv /\ HostsArrays
  BY DEF HInv
<1>2. IInv'
  BY <1>1, NextKeepsIInv
<1>3. CASE Quiet \/ UNCHANGED cellVars
  <2>1. Quiet
    BY <1>3 DEF Quiet, cellVars, vars
  <2>2. VarCells' = VarCells
    BY <2>1 DEF Quiet, VarCells, Assigned, Addressed
  <2>3. HostsArrays'
    BY <1>1, <2>1, <2>2 DEF Quiet, HostsArrays
  <2>4. QED
    BY <1>2, <2>3 DEF HInv
<1>4. ASSUME NEW r \in Runs, NEW t \in Types \cup {None}, Start(r, t)
      PROVE  HInv'
  <2>1. /\ UNCHANGED <<program, arrays>>
        /\ \A n \in VarCells : heads'[<<r, n>>] = heads[n]
        /\ \A q \in Runs, n \in Names : q # r => heads'[<<q, n>>] = heads[<<q, n>>]
        /\ \A q \in Runs \ {r} : phase'[q] = phase[q]
    BY <1>1, <1>4, StartIs
  <2>2. VarCells' = VarCells /\ VarCells \subseteq Names
    BY <1>1, <2>1, VarCellsAreNames DEF VarCells, Assigned, Addressed, IInv
  <2>3. \A n \in Names : heads[n].len = Len(Bound[n])
    BY <1>1 DEF IInv, HeadsApart
  <2>4. ASSUME NEW q \in Runs, NEW n \in VarCells, phase'[q] # "idle", heads'[<<q, n>>].arr = n
        PROVE  heads'[<<q, n>>].len = Len(Bound[n])
    <3>1. CASE q = r
      BY <2>1, <2>2, <2>3, <3>1
    <3>2. CASE q # r
      BY <1>1, <2>1, <2>2, <2>4, <3>2 DEF HostsArrays
    <3>3. QED
      BY <3>1, <3>2
  <2>5. HostsArrays'
    BY <1>1, <2>1, <2>2, <2>4 DEF HostsArrays
  <2>6. QED
    BY <1>2, <2>5 DEF HInv
<1>5. ASSUME NEW r \in Runs, Writes(r)
      PROVE  HInv'
  <2>1. WriteLeaves(r)
    BY <1>5, WritesLeave
  <2>2. VarCells' = VarCells /\ VarCells \subseteq Names
    BY <1>1, <2>1, VarCellsAreNames DEF WriteLeaves, VarCells, Assigned, Addressed, IInv
  <2>3. ASSUME NEW q \in Runs, NEW n \in VarCells, phase'[q] # "idle", heads'[<<q, n>>].arr = n
        PROVE  heads'[<<q, n>>].len = Len(Bound[n])
    <3>1. <<q, n>> # <<r, At(r).name>>
      BY <2>1, <2>2, <2>3 DEF WriteLeaves
    <3>2. heads'[<<q, n>>] = heads[<<q, n>>] /\ phase'[q] = phase[q]
      BY <2>1, <2>2, <3>1, PlacesDiffer DEF WriteLeaves
    <3>3. QED
      BY <1>1, <2>3, <3>2 DEF HostsArrays
  <2>4. HostsArrays'
    BY <1>1, <2>1, <2>2, <2>3 DEF HostsArrays, WriteLeaves
  <2>5. QED
    BY <1>2, <2>4 DEF HInv
<1>6. QED
  BY <1>1, <1>3, <1>4, <1>5, StepsAre

\* bindvar.go:15-18, where no bound slice has spare capacity: whatever programs
\* run, however often and in whatever order their steps mix, the host's values and
\* the arrays behind them stay as they were bound.
THEOREM HostIsUntouched ==
  ASSUME NoSpareRoom
  PROVE  SpecCells => []HostKeepsItsValues
<1>1. InitCells => HInv
  BY InitHInv
<1>2. HInv /\ [NextCells]_cellVars => HInv'
  BY NextKeepsHInv
<1>3. HInv => HostKeepsItsValues
  <2> SUFFICES ASSUME HInv, NEW n \in Names
               PROVE  /\ heads[n] = [arr |-> n, len |-> Len(Bound[n])]
                      /\ arrays[n] = Bound[n] \o Zeros(Room[n])
    BY DEF HostKeepsItsValues
  <2>1. heads[n] \in Header /\ heads[n].arr = n /\ heads[n].len = Len(Bound[n])
    BY DEF HInv, IInv, TypeOK, HeadsApart
  <2>2. heads[n] = [arr |-> n, len |-> Len(Bound[n])]
    BY <2>1 DEF Header
  <2>3. QED
    BY <2>2 DEF HInv, HostsArrays
<1>4. QED
  BY <1>1, <1>2, <1>3, PTL DEF SpecCells

-----------------------------------------------------------------------------
(* The refinement *)

\* No program computes a func from a name it also writes: argRoots does not lead
\* to that name, and the func would be the bound one.
CalleesReadBound ==
  \A i \in DOMAIN program :
    program[i].kind = "read" /\ program[i].name \in VarCells => Reached(program[i])

RInv == HInv /\ CalleesReadBound

\* The cell or the bound value that stands for name n in run q.
OwnPlace(q, n) == IF phase[q] # "idle" /\ n \in VarCells THEN <<q, n>> ELSE n

LEMMA OwnPlaceIs ==
  \A q \in Runs, n \in Names : OwnPlace(q, n) \in Names \cup Cells
BY PlacesDiffer DEF OwnPlace

LEMMA OwnIs ==
  /\ OwnNames = [q \in Runs |-> [n \in Names |-> Slice(heads[OwnPlace(q, n)])]]
  /\ OwnNames' = [q \in Runs |-> [n \in Names |-> SliceThen(heads'[OwnPlace(q, n)'])]]
BY DEF OwnNames, OwnPlace, Slice, SliceThen

\* If no name shows anything else, no run's names have changed.
LEMMA OwnSame ==
  ASSUME \A q \in Runs, n \in Names :
           SliceThen(heads'[OwnPlace(q, n)']) = Slice(heads[OwnPlace(q, n)])
  PROVE  UNCHANGED OwnNames
BY OwnIs

\* If one name of one run does, it alone has changed.
LEMMA OwnChanges ==
  ASSUME NEW r \in Runs, NEW n \in Names, NEW s,
         SliceThen(heads'[OwnPlace(r, n)']) = s,
         \A q \in Runs, m \in Names : <<q, m>> # <<r, n>> =>
           SliceThen(heads'[OwnPlace(q, m)']) = Slice(heads[OwnPlace(q, m)])
  PROVE  OwnNames' = [OwnNames EXCEPT ![r][n] = s]
<1> DEFINE was == [q \in Runs |-> [m \in Names |-> Slice(heads[OwnPlace(q, m)])]]
           is == [q \in Runs |-> [m \in Names |-> SliceThen(heads'[OwnPlace(q, m)'])]]
<1>1. \A q \in Runs, m \in Names : is[q][m] = IF <<q, m>> = <<r, n>> THEN s ELSE was[q][m]
  OBVIOUS
<1>2. \A q \in Runs \ {r} : is[q] = was[q]
  OBVIOUS
<1>3. is[r] = [was[r] EXCEPT ![n] = s]
  OBVIOUS
<1>4. is = [was EXCEPT ![r] = [was[r] EXCEPT ![n] = s]]
  BY <1>2, <1>3
<1>5. QED
  BY <1>4, OwnIs

LEMMA QuietKeepsOwn ==
  ASSUME Quiet
  PROVE  UNCHANGED OwnNames
<1>1. VarCells' = VarCells
  BY DEF Quiet, VarCells, Assigned, Addressed
<1>2. \A q \in Runs, n \in Names : OwnPlace(q, n)' = OwnPlace(q, n)
  BY <1>1 DEF Quiet, OwnPlace
<1>3. QED
  BY <1>2, OwnSame DEF Quiet, Slice, SliceThen

\* The prologue hands a run what the bound names show.
LEMMA StartKeepsOwn ==
  ASSUME IInv, NEW r \in Runs, NEW t \in Types \cup {None}, Start(r, t)
  PROVE  UNCHANGED OwnNames
<1>1. /\ UNCHANGED <<program, arrays>>
      /\ \A n \in Names : heads'[n] = heads[n]
      /\ \A n \in VarCells : heads'[<<r, n>>] = heads[n]
      /\ \A q \in Runs, n \in Names : q # r => heads'[<<q, n>>] = heads[<<q, n>>]
      /\ phase[r] = "idle" /\ phase'[r] = "run"
      /\ \A q \in Runs \ {r} : phase'[q] = phase[q]
  BY StartIs
<1>2. VarCells' = VarCells
  BY <1>1 DEF VarCells, Assigned, Addressed
<1>3. ASSUME NEW q \in Runs, NEW n \in Names
      PROVE  heads'[OwnPlace(q, n)'] = heads[OwnPlace(q, n)]
  <2>1. CASE q = r
    BY <1>1, <1>2, <2>1 DEF OwnPlace
  <2>2. CASE q # r
    BY <1>1, <1>2, <2>2 DEF OwnPlace
  <2>3. QED
    BY <2>1, <2>2
<1>4. QED
  BY <1>1, <1>3, OwnSame DEF Slice, SliceThen

\* A write changes the name it is to, for its run alone.
LEMMA WriteChangesOwn ==
  ASSUME NoSpareRoom, HInv, NEW r \in Runs, Writes(r)
  PROVE  LET n == At(r).name IN
           /\ n \in Names
           /\ OwnNames[r][n] = Slice(heads[<<r, n>>])
           /\ OwnNames' = [OwnNames EXCEPT ![r][n] = SliceThen(heads'[<<r, n>>])]
<1>0. PICK n : n = At(r).name
  OBVIOUS
<1>1. /\ n \in VarCells /\ UNCHANGED <<program, phase>> /\ phase[r] = "run"
      /\ \A at \in (Names \cup Cells) \ {<<r, n>>} :
           /\ heads'[at] = heads[at]
           /\ arrays'[heads[at].arr] = arrays[heads[at].arr]
  BY <1>0, WritesLeave DEF WriteLeaves
<1>2. VarCells' = VarCells /\ VarCells \subseteq Names
  BY <1>1, VarCellsAreNames DEF VarCells, Assigned, Addressed, HInv, IInv
<1>3. \A q \in Runs, m \in Names : OwnPlace(q, m)' = OwnPlace(q, m)
  BY <1>1, <1>2 DEF OwnPlace
<1>4. n \in Names /\ OwnPlace(r, n) = <<r, n>>
  BY <1>1, <1>2 DEF OwnPlace
<1>5. ASSUME NEW q \in Runs, NEW m \in Names, <<q, m>> # <<r, n>>
      PROVE  SliceThen(heads'[OwnPlace(q, m)']) = Slice(heads[OwnPlace(q, m)])
  <2>1. OwnPlace(q, m) # <<r, n>>
    BY <1>4, <1>5, PlacesDiffer DEF OwnPlace
  <2>2. OwnPlace(q, m) \in (Names \cup Cells) \ {<<r, n>>}
    BY <2>1, OwnPlaceIs
  <2>3. QED
    BY <1>1, <1>3, <2>2 DEF Slice, SliceThen
<1>6. OwnNames' = [OwnNames EXCEPT ![r][n] = SliceThen(heads'[<<r, n>>])]
  <2>1. SliceThen(heads'[OwnPlace(r, n)']) = SliceThen(heads'[<<r, n>>])
    BY <1>3, <1>4
  <2>2. QED
    BY <1>4, <1>5, <2>1, OwnChanges
<1>7. OwnNames[r][n] = Slice(heads[<<r, n>>])
  BY <1>4, OwnIs
<1>8. QED
  BY <1>0, <1>4, <1>6, <1>7

LEMMA NextKeepsRInv ==
  ASSUME NoSpareRoom, RInv, [NextCells]_cellVars
  PROVE  RInv'
<1>1. HInv'
  BY NextKeepsHInv DEF RInv
<1>2. UNCHANGED program
  <2>1. CASE NextCells
    <3>1. ASSUME NEW r \in Runs, Writes(r) PROVE UNCHANGED program
      BY <3>1, WritesLeave DEF WriteLeaves, RInv
    <3>2. ASSUME NEW r \in Runs, NEW t \in Types \cup {None}, Start(r, t)
          PROVE  UNCHANGED program
      BY <3>2 DEF Start, Begin
    <3>3. QED
      BY <2>1, <3>1, <3>2, StepsAre DEF Quiet, RInv, HInv
  <2>2. QED
    BY <2>1 DEF cellVars, vars
<1>3. QED
  BY <1>1, <1>2 DEF RInv, CalleesReadBound, VarCells, Assigned, Addressed

-----------------------------------------------------------------------------
(* What each step is to a host that sees private names *)

LEMMA StartIsBegin ==
  ASSUME IInv, NEW r \in Runs, NEW t \in Types \cup {None}, Start(r, t)
  PROVE  Private!NextPrivate
<1>1. UNCHANGED OwnNames
  BY StartKeepsOwn
<1>2. Private!Begin(r, t)
  BY DEF Start, Begin, Private!Begin
<1>3. QED
  BY <1>1, <1>2 DEF Private!NextPrivate

LEMMA ReadIsRead ==
  ASSUME RInv, NEW r \in Runs, ReadName(r)
  PROVE  Private!NextPrivate
<1>1. UNCHANGED OwnNames
  BY QuietSteps, QuietKeepsOwn DEF RInv, HInv
<1>2. /\ Turn(r, "read") /\ ip[r] \in DOMAIN program /\ phase[r] = "run"
      /\ At(r).kind = "read"
  BY DEF ReadName, Turn, At
<1>3. At(r).name \in Names
  BY <1>2, TurnIs DEF RInv, HInv, IInv
<1>4. Place(r, At(r)) = OwnPlace(r, At(r).name)
  BY <1>2 DEF Place, OwnPlace, RInv, CalleesReadBound, At
<1>5. OwnNames[r][At(r).name] = Slice(heads[Place(r, At(r))])
  BY <1>3, <1>4, OwnIs
<1>6. Private!Read(r)
  BY <1>1, <1>2, <1>5 DEF ReadName, Receive, Advance, Turn, At, Private!Read, Private!Turn,
     Private!At, Private!Receive, Private!Advance
<1>7. QED
  BY <1>6 DEF Private!NextPrivate

LEMMA WriteIsWrite ==
  ASSUME NoSpareRoom, RInv, NEW r \in Runs, Writes(r)
  PROVE  Private!NextPrivate
<1> DEFINE n == At(r).name
           v == <<r, ip[r]>>
<1>1. /\ n \in Names /\ OwnNames[r][n] = Slice(heads[<<r, n>>])
      /\ OwnNames' = [OwnNames EXCEPT ![r][n] = SliceThen(heads'[<<r, n>>])]
  BY WriteChangesOwn DEF RInv
<1>2. CASE AppendInPlace(r) \/ \E spare \in 0..Slack : AppendGrows(r, spare)
  <2>1. Turn(r, "append") /\ Change(r)
    BY <1>2 DEF AppendInPlace, AppendGrows, Appending
  <2>2. ~SetName(r)
    BY <2>1 DEF SetName, Turn
  <2>3. SliceThen(heads'[<<r, n>>]) = Append(Slice(heads[<<r, n>>]), v)
    BY <1>2, <2>2, InPlaceShows, NewArrayShows DEF RInv, HInv
  <2>4. OwnNames' = [OwnNames EXCEPT ![r][n] = Append(@, v)]
    BY <1>1, <2>3
  <2>5. Private!Extend(r)
    BY <2>1, <2>4 DEF Turn, At, Change, Advance, Private!Extend, Private!Turn, Private!At,
       Private!Change, Private!Advance
  <2>6. QED
    BY <2>5 DEF Private!NextPrivate
<1>3. CASE SetName(r)
  <2>1. Turn(r, "set") /\ Change(r)
    BY <1>3 DEF SetName
  <2>2. SliceThen(heads'[<<r, n>>]) = <<v>>
    BY <1>3, NewArrayShows DEF RInv, HInv
  <2>3. OwnNames' = [OwnNames EXCEPT ![r][n] = <<v>>]
    BY <1>1, <2>2
  <2>4. Private!Assign(r)
    BY <2>1, <2>3 DEF Turn, At, Change, Advance, Private!Assign, Private!Turn, Private!At,
       Private!Change, Private!Advance
  <2>5. QED
    BY <2>4 DEF Private!NextPrivate
<1>4. QED
  BY <1>2, <1>3 DEF Writes

\* The right answer, whoever gave it, accepts or refuses.
LEMMA AnswerIsAnswer ==
  ASSUME IInv, NEW r \in Runs, StackNil(r) \/ CacheHit(r) \/ CacheStore(r)
  PROVE  Private!NextPrivate
<1>1. UNCHANGED OwnNames
  BY QuietSteps, QuietKeepsOwn
<1>2. Turn(r, "stack")
  BY DEF StackNil, CacheHit, CacheStore, IInv, CachesRight
<1>3. \/ given[r] \in Accepts \cup {None} /\ Change(r)
      \/ given[r] \notin Accepts \cup {None} /\ End(r, "refused")
  <2>1. CASE StackNil(r)
    BY <2>1 DEF StackNil
  <2>2. CASE CacheHit(r) \/ CacheStore(r)
    <3>1. given[r] \in Types /\ Answer(r, given[r] \in Accepts)
      <4>1. CASE CacheHit(r)
        <5>1. ip[r] \in 1..MaxOps
          BY <1>2, TurnIs DEF IInv, Turn
        <5>2. given[r] \in Types /\ cache[ip[r]].ok = (given[r] \in Accepts)
          BY <4>1, <5>1 DEF CacheHit, Remembers, IInv, TypeOK, CachesRight, Answers
        <5>3. QED
          BY <4>1, <5>2 DEF CacheHit
      <4>2. CASE CacheStore(r)
        BY <4>2 DEF CacheStore, IInv, CachesRight
      <4>3. QED
        BY <2>2, <4>1, <4>2
    <3>2. given[r] # None
      BY <3>1, BoundNamesAssumption
    <3>3. QED
      BY <3>1, <3>2 DEF Answer
  <2>3. QED
    BY <2>1, <2>2
<1>4. Private!Accept(r) \/ Private!Refuse(r)
  BY <1>1, <1>2, <1>3 DEF Turn, Change, Advance, End, Private!Accept, Private!Refuse,
     Private!Turn, Private!Change, Private!Advance, Private!End
<1>5. QED
  BY <1>4 DEF Private!NextPrivate

LEMMA ElsewhereIsElsewhere ==
  ASSUME IInv, NEW r \in Runs, Elsewhere(r)
  PROVE  Private!NextPrivate
<1>1. UNCHANGED OwnNames
  BY QuietSteps, QuietKeepsOwn
<1>2. Private!Load(r) \/ Private!Store(r) \/ Private!Fail(r) \/ Private!Finish(r)
  <2>1. CASE Load(r)
    BY <2>1 DEF Load, Turn, At, Receive, Advance, Private!Load, Private!Turn, Private!At,
       Private!Receive, Private!Advance
  <2>2. CASE Store(r)
    BY <2>2 DEF Store, Turn, At, Advance, Private!Store, Private!Turn, Private!At,
       Private!Advance
  <2>3. CASE Fail(r)
    BY <2>3 DEF Fail, End, Private!Fail, Private!End
  <2>4. CASE Finish(r)
    BY <2>4 DEF Finish, End, Private!Finish, Private!End
  <2>5. QED
    BY <2>1, <2>2, <2>3, <2>4 DEF Elsewhere
<1>3. QED
  BY <1>1, <1>2 DEF Private!NextPrivate

LEMMA MissIsNothing ==
  ASSUME IInv, NEW r \in Runs, CacheMiss(r)
  PROVE  UNCHANGED Private!privateVars
<1>1. UNCHANGED OwnNames
  BY QuietSteps, QuietKeepsOwn
<1>2. QED
  BY <1>1 DEF CacheMiss, vars, Private!privateVars, Private!vars

\* docs/syntax.md on value bindings, where no bound slice has spare capacity and
\* no func is computed from a name the program writes: headers over shared arrays,
\* cells seeded by a copy of the header and a cache all runs use behave, step for
\* step, as if each run had every name to itself.
THEOREM CellsArePrivate ==
  ASSUME NoSpareRoom
  PROVE  SpecCells /\ CalleesReadBound => NamesArePrivate
<1>1. InitCells /\ CalleesReadBound => RInv
  BY InitHInv DEF RInv
<1>2. RInv /\ [NextCells]_cellVars => RInv'
  BY NextKeepsRInv
<1>3. InitCells => Private!InitPrivate
  <2> SUFFICES ASSUME InitCells PROVE Private!InitPrivate
    OBVIOUS
  <2>1. ASSUME NEW q \in Runs, NEW n \in Names
        PROVE  Slice(heads[OwnPlace(q, n)]) = Bound[n]
    <3>1. OwnPlace(q, n) = n
      BY DEF InitCells, Init, OwnPlace
    <3>2. /\ heads[n].arr = n /\ heads[n].len = Len(Bound[n])
          /\ arrays[n] = Bound[n] \o Zeros(Room[n])
      <4>1. HInv
        BY InitHInv
      <4>2. QED
        BY <4>1 DEF HInv, IInv, HeadsApart, HostsArrays
    <3>3. SubSeq(Bound[n] \o Zeros(Room[n]), 1, Len(Bound[n])) = Bound[n]
      BY BoundType
    <3>4. QED
      BY <3>1, <3>2, <3>3 DEF Slice
  <2>2. Bound = [n \in Names |-> Bound[n]]
    BY BoundNamesAssumption
  <2>3. OwnNames = [q \in Runs |-> Bound]
    BY <2>1, <2>2, OwnIs
  <2>4. QED
    BY <2>3 DEF InitCells, Init, Private!InitPrivate, Private!Init
<1>4. RInv /\ [NextCells]_cellVars => [Private!NextPrivate]_Private!privateVars
  <2> SUFFICES ASSUME RInv, [NextCells]_cellVars
               PROVE  Private!NextPrivate \/ UNCHANGED Private!privateVars
    OBVIOUS
  <2>1. HInv /\ IInv
    BY DEF RInv, HInv
  <2>2. CASE UNCHANGED cellVars
    <3>1. Quiet
      BY <2>2 DEF Quiet, cellVars, vars
    <3>2. UNCHANGED OwnNames
      BY <3>1, QuietKeepsOwn
    <3>3. QED
      BY <2>2, <3>2 DEF cellVars, vars, Private!privateVars, Private!vars
  <2>3. CASE NextCells
    <3>1. ASSUME NEW r \in Runs, NEW t \in Types \cup {None}, Start(r, t)
          PROVE  Private!NextPrivate
      BY <2>1, <3>1, StartIsBegin
    <3>2. ASSUME NEW r \in Runs, ReadName(r) PROVE Private!NextPrivate
      BY <3>2, ReadIsRead
    <3>3. ASSUME NEW r \in Runs, Writes(r) PROVE Private!NextPrivate
      BY <3>3, WriteIsWrite
    <3>4. ASSUME NEW r \in Runs, StackNil(r) \/ CacheHit(r) \/ CacheStore(r)
          PROVE  Private!NextPrivate
      BY <2>1, <3>4, AnswerIsAnswer
    <3>5. ASSUME NEW r \in Runs, CacheMiss(r) PROVE UNCHANGED Private!privateVars
      BY <2>1, <3>5, MissIsNothing
    <3>6. ASSUME NEW r \in Runs, Elsewhere(r) PROVE Private!NextPrivate
      BY <2>1, <3>6, ElsewhereIsElsewhere
    <3>7. QED
      BY <2>3, <3>1, <3>2, <3>3, <3>4, <3>5, <3>6 DEF NextCells, Writes
  <2>4. QED
    BY <2>2, <2>3
<1>5. QED
  BY <1>1, <1>2, <1>3, <1>4, PTL DEF SpecCells, NamesArePrivate, Private!SpecPrivate
=============================================================================
