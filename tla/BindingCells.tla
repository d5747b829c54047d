----------------------------- MODULE BindingCells -----------------------------
(***************************************************************************)
(* Value bindings as a compiled program stores them (vm_var.go, vm.go).    *)
(*                                                                         *)
(* The compiler finds the names the program addresses or assigns and       *)
(* rewrites every occurrence it can reach to a slot; the prologue of a run *)
(* copies the bound value into that slot.  Every other occurrence reads    *)
(* the bound value itself.  A slice is a header over an array, and the     *)
(* copy is of the header: the array stays the host's until an append has   *)
(* no room in it.  Runs also share the inline caches of the type checks,   *)
(* one per occurrence of a stack name.                                     *)
(***************************************************************************)
EXTENDS BoundNames

CONSTANTS
  Zero,     \* an element nothing was stored in
  Room,     \* [Names -> elements the host's array holds past the bound slice]
  Slack     \* bound on the spare elements append allocates

ASSUME BindingCellsAssumption ==
  /\ Room \in [Names -> Nat]
  /\ Slack \in Nat
  /\ Zero \notin Elems

VARIABLES
  heads,    \* the header of each bound value, n, and of each run's cell, <<r, n>>
  arrays,   \* the host's arrays, n, and those a run made at an operation, <<r, i>>
  cache,    \* the inline cache of each operation, or None
  asked     \* [Runs -> it missed the cache and is computing the answer]

cellVars == <<vars, heads, arrays, cache, asked>>

Cells == Runs \X Names
MadeArrays == Runs \X (1..MaxOps)
Zeros(k) == [i \in 1..k |-> Zero]

Header == [arr : Names \cup MadeArrays, len : Nat]
Answers == [typ : Types, ok : BOOLEAN]

TypeOK ==
  /\ program \in Programs
  /\ phase \in [Runs -> {"idle", "run", "done", "failed", "refused"}]
  /\ given \in [Runs -> Types \cup {None}]
  /\ ip \in [Runs -> 1..(MaxOps + 1)]
  /\ seen \in [Runs -> Seq(Seq(Elems))]
  /\ host \in [Pointers -> Elems]
  /\ heads \in [Names \cup Cells -> Header]
  /\ arrays \in [Names \cup MadeArrays -> Seq(Elems \cup {Zero})]
  /\ cache \in [1..MaxOps -> Answers \cup {None}]
  /\ asked \in [Runs -> BOOLEAN]

-----------------------------------------------------------------------------
(* What the compiler decides: markVarCells, materializeVarCells *)

\* argRoots lists the arguments of a call and not the expression that computes
\* its func, and no walk goes there either.
Reached(op) == "callee" \notin op.within

Assigned == {program[i].name : i \in {j \in DOMAIN program : program[j].kind = "set"}}

Addressed ==
  {program[i].name : i \in {j \in DOMAIN program :
     program[j].kind = "append" /\ Reached(program[j])}}

\* The names with a cell: the program assigns or addresses them somewhere.
VarCells == Assigned \cup Addressed

\* Slip: the walk names the composite literal only, as it once did.
PlaceNotInSlices(r, op) ==
  IF op.name \in VarCells /\ Reached(op) /\ "slice" \notin op.within
  THEN <<r, op.name>> ELSE op.name

\* The storage an occurrence stands for in run r.
Place(r, op) == IF op.name \in VarCells /\ Reached(op) THEN <<r, op.name>> ELSE op.name

\* What a header shows of its array.
Slice(h) == SubSeq(arrays[h.arr], 1, h.len)

-----------------------------------------------------------------------------
(* A run *)

InitCells ==
  /\ Init
  /\ heads = [at \in Names \cup Cells |->
               LET n == IF at \in Names THEN at ELSE at[2]
               IN [arr |-> n, len |-> IF at \in Names THEN Len(Bound[n]) ELSE 0]]
  /\ arrays = [a \in Names \cup MadeArrays |->
                IF a \in Names THEN Bound[a] \o Zeros(Room[a]) ELSE <<>>]
  /\ cache = [i \in 1..MaxOps |-> None]
  /\ asked = [r \in Runs |-> FALSE]

\* Slip: an emptied copy of the bound slice, to be filled again.
StartEmptied(r, t) ==
  /\ Begin(r, t)
  /\ heads' = [at \in Names \cup Cells |->
                IF at \in {r} \X VarCells THEN [heads[at[2]] EXCEPT !.len = 0] ELSE heads[at]]
  /\ UNCHANGED <<arrays, cache, asked>>

\* The prologue: each cell is a fresh copy of the bound header.
Start(r, t) ==
  /\ Begin(r, t)
  /\ heads' = [at \in Names \cup Cells |->
                IF at \in {r} \X VarCells THEN heads[at[2]] ELSE heads[at]]
  /\ UNCHANGED <<arrays, cache, asked>>

ReadName(r) ==
  /\ Turn(r, "read")
  /\ Receive(r, Slice(heads[Place(r, At(r))]))
  /\ UNCHANGED <<heads, arrays, cache, asked>>

\* An append whose &name was rewritten: the address of the cell.  One that was
\* not is handed the bound value for a pointer, and reflect panics (Fail).
Appending(r) == Turn(r, "append") /\ Place(r, At(r)) \in Cells

Cell(r) == Place(r, At(r))

\* append finds room behind the slice and stores there.
AppendInPlace(r) ==
  /\ Appending(r)
  /\ LET h == heads[Cell(r)] IN
       /\ h.len < Len(arrays[h.arr])
       /\ arrays' = [arrays EXCEPT ![h.arr][h.len + 1] = <<r, ip[r]>>]
       /\ heads' = [heads EXCEPT ![Cell(r)].len = h.len + 1]
  /\ Change(r)
  /\ UNCHANGED <<cache, asked>>

\* It finds none and moves to an array of its own, larger than it needs or not.
AppendGrows(r, spare) ==
  /\ Appending(r)
  /\ LET h == heads[Cell(r)] IN
       /\ h.len = Len(arrays[h.arr])
       /\ arrays' = [arrays EXCEPT ![<<r, ip[r]>>] = Append(Slice(h), <<r, ip[r]>>) \o Zeros(spare)]
       /\ heads' = [heads EXCEPT ![Cell(r)] = [arr |-> <<r, ip[r]>>, len |-> h.len + 1]]
  /\ Change(r)
  /\ UNCHANGED <<cache, asked>>

\* vmVarSet.apply: the value, a fresh slice, is stored through the cell.  A
\* bound value is not settable: without a cell the statement would fail.
SetName(r) ==
  /\ Turn(r, "set")
  /\ Place(r, At(r)) \in Cells
  /\ arrays' = [arrays EXCEPT ![<<r, ip[r]>>] = <<<<r, ip[r]>>>>]
  /\ heads' = [heads EXCEPT ![Cell(r)] = [arr |-> <<r, ip[r]>>, len |-> 1]]
  /\ Change(r)
  /\ UNCHANGED <<cache, asked>>

-----------------------------------------------------------------------------
(* vmArg.dynamic and the inline cache of its type check *)

\* Slip: ask about nil as well.
StackNilAsked(r) ==
  /\ Turn(r, "stack")
  /\ given[r] = None
  /\ cache' = [cache EXCEPT ![ip[r]] = [typ |-> None, ok |-> TRUE]]
  /\ Change(r)
  /\ UNCHANGED <<heads, arrays, asked>>

\* A nil or absent stack value is the zero value, and no question.
StackNil(r) ==
  /\ Turn(r, "stack")
  /\ given[r] = None
  /\ Change(r)
  /\ UNCHANGED <<heads, arrays, cache, asked>>

Answer(r, ok) == IF ok THEN Change(r) ELSE End(r, "refused")

Remembers(i, t) == cache[i] # None /\ cache[i].typ = t

CacheHit(r) ==
  /\ Turn(r, "stack") /\ ~asked[r]
  /\ Remembers(ip[r], given[r])
  /\ Answer(r, cache[ip[r]].ok)
  /\ UNCHANGED <<heads, arrays, cache, asked>>

CacheMiss(r) ==
  /\ Turn(r, "stack") /\ ~asked[r]
  /\ given[r] # None
  /\ ~Remembers(ip[r], given[r])
  /\ asked' = [asked EXCEPT ![r] = TRUE]
  /\ UNCHANGED <<vars, heads, arrays, cache>>

\* Slip: plain fields instead of a pointer to a pair, the type stored first.
CacheStoreTorn(r) ==
  /\ asked[r]
  /\ \/ /\ ~Remembers(ip[r], given[r])
        /\ cache' = [cache EXCEPT ![ip[r]] =
             [typ |-> given[r], ok |-> IF @ = None THEN FALSE ELSE @.ok]]
        /\ UNCHANGED <<vars, asked>>
     \/ /\ Remembers(ip[r], given[r])
        /\ cache' = [cache EXCEPT ![ip[r]].ok = given[r] \in Accepts]
        /\ asked' = [asked EXCEPT ![r] = FALSE]
        /\ Answer(r, given[r] \in Accepts)
  /\ UNCHANGED <<heads, arrays>>

\* Whatever others have stored since, the pair replaces it, and the run goes by
\* the answer it computed.
CacheStore(r) ==
  /\ asked[r]
  /\ LET ok == given[r] \in Accepts IN
       /\ cache' = [cache EXCEPT ![ip[r]] = [typ |-> given[r], ok |-> ok]]
       /\ Answer(r, ok)
  /\ asked' = [asked EXCEPT ![r] = FALSE]
  /\ UNCHANGED <<heads, arrays>>

\* What touches no name: a read or write through a pointer, an error, the end.
Elsewhere(r) ==
  /\ ~asked[r]
  /\ Load(r) \/ Store(r) \/ Fail(r) \/ Finish(r)
  /\ UNCHANGED <<heads, arrays, cache, asked>>

NextCells ==
  \E r \in Runs :
    \/ \E t \in Types \cup {None} : Start(r, t)
    \/ ReadName(r)
    \/ AppendInPlace(r)
    \/ \E spare \in 0..Slack : AppendGrows(r, spare)
    \/ SetName(r)
    \/ StackNil(r) \/ CacheHit(r) \/ CacheMiss(r) \/ CacheStore(r)
    \/ Elsewhere(r)

SpecCells == InitCells /\ [][NextCells]_cellVars

-----------------------------------------------------------------------------
(* Properties *)

\* bindvar.go:15-18: the name is the program's own and the host's variable keeps
\* what it had.  No run, however it ends, changes a bound value or the array
\* behind it.
HostKeepsItsValues ==
  \A n \in Names :
    /\ heads[n] = [arr |-> n, len |-> Len(Bound[n])]
    /\ arrays[n] = Bound[n] \o Zeros(Room[n])

\* vm.go:119-134: whatever other runs store in the inline cache meanwhile, a run
\* is refused only a value that does not fit, and passes a check only with one
\* that does.
AnswersFitTheType ==
  \A r \in Runs :
    /\ phase[r] = "refused" => given[r] \notin Accepts \cup {None}
    /\ \A i \in 1..(ip[r] - 1) :
         program[i].kind = "stack" => given[r] \in Accepts \cup {None}

\* docs/syntax.md:446-447: "two concurrent `Exec`s cannot see each other".  In a
\* program that reads through no pointer, all that the calls of a run receive was
\* bound by the host or made by the run.
RunsSeeNoOther ==
  (\A i \in DOMAIN program : program[i].kind # "load") =>
    \A r \in Runs : \A k \in DOMAIN seen[r] : \A i \in DOMAIN seen[r][k] :
      seen[r][k][i] \in HostElems \cup ({r} \X (1..MaxOps))

\* What each name holds for a run: its cell, or the bound value before the
\* prologue has made one and where the program needs none.
OwnNames ==
  [r \in Runs |-> [n \in Names |->
    Slice(heads[IF phase[r] # "idle" /\ n \in VarCells THEN <<r, n>> ELSE n])]]

Private == INSTANCE PrivateNames WITH own <- OwnNames

\* vm_var.go:84-92: cells, headers and shared caches give each run names of its
\* own: every read and every address of a written name reaches the same storage,
\* seeded anew, and no other run's.
NamesArePrivate == Private!SpecPrivate
=============================================================================
