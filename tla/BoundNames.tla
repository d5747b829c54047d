------------------------------ MODULE BoundNames ------------------------------
(***************************************************************************)
(* Runs of one compiled program over value bindings: what the host sees    *)
(* whichever way the runtime stores the names.                             *)
(*                                                                         *)
(* A program is its evaluations in the order they happen.  Each is one of  *)
(*                                                                         *)
(*   read    a call receives what the name holds                           *)
(*   append  append(&name, v)                                              *)
(*   set     name = []T{v}                                                 *)
(*   load    a call receives *p, for a pointer the host bound              *)
(*   store   *p = v                                                        *)
(*   stack   a call receives a name of the caller's stack, whose type is   *)
(*           checked as the program runs                                   *)
(*                                                                         *)
(* with the name and the constructs it stands in: "slice" and "struct" for *)
(* the elements of literals, "field", "deref", "call" for the argument of  *)
(* a nested call, "callee" for the expression that computes the func.      *)
(* The value run r makes at operation i is <<r, i>>.                       *)
(***************************************************************************)
EXTENDS Naturals, Sequences

CONSTANTS
  Runs,      \* executions of the program, each by some goroutine
  Names,     \* value bindings of slices
  Bound,     \* [Names -> what Bind registered]
  Pointers,  \* value bindings of pointers to host variables
  Pointee,   \* [Pointers -> what the host's variable holds at first]
  Types,     \* dynamic types of the caller's stack values
  Accepts,   \* those assignable to the parameter
  Programs,  \* the programs considered
  MaxOps,    \* none is longer
  None       \* nothing there

Kinds == {"read", "append", "set", "load", "store", "stack"}
Positions == {"slice", "struct", "field", "deref", "call", "callee"}

Op == [kind : Kinds, name : Names \cup Pointers \cup {None}, within : SUBSET Positions]

\* The target of an assignment stands alone on the left of "=".
IsProgram(p) ==
  /\ p \in Seq(Op)
  /\ Len(p) <= MaxOps
  /\ \A i \in DOMAIN p :
       /\ p[i].kind \in {"read", "append", "set"} => p[i].name \in Names
       /\ p[i].kind \in {"load", "store"} => p[i].name \in Pointers
       /\ p[i].kind = "set" => p[i].within = {}

HostElems == UNION {{Bound[n][i] : i \in DOMAIN Bound[n]} : n \in Names}
               \cup {Pointee[p] : p \in Pointers}
Elems == HostElems \cup (Runs \X (1..MaxOps))

ASSUME BoundNamesAssumption ==
  /\ MaxOps \in Nat
  /\ Bound \in [Names -> Seq(HostElems)]
  /\ Pointee \in [Pointers -> HostElems]
  /\ Names \cap Pointers = {}
  /\ Names \cap (Runs \X Names) = {}
  /\ Names \cap (Runs \X (1..MaxOps)) = {}
  /\ None \notin Types \cup Runs
  /\ \A p \in Programs : IsProgram(p)

VARIABLES
  program,  \* the compiled program
  phase,    \* [Runs -> {"idle", "run", "done", "failed", "refused"}]
  given,    \* [Runs -> the type of what its stack holds, or None]
  ip,       \* [Runs -> its next operation]
  seen,     \* [Runs -> what its calls received so far]
  host      \* [Pointers -> the host's variable]

vars == <<program, phase, given, ip, seen, host>>

Init ==
  /\ program \in Programs
  /\ phase = [r \in Runs |-> "idle"]
  /\ given = [r \in Runs |-> None]
  /\ ip = [r \in Runs |-> 1]
  /\ seen = [r \in Runs |-> <<>>]
  /\ host = Pointee

Begin(r, t) ==
  /\ phase[r] = "idle"
  /\ phase' = [phase EXCEPT ![r] = "run"]
  /\ given' = [given EXCEPT ![r] = t]
  /\ UNCHANGED <<program, ip, seen, host>>

\* The turn of run r at an operation of this kind.
Turn(r, kind) ==
  /\ phase[r] = "run"
  /\ ip[r] \in DOMAIN program
  /\ program[ip[r]].kind = kind

At(r) == program[ip[r]]

Advance(r) ==
  /\ ip' = [ip EXCEPT ![r] = @ + 1]
  /\ UNCHANGED <<program, phase, given>>

\* The operation hands v to a call.
Receive(r, v) ==
  /\ seen' = [seen EXCEPT ![r] = Append(@, v)]
  /\ UNCHANGED host
  /\ Advance(r)

Change(r) == Advance(r) /\ UNCHANGED <<seen, host>>

End(r, how) ==
  /\ phase' = [phase EXCEPT ![r] = how]
  /\ UNCHANGED <<program, given, ip, seen, host>>

Load(r) == Turn(r, "load") /\ Receive(r, <<host[At(r).name]>>)

Store(r) ==
  /\ Turn(r, "store")
  /\ host' = [host EXCEPT ![At(r).name] = <<r, ip[r]>>]
  /\ Advance(r)
  /\ UNCHANGED seen

\* An operand could not be evaluated, a call returned an error, or something
\* panicked: the statement's write does not happen.
Fail(r) ==
  /\ phase[r] = "run" /\ ip[r] \in DOMAIN program
  /\ End(r, "failed")

Finish(r) ==
  /\ phase[r] = "run" /\ ip[r] \notin DOMAIN program
  /\ End(r, "done")
=============================================================================
