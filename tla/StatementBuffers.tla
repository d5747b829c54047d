--------------------------- MODULE StatementBuffers ---------------------------
(***************************************************************************)
(* Statement.call (statement.go): the reflect path of a program that is    *)
(* one flat call.                                                          *)
(*                                                                         *)
(* The compiled statement holds an argument slice with the literals in     *)
(* place.  A call borrows a copy of it from a sync.Pool, or makes one,     *)
(* fills the variable slots one by one from its stack, calls the func,     *)
(* clears the variable slots and puts the copy back.  Goroutines share the *)
(* statement and its pool, and the func may call the program again.        *)
(*                                                                         *)
(* A buffer is an identity; make returns one nothing reachable refers to.  *)
(* Get may come back empty-handed, and the pool may lose what it holds.    *)
(***************************************************************************)
EXTENDS DirectCalls

CONSTANTS
  Bufs,     \* identities of argument buffers in memory
  Invalid   \* reflect.Value{}, which reflect refuses to pass

ASSUME BuffersAssumption ==
  /\ None \notin Bufs
  /\ Invalid # Zero
  /\ \A p \in Params \ Slots : Literal[p] # Invalid
  /\ \A c \in Calls : \A p \in Slots : <<c, p>> # Invalid

VARIABLES
  holds,    \* the buffer of each call, or None
  todo,     \* the slots its loop over s.vars has still to reach
  args,     \* [Bufs -> what each buffer holds, by parameter]
  pool      \* the buffers in Statement.pool

bufVars == <<holds, todo, args, pool>>
allVars == <<vars, bufVars>>

\* s.args as compileStatement leaves it.
Prebuilt == [p \in Params |-> IF p \in Slots THEN Zero ELSE Literal[p]]

Values == {Zero, Invalid} \cup {Literal[p] : p \in Params \ Slots} \cup (Calls \X Slots)

Holding(c) == phase[c] \in {"get", "call", "clear"}

\* Memory something can still reach: make returns none of it.
LiveBufs == pool \cup {holds[c] : c \in {d \in Calls : Holding(d)}}

TypeOK ==
  /\ phase \in [Calls -> {"idle", "get", "call", "clear", "ended"}]
  /\ stack \in [Calls -> Stacks]
  /\ passed \in [Calls -> {None} \cup [Params -> Values]]
  /\ outcome \in [Calls -> {"none", "ok", "error", "panic", "refused"}]
  /\ refused \in [Calls -> {0} \cup Slots]
  /\ holds \in [Calls -> Bufs \cup {None}]
  /\ todo \in [Calls -> SUBSET Slots]
  /\ args \in [Bufs -> [Params -> Values]]
  /\ pool \subseteq Bufs

InitBuffers ==
  /\ Init
  /\ holds = [c \in Calls |-> None]
  /\ todo = [c \in Calls |-> {}]
  /\ args = [b \in Bufs |-> Prebuilt]
  /\ pool = {}

-----------------------------------------------------------------------------
(* borrow *)

BorrowPooled(c, b, st) ==
  /\ Begin(c, st)
  /\ b \in pool
  /\ pool' = pool \ {b}
  /\ holds' = [holds EXCEPT ![c] = b]
  /\ todo' = [todo EXCEPT ![c] = Slots]
  /\ UNCHANGED args

\* Slip: patch the prebuilt slice in place, as the statement once did.
BorrowInPlace(c, b, st) ==
  /\ Begin(c, st)
  /\ holds' = [holds EXCEPT ![c] = b]
  /\ todo' = [todo EXCEPT ![c] = Slots]
  /\ UNCHANGED <<args, pool>>

BorrowNew(c, b, st) ==
  /\ Begin(c, st)
  /\ b \in Bufs \ LiveBufs
  /\ args' = [args EXCEPT ![b] = Prebuilt]
  /\ holds' = [holds EXCEPT ![c] = b]
  /\ todo' = [todo EXCEPT ![c] = Slots]
  /\ UNCHANGED pool

-----------------------------------------------------------------------------
(* The loop over s.vars, which compileStatement appends in parameter order *)

\* The loop of call c is at slot p.
AtSlot(c, p) == p \in todo[c] /\ \A q \in todo[c] : p <= q
Filling(c, p) == phase[c] = "get" /\ AtSlot(c, p)
Done(c, p) == todo' = [todo EXCEPT ![c] = @ \ {p}]

\* Slip: an unset name leaves its slot as the buffer has it.
FillSkipsUnset(c, p) ==
  /\ Filling(c, p) /\ stack[c][p] # "wrong"
  /\ args' = IF stack[c][p] = "set" THEN [args EXCEPT ![holds[c]][p] = <<c, p>>] ELSE args
  /\ Done(c, p)
  /\ UNCHANGED <<vars, holds, pool>>

\* __get: the value, or the zero value where the stack has none.
Fill(c, p) ==
  /\ Filling(c, p) /\ stack[c][p] # "wrong"
  /\ args' = [args EXCEPT ![holds[c]][p] = ValueOf(c, p)]
  /\ Done(c, p)
  /\ UNCHANGED <<vars, holds, pool>>

\* Slip: return the error and forget the buffer.
FillRefusedKeeps(c, p) ==
  /\ Filling(c, p) /\ stack[c][p] = "wrong"
  /\ phase' = [phase EXCEPT ![c] = "ended"]
  /\ outcome' = [outcome EXCEPT ![c] = "refused"]
  /\ refused' = [refused EXCEPT ![c] = p]
  /\ UNCHANGED <<stack, passed, bufVars>>

\* Slip: clear only from the slot that was refused onwards.
FillRefusedClearsRest(c, p) ==
  /\ Filling(c, p) /\ stack[c][p] = "wrong"
  /\ phase' = [phase EXCEPT ![c] = "clear"]
  /\ outcome' = [outcome EXCEPT ![c] = "refused"]
  /\ refused' = [refused EXCEPT ![c] = p]
  /\ UNCHANGED <<stack, passed, bufVars>>

\* A value that does not fit: the error goes through release.
FillRefused(c, p) ==
  /\ Filling(c, p) /\ stack[c][p] = "wrong"
  /\ phase' = [phase EXCEPT ![c] = "clear"]
  /\ outcome' = [outcome EXCEPT ![c] = "refused"]
  /\ refused' = [refused EXCEPT ![c] = p]
  /\ todo' = [todo EXCEPT ![c] = Slots]
  /\ UNCHANGED <<stack, passed, holds, args, pool>>

-----------------------------------------------------------------------------
(* s.fn.Call(args) *)

Filled(c) == phase[c] = "get" /\ todo[c] = {}

Call(c) ==
  /\ Filled(c)
  /\ \A p \in Params : args[holds[c]][p] # Invalid
  /\ phase' = [phase EXCEPT ![c] = "call"]
  /\ passed' = [passed EXCEPT ![c] = args[holds[c]]]
  /\ UNCHANGED <<stack, outcome, refused, bufVars>>

\* The func returned: its results are on the heap of the call, release comes
\* first and the error or result is picked from them afterwards.
Returned(c, how) ==
  /\ phase[c] = "call"
  /\ phase' = [phase EXCEPT ![c] = "clear"]
  /\ outcome' = [outcome EXCEPT ![c] = how]
  /\ todo' = [todo EXCEPT ![c] = Slots]
  /\ UNCHANGED <<stack, passed, refused, holds, args, pool>>

\* reflect panics over an invalid argument, or the func does: either unwinds
\* past release and the buffer is garbage.
Unwind(c) ==
  /\ \/ phase[c] = "call"
     \/ Filled(c) /\ \E p \in Params : args[holds[c]][p] = Invalid
  /\ phase' = [phase EXCEPT ![c] = "ended"]
  /\ outcome' = [outcome EXCEPT ![c] = "panic"]
  /\ UNCHANGED <<stack, passed, refused, bufVars>>

-----------------------------------------------------------------------------
(* release *)

Clear(c, p) ==
  /\ phase[c] = "clear" /\ AtSlot(c, p)
  /\ args' = [args EXCEPT ![holds[c]][p] = Invalid]
  /\ Done(c, p)
  /\ UNCHANGED <<vars, holds, pool>>

\* Slip: drop the pointer, then put it.
PutNil(c) ==
  /\ phase[c] = "clear" /\ todo[c] = {}
  /\ holds' = [holds EXCEPT ![c] = None]
  /\ pool' = pool \cup {holds'[c]}
  /\ phase' = [phase EXCEPT ![c] = "ended"]
  /\ UNCHANGED <<stack, passed, outcome, refused, todo, args>>

Put(c) ==
  /\ phase[c] = "clear" /\ todo[c] = {}
  /\ pool' = pool \cup {holds[c]}
  /\ phase' = [phase EXCEPT ![c] = "ended"]
  /\ UNCHANGED <<stack, passed, outcome, refused, holds, todo, args>>

\* sync.Pool drops items between collections.
PoolLoses(b) ==
  /\ b \in pool
  /\ pool' = pool \ {b}
  /\ UNCHANGED <<vars, holds, todo, args>>

Step(c) ==
  \/ \E p \in Slots : Fill(c, p) \/ FillRefused(c, p) \/ Clear(c, p)
  \/ Call(c)
  \/ \E how \in {"ok", "error"} : Returned(c, how)
  \/ Unwind(c)
  \/ Put(c)

NextBuffers ==
  \/ \E c \in Calls, b \in Bufs, st \in Stacks : BorrowPooled(c, b, st) \/ BorrowNew(c, b, st)
  \/ \E c \in Calls : Step(c)
  \/ \E b \in Bufs : PoolLoses(b)

SpecBuffers == InitBuffers /\ [][NextBuffers]_allVars

-----------------------------------------------------------------------------
(* Properties *)

\* statement.go:24-27: pooling the slice replaced patching one in place, which
\* raced between goroutines.  No two calls work in one buffer, and none that is
\* in use can be borrowed.
BuffersUnshared ==
  \A c, d \in Calls : Holding(c) =>
    /\ holds[c] \notin pool
    /\ Holding(d) /\ holds[c] = holds[d] => c = d

\* statement.go:54-56: a buffer in the pool holds no reference to what a call
\* took off its stack, whichever way the call went, and borrow relies on the
\* literals still being there.
PooledBuffersClean ==
  \A b \in pool : args[b] = [p \in Params |-> IF p \in Slots THEN Invalid ELSE Literal[p]]

\* A call that ends without a panic has given its buffer back.
BuffersComeBack ==
  [][\A c \in Calls : Holding(c) /\ phase'[c] = "ended" /\ outcome'[c] # "panic" =>
       holds[c] \in pool']_allVars

\* What a caller sees of the reflect path: it has its answer only once release
\* is done, which takes nothing from the answer.
VisiblePhase == [c \in Calls |-> IF phase[c] = "clear" THEN "ended" ELSE phase[c]]

Direct == INSTANCE DirectCalls WITH phase <- VisiblePhase

\* jit.go:21-26: Statement.call "stays the general mechanism", and a test pins
\* the JIT's cast "against the reflect path": the two are one call.  The same
\* stack is refused at the same parameter, and otherwise the func receives the
\* literals, zeros and values of this very call, however many calls share the
\* pool.
ActsLikeDirectCalls == Direct!Spec
=============================================================================
