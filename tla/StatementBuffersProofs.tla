------------------------ MODULE StatementBuffersProofs ------------------------
(***************************************************************************)
(* Proofs about StatementBuffers, for every statement and any number of    *)
(* calls and buffers.                                                      *)
(***************************************************************************)
EXTENDS StatementBuffers, TLAPS

(***************************************************************************)
(* The inductive invariant.  That Call passes on what the refinement says  *)
(* needs to know what is in a borrowed buffer half way through a loop: the *)
(* slots behind the loop are filled or cleared, the literals are in place. *)
(***************************************************************************)
BufferContents ==
  \A c \in Calls : Holding(c) =>
    /\ holds[c] \in Bufs
    /\ \A p \in Params \ Slots : args[holds[c]][p] = Literal[p]
    /\ phase[c] = "get" => \A p \in Slots \ todo[c] :
         stack[c][p] # "wrong" /\ args[holds[c]][p] = ValueOf(c, p)
    /\ phase[c] = "clear" => \A p \in Slots \ todo[c] : args[holds[c]][p] = Invalid

IInv ==
  /\ TypeOK
  /\ BuffersUnshared
  /\ PooledBuffersClean
  /\ BufferContents

\* What resolves a slot is never the zero Value.
LEMMA ValuesAreValid ==
  ASSUME NEW c \in Calls, NEW p \in Params
  PROVE  ValueOf(c, p) \in Values /\ ValueOf(c, p) # Invalid
BY BuffersAssumption, StatementAssumption DEF ValueOf, Values

LEMMA PrebuiltType == Prebuilt \in [Params -> Values]
BY DEF Prebuilt, Values

\* A call that holds a buffer shares it with nobody, whatever else it does.
LEMMA Alone ==
  ASSUME BuffersUnshared, BufferContents, NEW c \in Calls, Holding(c)
  PROVE  /\ holds[c] \in Bufs \ pool
         /\ \A d \in Calls \ {c} : Holding(d) => holds[d] # holds[c]
BY DEF BuffersUnshared, BufferContents

LEMMA InitIInv == InitBuffers => IInv
<1> SUFFICES ASSUME InitBuffers PROVE IInv
  OBVIOUS
<1>1. TypeOK
  BY PrebuiltType DEF InitBuffers, Init, TypeOK, Stacks
<1>2. QED
  BY <1>1 DEF InitBuffers, Init, IInv, BuffersUnshared, PooledBuffersClean, BufferContents, Holding

-----------------------------------------------------------------------------
(* One lemma per action *)

LEMMA BorrowPooledKeepsIInv ==
  ASSUME IInv, NEW c \in Calls, NEW b \in Bufs, NEW st \in Stacks, BorrowPooled(c, b, st)
  PROVE  IInv'
<1>1. TypeOK'
  BY DEF IInv, TypeOK, BorrowPooled, Begin
<1>2. \A d \in Calls \ {c} : /\ holds'[d] = holds[d] /\ phase'[d] = phase[d]
                              /\ todo'[d] = todo[d] /\ stack'[d] = stack[d]
  BY DEF IInv, TypeOK, BorrowPooled, Begin
<1>3. /\ holds'[c] = b /\ phase'[c] = "get" /\ todo'[c] = Slots /\ b \in pool
      /\ pool' = pool \ {b} /\ args' = args /\ ~Holding(c)
  BY DEF IInv, TypeOK, BorrowPooled, Begin, Holding
<1>4. BuffersUnshared'
  BY <1>2, <1>3 DEF IInv, BuffersUnshared, Holding
<1>5. PooledBuffersClean'
  BY <1>3 DEF IInv, PooledBuffersClean
<1>6. \A p \in Params \ Slots : args[b][p] = Literal[p]
  BY <1>3 DEF IInv, PooledBuffersClean
<1>7. BufferContents'
  BY <1>2, <1>3, <1>6 DEF IInv, BufferContents, Holding, ValueOf
<1>8. QED
  BY <1>1, <1>4, <1>5, <1>7 DEF IInv

LEMMA BorrowNewKeepsIInv ==
  ASSUME IInv, NEW c \in Calls, NEW b \in Bufs, NEW st \in Stacks, BorrowNew(c, b, st)
  PROVE  IInv'
<1>1. TypeOK'
  BY PrebuiltType DEF IInv, TypeOK, BorrowNew, Begin
<1>2. \A d \in Calls \ {c} : /\ holds'[d] = holds[d] /\ phase'[d] = phase[d]
                              /\ todo'[d] = todo[d] /\ stack'[d] = stack[d]
  BY DEF IInv, TypeOK, BorrowNew, Begin
<1>3. /\ holds'[c] = b /\ phase'[c] = "get" /\ todo'[c] = Slots
      /\ pool' = pool /\ args' = [args EXCEPT ![b] = Prebuilt] /\ ~Holding(c)
  BY DEF IInv, TypeOK, BorrowNew, Begin, Holding
<1>4. b \notin pool /\ \A d \in Calls : Holding(d) => holds[d] # b
  BY DEF BorrowNew, LiveBufs
<1>5. args'[b] = Prebuilt /\ \A x \in Bufs \ {b} : args'[x] = args[x]
  BY <1>3 DEF IInv, TypeOK
<1>6. BuffersUnshared'
  BY <1>2, <1>3, <1>4 DEF IInv, BuffersUnshared, Holding
<1>7. PooledBuffersClean'
  BY <1>3, <1>4, <1>5 DEF IInv, PooledBuffersClean, TypeOK
<1>8. \A p \in Params \ Slots : Prebuilt[p] = Literal[p]
  BY DEF Prebuilt
<1>9. BufferContents'
  BY <1>2, <1>3, <1>4, <1>5, <1>8 DEF IInv, BufferContents, Holding, ValueOf
<1>10. QED
  BY <1>1, <1>6, <1>7, <1>9 DEF IInv

\* Fill and Clear store v in the slot the loop of c is at.
LEMMA StoreKeepsIInv ==
  ASSUME IInv, NEW c \in Calls, Holding(c), NEW p \in Slots, p \in todo[c], NEW v \in Values,
         args' = [args EXCEPT ![holds[c]][p] = v],
         todo' = [todo EXCEPT ![c] = @ \ {p}],
         UNCHANGED <<vars, holds, pool>>,
         phase[c] = "get" => stack[c][p] # "wrong" /\ v = ValueOf(c, p),
         phase[c] = "clear" => v = Invalid
  PROVE  IInv'
<1>0. p \in Params
  BY StatementAssumption
<1>1. /\ holds[c] \in Bufs \ pool
      /\ \A d \in Calls \ {c} : Holding(d) => holds[d] # holds[c]
  BY Alone DEF IInv
<1>2. /\ args'[holds[c]] = [args[holds[c]] EXCEPT ![p] = v]
      /\ \A b \in Bufs \ {holds[c]} : args'[b] = args[b]
  BY <1>1 DEF IInv, TypeOK
<1>3. /\ args'[holds[c]][p] = v
      /\ \A q \in Params \ {p} : args'[holds[c]][q] = args[holds[c]][q]
  BY <1>0, <1>1, <1>2 DEF IInv, TypeOK
<1>4. TypeOK'
  BY <1>0 DEF IInv, TypeOK, vars
<1>5. BuffersUnshared'
  BY DEF IInv, BuffersUnshared, Holding, vars
<1>6. PooledBuffersClean'
  BY <1>1, <1>2 DEF IInv, TypeOK, PooledBuffersClean
<1>7. ASSUME NEW d \in Calls, Holding(d)'
      PROVE  /\ holds'[d] \in Bufs
             /\ \A q \in Params \ Slots : args'[holds'[d]][q] = Literal[q]
             /\ phase'[d] = "get" => \A q \in Slots \ todo'[d] :
                  stack'[d][q] # "wrong" /\ args'[holds'[d]][q] = ValueOf(d, q)'
             /\ phase'[d] = "clear" => \A q \in Slots \ todo'[d] : args'[holds'[d]][q] = Invalid
  <2>1. Holding(d) /\ holds' = holds /\ phase' = phase /\ stack' = stack
    BY <1>7 DEF Holding, vars
  <2>2. CASE d = c
    <3>1. todo'[c] = todo[c] \ {p}
      BY DEF IInv, TypeOK
    <3>2. Slots \subseteq Params
      BY StatementAssumption
    <3>3. QED
      BY <1>1, <1>3, <2>1, <2>2, <3>1, <3>2 DEF IInv, BufferContents, ValueOf
  <2>3. CASE d # c
    <3>1. holds[d] \in Bufs \ {holds[c]} /\ todo'[d] = todo[d]
      BY <1>1, <2>1, <2>3 DEF IInv, BufferContents, TypeOK
    <3>2. QED
      BY <1>2, <2>1, <3>1 DEF IInv, BufferContents, ValueOf
  <2>4. QED
    BY <2>2, <2>3
<1>8. BufferContents'
  BY <1>7 DEF BufferContents
<1>9. QED
  BY <1>4, <1>5, <1>6, <1>8 DEF IInv

LEMMA FillKeepsIInv ==
  ASSUME IInv, NEW c \in Calls, NEW p \in Slots, Fill(c, p)
  PROVE  IInv'
<1>1. p \in Params /\ p \in todo[c] /\ phase[c] = "get"
  BY StatementAssumption DEF Fill, Filling, AtSlot
<1>2. ValueOf(c, p) \in Values
  BY <1>1, ValuesAreValid
<1>3. QED
  BY <1>1, <1>2, StoreKeepsIInv DEF Fill, Done, Holding

LEMMA ClearKeepsIInv ==
  ASSUME IInv, NEW c \in Calls, NEW p \in Slots, Clear(c, p)
  PROVE  IInv'
<1>1. p \in todo[c] /\ phase[c] = "clear" /\ Invalid \in Values
  BY DEF Clear, AtSlot, Values
<1>2. QED
  BY <1>1, StoreKeepsIInv DEF Clear, Done, Holding

\* A call moves on and touches no buffer: to the func, or to release with the
\* loop at its start.
LEMMA MoveKeepsIInv ==
  ASSUME IInv, TypeOK', NEW c \in Calls, Holding(c), NEW ph \in {"call", "clear"},
         phase' = [phase EXCEPT ![c] = ph],
         \A d \in Calls \ {c} : todo'[d] = todo[d],
         ph = "clear" => todo'[c] = Slots,
         UNCHANGED <<stack, holds, args, pool>>
  PROVE  IInv'
<1>1. \A d \in Calls : /\ Holding(d)' <=> Holding(d)
                       /\ d # c => phase'[d] = phase[d]
  BY DEF IInv, TypeOK, Holding
<1>2. phase'[c] = ph
  BY DEF IInv, TypeOK
<1>3. BuffersUnshared' /\ PooledBuffersClean'
  BY <1>1 DEF IInv, BuffersUnshared, PooledBuffersClean
<1>4. BufferContents'
  BY <1>1, <1>2 DEF IInv, BufferContents, ValueOf
<1>5. QED
  BY <1>3, <1>4 DEF IInv

LEMMA FillRefusedKeepsIInv ==
  ASSUME IInv, NEW c \in Calls, NEW p \in Slots, FillRefused(c, p)
  PROVE  IInv'
<1>1. TypeOK' /\ todo'[c] = Slots /\ \A d \in Calls \ {c} : todo'[d] = todo[d]
  BY DEF IInv, TypeOK, FillRefused
<1>2. QED
  BY <1>1, MoveKeepsIInv DEF FillRefused, Filling, Holding

LEMMA CallKeepsIInv ==
  ASSUME IInv, NEW c \in Calls, Call(c)
  PROVE  IInv'
<1>1. Holding(c)
  BY DEF Call, Filled, Holding
<1>2. args[holds[c]] \in [Params -> Values]
  BY <1>1, Alone DEF IInv, TypeOK
<1>3. TypeOK'
  BY <1>2 DEF IInv, TypeOK, Call, bufVars
<1>4. QED
  BY <1>1, <1>3, MoveKeepsIInv DEF Call, bufVars

LEMMA ReturnedKeepsIInv ==
  ASSUME IInv, NEW c \in Calls, NEW how \in {"ok", "error"}, Returned(c, how)
  PROVE  IInv'
<1>1. TypeOK' /\ todo'[c] = Slots /\ \A d \in Calls \ {c} : todo'[d] = todo[d]
  BY DEF IInv, TypeOK, Returned
<1>2. QED
  BY <1>1, MoveKeepsIInv DEF Returned, Holding

LEMMA UnwindKeepsIInv ==
  ASSUME IInv, NEW c \in Calls, Unwind(c)
  PROVE  IInv'
<1>1. TypeOK'
  BY DEF IInv, TypeOK, Unwind, bufVars
<1>2. /\ UNCHANGED <<stack, bufVars>> /\ ~Holding(c)'
      /\ \A d \in Calls \ {c} : phase'[d] = phase[d] /\ (Holding(d)' <=> Holding(d))
  BY DEF IInv, TypeOK, Unwind, bufVars, Holding
<1>3. QED
  BY <1>1, <1>2 DEF IInv, BuffersUnshared, PooledBuffersClean, BufferContents, bufVars, ValueOf

LEMMA PutKeepsIInv ==
  ASSUME IInv, NEW c \in Calls, Put(c)
  PROVE  IInv'
<1>1. Holding(c) /\ holds[c] \in Bufs
  BY DEF Put, Holding, IInv, BufferContents
<1>2. TypeOK'
  BY <1>1 DEF IInv, TypeOK, Put
<1>3. /\ UNCHANGED <<stack, holds, todo, args>> /\ pool' = pool \cup {holds[c]} /\ ~Holding(c)'
      /\ \A d \in Calls \ {c} : phase'[d] = phase[d] /\ (Holding(d)' <=> Holding(d))
  BY DEF IInv, TypeOK, Put, Holding
<1>4. BuffersUnshared'
  BY <1>1, <1>3 DEF IInv, BuffersUnshared
<1>5. args[holds[c]] = [p \in Params |-> IF p \in Slots THEN Invalid ELSE Literal[p]]
  <2>1. /\ \A p \in Params \ Slots : args[holds[c]][p] = Literal[p]
        /\ \A p \in Slots : args[holds[c]][p] = Invalid
    BY <1>1 DEF Put, IInv, BufferContents
  <2>2. args[holds[c]] \in [Params -> Values]
    BY <1>1 DEF IInv, TypeOK
  <2>3. QED
    BY <2>1, <2>2
<1>6. PooledBuffersClean'
  BY <1>3, <1>5 DEF IInv, PooledBuffersClean
<1>7. BufferContents'
  BY <1>3 DEF IInv, BufferContents, ValueOf
<1>8. QED
  BY <1>2, <1>4, <1>6, <1>7 DEF IInv

LEMMA PoolLosesKeepsIInv ==
  ASSUME IInv, NEW b \in Bufs, PoolLoses(b)
  PROVE  IInv'
<1>1. UNCHANGED <<vars, holds, todo, args>> /\ pool' \subseteq pool
  BY DEF PoolLoses
<1>2. TypeOK'
  BY <1>1 DEF IInv, TypeOK, vars
<1>3. QED
  BY <1>1, <1>2
     DEF IInv, BuffersUnshared, PooledBuffersClean, BufferContents, Holding, ValueOf, vars

LEMMA StutterKeepsIInv == IInv /\ UNCHANGED allVars => IInv'
BY DEF IInv, TypeOK, BuffersUnshared, PooledBuffersClean, BufferContents, Holding, ValueOf,
       allVars, bufVars, vars

LEMMA NextKeepsIInv == IInv /\ [NextBuffers]_allVars => IInv'
<1> SUFFICES ASSUME IInv, [NextBuffers]_allVars PROVE IInv'
  OBVIOUS
<1>1. CASE UNCHANGED allVars
  BY <1>1, StutterKeepsIInv
<1>2. ASSUME NEW c \in Calls, Step(c) PROVE IInv'
  BY <1>2, FillKeepsIInv, FillRefusedKeepsIInv, ClearKeepsIInv, CallKeepsIInv,
     ReturnedKeepsIInv, UnwindKeepsIInv, PutKeepsIInv DEF Step
<1>3. QED
  BY <1>1, <1>2, BorrowPooledKeepsIInv, BorrowNewKeepsIInv, PoolLosesKeepsIInv DEF NextBuffers

LEMMA Invariance == SpecBuffers => []IInv
BY InitIInv, NextKeepsIInv, PTL DEF SpecBuffers

-----------------------------------------------------------------------------
(* The invariants the run checks, for every statement *)

\* The variables of the statement path keep their types.
THEOREM TypeCorrect == SpecBuffers => []TypeOK
<1>1. IInv => TypeOK
  BY DEF IInv
<1>2. QED
  BY <1>1, Invariance, PTL

\* statement.go:24-27: no two calls patch one buffer, and none in use is pooled.
THEOREM BuffersAreExclusive == SpecBuffers => []BuffersUnshared
<1>1. IInv => BuffersUnshared
  BY DEF IInv
<1>2. QED
  BY <1>1, Invariance, PTL

\* statement.go:54-56: a pooled buffer holds the literals and nothing of a call.
THEOREM PooledBuffersAreClean == SpecBuffers => []PooledBuffersClean
<1>1. IInv => PooledBuffersClean
  BY DEF IInv
<1>2. QED
  BY <1>1, Invariance, PTL

\* Every path of Statement.call but a panic ends in the Put of its buffer.
THEOREM BuffersAreReturned == SpecBuffers => BuffersComeBack
<1>1. IInv /\ [NextBuffers]_allVars =>
        \A c \in Calls : Holding(c) /\ phase'[c] = "ended" /\ outcome'[c] # "panic" =>
          holds[c] \in pool'
  <2> SUFFICES ASSUME IInv, [NextBuffers]_allVars, NEW c \in Calls,
                      Holding(c), phase'[c] = "ended", outcome'[c] # "panic"
               PROVE  holds[c] \in pool'
    OBVIOUS
  <2>1. phase[c] # "ended" /\ phase' # phase
    BY DEF Holding
  <2>2. ASSUME NEW d \in Calls, Step(d) PROVE holds[c] \in pool'
    <3>1. CASE Put(d)
      BY <2>1, <3>1 DEF Put, IInv, TypeOK
    <3>2. CASE Unwind(d)
      BY <2>1, <3>2 DEF Unwind, IInv, TypeOK
    <3>3. QED
      BY <2>1, <2>2, <3>1, <3>2
         DEF Step, Fill, FillRefused, Clear, Call, Returned, IInv, TypeOK, vars
  <2>3. QED
    BY <2>1, <2>2 DEF NextBuffers, BorrowPooled, BorrowNew, Begin, PoolLoses, IInv, TypeOK,
                      allVars, vars
<1>2. QED
  BY <1>1, Invariance, PTL DEF SpecBuffers, BuffersComeBack

-----------------------------------------------------------------------------
(* The reflect path implements the JIT'd call *)

\* jit.go:21-26, for a program of one flat call: whatever calls share
\* the pool, each is refused, answered and given its arguments as the JIT'd
\* call of jit.go would.
THEOREM ReflectPathActsLikeDirect == SpecBuffers => ActsLikeDirectCalls
<1>1. InitBuffers => Direct!Init
  BY DEF InitBuffers, Init, Direct!Init, VisiblePhase
<1>2. IInv /\ [NextBuffers]_allVars => [Direct!Next]_Direct!vars
  <2> SUFFICES ASSUME IInv, [NextBuffers]_allVars
               PROVE  Direct!Next \/ UNCHANGED Direct!vars
    BY DEF Direct!vars
  <2>0. phase \in [Calls -> {"idle", "get", "call", "clear", "ended"}]
    BY DEF IInv, TypeOK
  <2>1. CASE UNCHANGED allVars
    BY <2>1 DEF allVars, vars, Direct!vars, VisiblePhase
  <2>2. ASSUME NEW c \in Calls, NEW st \in Stacks, Begin(c, st) PROVE Direct!Next
    <3>1. VisiblePhase[c] = "idle" /\ VisiblePhase' = [VisiblePhase EXCEPT ![c] = "get"]
      BY <2>0, <2>2 DEF Begin, VisiblePhase
    <3>2. Direct!Begin(c, st)
      BY <2>2, <3>1 DEF Begin, Direct!Begin
    <3>3. QED
      BY <3>2 DEF Direct!Next, Direct!Stacks, Stacks
  <2>3. ASSUME NEW c \in Calls, Step(c) PROVE Direct!Next \/ UNCHANGED Direct!vars
    <3>1. ASSUME NEW p \in Slots, FillRefused(c, p) PROVE Direct!Next
      <4>1. VisiblePhase[c] = "get" /\ VisiblePhase' = [VisiblePhase EXCEPT ![c] = "ended"]
        BY <2>0, <3>1 DEF FillRefused, Filling, VisiblePhase
      <4>2. \A q \in Slots : q < p => stack[c][q] # "wrong"
        <5>1. \A q \in Slots : q < p => q \notin todo[c]
          BY <3>1, StatementAssumption DEF FillRefused, Filling, AtSlot, Params
        <5>2. QED
          BY <3>1, <5>1 DEF FillRefused, Filling, IInv, BufferContents, Holding
      <4>3. Direct!Refuse(c, p)
        BY <3>1, <4>1, <4>2 DEF FillRefused, Filling, Direct!Refuse
      <4>4. QED
        BY <4>3 DEF Direct!Next
    <3>2. CASE Call(c)
      <4>1. VisiblePhase[c] = "get" /\ VisiblePhase' = [VisiblePhase EXCEPT ![c] = "call"]
        BY <2>0, <3>2 DEF Call, Filled, VisiblePhase
      <4>2. /\ \A p \in Slots : stack[c][p] # "wrong" /\ args[holds[c]][p] = ValueOf(c, p)
            /\ \A p \in Params \ Slots : args[holds[c]][p] = ValueOf(c, p)
            /\ args[holds[c]] \in [Params -> Values]
        BY <3>2 DEF Call, Filled, IInv, BufferContents, TypeOK, Holding, ValueOf
      <4>3. args[holds[c]] = [p \in Params |-> Direct!ValueOf(c, p)]
        BY <4>2, StatementAssumption DEF ValueOf, Direct!ValueOf
      <4>4. Direct!Invoke(c)
        BY <3>2, <4>1, <4>2, <4>3 DEF Call, Direct!Invoke, Direct!Params, Params
      <4>5. QED
        BY <4>4 DEF Direct!Next
    <3>3. ASSUME NEW how \in {"ok", "error"}, Returned(c, how) PROVE Direct!Next
      <4>1. VisiblePhase[c] = "call" /\ VisiblePhase' = [VisiblePhase EXCEPT ![c] = "ended"]
        BY <2>0, <3>3 DEF Returned, VisiblePhase
      <4>2. Direct!Return(c, how)
        BY <3>3, <4>1 DEF Returned, Direct!Return
      <4>3. QED
        BY <4>2 DEF Direct!Next
    <3>4. CASE Unwind(c)
      <4>1. phase[c] = "call"
        <5>1. ASSUME Filled(c), NEW p \in Params PROVE args[holds[c]][p] # Invalid
          BY <5>1, BuffersAssumption, ValuesAreValid
             DEF Filled, IInv, BufferContents, Holding
        <5>2. QED
          BY <3>4, <5>1 DEF Unwind
      <4>2. VisiblePhase[c] = "call" /\ VisiblePhase' = [VisiblePhase EXCEPT ![c] = "ended"]
        BY <2>0, <3>4, <4>1 DEF Unwind, VisiblePhase
      <4>3. Direct!Return(c, "panic")
        BY <3>4, <4>2 DEF Unwind, Direct!Return
      <4>4. QED
        BY <4>3 DEF Direct!Next
    <3>5. CASE Put(c)
      <4>1. VisiblePhase' = VisiblePhase
        BY <2>0, <3>5 DEF Put, VisiblePhase
      <4>2. QED
        BY <3>5, <4>1 DEF Put, Direct!vars
    <3>6. ASSUME NEW p \in Slots, Fill(c, p) \/ Clear(c, p) PROVE UNCHANGED Direct!vars
      BY <3>6 DEF Fill, Clear, vars, Direct!vars, VisiblePhase
    <3>7. QED
      BY <2>3, <3>1, <3>2, <3>3, <3>4, <3>5, <3>6 DEF Step
  <2>4. ASSUME NEW b \in Bufs, PoolLoses(b) PROVE UNCHANGED Direct!vars
    BY <2>4 DEF PoolLoses, vars, Direct!vars, VisiblePhase
  <2>5. QED
    BY <2>1, <2>2, <2>3, <2>4 DEF NextBuffers, BorrowPooled, BorrowNew
<1>3. QED
  BY <1>1, <1>2, Invariance, PTL DEF SpecBuffers, ActsLikeDirectCalls, Direct!Spec
=============================================================================
