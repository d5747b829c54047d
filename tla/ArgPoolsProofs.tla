--------------------------- MODULE ArgPoolsProofs ---------------------------
(***************************************************************************)
(* Proofs about ArgPools, for every program, number of executions and size *)
(* of memory.                                                              *)
(***************************************************************************)
EXTENDS ArgPools, TLAPS

(***************************************************************************)
(* The inductive invariant.  FramesUnshared alone is not preserved: that a *)
(* kept frame stays out of the pool needs PoolingGate, that a frame leaves *)
(* and enters the pool with nothing in its scratch fields is what keeps    *)
(* BlocksUnshared, and take() needs to know its field is still empty.      *)
(***************************************************************************)
PoolingGate ==
  /\ kept # {} => FrameEscapes
  /\ FrameEscapes => framePool = {}

PooledFramesHoldNoBlock == \A f \in framePool : \A t \in Sites : scratch[f][t] = None

BlocksInOnePool == \A t, u \in Sites : \A b \in blockPool[t] : b \in blockPool[u] => t = u

ScratchFollowsProgram ==
  \A e \in Execs : Executing(e) =>
    \A t \in Sites : scratch[frame[e]][t] # None <=> t \in TakenBefore(ip[e])

ReleaseInOrder ==
  \A e \in Execs :
    /\ phase[e] = "finish" => \A t \in Sites \ todo[e] : scratch[frame[e]][t] = None
    /\ clearing[e] # None =>
         /\ phase[e] = "finish"
         /\ clearing[e] \in todo[e]
         /\ scratch[frame[e]][clearing[e]] # None
         /\ content[scratch[frame[e]][clearing[e]]] = Zero

PhasesInOrder ==
  \A e \in Execs :
    /\ phase[e] \in {"idle", "clear"} => ip[e] = 1 /\ e \notin kept
    /\ phase[e] = "call" => ip[e] \in DOMAIN Prog /\ Prog[ip[e]].kind = "call"

IInv ==
  /\ TypeOK
  /\ FramesUnshared
  /\ BlocksUnshared
  /\ PooledBlocksCleared
  /\ PoolingGate
  /\ PooledFramesHoldNoBlock
  /\ BlocksInOnePool
  /\ ScratchFollowsProgram
  /\ ReleaseInOrder
  /\ PhasesInOrder

-----------------------------------------------------------------------------
(* The program *)

\* Every operation is a record of the declared shape.
LEMMA OpType ==
  ASSUME NEW i \in DOMAIN Prog
  PROVE  /\ Prog[i] \in Op
         /\ i \in Nat /\ i + 1 \in 1..(Len(Prog) + 1)
BY RunProgramAssumption DEF WellFormed

\* Only a take adds to the sites whose block an execution has taken.
LEMMA TakenStep ==
  ASSUME NEW i \in DOMAIN Prog
  PROVE  TakenBefore(i + 1) =
           TakenBefore(i) \cup (IF Prog[i].kind = "take" THEN {Prog[i].site} ELSE {})
<1>1. DOMAIN Prog = 1..Len(Prog) /\ Len(Prog) \in Nat
  BY RunProgramAssumption DEF WellFormed
<1>2. Prog[i].kind = "take" => Prog[i].site \in Sites
  BY RunProgramAssumption DEF WellFormed
<1>3. 1..((i+1)-1) = 1..(i-1) \cup {i}
  BY <1>1
<1>4. QED
  BY <1>1, <1>2, <1>3 DEF TakenBefore

\* A site is taken once, and stored into or passed to a call only after that.
LEMMA TakenOnce ==
  ASSUME NEW i \in DOMAIN Prog
  PROVE  /\ Prog[i].kind = "take" => Prog[i].site \in Sites \ TakenBefore(i)
         /\ Prog[i].kind = "fill" => Prog[i].site \in TakenBefore(i)
         /\ Prog[i].kind = "call" /\ Prog[i].site # None => Prog[i].site \in TakenBefore(i)
<1>1. DOMAIN Prog = 1..Len(Prog) /\ Len(Prog) \in Nat
  BY RunProgramAssumption DEF WellFormed
<1>2. \A j \in 1..(i-1) : j \in DOMAIN Prog /\ j # i
  BY <1>1
<1>3. Prog[i].kind = "take" => Prog[i].site \in Sites \ TakenBefore(i)
  BY <1>2, RunProgramAssumption DEF WellFormed, TakenBefore
<1>4. Prog[i].kind = "fill" => Prog[i].site \in TakenBefore(i)
  BY RunProgramAssumption DEF WellFormed, TakenBefore
<1>5. Prog[i].kind = "call" /\ Prog[i].site # None => Prog[i].site \in TakenBefore(i)
  BY OpType, RunProgramAssumption DEF WellFormed, TakenBefore, Op
<1>6. QED
  BY <1>3, <1>4, <1>5

\* Nothing is taken before the first operation.
LEMMA TakenAtStart == TakenBefore(1) = {}
BY DEF TakenBefore

-----------------------------------------------------------------------------
(* What an execution's own memory is *)

\* The frame an execution holds is out of the pool and nobody else's.
LEMMA HeldFrame ==
  ASSUME IInv, NEW e \in Execs, Holding(e)
  PROVE  /\ frame[e] \in Frames /\ frame[e] \notin framePool
         /\ frame[e] \in LiveFrames
         /\ \A d \in Execs \ {e} : Owning(d) => frame[d] # frame[e]
BY DEF IInv, FramesUnshared, Owning, LiveFrames

\* A field of a literal is stored into a block the execution has taken.
LEMMA FillTarget ==
  ASSUME IInv, NEW e \in Execs, Running(e, "fill")
  PROVE  /\ frame[e] \in Frames /\ frame[e] \in LiveFrames
         /\ Prog[ip[e]].site \in Sites
         /\ scratch[frame[e]][Prog[ip[e]].site] \in Blocks
<1>1. frame[e] \in Frames /\ frame[e] \in LiveFrames
  BY HeldFrame DEF Holding, Running
<1>2. Prog[ip[e]].site \in TakenBefore(ip[e]) /\ Prog[ip[e]].site \in Sites
  BY TakenOnce DEF Running, TakenBefore
<1>3. QED
  BY <1>1, <1>2 DEF IInv, TypeOK, ScratchFollowsProgram, Executing, Running

\* A binding that returns hands back a value of its own or one it was passed.
LEMMA CallResults ==
  ASSUME IInv, NEW e \in Execs, phase[e] = "call"
  PROVE  /\ frame[e] \in Frames
         /\ Results(e) \subseteq Val
<1>1. frame[e] \in Frames
  BY HeldFrame DEF Holding
<1>2. ip[e] \in DOMAIN Prog /\ Prog[ip[e]].kind = "call"
  BY DEF IInv, PhasesInOrder
<1>3. Prog[ip[e]].site \in Sites => Prog[ip[e]].site \in TakenBefore(ip[e])
  BY <1>2, TakenOnce, RunProgramAssumption
<1>4. Prog[ip[e]].site \in Sites => scratch[frame[e]][Prog[ip[e]].site] \in Blocks
  BY <1>1, <1>3 DEF IInv, TypeOK, ScratchFollowsProgram, Executing
<1>5. QED
  BY <1>1, <1>4 DEF IInv, TypeOK, Results, Val

-----------------------------------------------------------------------------
(* Every step preserves the invariant. *)

LEMMA GetPooledFrameInv ==
  ASSUME IInv, NEW e \in Execs, NEW f \in Frames, GetPooledFrame(e, f)
  PROVE  IInv'
<1>1. LiveFrames' \subseteq LiveFrames
  BY DEF IInv, TypeOK, FramesUnshared, PoolingGate, PhasesInOrder, Owning,
     Holding, LiveFrames, GetPooledFrame
<1>2. BlocksUnshared'
  BY <1>1 DEF IInv, TypeOK, BlocksUnshared, FramesUnshared, GetPooledFrame
<1>3. FramesUnshared'
  BY DEF IInv, TypeOK, FramesUnshared, PoolingGate, PhasesInOrder, Owning,
     Holding, LiveFrames, Pooled, FrameEscapes, GetPooledFrame
<1>4. /\ TypeOK' /\ PooledBlocksCleared' /\ PoolingGate'
     /\ PooledFramesHoldNoBlock' /\ BlocksInOnePool' /\ ScratchFollowsProgram'
     /\ ReleaseInOrder' /\ PhasesInOrder'
  BY RunProgramAssumption, OpType DEF IInv, TypeOK, Val, ZeroSlots,
     NilScratch, Op, PhasesInOrder, PooledBlocksCleared, PoolingGate,
     Pooled, FrameEscapes, PooledFramesHoldNoBlock, FramesUnshared, Owning,
     Holding, BlocksInOnePool, ScratchFollowsProgram, Executing,
     ReleaseInOrder, GetPooledFrame
<1>5. QED
  BY <1>2, <1>3, <1>4 DEF IInv

LEMMA ClearFrameInv ==
  ASSUME IInv, NEW e \in Execs, ClearFrame(e)
  PROVE  IInv'
<1>1. LiveFrames' \subseteq LiveFrames
  BY DEF IInv, TypeOK, FramesUnshared, PoolingGate, PhasesInOrder, Owning,
     Holding, LiveFrames, ClearFrame
<1>2. BlocksUnshared'
  <2>1. frame[e] \in Frames
    BY HeldFrame DEF Holding, ClearFrame
  <2>2. \A f \in LiveFrames, t \in Sites :
          scratch'[f][t] # None => scratch'[f][t] = scratch[f][t]
    BY <2>1 DEF IInv, TypeOK, ClearFrame, NilScratch, LiveFrames
  <2>3. QED
    BY <1>1, <2>2 DEF IInv, BlocksUnshared, ClearFrame
<1>3. ScratchFollowsProgram'
  <2>1. /\ frame[e] \in Frames
        /\ \A d \in Execs \ {e} : Executing(d) => frame[d] # frame[e]
    BY HeldFrame DEF Holding, Owning, Executing, ClearFrame
  <2>2. ip[e] = 1
    BY DEF IInv, PhasesInOrder, ClearFrame
  <2>3. \A t \in Sites : scratch'[frame[e]][t] = None
    BY <2>1 DEF IInv, TypeOK, ClearFrame, NilScratch
  <2>4. QED
    BY <2>1, <2>2, <2>3, TakenAtStart DEF IInv, TypeOK, ScratchFollowsProgram, Executing, ClearFrame
<1>4. FramesUnshared'
  BY DEF IInv, TypeOK, FramesUnshared, PoolingGate, PhasesInOrder, Owning,
     Holding, LiveFrames, Pooled, FrameEscapes, ClearFrame
<1>5. /\ TypeOK' /\ PooledBlocksCleared' /\ PoolingGate'
     /\ PooledFramesHoldNoBlock' /\ BlocksInOnePool' /\ ReleaseInOrder'
     /\ PhasesInOrder'
  BY RunProgramAssumption, OpType DEF IInv, TypeOK, Val, ZeroSlots,
     NilScratch, Op, PhasesInOrder, PooledBlocksCleared, PoolingGate,
     Pooled, FrameEscapes, PooledFramesHoldNoBlock, FramesUnshared, Owning,
     Holding, BlocksInOnePool, ReleaseInOrder, ClearFrame
<1>6. QED
  BY <1>2, <1>3, <1>4, <1>5 DEF IInv

LEMMA GetNewFrameInv ==
  ASSUME IInv, NEW e \in Execs, NEW f \in Frames, GetNewFrame(e, f)
  PROVE  IInv'
<1>1. LiveFrames' \subseteq LiveFrames \cup {f}
  BY DEF IInv, TypeOK, PhasesInOrder, Owning, Holding, LiveFrames, GetNewFrame
<1>2. BlocksUnshared'
  <2>1. \A g \in LiveFrames' :
          g # f => g \in LiveFrames /\ scratch'[g] = scratch[g]
    <3>1. LiveFrames \subseteq Frames
      BY DEF IInv, TypeOK, FramesUnshared, LiveFrames
    <3>2. scratch' = [scratch EXCEPT ![f] = NilScratch]
      BY DEF GetNewFrame
    <3>3. QED
      BY <1>1, <3>1, <3>2 DEF IInv, TypeOK
  <2>2. \A t \in Sites : scratch'[f][t] = None
    BY DEF IInv, TypeOK, GetNewFrame, NilScratch
  <2>3. blockPool' = blockPool
    BY DEF GetNewFrame
  <2>4. QED
    BY <2>1, <2>2, <2>3 DEF IInv, BlocksUnshared
<1>3. PooledFramesHoldNoBlock'
  BY DEF IInv, TypeOK, PooledFramesHoldNoBlock, NilScratch, LiveFrames, GetNewFrame
<1>4. ScratchFollowsProgram'
  <2>1. \A d \in Execs : Executing(d) => frame[d] # f
    BY DEF Executing, Owning, Holding, LiveFrames, GetNewFrame
  <2>2. ip[e] = 1
    BY DEF IInv, PhasesInOrder, GetNewFrame
  <2>3. \A t \in Sites : scratch'[f][t] = None
    BY DEF IInv, TypeOK, GetNewFrame, NilScratch
  <2>4. QED
    BY <2>1, <2>2, <2>3, TakenAtStart DEF IInv, TypeOK, ScratchFollowsProgram, Executing, GetNewFrame
<1>5. ReleaseInOrder'
  <2>1. \A d \in Execs : phase[d] = "finish" => frame[d] # f
    BY DEF Owning, Holding, LiveFrames, GetNewFrame
  <2>2. QED
    BY <2>1 DEF IInv, TypeOK, ReleaseInOrder, GetNewFrame
<1>6. FramesUnshared'
  BY DEF IInv, TypeOK, FramesUnshared, PoolingGate, PhasesInOrder, Owning,
     Holding, LiveFrames, Pooled, FrameEscapes, GetNewFrame
<1>7. /\ TypeOK' /\ PooledBlocksCleared' /\ PoolingGate'
     /\ BlocksInOnePool' /\ PhasesInOrder'
  BY RunProgramAssumption, OpType DEF IInv, TypeOK, Val, ZeroSlots,
     NilScratch, Op, PhasesInOrder, PooledBlocksCleared, PoolingGate,
     Pooled, FrameEscapes, BlocksInOnePool, GetNewFrame
<1>8. QED
  BY <1>2, <1>3, <1>4, <1>5, <1>6, <1>7 DEF IInv

LEMMA LoadInv ==
  ASSUME IInv, NEW e \in Execs, Load(e)
  PROVE  IInv'
<1>1. LiveFrames' \subseteq LiveFrames
  BY DEF IInv, TypeOK, FramesUnshared, PoolingGate, PhasesInOrder, Owning,
     Holding, LiveFrames, Load, Running, Advance
<1>2. BlocksUnshared'
  BY <1>1 DEF IInv, TypeOK, BlocksUnshared, FramesUnshared, Load, Running, Advance
<1>3. TypeOK'
  <2>1. frame[e] \in Frames
    BY HeldFrame DEF Holding, Load, Running
  <2>2. Prog[ip[e]].out \in Slots /\ ip[e] + 1 \in 1..(Len(Prog) + 1)
    BY OpType, RunProgramAssumption DEF WellFormed, Load, Running
  <2>3. PICK v \in {e, slots[frame[e]][Prog[ip[e]].out]} :
          slots' = [slots EXCEPT ![frame[e]][Prog[ip[e]].out] = v]
    BY DEF Load
  <2>4. v \in Val
    BY <2>1, <2>2 DEF IInv, TypeOK, Val
  <2>5. slots' \in [Frames -> [Slots -> Val]]
    BY <2>1, <2>2, <2>3, <2>4 DEF IInv, TypeOK
  <2>6. ip' \in [Execs -> 1..(Len(Prog) + 1)]
    BY <2>2 DEF IInv, TypeOK, Load, Advance
  <2>7. QED
    BY <2>5, <2>6 DEF IInv, TypeOK, Load
<1>4. ScratchFollowsProgram'
  <2>1. ip[e] \in DOMAIN Prog /\ Prog[ip[e]].kind # "take"
    BY DEF IInv, PhasesInOrder, Load, Running
  <2>2. TakenBefore(ip[e] + 1) = TakenBefore(ip[e])
    BY <2>1, TakenStep
  <2>3. QED
    BY <2>2 DEF IInv, TypeOK, ScratchFollowsProgram, Executing, Load, Advance, Running
<1>5. FramesUnshared'
  BY DEF IInv, TypeOK, FramesUnshared, PoolingGate, PhasesInOrder, Owning,
     Holding, LiveFrames, Pooled, FrameEscapes, Load, Running, Advance
<1>6. /\ PooledBlocksCleared' /\ PoolingGate' /\ PooledFramesHoldNoBlock'
     /\ BlocksInOnePool' /\ ReleaseInOrder' /\ PhasesInOrder'
  BY DEF IInv, TypeOK, PooledBlocksCleared, PoolingGate, Pooled,
     FrameEscapes, PooledFramesHoldNoBlock, FramesUnshared, Owning, Holding,
     BlocksInOnePool, ReleaseInOrder, PhasesInOrder, Load, Running, Advance
<1>7. QED
  BY <1>2, <1>3, <1>4, <1>5, <1>6 DEF IInv

LEMMA TakePooledInv ==
  ASSUME IInv, NEW e \in Execs, NEW b \in Blocks, TakePooled(e, b)
  PROVE  IInv'
<1>1. LiveFrames' \subseteq LiveFrames
  BY DEF IInv, TypeOK, FramesUnshared, PoolingGate, PhasesInOrder, Owning,
     Holding, LiveFrames, TakePooled, Running, Advance
<1>2. BlocksUnshared'
  <2> DEFINE s == Prog[ip[e]].site
  <2>1. frame[e] \in Frames /\ LiveFrames \subseteq Frames
    BY HeldFrame DEF Holding, Owning, LiveFrames, IInv, TypeOK, FramesUnshared, TakePooled, Running
  <2>2. s \in Sites
    BY TakenOnce DEF TakePooled, Running
  <2>3. \A g \in LiveFrames, u \in Sites :
          scratch'[g][u] = IF g = frame[e] /\ u = s THEN b ELSE scratch[g][u]
    BY <2>1, <2>2 DEF IInv, TypeOK, TakePooled
  <2>4. /\ \A g \in LiveFrames, u \in Sites : scratch[g][u] # b
        /\ b \notin UNION {blockPool'[x] : x \in Sites}
    <3>1. b \in blockPool[s] /\ blockPool' = [blockPool EXCEPT ![s] = @ \ {b}]
      BY DEF TakePooled
    <3>2. \A g \in LiveFrames, u \in Sites : scratch[g][u] # b
      BY <2>2, <3>1, ArgPoolsAssumption DEF IInv, BlocksUnshared
    <3>3. b \notin UNION {blockPool'[x] : x \in Sites}
      BY <2>2, <3>1 DEF IInv, TypeOK, BlocksInOnePool
    <3>4. QED
      BY <3>2, <3>3
  <2>5. \A x \in Sites : blockPool'[x] \subseteq blockPool[x]
    BY <2>2 DEF IInv, TypeOK, TakePooled
  <2>6. QED
    BY <1>1, <2>3, <2>4, <2>5 DEF IInv, BlocksUnshared
<1>3. ScratchFollowsProgram'
  <2> DEFINE s == Prog[ip[e]].site
  <2>1. /\ frame[e] \in Frames
        /\ \A d \in Execs \ {e} : Executing(d) => frame[d] # frame[e]
    BY HeldFrame DEF Holding, Owning, Executing, TakePooled, Running
  <2>2. /\ s \in Sites
        /\ TakenBefore(ip[e] + 1) = TakenBefore(ip[e]) \cup {s}
    BY TakenStep, TakenOnce DEF TakePooled, Running
  <2>3. scratch' = [scratch EXCEPT ![frame[e]][s] = b]
    BY DEF TakePooled
  <2>4. b # None
    BY ArgPoolsAssumption
  <2>5. ASSUME NEW d \in Execs, Executing(d)'
        PROVE  \A u \in Sites : scratch'[frame[d]][u] # None <=> u \in TakenBefore(ip'[d])
    <3>1. CASE d = e
      <4>1. Executing(e) /\ ip'[e] = ip[e] + 1
        BY DEF IInv, TypeOK, Executing, TakePooled, Running, Advance
      <4>2. \A u \in Sites : scratch[frame[e]][u] # None <=> u \in TakenBefore(ip[e])
        BY <4>1 DEF IInv, ScratchFollowsProgram
      <4>3. \A u \in Sites : scratch'[frame[e]][u] = IF u = s THEN b ELSE scratch[frame[e]][u]
        BY <2>1, <2>2, <2>3 DEF IInv, TypeOK
      <4>4. QED
        BY <2>2, <2>4, <3>1, <4>1, <4>2, <4>3
    <3>2. CASE d # e
      <4>1. Executing(d) /\ ip'[d] = ip[d] /\ frame[d] # frame[e]
        BY <2>1, <2>5, <3>2 DEF IInv, TypeOK, Executing, TakePooled, Running, Advance
      <4>2. scratch'[frame[d]] = scratch[frame[d]]
        BY <2>3, <4>1, HeldFrame DEF IInv, TypeOK, Executing, Holding
      <4>3. QED
        BY <4>1, <4>2 DEF IInv, ScratchFollowsProgram
    <3>3. QED
      BY <3>1, <3>2
  <2>6. frame' = frame
    BY DEF TakePooled
  <2>7. QED
    BY <2>5, <2>6 DEF ScratchFollowsProgram
<1>4. FramesUnshared'
  BY DEF IInv, TypeOK, FramesUnshared, PoolingGate, PhasesInOrder, Owning,
     Holding, LiveFrames, Pooled, FrameEscapes, TakePooled, Running, Advance
<1>5. TypeOK'
  BY RunProgramAssumption, OpType DEF IInv, TypeOK, Val, ZeroSlots,
     NilScratch, Op, PhasesInOrder, TakePooled, Running, Advance
<1>6. /\ PooledBlocksCleared' /\ PoolingGate' /\ PooledFramesHoldNoBlock'
     /\ BlocksInOnePool' /\ ReleaseInOrder' /\ PhasesInOrder'
  BY DEF IInv, TypeOK, PooledBlocksCleared, PoolingGate, Pooled,
     FrameEscapes, PooledFramesHoldNoBlock, FramesUnshared, Owning, Holding,
     BlocksInOnePool, ReleaseInOrder, PhasesInOrder, TakePooled, Running,
     Advance
<1>7. QED
  BY <1>2, <1>3, <1>4, <1>5, <1>6 DEF IInv

LEMMA TakeNewInv ==
  ASSUME IInv, NEW e \in Execs, NEW b \in Blocks, TakeNew(e, b)
  PROVE  IInv'
<1>1. LiveFrames' \subseteq LiveFrames
  BY DEF IInv, TypeOK, FramesUnshared, PoolingGate, PhasesInOrder, Owning,
     Holding, LiveFrames, TakeNew, Running, Advance
<1>2. BlocksUnshared'
  <2> DEFINE s == Prog[ip[e]].site
  <2>1. frame[e] \in Frames /\ LiveFrames \subseteq Frames
    BY HeldFrame DEF Holding, Owning, LiveFrames, IInv, TypeOK, FramesUnshared, TakeNew, Running
  <2>2. s \in Sites
    BY TakenOnce DEF TakeNew, Running
  <2>3. \A g \in LiveFrames, u \in Sites :
          scratch'[g][u] = IF g = frame[e] /\ u = s THEN b ELSE scratch[g][u]
    BY <2>1, <2>2 DEF IInv, TypeOK, TakeNew
  <2>4. /\ \A g \in LiveFrames, u \in Sites : scratch[g][u] # b
        /\ b \notin UNION {blockPool'[x] : x \in Sites}
    <3>1. b \notin LiveBlocks /\ blockPool' = blockPool
      BY DEF TakeNew
    <3>2. \A g \in LiveFrames, u \in Sites : scratch[g][u] # b
      BY <3>1 DEF LiveBlocks
    <3>3. b \notin UNION {blockPool[x] : x \in Sites}
      BY <3>1 DEF LiveBlocks
    <3>4. QED
      BY <3>1, <3>2, <3>3
  <2>5. \A x \in Sites : blockPool'[x] \subseteq blockPool[x]
    BY <2>2 DEF IInv, TypeOK, TakeNew
  <2>6. QED
    BY <1>1, <2>3, <2>4, <2>5 DEF IInv, BlocksUnshared
<1>3. ScratchFollowsProgram'
  <2> DEFINE s == Prog[ip[e]].site
  <2>1. /\ frame[e] \in Frames
        /\ \A d \in Execs \ {e} : Executing(d) => frame[d] # frame[e]
    BY HeldFrame DEF Holding, Owning, Executing, TakeNew, Running
  <2>2. /\ s \in Sites
        /\ TakenBefore(ip[e] + 1) = TakenBefore(ip[e]) \cup {s}
    BY TakenStep, TakenOnce DEF TakeNew, Running
  <2>3. scratch' = [scratch EXCEPT ![frame[e]][s] = b]
    BY DEF TakeNew
  <2>4. b # None
    BY ArgPoolsAssumption
  <2>5. ASSUME NEW d \in Execs, Executing(d)'
        PROVE  \A u \in Sites : scratch'[frame[d]][u] # None <=> u \in TakenBefore(ip'[d])
    <3>1. CASE d = e
      <4>1. Executing(e) /\ ip'[e] = ip[e] + 1
        BY DEF IInv, TypeOK, Executing, TakeNew, Running, Advance
      <4>2. \A u \in Sites : scratch[frame[e]][u] # None <=> u \in TakenBefore(ip[e])
        BY <4>1 DEF IInv, ScratchFollowsProgram
      <4>3. \A u \in Sites : scratch'[frame[e]][u] = IF u = s THEN b ELSE scratch[frame[e]][u]
        BY <2>1, <2>2, <2>3 DEF IInv, TypeOK
      <4>4. QED
        BY <2>2, <2>4, <3>1, <4>1, <4>2, <4>3
    <3>2. CASE d # e
      <4>1. Executing(d) /\ ip'[d] = ip[d] /\ frame[d] # frame[e]
        BY <2>1, <2>5, <3>2 DEF IInv, TypeOK, Executing, TakeNew, Running, Advance
      <4>2. scratch'[frame[d]] = scratch[frame[d]]
        BY <2>3, <4>1, HeldFrame DEF IInv, TypeOK, Executing, Holding
      <4>3. QED
        BY <4>1, <4>2 DEF IInv, ScratchFollowsProgram
    <3>3. QED
      BY <3>1, <3>2
  <2>6. frame' = frame
    BY DEF TakeNew
  <2>7. QED
    BY <2>5, <2>6 DEF ScratchFollowsProgram
<1>4. FramesUnshared'
  BY DEF IInv, TypeOK, FramesUnshared, PoolingGate, PhasesInOrder, Owning,
     Holding, LiveFrames, Pooled, FrameEscapes, TakeNew, Running, Advance
<1>5. TypeOK'
  BY RunProgramAssumption, OpType DEF IInv, TypeOK, Val, ZeroSlots,
     NilScratch, Op, PhasesInOrder, TakeNew, Running, Advance
<1>6. /\ PooledBlocksCleared' /\ PoolingGate' /\ PooledFramesHoldNoBlock'
     /\ BlocksInOnePool' /\ ReleaseInOrder' /\ PhasesInOrder'
  BY DEF IInv, TypeOK, PooledBlocksCleared, PoolingGate, Pooled,
     FrameEscapes, PooledFramesHoldNoBlock, FramesUnshared, Owning, Holding,
     BlocksInOnePool, ReleaseInOrder, PhasesInOrder, TakeNew, Running,
     Advance
<1>7. QED
  BY <1>2, <1>3, <1>4, <1>5, <1>6 DEF IInv

LEMMA FillInv ==
  ASSUME IInv, NEW e \in Execs, Fill(e)
  PROVE  IInv'
<1>1. LiveFrames' \subseteq LiveFrames
  BY DEF IInv, TypeOK, FramesUnshared, PoolingGate, PhasesInOrder, Owning,
     Holding, LiveFrames, Fill, Running, Advance
<1>2. BlocksUnshared'
  BY <1>1 DEF IInv, TypeOK, BlocksUnshared, FramesUnshared, Fill, Running, Advance
<1>3. TypeOK'
  <2>1. /\ frame[e] \in Frames /\ frame[e] \in LiveFrames
        /\ Prog[ip[e]].site \in Sites
        /\ scratch[frame[e]][Prog[ip[e]].site] \in Blocks
    BY FillTarget DEF Fill
  <2>2. /\ Prog[ip[e]].src \in Slots \cup {None}
        /\ ip[e] + 1 \in 1..(Len(Prog) + 1)
    BY OpType DEF Op, Fill, Running
  <2>3. content' \in [Blocks -> Val]
    BY <2>1, <2>2 DEF IInv, TypeOK, Val, Fill
  <2>4. ip' \in [Execs -> 1..(Len(Prog) + 1)]
    BY <2>2 DEF IInv, TypeOK, Fill, Advance
  <2>5. QED
    BY <2>3, <2>4 DEF IInv, TypeOK, Fill
<1>4. PooledBlocksCleared'
  <2>1. /\ frame[e] \in Frames /\ frame[e] \in LiveFrames
        /\ Prog[ip[e]].site \in Sites
        /\ scratch[frame[e]][Prog[ip[e]].site] \in Blocks
    BY FillTarget DEF Fill
  <2>2. \A t \in Sites : scratch[frame[e]][Prog[ip[e]].site] \notin blockPool[t]
    BY <2>1, ArgPoolsAssumption DEF IInv, BlocksUnshared
  <2>3. QED
    BY <2>1, <2>2 DEF IInv, TypeOK, PooledBlocksCleared, Fill
<1>5. ScratchFollowsProgram'
  <2>1. ip[e] \in DOMAIN Prog /\ Prog[ip[e]].kind # "take"
    BY DEF IInv, PhasesInOrder, Fill, Running
  <2>2. TakenBefore(ip[e] + 1) = TakenBefore(ip[e])
    BY <2>1, TakenStep
  <2>3. QED
    BY <2>2 DEF IInv, TypeOK, ScratchFollowsProgram, Executing, Fill, Advance, Running
<1>6. ReleaseInOrder'
  <2>1. /\ frame[e] \in Frames /\ frame[e] \in LiveFrames
        /\ Prog[ip[e]].site \in Sites
        /\ scratch[frame[e]][Prog[ip[e]].site] \in Blocks
    BY FillTarget DEF Fill
  <2>2. \A d \in Execs : clearing[d] # None =>
          scratch[frame[d]][clearing[d]] # scratch[frame[e]][Prog[ip[e]].site]
    <3>1. ASSUME NEW d \in Execs, clearing[d] # None
          PROVE  /\ phase[d] = "finish" /\ d # e /\ clearing[d] \in Sites
                 /\ frame[d] # frame[e] /\ frame[d] \in LiveFrames
      BY <3>1, HeldFrame DEF IInv, TypeOK, ReleaseInOrder, Fill, Running, Holding, Owning
    <3>2. QED
      BY <2>1, <3>1, ArgPoolsAssumption DEF IInv, BlocksUnshared
  <2>3. QED
    BY <2>1, <2>2 DEF IInv, TypeOK, ReleaseInOrder, Fill
<1>7. FramesUnshared'
  BY DEF IInv, TypeOK, FramesUnshared, PoolingGate, PhasesInOrder, Owning,
     Holding, LiveFrames, Pooled, FrameEscapes, Fill, Running, Advance
<1>8. /\ PoolingGate' /\ PooledFramesHoldNoBlock' /\ BlocksInOnePool'
     /\ PhasesInOrder'
  BY DEF IInv, TypeOK, PoolingGate, Pooled, FrameEscapes,
     PooledFramesHoldNoBlock, FramesUnshared, Owning, Holding,
     BlocksInOnePool, PhasesInOrder, Fill, Running, Advance
<1>9. QED
  BY <1>2, <1>3, <1>4, <1>5, <1>6, <1>7, <1>8 DEF IInv

LEMMA CallInv ==
  ASSUME IInv, NEW e \in Execs, Call(e)
  PROVE  IInv'
<1>1. LiveFrames' \subseteq LiveFrames
  BY DEF IInv, TypeOK, FramesUnshared, PoolingGate, PhasesInOrder, Owning,
     Holding, LiveFrames, Call, Running
<1>2. BlocksUnshared'
  BY <1>1 DEF IInv, TypeOK, BlocksUnshared, FramesUnshared, Call, Running
<1>3. FramesUnshared'
  BY DEF IInv, TypeOK, FramesUnshared, PoolingGate, PhasesInOrder, Owning,
     Holding, LiveFrames, Pooled, FrameEscapes, Call, Running
<1>4. /\ TypeOK' /\ PooledBlocksCleared' /\ PoolingGate'
     /\ PooledFramesHoldNoBlock' /\ BlocksInOnePool' /\ ScratchFollowsProgram'
     /\ ReleaseInOrder' /\ PhasesInOrder'
  BY RunProgramAssumption, OpType DEF IInv, TypeOK, Val, ZeroSlots,
     NilScratch, Op, PhasesInOrder, PooledBlocksCleared, PoolingGate,
     Pooled, FrameEscapes, PooledFramesHoldNoBlock, FramesUnshared, Owning,
     Holding, BlocksInOnePool, ScratchFollowsProgram, Executing,
     ReleaseInOrder, Call, Running
<1>5. QED
  BY <1>2, <1>3, <1>4 DEF IInv

LEMMA ReturnInv ==
  ASSUME IInv, NEW e \in Execs, Return(e)
  PROVE  IInv'
<1>1. LiveFrames' \subseteq LiveFrames
  BY DEF IInv, TypeOK, FramesUnshared, PoolingGate, PhasesInOrder, Owning,
     Holding, LiveFrames, Return, Advance, Results
<1>2. BlocksUnshared'
  BY <1>1 DEF IInv, TypeOK, BlocksUnshared, FramesUnshared, Return, Advance, Results
<1>3. TypeOK'
  <2>1. /\ frame[e] \in Frames
        /\ Results(e) \subseteq Val
    BY CallResults DEF Return
  <2>2. ip[e] + 1 \in 1..(Len(Prog) + 1)
    BY OpType DEF IInv, PhasesInOrder, Return
  <2>3. slots' \in [Frames -> [Slots -> Val]]
    <3>1. CASE Prog[ip[e]].out \in Slots
      <4>1. PICK v \in Results(e) : slots' = [slots EXCEPT ![frame[e]][Prog[ip[e]].out] = v]
        BY <3>1 DEF Return
      <4>2. v \in Val
        BY <2>1
      <4>3. QED
        BY <2>1, <3>1, <4>1, <4>2 DEF IInv, TypeOK
    <3>2. CASE Prog[ip[e]].out \notin Slots
      BY <3>2 DEF IInv, TypeOK, Return
    <3>3. QED
      BY <3>1, <3>2
  <2>4. ip' \in [Execs -> 1..(Len(Prog) + 1)]
    BY <2>2 DEF IInv, TypeOK, Return, Advance
  <2>5. QED
    BY <2>3, <2>4 DEF IInv, TypeOK, Return
<1>4. ScratchFollowsProgram'
  <2>1. ip[e] \in DOMAIN Prog /\ Prog[ip[e]].kind # "take"
    BY DEF IInv, PhasesInOrder, Return
  <2>2. TakenBefore(ip[e] + 1) = TakenBefore(ip[e])
    BY <2>1, TakenStep
  <2>3. QED
    BY <2>2 DEF IInv, TypeOK, ScratchFollowsProgram, Executing, Return, Advance
<1>5. FramesUnshared'
  BY DEF IInv, TypeOK, FramesUnshared, PoolingGate, PhasesInOrder, Owning,
     Holding, LiveFrames, Pooled, FrameEscapes, Return, Advance, Results
<1>6. /\ PooledBlocksCleared' /\ PoolingGate' /\ PooledFramesHoldNoBlock'
     /\ BlocksInOnePool' /\ ReleaseInOrder' /\ PhasesInOrder'
  BY DEF IInv, TypeOK, PooledBlocksCleared, PoolingGate, Pooled,
     FrameEscapes, PooledFramesHoldNoBlock, FramesUnshared, Owning, Holding,
     BlocksInOnePool, ReleaseInOrder, PhasesInOrder, Return, Advance,
     Results
<1>7. QED
  BY <1>2, <1>3, <1>4, <1>5, <1>6 DEF IInv

LEMMA FailInv ==
  ASSUME IInv, NEW e \in Execs, Fail(e)
  PROVE  IInv'
<1>1. LiveFrames' \subseteq LiveFrames
  BY DEF IInv, TypeOK, FramesUnshared, PoolingGate, PhasesInOrder, Owning,
     Holding, LiveFrames, Fail, Running, Leave, memVars
<1>2. BlocksUnshared'
  BY <1>1 DEF IInv, TypeOK, BlocksUnshared, FramesUnshared, Fail, Running, Leave, memVars
<1>3. FramesUnshared'
  BY DEF IInv, TypeOK, FramesUnshared, PoolingGate, PhasesInOrder, Owning,
     Holding, LiveFrames, Pooled, FrameEscapes, Fail, Running, Leave,
     memVars
<1>4. /\ TypeOK' /\ PooledBlocksCleared' /\ PoolingGate'
     /\ PooledFramesHoldNoBlock' /\ BlocksInOnePool' /\ ScratchFollowsProgram'
     /\ ReleaseInOrder' /\ PhasesInOrder'
  BY RunProgramAssumption, OpType DEF IInv, TypeOK, Val, ZeroSlots,
     NilScratch, Op, PhasesInOrder, PooledBlocksCleared, PoolingGate,
     Pooled, FrameEscapes, PooledFramesHoldNoBlock, FramesUnshared, Owning,
     Holding, BlocksInOnePool, ScratchFollowsProgram, Executing,
     ReleaseInOrder, Fail, Running, Leave, memVars
<1>5. QED
  BY <1>2, <1>3, <1>4 DEF IInv

LEMMA FinishInv ==
  ASSUME IInv, NEW e \in Execs, Finish(e)
  PROVE  IInv'
<1>1. LiveFrames' \subseteq LiveFrames
  BY DEF IInv, TypeOK, FramesUnshared, PoolingGate, PhasesInOrder, Owning,
     Holding, LiveFrames, Finish, Leave, memVars
<1>2. BlocksUnshared'
  BY <1>1 DEF IInv, TypeOK, BlocksUnshared, FramesUnshared, Finish, Leave, memVars
<1>3. TypeOK'
  <2>1. frame[e] \in Frames
    BY HeldFrame DEF Holding, Finish
  <2>2. QED
    BY <2>1 DEF IInv, TypeOK, Finish, Leave, memVars
<1>4. FramesUnshared'
  BY DEF IInv, TypeOK, FramesUnshared, PoolingGate, PhasesInOrder, Owning,
     Holding, LiveFrames, Pooled, FrameEscapes, Finish, Leave, memVars
<1>5. /\ PooledBlocksCleared' /\ PoolingGate' /\ PooledFramesHoldNoBlock'
     /\ BlocksInOnePool' /\ ScratchFollowsProgram' /\ ReleaseInOrder'
     /\ PhasesInOrder'
  BY DEF IInv, TypeOK, PooledBlocksCleared, PoolingGate, Pooled,
     FrameEscapes, PooledFramesHoldNoBlock, FramesUnshared, Owning, Holding,
     BlocksInOnePool, ScratchFollowsProgram, Executing, ReleaseInOrder,
     PhasesInOrder, Finish, Leave, memVars
<1>6. QED
  BY <1>2, <1>3, <1>4, <1>5 DEF IInv

LEMMA PanicInv ==
  ASSUME IInv, NEW e \in Execs, Panic(e)
  PROVE  IInv'
<1>1. LiveFrames' \subseteq LiveFrames
  BY DEF IInv, TypeOK, FramesUnshared, PoolingGate, PhasesInOrder, Owning,
     Holding, LiveFrames, Panic, memVars
<1>2. BlocksUnshared'
  BY <1>1 DEF IInv, TypeOK, BlocksUnshared, FramesUnshared, Panic, memVars
<1>3. FramesUnshared'
  BY DEF IInv, TypeOK, FramesUnshared, PoolingGate, PhasesInOrder, Owning,
     Holding, LiveFrames, Pooled, FrameEscapes, Panic, memVars
<1>4. /\ TypeOK' /\ PooledBlocksCleared' /\ PoolingGate'
     /\ PooledFramesHoldNoBlock' /\ BlocksInOnePool' /\ ScratchFollowsProgram'
     /\ ReleaseInOrder' /\ PhasesInOrder'
  BY RunProgramAssumption, OpType DEF IInv, TypeOK, Val, ZeroSlots,
     NilScratch, Op, PhasesInOrder, PooledBlocksCleared, PoolingGate,
     Pooled, FrameEscapes, PooledFramesHoldNoBlock, FramesUnshared, Owning,
     Holding, BlocksInOnePool, ScratchFollowsProgram, Executing,
     ReleaseInOrder, Panic, memVars
<1>5. QED
  BY <1>2, <1>3, <1>4 DEF IInv

LEMMA ReleaseSkipInv ==
  ASSUME IInv, NEW e \in Execs, NEW t \in Sites, ReleaseSkip(e, t)
  PROVE  IInv'
<1>1. LiveFrames' \subseteq LiveFrames
  BY DEF IInv, TypeOK, FramesUnshared, PoolingGate, PhasesInOrder, Owning,
     Holding, LiveFrames, ReleaseSkip, memVars
<1>2. BlocksUnshared'
  BY <1>1 DEF IInv, TypeOK, BlocksUnshared, FramesUnshared, ReleaseSkip, memVars
<1>3. FramesUnshared'
  BY DEF IInv, TypeOK, FramesUnshared, PoolingGate, PhasesInOrder, Owning,
     Holding, LiveFrames, Pooled, FrameEscapes, ReleaseSkip, memVars
<1>4. /\ TypeOK' /\ PooledBlocksCleared' /\ PoolingGate'
     /\ PooledFramesHoldNoBlock' /\ BlocksInOnePool' /\ ScratchFollowsProgram'
     /\ ReleaseInOrder' /\ PhasesInOrder'
  BY RunProgramAssumption, OpType DEF IInv, TypeOK, Val, ZeroSlots,
     NilScratch, Op, PhasesInOrder, PooledBlocksCleared, PoolingGate,
     Pooled, FrameEscapes, PooledFramesHoldNoBlock, FramesUnshared, Owning,
     Holding, BlocksInOnePool, ScratchFollowsProgram, Executing,
     ReleaseInOrder, ReleaseSkip, memVars
<1>5. QED
  BY <1>2, <1>3, <1>4 DEF IInv

LEMMA ReleaseClearInv ==
  ASSUME IInv, NEW e \in Execs, NEW t \in Sites, ReleaseClear(e, t)
  PROVE  IInv'
<1>1. LiveFrames' \subseteq LiveFrames
  BY DEF IInv, TypeOK, FramesUnshared, PoolingGate, PhasesInOrder, Owning,
     Holding, LiveFrames, ReleaseClear
<1>2. BlocksUnshared'
  BY <1>1 DEF IInv, TypeOK, BlocksUnshared, FramesUnshared, ReleaseClear
<1>3. FramesUnshared'
  BY DEF IInv, TypeOK, FramesUnshared, PoolingGate, PhasesInOrder, Owning,
     Holding, LiveFrames, Pooled, FrameEscapes, ReleaseClear
<1>4. /\ TypeOK' /\ PooledBlocksCleared' /\ PoolingGate'
     /\ PooledFramesHoldNoBlock' /\ BlocksInOnePool' /\ ScratchFollowsProgram'
     /\ ReleaseInOrder' /\ PhasesInOrder'
  BY RunProgramAssumption, OpType DEF IInv, TypeOK, Val, ZeroSlots,
     NilScratch, Op, PhasesInOrder, PooledBlocksCleared, PoolingGate,
     Pooled, FrameEscapes, PooledFramesHoldNoBlock, FramesUnshared, Owning,
     Holding, BlocksInOnePool, ScratchFollowsProgram, Executing,
     ReleaseInOrder, ReleaseClear
<1>5. QED
  BY <1>2, <1>3, <1>4 DEF IInv

LEMMA ReleasePutInv ==
  ASSUME IInv, NEW e \in Execs, ReleasePut(e)
  PROVE  IInv'
<1>1. LiveFrames' \subseteq LiveFrames
  BY DEF IInv, TypeOK, FramesUnshared, PoolingGate, PhasesInOrder, Owning,
     Holding, LiveFrames, ReleasePut
<1>2. BlocksUnshared'
  <2> DEFINE s == clearing[e]
             b == scratch[frame[e]][s]
  <2>1. /\ frame[e] \in Frames /\ frame[e] \in LiveFrames
        /\ s \in Sites /\ b \in Blocks /\ content[b] = Zero
    BY HeldFrame DEF Holding, IInv, TypeOK, ReleaseInOrder, ReleasePut
  <2>2. \A g \in LiveFrames, u \in Sites :
          scratch'[g][u] = IF g = frame[e] /\ u = s THEN None ELSE scratch[g][u]
    BY <2>1 DEF IInv, TypeOK, FramesUnshared, LiveFrames, ReleasePut
  <2>3. \A g \in LiveFrames, u \in Sites : scratch'[g][u] # b
    BY <2>1, <2>2, ArgPoolsAssumption DEF IInv, BlocksUnshared
  <2>4. \A x \in Sites : blockPool'[x] \subseteq blockPool[x] \cup {b}
    BY <2>1 DEF IInv, TypeOK, ReleasePut
  <2>5. QED
    BY <1>1, <2>2, <2>3, <2>4 DEF IInv, BlocksUnshared
<1>3. TypeOK'
  <2> DEFINE s == clearing[e]
             b == scratch[frame[e]][s]
  <2>1. /\ frame[e] \in Frames /\ frame[e] \in LiveFrames
        /\ s \in Sites /\ b \in Blocks /\ content[b] = Zero
    BY HeldFrame DEF Holding, IInv, TypeOK, ReleaseInOrder, ReleasePut
  <2>2. QED
    BY <2>1 DEF IInv, TypeOK, ReleasePut
<1>4. PooledBlocksCleared'
  <2> DEFINE s == clearing[e]
             b == scratch[frame[e]][s]
  <2>1. /\ frame[e] \in Frames /\ frame[e] \in LiveFrames
        /\ s \in Sites /\ b \in Blocks /\ content[b] = Zero
    BY HeldFrame DEF Holding, IInv, TypeOK, ReleaseInOrder, ReleasePut
  <2>2. QED
    BY <2>1 DEF IInv, TypeOK, PooledBlocksCleared, ReleasePut
<1>5. BlocksInOnePool'
  <2> DEFINE s == clearing[e]
             b == scratch[frame[e]][s]
  <2>1. /\ frame[e] \in Frames /\ frame[e] \in LiveFrames
        /\ s \in Sites /\ b \in Blocks /\ content[b] = Zero
    BY HeldFrame DEF Holding, IInv, TypeOK, ReleaseInOrder, ReleasePut
  <2>2. \A x \in Sites : b \notin blockPool[x]
    BY <2>1, ArgPoolsAssumption DEF IInv, BlocksUnshared
  <2>3. QED
    BY <2>1, <2>2 DEF IInv, TypeOK, BlocksInOnePool, ReleasePut
<1>6. FramesUnshared'
  BY DEF IInv, TypeOK, FramesUnshared, PoolingGate, PhasesInOrder, Owning,
     Holding, LiveFrames, Pooled, FrameEscapes, ReleasePut
<1>7. /\ PoolingGate' /\ PooledFramesHoldNoBlock' /\ ScratchFollowsProgram'
     /\ ReleaseInOrder' /\ PhasesInOrder'
  BY DEF IInv, TypeOK, PoolingGate, Pooled, FrameEscapes,
     PooledFramesHoldNoBlock, FramesUnshared, Owning, Holding,
     ScratchFollowsProgram, Executing, ReleaseInOrder, PhasesInOrder,
     ReleasePut
<1>8. QED
  BY <1>2, <1>3, <1>4, <1>5, <1>6, <1>7 DEF IInv

LEMMA PutFrameInv ==
  ASSUME IInv, NEW e \in Execs, PutFrame(e)
  PROVE  IInv'
<1>1. LiveFrames' \subseteq LiveFrames
  BY DEF IInv, TypeOK, FramesUnshared, PoolingGate, PhasesInOrder, Owning,
     Holding, LiveFrames, PutFrame
<1>2. BlocksUnshared'
  BY <1>1 DEF IInv, TypeOK, BlocksUnshared, FramesUnshared, PutFrame
<1>3. TypeOK'
  <2>1. frame[e] \in Frames
    BY HeldFrame DEF Holding, PutFrame
  <2>2. QED
    BY <2>1 DEF IInv, TypeOK, PutFrame
<1>4. PooledFramesHoldNoBlock'
  <2>1. \A t \in Sites : scratch[frame[e]][t] = None
    BY DEF IInv, ReleaseInOrder, PutFrame
  <2>2. QED
    BY <2>1 DEF IInv, PooledFramesHoldNoBlock, PutFrame
<1>5. FramesUnshared'
  BY DEF IInv, TypeOK, FramesUnshared, PoolingGate, PhasesInOrder, Owning,
     Holding, LiveFrames, Pooled, FrameEscapes, PutFrame
<1>6. /\ PooledBlocksCleared' /\ PoolingGate' /\ BlocksInOnePool'
     /\ ScratchFollowsProgram' /\ ReleaseInOrder' /\ PhasesInOrder'
  BY DEF IInv, TypeOK, PooledBlocksCleared, PoolingGate, Pooled,
     FrameEscapes, BlocksInOnePool, ScratchFollowsProgram, Executing,
     FramesUnshared, Owning, Holding, ReleaseInOrder, PhasesInOrder,
     PutFrame
<1>7. QED
  BY <1>2, <1>3, <1>4, <1>5, <1>6 DEF IInv

LEMMA KeptWriteInv ==
  ASSUME IInv, NEW e \in Execs, NEW s \in Slots, KeptWrite(e, s)
  PROVE  IInv'
<1>1. LiveFrames' \subseteq LiveFrames
  BY DEF IInv, TypeOK, FramesUnshared, PoolingGate, PhasesInOrder, Owning,
     Holding, LiveFrames, KeptWrite, runVars
<1>2. BlocksUnshared'
  BY <1>1 DEF IInv, TypeOK, BlocksUnshared, FramesUnshared, KeptWrite, runVars
<1>3. FramesUnshared'
  BY DEF IInv, TypeOK, FramesUnshared, PoolingGate, PhasesInOrder, Owning,
     Holding, LiveFrames, Pooled, FrameEscapes, KeptWrite, runVars
<1>4. /\ TypeOK' /\ PooledBlocksCleared' /\ PoolingGate'
     /\ PooledFramesHoldNoBlock' /\ BlocksInOnePool' /\ ScratchFollowsProgram'
     /\ ReleaseInOrder' /\ PhasesInOrder'
  BY RunProgramAssumption, OpType DEF IInv, TypeOK, Val, ZeroSlots,
     NilScratch, Op, PhasesInOrder, PooledBlocksCleared, PoolingGate,
     Pooled, FrameEscapes, PooledFramesHoldNoBlock, FramesUnshared, Owning,
     Holding, BlocksInOnePool, ScratchFollowsProgram, Executing,
     ReleaseInOrder, KeptWrite, runVars
<1>5. QED
  BY <1>2, <1>3, <1>4 DEF IInv

LEMMA PoolLosesFrameInv ==
  ASSUME IInv, NEW f \in framePool, PoolLosesFrame(f)
  PROVE  IInv'
<1>1. LiveFrames' \subseteq LiveFrames
  BY DEF IInv, TypeOK, FramesUnshared, PoolingGate, PhasesInOrder, Owning,
     Holding, LiveFrames, PoolLosesFrame, runVars
<1>2. BlocksUnshared'
  BY <1>1 DEF IInv, TypeOK, BlocksUnshared, FramesUnshared, PoolLosesFrame, runVars
<1>3. FramesUnshared'
  BY DEF IInv, TypeOK, FramesUnshared, PoolingGate, PhasesInOrder, Owning,
     Holding, LiveFrames, Pooled, FrameEscapes, PoolLosesFrame, runVars
<1>4. /\ TypeOK' /\ PooledBlocksCleared' /\ PoolingGate'
     /\ PooledFramesHoldNoBlock' /\ BlocksInOnePool' /\ ScratchFollowsProgram'
     /\ ReleaseInOrder' /\ PhasesInOrder'
  BY RunProgramAssumption, OpType DEF IInv, TypeOK, Val, ZeroSlots,
     NilScratch, Op, PhasesInOrder, PooledBlocksCleared, PoolingGate,
     Pooled, FrameEscapes, PooledFramesHoldNoBlock, FramesUnshared, Owning,
     Holding, BlocksInOnePool, ScratchFollowsProgram, Executing,
     ReleaseInOrder, PoolLosesFrame, runVars
<1>5. QED
  BY <1>2, <1>3, <1>4 DEF IInv

LEMMA PoolLosesBlockInv ==
  ASSUME IInv, NEW t \in Sites, NEW b \in blockPool[t], PoolLosesBlock(t, b)
  PROVE  IInv'
<1>1. LiveFrames' \subseteq LiveFrames
  BY DEF IInv, TypeOK, FramesUnshared, PoolingGate, PhasesInOrder, Owning,
     Holding, LiveFrames, PoolLosesBlock, runVars
<1>2. BlocksUnshared'
  BY <1>1 DEF IInv, TypeOK, BlocksUnshared, FramesUnshared, PoolLosesBlock, runVars
<1>3. FramesUnshared'
  BY DEF IInv, TypeOK, FramesUnshared, PoolingGate, PhasesInOrder, Owning,
     Holding, LiveFrames, Pooled, FrameEscapes, PoolLosesBlock, runVars
<1>4. /\ TypeOK' /\ PooledBlocksCleared' /\ PoolingGate'
     /\ PooledFramesHoldNoBlock' /\ BlocksInOnePool' /\ ScratchFollowsProgram'
     /\ ReleaseInOrder' /\ PhasesInOrder'
  BY RunProgramAssumption, OpType DEF IInv, TypeOK, Val, ZeroSlots,
     NilScratch, Op, PhasesInOrder, PooledBlocksCleared, PoolingGate,
     Pooled, FrameEscapes, PooledFramesHoldNoBlock, FramesUnshared, Owning,
     Holding, BlocksInOnePool, ScratchFollowsProgram, Executing,
     ReleaseInOrder, PoolLosesBlock, runVars
<1>5. QED
  BY <1>2, <1>3, <1>4 DEF IInv
-----------------------------------------------------------------------------
(* The theorems *)

LEMMA InitInv == Init => IInv
<1> SUFFICES ASSUME Init PROVE IInv
  OBVIOUS
<1>1. TypeOK
  <2>1. 1 \in 1..(Len(Prog) + 1)
    BY RunProgramAssumption DEF WellFormed
  <2>2. QED
    BY <2>1 DEF Init, TypeOK, Val, ZeroSlots, NilScratch
<1>2. kept = {} /\ framePool = {} /\ LiveFrames = {}
  BY DEF Init, LiveFrames, Owning, Holding
<1>3. FramesUnshared /\ BlocksUnshared /\ PooledBlocksCleared
  BY <1>2 DEF Init, FramesUnshared, BlocksUnshared, PooledBlocksCleared, Owning, Holding
<1>4. PoolingGate /\ PooledFramesHoldNoBlock /\ BlocksInOnePool
  BY <1>2 DEF Init, PoolingGate, PooledFramesHoldNoBlock, BlocksInOnePool
<1>5. ScratchFollowsProgram /\ ReleaseInOrder /\ PhasesInOrder
  BY <1>2 DEF Init, ScratchFollowsProgram, ReleaseInOrder, PhasesInOrder, Executing
<1>6. QED
  BY <1>1, <1>3, <1>4, <1>5 DEF IInv

LEMMA StepInv == IInv /\ [Next]_vars => IInv'
<1> SUFFICES ASSUME IInv, [Next]_vars PROVE IInv'
  OBVIOUS
<1>1. ASSUME NEW e \in Execs, Step(e) PROVE IInv'
  BY <1>1, GetPooledFrameInv, GetNewFrameInv, ClearFrameInv, LoadInv, TakePooledInv,
     TakeNewInv, FillInv, CallInv, ReturnInv, FailInv, PanicInv, FinishInv,
     ReleaseSkipInv, ReleaseClearInv, ReleasePutInv, PutFrameInv DEF Step
<1>2. ASSUME NEW e \in Execs, NEW s \in Slots, KeptWrite(e, s) PROVE IInv'
  BY <1>2, KeptWriteInv
<1>3. ASSUME NEW f \in framePool, PoolLosesFrame(f) PROVE IInv'
  BY <1>3, PoolLosesFrameInv
<1>4. ASSUME NEW t \in Sites, NEW b \in blockPool[t], PoolLosesBlock(t, b) PROVE IInv'
  BY <1>4, PoolLosesBlockInv
<1>5. CASE UNCHANGED vars
  <2> USE <1>5 DEF vars, IInv
  <2>1. LiveFrames' = LiveFrames
    BY DEF LiveFrames, Owning, Holding
  <2>2. TypeOK' /\ PooledBlocksCleared' /\ PoolingGate' /\ PooledFramesHoldNoBlock'
    BY DEF TypeOK, PooledBlocksCleared, PoolingGate, PooledFramesHoldNoBlock
  <2>3. FramesUnshared' /\ BlocksUnshared' /\ BlocksInOnePool'
    BY <2>1 DEF FramesUnshared, BlocksUnshared, BlocksInOnePool, Owning, Holding
  <2>4. ScratchFollowsProgram' /\ ReleaseInOrder' /\ PhasesInOrder'
    BY DEF ScratchFollowsProgram, ReleaseInOrder, PhasesInOrder, Executing
  <2>5. QED
    BY <2>2, <2>3, <2>4
<1>6. QED
  BY <1>1, <1>2, <1>3, <1>4, <1>5 DEF Next

\* The invariant holds of every reachable state, for every well-formed program.
LEMMA Invariance == Spec => []IInv
BY InitInv, StepInv, PTL DEF Spec

\* Every variable keeps its type: in particular a frame an execution runs over
\* is a frame, and a block it stores into is a block (stepjit.go:140-192).
THEOREM TypeCorrect == Spec => []TypeOK
<1>1. IInv => TypeOK
  BY DEF IInv
<1>2. QED
  BY <1>1, Invariance, PTL

\* No two executions of a program ever share a frame, and a frame a binding
\* may still point into is never handed to another one (stepjit.go:120-126).
THEOREM FramesAreExclusive == Spec => []FramesUnshared
<1>1. IInv => FramesUnshared
  BY DEF IInv
<1>2. QED
  BY <1>1, Invariance, PTL

\* A block of an argument pool is borrowed by one execution or is in one pool,
\* never both and never twice (stepjit_pool.go:45-67).
THEOREM BlocksAreExclusive == Spec => []BlocksUnshared
<1>1. IInv => BlocksUnshared
  BY DEF IInv
<1>2. QED
  BY <1>1, Invariance, PTL

\* take() returns zeroed memory on both its paths (stepjit_pool.go:45-47).
THEOREM PooledBlocksAreClear == Spec => []PooledBlocksCleared
<1>1. IInv => PooledBlocksCleared
  BY DEF IInv
<1>2. QED
  BY <1>1, Invariance, PTL

\* On the error path as on the normal one, an execution lets go of its frame
\* only when it has returned every block it borrowed (stepjit.go:162-170).
THEOREM NothingIsLeftBehind == Spec => FinishReturnsEverything
<1> DEFINE Returned == \A e \in Execs : phase[e] = "finish" /\ phase'[e] = "done" =>
                         scratch'[frame[e]] = NilScratch
<1>1. IInv /\ [Next]_vars => [Returned]_vars
  <2> SUFFICES ASSUME IInv, Next, NEW e \in Execs, phase[e] = "finish", phase'[e] = "done"
               PROVE  scratch'[frame[e]] = NilScratch
    BY DEF vars
  <2>1. PutFrame(e)
    <3>1. PICK d \in Execs : Step(d)
      BY DEF Next, KeptWrite, PoolLosesFrame, PoolLosesBlock, runVars
    <3>2. CASE d = e
      BY <3>1, <3>2 DEF Step, IInv, TypeOK, GetPooledFrame, GetNewFrame, ClearFrame, Load,
         TakePooled, TakeNew, Fill, Call, Return, Fail, Finish, Leave, Panic, ReleaseSkip,
         ReleaseClear, ReleasePut, Running
    <3>3. CASE d # e
      <4>1. phase'[e] = phase[e]
        BY <3>1, <3>3 DEF Step, IInv, TypeOK, GetPooledFrame, GetNewFrame, ClearFrame, Load,
           TakePooled, TakeNew, Fill, Call, Return, Fail, Finish, Leave, Panic, ReleaseSkip,
           ReleaseClear, ReleasePut, PutFrame
      <4>2. QED
        BY <4>1
    <3>4. QED
      BY <3>2, <3>3
  <2>2. frame[e] \in Frames /\ \A t \in Sites : scratch[frame[e]][t] = None
    BY <2>1, HeldFrame DEF IInv, ReleaseInOrder, PutFrame, Holding
  <2>3. scratch[frame[e]] \in [Sites -> Blocks \cup {None}]
    BY <2>2 DEF IInv, TypeOK
  <2>4. scratch[frame[e]] = NilScratch
    BY <2>2, <2>3 DEF NilScratch
  <2>5. QED
    BY <2>1, <2>4 DEF PutFrame
<1>2. QED
  BY <1>1, Invariance, PTL DEF Spec, FinishReturnsEverything

-----------------------------------------------------------------------------
(* The refinement *)

\* What the abstract specification sees of execution d.
PhaseOf(d) == IF phase[d] \in {"idle", "clear"} THEN "idle"
              ELSE IF Executing(d) THEN phase[d] ELSE "ended"
MemOf(d) == IF Executing(d) \/ d \in kept THEN slots[frame[d]] ELSE ZeroSlots
LitOf(d, t) == IF Executing(d) /\ scratch[frame[d]][t] # None
                 THEN content[scratch[frame[d]][t]] ELSE Zero

LEMMA ViewsAre ==
  /\ AbstractPhase = [d \in Execs |-> PhaseOf(d)]
  /\ AbstractMem = [d \in Execs |-> MemOf(d)]
  /\ AbstractLit = [d \in Execs |-> [t \in Sites |-> LitOf(d, t)]]
BY DEF AbstractPhase, AbstractMem, AbstractLit, PhaseOf, MemOf, LitOf, Executing

LEMMA ViewsWillBe ==
  /\ AbstractPhase' = [d \in Execs |-> PhaseOf(d)']
  /\ AbstractMem' = [d \in Execs |-> MemOf(d)']
  /\ AbstractLit' = [d \in Execs |-> [t \in Sites |-> LitOf(d, t)']]
BY DEF AbstractPhase, AbstractMem, AbstractLit, PhaseOf, MemOf, LitOf, Executing

\* What a step of one execution does to the views, and what it leaves.
SameFor(d) ==
  /\ PhaseOf(d)' = PhaseOf(d)
  /\ MemOf(d)' = MemOf(d)
  /\ \A t \in Sites : LitOf(d, t)' = LitOf(d, t)

SameForOthers(e) == \A d \in Execs \ {e} : SameFor(d)

LEMMA ViewsSame ==
  ASSUME \A d \in Execs : SameFor(d)
  PROVE  UNCHANGED <<AbstractPhase, AbstractMem, AbstractLit>>
BY ViewsAre, ViewsWillBe DEF SameFor

LEMMA PhaseChanges ==
  ASSUME NEW e \in Execs, SameForOthers(e)
  PROVE  AbstractPhase' = [AbstractPhase EXCEPT ![e] = PhaseOf(e)']
BY ViewsAre, ViewsWillBe DEF SameForOthers, SameFor

LEMMA MemChanges ==
  ASSUME NEW e \in Execs, SameForOthers(e)
  PROVE  AbstractMem' = [AbstractMem EXCEPT ![e] = MemOf(e)']
BY ViewsAre, ViewsWillBe DEF SameForOthers, SameFor

LEMMA LitChanges ==
  ASSUME NEW e \in Execs, SameForOthers(e)
  PROVE  AbstractLit' = [AbstractLit EXCEPT ![e] = [t \in Sites |-> LitOf(e, t)']]
BY ViewsAre, ViewsWillBe DEF SameForOthers, SameFor

\* The memory of execution d is left alone: its words, its scratch fields and
\* the blocks in them.
Untouched(d) ==
  /\ phase'[d] = phase[d] /\ frame'[d] = frame[d] /\ (d \in kept' <=> d \in kept)
  /\ Executing(d) \/ d \in kept => slots'[frame[d]] = slots[frame[d]]
  /\ Executing(d) => \A t \in Sites :
       /\ scratch'[frame[d]][t] = scratch[frame[d]][t]
       /\ scratch[frame[d]][t] # None =>
            content'[scratch[frame[d]][t]] = content[scratch[frame[d]][t]]

LEMMA UntouchedIsSame ==
  ASSUME NEW d \in Execs, Untouched(d)
  PROVE  SameFor(d)
BY DEF Untouched, SameFor, PhaseOf, MemOf, LitOf, Executing

-----------------------------------------------------------------------------
(* Whose memory is whose *)

\* The frame of an owner is its alone.
LEMMA OwnFrame ==
  ASSUME IInv, NEW e \in Execs, Owning(e)
  PROVE  /\ frame[e] \in Frames /\ frame[e] \in LiveFrames /\ frame[e] \notin framePool
         /\ \A d \in Execs \ {e} : Owning(d) => frame[d] # frame[e]
BY DEF IInv, FramesUnshared, LiveFrames

LEMMA ExecutingOwns ==
  ASSUME NEW e \in Execs, Executing(e) \/ e \in kept \/ Holding(e)
  PROVE  Owning(e)
BY DEF Executing, Owning, Holding

\* A block in a scratch field of a live frame is nowhere else.
LEMMA OwnBlock ==
  ASSUME IInv, NEW f \in LiveFrames, NEW t \in Sites, scratch[f][t] # None
  PROVE  /\ scratch[f][t] \in LiveBlocks
         /\ \A u \in Sites : scratch[f][t] \notin blockPool[u]
         /\ \A g \in LiveFrames, u \in Sites : scratch[g][u] = scratch[f][t] => g = f /\ u = t
BY DEF IInv, BlocksUnshared, LiveBlocks

-----------------------------------------------------------------------------
(* What each step leaves of the memory of the others *)

\* A frame that nobody else owns and a block that nobody else has borrowed may
\* change; the memory of the others does not.
LEMMA OthersUntouched ==
  ASSUME IInv, NEW e \in Execs, NEW f, NEW b,
         \A d \in Execs \ {e} :
           /\ phase'[d] = phase[d] /\ frame'[d] = frame[d] /\ (d \in kept' <=> d \in kept)
           /\ Owning(d) => frame[d] # f,
         \A g \in Frames \ {f} : slots'[g] = slots[g] /\ scratch'[g] = scratch[g],
         \A x \in Blocks \ {b} : content'[x] = content[x],
         \A d \in Execs \ {e} : Executing(d) => \A t \in Sites : scratch[frame[d]][t] # b
  PROVE  SameForOthers(e)
<1> SUFFICES ASSUME NEW d \in Execs \ {e} PROVE Untouched(d)
  BY UntouchedIsSame DEF SameForOthers
<1>1. Executing(d) \/ d \in kept =>
        /\ slots'[frame[d]] = slots[frame[d]]
        /\ scratch'[frame[d]] = scratch[frame[d]]
  BY OwnFrame, ExecutingOwns
<1>2. ASSUME Executing(d), NEW t \in Sites, scratch[frame[d]][t] # None
      PROVE  content'[scratch[frame[d]][t]] = content[scratch[frame[d]][t]]
  <2>1. scratch[frame[d]][t] \in Blocks
    BY <1>2, OwnFrame, ExecutingOwns DEF IInv, TypeOK
  <2>2. QED
    BY <1>2, <2>1
<1>3. QED
  BY <1>1, <1>2 DEF Untouched

\* The frame and the blocks of an execution that holds a frame are not those of
\* another one.
LEMMA NotTheirs ==
  ASSUME IInv, NEW e \in Execs, Holding(e), NEW d \in Execs \ {e}
  PROVE  /\ Owning(d) => frame[d] # frame[e]
         /\ Executing(d) => \A t, u \in Sites :
              scratch[frame[e]][u] # None => scratch[frame[d]][t] # scratch[frame[e]][u]
<1>1. Owning(e) /\ (Executing(d) => Owning(d))
  BY ExecutingOwns
<1>2. QED
  BY <1>1, OwnFrame, OwnBlock

LEMMA GetPooledFrameIsNothing ==
  ASSUME IInv, NEW e \in Execs, NEW f \in Frames, GetPooledFrame(e, f)
  PROVE  UNCHANGED Isolated!vars
<1>1. SameForOthers(e)
  <2>1. \A d \in Execs \ {e} : Untouched(d)
    BY DEF GetPooledFrame, Untouched, IInv, TypeOK
  <2>2. QED
    BY <2>1, UntouchedIsSame DEF SameForOthers
<1>2. SameFor(e)
  BY DEF GetPooledFrame, SameFor, PhaseOf, MemOf, LitOf, Executing, IInv, TypeOK, PhasesInOrder
<1>3. UNCHANGED <<AbstractPhase, AbstractMem, AbstractLit>>
  BY <1>1, <1>2, ViewsSame DEF SameForOthers
<1>4. QED
  BY <1>3 DEF GetPooledFrame, Isolated!vars

\* The two ways to a zeroed frame.
LEMMA StartIsStart ==
  ASSUME IInv, NEW e \in Execs,
         ClearFrame(e) \/ \E f \in Frames : GetNewFrame(e, f)
  PROVE  Isolated!Start(e)
<1>1. PICK f \in Frames : /\ frame'[e] = f
                          /\ slots' = [slots EXCEPT ![f] = ZeroSlots]
                          /\ scratch' = [scratch EXCEPT ![f] = NilScratch]
                          /\ \A d \in Execs \ {e} : Owning(d) => frame[d] # f
  <2>1. CASE ClearFrame(e)
    BY <2>1, OwnFrame, ExecutingOwns DEF ClearFrame, Holding
  <2>2. ASSUME NEW f \in Frames, GetNewFrame(e, f)
        PROVE  /\ frame'[e] = f
               /\ slots' = [slots EXCEPT ![f] = ZeroSlots]
               /\ scratch' = [scratch EXCEPT ![f] = NilScratch]
               /\ \A d \in Execs \ {e} : Owning(d) => frame[d] # f
    BY <2>2 DEF GetNewFrame, LiveFrames, IInv, TypeOK
  <2>3. QED
    BY <2>1, <2>2
<1>2. /\ phase[e] \in {"idle", "clear"} /\ phase' = [phase EXCEPT ![e] = "run"]
      /\ \A d \in Execs \ {e} : frame'[d] = frame[d]
      /\ UNCHANGED <<ip, content, kept, outcome, result>>
  BY DEF ClearFrame, GetNewFrame, IInv, TypeOK
<1>3. SameForOthers(e)
  <2>1. \A d \in Execs \ {e} :
          /\ phase'[d] = phase[d] /\ frame'[d] = frame[d] /\ (d \in kept' <=> d \in kept)
          /\ Owning(d) => frame[d] # f
    BY <1>1, <1>2 DEF IInv, TypeOK
  <2>2. \A g \in Frames \ {f} : slots'[g] = slots[g] /\ scratch'[g] = scratch[g]
    BY <1>1 DEF IInv, TypeOK
  <2>3. \A d \in Execs \ {e} : Executing(d) => Untouched(d)
    BY <1>2, <2>1, <2>2, OwnFrame, ExecutingOwns DEF Untouched
  <2>4. \A d \in Execs \ {e} : ~Executing(d) => Untouched(d)
    BY <1>2, <2>1, <2>2, OwnFrame, ExecutingOwns DEF Untouched
  <2>5. QED
    BY <2>3, <2>4, UntouchedIsSame DEF SameForOthers
<1>4. /\ PhaseOf(e) = "idle" /\ PhaseOf(e)' = "run" /\ MemOf(e)' = MemOf(e)
      /\ \A t \in Sites : LitOf(e, t)' = LitOf(e, t)
  BY <1>1, <1>2 DEF PhaseOf, MemOf, LitOf, Executing, NilScratch, IInv, TypeOK, PhasesInOrder
<1>5. AbstractPhase[e] = "idle" /\ AbstractPhase' = [AbstractPhase EXCEPT ![e] = "run"]
  BY <1>3, <1>4, ViewsAre, PhaseChanges
<1>6. UNCHANGED <<AbstractMem, AbstractLit>>
  BY <1>3, <1>4, ViewsAre, ViewsWillBe DEF SameForOthers, SameFor
<1>7. QED
  BY <1>2, <1>5, <1>6 DEF Isolated!Start

\* A step of an execution that changes no frame but its own, and no block but one
\* that is not another's, is a step of its own views.
LEMMA HolderLeavesOthers ==
  ASSUME IInv, NEW e \in Execs, Holding(e), NEW b,
         \A d \in Execs \ {e} : phase'[d] = phase[d] /\ (d \in kept' <=> d \in kept),
         frame' = frame,
         \A g \in Frames \ {frame[e]} : slots'[g] = slots[g] /\ scratch'[g] = scratch[g],
         \A x \in Blocks \ {b} : content'[x] = content[x],
         \/ b = None
         \/ b \notin LiveBlocks
         \/ \E u \in Sites : b = scratch[frame[e]][u] /\ b # None
  PROVE  SameForOthers(e)
<1>1. \A d \in Execs \ {e} : Owning(d) => frame[d] # frame[e]
  BY NotTheirs
<1>2. ASSUME NEW d \in Execs \ {e}, Executing(d), NEW t \in Sites, scratch[frame[d]][t] # None
      PROVE  scratch[frame[d]][t] # b
  <2>1. frame[d] \in LiveFrames
    BY <1>2, OwnFrame, ExecutingOwns
  <2>2. scratch[frame[d]][t] \in LiveBlocks
    BY <1>2, <2>1, OwnBlock
  <2>3. QED
    BY <1>2, <2>2, NotTheirs
<1>3. \A d \in Execs \ {e} : Untouched(d)
  <2> SUFFICES ASSUME NEW d \in Execs \ {e} PROVE Untouched(d)
    OBVIOUS
  <2>1. Executing(d) \/ d \in kept => frame[d] \in Frames \ {frame[e]}
    BY <1>1, OwnFrame, ExecutingOwns
  <2>2. ASSUME Executing(d), NEW t \in Sites, scratch[frame[d]][t] # None
        PROVE  content'[scratch[frame[d]][t]] = content[scratch[frame[d]][t]]
    <3>1. scratch[frame[d]][t] \in Blocks
      BY <2>1, <2>2 DEF IInv, TypeOK
    <3>2. QED
      BY <1>2, <2>2, <3>1
  <2>3. QED
    BY <2>1, <2>2 DEF Untouched
<1>4. QED
  BY <1>3, UntouchedIsSame DEF SameForOthers

LEMMA LoadIsLoad ==
  ASSUME IInv, NEW e \in Execs, Load(e)
  PROVE  Isolated!Load(e)
<1> DEFINE s == Prog[ip[e]].out
<1>1. /\ Running(e, "load") /\ Holding(e) /\ frame[e] \in Frames /\ Executing(e)
      /\ UNCHANGED <<phase, frame, scratch, content, kept, outcome, result>>
  BY HeldFrame DEF Load, Running, Holding, Executing
<1>2. PICK v \in {e, slots[frame[e]][s]} : slots' = [slots EXCEPT ![frame[e]][s] = v]
  BY DEF Load
<1>3. SameForOthers(e)
  <2>1. \A g \in Frames \ {frame[e]} : slots'[g] = slots[g] /\ scratch'[g] = scratch[g]
    BY <1>1, <1>2 DEF IInv, TypeOK
  <2>2. QED
    BY <1>1, <2>1, HolderLeavesOthers
<1>4. /\ MemOf(e) = slots[frame[e]] /\ MemOf(e)' = [slots[frame[e]] EXCEPT ![s] = v]
      /\ PhaseOf(e)' = PhaseOf(e) /\ PhaseOf(e) = "run"
      /\ \A t \in Sites : LitOf(e, t)' = LitOf(e, t)
  BY <1>1, <1>2 DEF MemOf, PhaseOf, LitOf, Executing, IInv, TypeOK, Running
<1>5. /\ AbstractMem[e] = slots[frame[e]] /\ AbstractPhase[e] = "run"
      /\ UNCHANGED <<AbstractPhase, AbstractLit>>
  BY <1>3, <1>4, ViewsAre, ViewsWillBe DEF SameForOthers, SameFor
<1>6. AbstractMem' = [AbstractMem EXCEPT ![e][s] = v]
  BY <1>3, <1>4, <1>5, MemChanges
<1>7. v \in {e, AbstractMem[e][s]}
  BY <1>2, <1>5
<1>8. QED
  BY <1>1, <1>5, <1>6, <1>7 DEF Load, Running, Advance, Isolated!Load, Isolated!Running, Isolated!Advance

\* Whichever way it came, the block is zero, as the field it goes to reads.
LEMMA TakeIsTake ==
  ASSUME IInv, NEW e \in Execs, NEW b \in Blocks, TakePooled(e, b) \/ TakeNew(e, b)
  PROVE  Isolated!Take(e)
<1> DEFINE t == Prog[ip[e]].site
<1>1. /\ Running(e, "take") /\ Holding(e) /\ Executing(e)
      /\ frame[e] \in Frames /\ frame[e] \in LiveFrames
      /\ UNCHANGED <<phase, frame, slots, kept, outcome, result>>
      /\ Advance(e) /\ scratch' = [scratch EXCEPT ![frame[e]][t] = b]
  BY HeldFrame DEF TakePooled, TakeNew, Running, Holding, Executing
<1>2. t \in Sites /\ scratch[frame[e]][t] = None
  <2>1. t \in Sites /\ t \notin TakenBefore(ip[e])
    BY <1>1, TakenOnce DEF Running
  <2>2. QED
    BY <1>1, <2>1 DEF IInv, ScratchFollowsProgram
<1>3. /\ content'[b] = Zero
      /\ \A x \in Blocks \ {b} : content'[x] = content[x]
      /\ \A g \in LiveFrames, u \in Sites : scratch[g][u] # b
  <2>1. CASE TakePooled(e, b)
    <3>1. b \in blockPool[t] /\ content' = content
      BY <2>1 DEF TakePooled
    <3>2. content[b] = Zero
      BY <1>2, <3>1 DEF IInv, PooledBlocksCleared
    <3>3. \A g \in LiveFrames, u \in Sites : scratch[g][u] # b
      BY <1>2, <3>1, OwnBlock, ArgPoolsAssumption
    <3>4. QED
      BY <3>1, <3>2, <3>3
  <2>2. CASE TakeNew(e, b)
    BY <2>2 DEF TakeNew, LiveBlocks, IInv, TypeOK
  <2>3. QED
    BY <2>1, <2>2
<1>4. SameForOthers(e)
  <2>1. \A g \in Frames \ {frame[e]} : slots'[g] = slots[g] /\ scratch'[g] = scratch[g]
    BY <1>1 DEF IInv, TypeOK
  <2>2. \A d \in Execs \ {e} : Executing(d) => \A u \in Sites : scratch[frame[d]][u] # b
    BY <1>3, OwnFrame, ExecutingOwns
  <2>3. \A d \in Execs \ {e} : Owning(d) => frame[d] # frame[e]
    BY <1>1, NotTheirs
  <2>4. QED
    BY <1>1, <1>3, <2>1, <2>2, <2>3, OthersUntouched
<1>5. SameFor(e)
  <2>1. ASSUME NEW u \in Sites PROVE LitOf(e, u)' = LitOf(e, u)
    <3>1. CASE u = t
      <4>1. scratch'[frame[e]][t] = b
        BY <1>1, <1>2 DEF IInv, TypeOK
      <4>2. QED
        BY <1>1, <1>2, <1>3, <3>1, <4>1 DEF LitOf, Executing
    <3>2. CASE u # t
      <4>1. scratch'[frame[e]][u] = scratch[frame[e]][u]
        BY <1>1, <3>2 DEF IInv, TypeOK
      <4>2. scratch[frame[e]][u] # None => scratch[frame[e]][u] \in Blocks \ {b}
        BY <1>1, <1>3 DEF IInv, TypeOK
      <4>3. QED
        BY <1>1, <1>3, <4>1, <4>2 DEF LitOf, Executing
    <3>3. QED
      BY <3>1, <3>2
  <2>2. PhaseOf(e)' = PhaseOf(e) /\ MemOf(e)' = MemOf(e)
    BY <1>1 DEF PhaseOf, MemOf, Executing
  <2>3. QED
    BY <2>1, <2>2 DEF SameFor
<1>6. UNCHANGED <<AbstractPhase, AbstractMem, AbstractLit>>
  BY <1>4, <1>5, ViewsSame DEF SameForOthers
<1>7. AbstractPhase[e] = "run"
  BY <1>1, ViewsAre DEF PhaseOf, Running, Executing
<1>8. QED
  BY <1>1, <1>6, <1>7 DEF Running, Advance, Isolated!Take, Isolated!Running, Isolated!Advance

\* What an execution that is running sees of its own memory.
LEMMA OwnViews ==
  ASSUME IInv, NEW e \in Execs, Executing(e)
  PROVE  /\ AbstractPhase[e] = phase[e] /\ AbstractMem[e] = slots[frame[e]]
         /\ AbstractLit[e] = [t \in Sites |-> LitOf(e, t)]
BY ViewsAre DEF PhaseOf, MemOf, Executing

LEMMA FillIsFill ==
  ASSUME IInv, NEW e \in Execs, Fill(e)
  PROVE  Isolated!Fill(e)
<1> DEFINE o == Prog[ip[e]]
           b == scratch[frame[e]][o.site]
           v == IF o.src \in Slots THEN slots[frame[e]][o.src] ELSE e
<1>1. /\ Running(e, "fill") /\ Holding(e) /\ Executing(e)
      /\ UNCHANGED <<phase, frame, slots, scratch, kept, outcome, result>>
      /\ Advance(e) /\ content' = [content EXCEPT ![b] = v]
  BY DEF Fill, Running, Holding, Executing
<1>2. frame[e] \in Frames /\ frame[e] \in LiveFrames /\ o.site \in Sites /\ b \in Blocks
  BY <1>1, FillTarget
<1>3. b # None
  BY <1>2, ArgPoolsAssumption
<1>4. SameForOthers(e)
  <2>1. \A x \in Blocks \ {b} : content'[x] = content[x]
    BY <1>1 DEF IInv, TypeOK
  <2>2. \E u \in Sites : b = scratch[frame[e]][u] /\ b # None
    BY <1>2, <1>3
  <2>3. QED
    BY <1>1, <2>1, <2>2, HolderLeavesOthers
<1>5. ASSUME NEW u \in Sites
      PROVE  LitOf(e, u)' = IF u = o.site THEN v ELSE LitOf(e, u)
  <2>1. CASE u = o.site
    BY <1>1, <1>2, <1>3, <2>1 DEF LitOf, Executing, IInv, TypeOK
  <2>2. CASE u # o.site
    <3>1. scratch[frame[e]][u] # None => scratch[frame[e]][u] \in Blocks \ {b}
      BY <1>2, <1>3, <2>2, OwnBlock DEF IInv, TypeOK
    <3>2. QED
      BY <1>1, <2>2, <3>1 DEF LitOf, Executing, IInv, TypeOK
  <2>3. QED
    BY <2>1, <2>2
<1>6. [u \in Sites |-> LitOf(e, u)'] = [[u \in Sites |-> LitOf(e, u)] EXCEPT ![o.site] = v]
  BY <1>5
<1>7. AbstractLit' = [AbstractLit EXCEPT ![e][o.site] = v]
  <2>1. AbstractLit' = [AbstractLit EXCEPT ![e] = [u \in Sites |-> LitOf(e, u)']]
    BY <1>4, LitChanges
  <2>2. AbstractLit[e] = [u \in Sites |-> LitOf(e, u)]
    BY <1>1, OwnViews
  <2> HIDE DEF o, v
  <2>3. QED
    BY <1>6, <2>1, <2>2
<1>8. UNCHANGED <<AbstractPhase, AbstractMem>>
  <2>1. PhaseOf(e)' = PhaseOf(e) /\ MemOf(e)' = MemOf(e)
    BY <1>1 DEF PhaseOf, MemOf, Executing
  <2>2. QED
    BY <1>4, <2>1, ViewsAre, ViewsWillBe DEF SameForOthers, SameFor
<1>9. QED
  BY <1>1, <1>7, <1>8, OwnViews DEF Running, Advance, Isolated!Fill, Isolated!Running, Isolated!Advance

LEMMA CallIsCall ==
  ASSUME IInv, NEW e \in Execs, Call(e)
  PROVE  Isolated!Call(e)
<1>1. /\ Running(e, "call") /\ Holding(e) /\ Executing(e)
      /\ phase' = [phase EXCEPT ![e] = "call"]
      /\ kept' \in IF Prog[ip[e]].alias THEN {kept, kept \cup {e}} ELSE {kept}
      /\ UNCHANGED <<frame, slots, scratch, content, ip, outcome, result>>
  BY DEF Call, Running, Holding, Executing
<1>2. SameForOthers(e)
  <2>1. \A d \in Execs \ {e} : Untouched(d)
    BY <1>1 DEF Untouched, IInv, TypeOK
  <2>2. QED
    BY <2>1, UntouchedIsSame DEF SameForOthers
<1>3. /\ PhaseOf(e)' = "call" /\ MemOf(e)' = MemOf(e)
      /\ \A t \in Sites : LitOf(e, t)' = LitOf(e, t)
  BY <1>1 DEF PhaseOf, MemOf, LitOf, Executing, IInv, TypeOK
<1>4. AbstractPhase' = [AbstractPhase EXCEPT ![e] = "call"]
  BY <1>2, <1>3, PhaseChanges
<1>5. UNCHANGED <<AbstractMem, AbstractLit>>
  BY <1>2, <1>3, ViewsAre, ViewsWillBe DEF SameForOthers, SameFor
<1>6. QED
  BY <1>1, <1>4, <1>5, OwnViews DEF Running, Isolated!Call, Isolated!Running

LEMMA ReturnIsReturn ==
  ASSUME IInv, NEW e \in Execs, Return(e)
  PROVE  Isolated!Return(e)
<1> DEFINE o == Prog[ip[e]]
<1>1. /\ phase[e] = "call" /\ Holding(e) /\ Executing(e)
      /\ phase' = [phase EXCEPT ![e] = "run"] /\ Advance(e)
      /\ UNCHANGED <<frame, scratch, content, kept, outcome, result>>
  BY DEF Return, Holding, Executing
<1>2. frame[e] \in Frames /\ AbstractMem[e] = slots[frame[e]] /\ AbstractPhase[e] = "call"
  BY <1>1, HeldFrame, OwnViews
<1>3. Isolated!Results(e) = Results(e)
  <2>1. o.site \in Sites => scratch[frame[e]][o.site] # None
    <3>1. ip[e] \in DOMAIN Prog /\ o.kind = "call"
      BY <1>1 DEF IInv, PhasesInOrder
    <3>2. o.site \in Sites => o.site \in TakenBefore(ip[e])
      BY <3>1, TakenOnce, RunProgramAssumption
    <3>3. QED
      BY <1>1, <3>2 DEF IInv, ScratchFollowsProgram
  <2>2. o.site \in Sites => AbstractLit[e][o.site] = content[scratch[frame[e]][o.site]]
    <3>1. ASSUME NEW t \in Sites PROVE AbstractLit[e][t] = LitOf(e, t)
      <4>1. AbstractLit[e] = [u \in Sites |-> LitOf(e, u)]
        BY <1>1, OwnViews
      <4>2. QED
        BY <4>1
    <3>2. QED
      BY <1>1, <2>1, <3>1 DEF LitOf
  <2>3. QED
    BY <1>2, <2>2 DEF Results, Isolated!Results
<1>4. \A g \in Frames \ {frame[e]} : slots'[g] = slots[g] /\ scratch'[g] = scratch[g]
  BY <1>1 DEF Return, IInv, TypeOK
<1>5. SameForOthers(e)
  <2>1. \A d \in Execs \ {e} : phase'[d] = phase[d] /\ (d \in kept' <=> d \in kept)
    BY <1>1 DEF IInv, TypeOK
  <2>2. QED
    BY <1>1, <1>4, <2>1, HolderLeavesOthers
<1>6. /\ PhaseOf(e)' = "run" /\ MemOf(e)' = slots'[frame[e]]
      /\ \A t \in Sites : LitOf(e, t)' = LitOf(e, t)
  BY <1>1 DEF PhaseOf, MemOf, LitOf, Executing, IInv, TypeOK
<1>7. AbstractPhase' = [AbstractPhase EXCEPT ![e] = "run"]
  BY <1>5, <1>6, PhaseChanges
<1>8. AbstractMem' = [AbstractMem EXCEPT ![e] = slots'[frame[e]]]
  BY <1>5, <1>6, MemChanges
<1>9. UNCHANGED AbstractLit
  BY <1>5, <1>6, ViewsAre, ViewsWillBe DEF SameForOthers, SameFor
<1>10. IF o.out \in Slots
         THEN \E v \in Isolated!Results(e) : AbstractMem' = [AbstractMem EXCEPT ![e][o.out] = v]
         ELSE AbstractMem' = AbstractMem
  <2>1. CASE o.out \in Slots
    <3>1. PICK v \in Results(e) : slots' = [slots EXCEPT ![frame[e]][o.out] = v]
      BY <2>1 DEF Return
    <3>2. slots'[frame[e]] = [AbstractMem[e] EXCEPT ![o.out] = v]
      BY <1>2, <3>1 DEF IInv, TypeOK
    <3>3. QED
      BY <1>3, <1>8, <2>1, <3>2
  <2>2. CASE o.out \notin Slots
    <3>1. slots' = slots
      BY <2>2 DEF Return
    <3>2. AbstractMem' = AbstractMem
      BY <1>2, <1>8, <3>1, ViewsAre
    <3>3. QED
      BY <2>2, <3>2
  <2>3. QED
    BY <2>1, <2>2
<1>11. QED
  BY <1>1, <1>2, <1>7, <1>9, <1>10 DEF Advance, Isolated!Return, Isolated!Advance

\* An execution that stops, with its frame still in its hands or lost, has no
\* memory left but what a binding kept.
LEMMA StopIsEnd ==
  ASSUME IInv, NEW e \in Execs, NEW how, Executing(e),
         phase' = [phase EXCEPT ![e] = "finish"] \/ phase' = [phase EXCEPT ![e] = "done"],
         outcome' = [outcome EXCEPT ![e] = how],
         UNCHANGED <<frame, slots, scratch, content, kept>>
  PROVE  Isolated!End(e, how)
<1>1. SameForOthers(e)
  <2>1. \A d \in Execs \ {e} : Untouched(d)
    BY DEF Untouched, IInv, TypeOK
  <2>2. QED
    BY <2>1, UntouchedIsSame DEF SameForOthers
<1>2. /\ PhaseOf(e)' = "ended" /\ MemOf(e)' = (IF e \in kept THEN MemOf(e) ELSE ZeroSlots)
      /\ \A t \in Sites : LitOf(e, t)' = Zero
  BY DEF PhaseOf, MemOf, LitOf, Executing, IInv, TypeOK
<1>3. AbstractPhase' = [AbstractPhase EXCEPT ![e] = "ended"]
  BY <1>1, <1>2, PhaseChanges
<1>4. AbstractLit' = [AbstractLit EXCEPT ![e] = ZeroSites]
  <2>1. [t \in Sites |-> LitOf(e, t)'] = ZeroSites
    BY <1>2 DEF ZeroSites
  <2>2. QED
    BY <1>1, <2>1, LitChanges
<1>5. AbstractMem' = IF e \in kept THEN AbstractMem ELSE [AbstractMem EXCEPT ![e] = ZeroSlots]
  <2>1. CASE e \in kept
    BY <1>1, <1>2, <2>1, ViewsAre, ViewsWillBe DEF SameForOthers, SameFor
  <2>2. CASE e \notin kept
    BY <1>1, <1>2, <2>2, MemChanges
  <2>3. QED
    BY <2>1, <2>2
<1>6. QED
  BY <1>3, <1>4, <1>5 DEF Isolated!End, ZeroSlots, ZeroSites, Isolated!ZeroSlots, Isolated!ZeroSites

LEMMA FailIsFail ==
  ASSUME IInv, NEW e \in Execs, Fail(e)
  PROVE  Isolated!Fail(e)
<1>1. Executing(e)
  BY DEF Fail, Running, Executing
<1>2. Isolated!End(e, "error")
  BY <1>1, StopIsEnd DEF Fail, Leave, memVars
<1>3. QED
  BY <1>1, <1>2, OwnViews DEF Fail, Leave, memVars, Running, Isolated!Fail, Isolated!Running

LEMMA PanicIsPanic ==
  ASSUME IInv, NEW e \in Execs, Panic(e)
  PROVE  Isolated!Panic(e)
<1>1. Executing(e)
  BY DEF Panic, Executing
<1>2. Isolated!End(e, "panic")
  BY <1>1, StopIsEnd DEF Panic, memVars
<1>3. QED
  BY <1>1, <1>2, OwnViews DEF Panic, memVars, Isolated!Panic

LEMMA FinishIsFinish ==
  ASSUME IInv, NEW e \in Execs, Finish(e)
  PROVE  Isolated!Finish(e)
<1>1. Executing(e)
  BY DEF Finish, Executing
<1>2. Isolated!End(e, "ok")
  BY <1>1, StopIsEnd DEF Finish, Leave, memVars
<1>3. QED
  BY <1>1, <1>2, OwnViews DEF Finish, Leave, memVars, Isolated!Finish

\* Giving the memory back shows nothing to anyone: the blocks and the frame were
\* this execution's alone.
LEMMA ReleaseIsNothing ==
  ASSUME IInv, NEW e \in Execs,
         \/ \E t \in Sites : ReleaseSkip(e, t) \/ ReleaseClear(e, t)
         \/ ReleasePut(e) \/ PutFrame(e)
  PROVE  UNCHANGED Isolated!vars
<1>1. /\ phase[e] = "finish" /\ phase'[e] \in {"finish", "done"} /\ Holding(e)
      /\ \A d \in Execs \ {e} : phase'[d] = phase[d]
      /\ UNCHANGED <<ip, frame, slots, kept, outcome, result>>
  BY DEF ReleaseSkip, ReleaseClear, ReleasePut, PutFrame, memVars, IInv, TypeOK, Holding
<1>2. \A g \in Frames \ {frame[e]} : scratch'[g] = scratch[g]
  BY DEF ReleaseSkip, ReleaseClear, ReleasePut, PutFrame, memVars, IInv, TypeOK
<1>3. PICK b : /\ \A x \in Blocks \ {b} : content'[x] = content[x]
               /\ b = None \/ \E u \in Sites : b = scratch[frame[e]][u] /\ b # None
  <2>1. ASSUME NEW t \in Sites, ReleaseClear(e, t)
        PROVE  /\ \A x \in Blocks \ {scratch[frame[e]][t]} : content'[x] = content[x]
               /\ scratch[frame[e]][t] # None
    BY <2>1 DEF ReleaseClear, IInv, TypeOK
  <2>2. CASE UNCHANGED content
    BY <2>2
  <2>3. QED
    BY <2>1, <2>2 DEF ReleaseSkip, ReleasePut, PutFrame, memVars
<1>4. SameForOthers(e)
  BY <1>1, <1>2, <1>3, HolderLeavesOthers
<1>5. SameFor(e)
  BY <1>1 DEF SameFor, PhaseOf, MemOf, LitOf, Executing
<1>6. UNCHANGED <<AbstractPhase, AbstractMem, AbstractLit>>
  BY <1>4, <1>5, ViewsSame DEF SameForOthers
<1>7. QED
  BY <1>1, <1>6 DEF Isolated!vars

LEMMA PoolLossIsNothing ==
  ASSUME IInv,
         \/ \E f \in framePool : PoolLosesFrame(f)
         \/ \E t \in Sites : \E b \in blockPool[t] : PoolLosesBlock(t, b)
         \/ UNCHANGED vars
  PROVE  UNCHANGED Isolated!vars
<1>1. UNCHANGED <<phase, ip, frame, slots, scratch, content, kept, outcome, result>>
  BY DEF PoolLosesFrame, PoolLosesBlock, runVars, vars
<1>2. \A d \in Execs : SameFor(d)
  BY <1>1, UntouchedIsSame DEF Untouched
<1>3. QED
  BY <1>1, <1>2, ViewsSame DEF Isolated!vars

LEMMA KeptWriteIsKeptWrite ==
  ASSUME IInv, NEW e \in Execs, NEW s \in Slots, KeptWrite(e, s)
  PROVE  Isolated!KeptWrite(e, s)
<1>1. /\ e \in kept /\ Owning(e) /\ slots' = [slots EXCEPT ![frame[e]][s] = e]
      /\ UNCHANGED <<phase, ip, frame, scratch, content, kept, outcome, result>>
  BY DEF KeptWrite, Owning, runVars
<1>2. frame[e] \in Frames /\ \A d \in Execs \ {e} : Owning(d) => frame[d] # frame[e]
  BY <1>1, OwnFrame
<1>3. SameForOthers(e)
  <2>1. \A d \in Execs \ {e} : Untouched(d)
    BY <1>1, <1>2, OwnFrame, ExecutingOwns DEF Untouched, IInv, TypeOK
  <2>2. QED
    BY <2>1, UntouchedIsSame DEF SameForOthers
<1>4. /\ MemOf(e) = slots[frame[e]] /\ MemOf(e)' = [slots[frame[e]] EXCEPT ![s] = e]
      /\ PhaseOf(e)' = PhaseOf(e) /\ \A t \in Sites : LitOf(e, t)' = LitOf(e, t)
  BY <1>1, <1>2 DEF MemOf, PhaseOf, LitOf, Executing, IInv, TypeOK
<1>5. UNCHANGED <<AbstractPhase, AbstractLit>>
  BY <1>3, <1>4, ViewsAre, ViewsWillBe DEF SameForOthers, SameFor
<1>6. AbstractMem' = [AbstractMem EXCEPT ![e][s] = e]
  BY <1>3, <1>4, MemChanges, ViewsAre
<1>7. QED
  BY <1>1, <1>5, <1>6 DEF Isolated!KeptWrite

\* Frames and blocks that go round between concurrent executions, on the error
\* path, after a panic and while a binding keeps a pointer, behave step for step as
\* if each execution had fresh memory (stepjit.go:120-126, stepjit_pool.go:10-27).
THEOREM PoolsIsolateRuns == Spec => RunsAreIsolated
<1>1. Init => Isolated!Init
  <2> SUFFICES ASSUME Init PROVE Isolated!Init
    OBVIOUS
  <2>1. \A d \in Execs : /\ PhaseOf(d) = "idle" /\ MemOf(d) = ZeroSlots
                         /\ \A t \in Sites : LitOf(d, t) = Zero
    BY DEF Init, PhaseOf, MemOf, LitOf, Executing
  <2>2. /\ AbstractPhase = [d \in Execs |-> "idle"]
        /\ AbstractMem = [d \in Execs |-> ZeroSlots]
        /\ AbstractLit = [d \in Execs |-> ZeroSites]
    BY <2>1, ViewsAre DEF ZeroSites
  <2>3. QED
    BY <2>2 DEF Init, Isolated!Init, ZeroSlots, ZeroSites, Isolated!ZeroSlots, Isolated!ZeroSites
<1>2. IInv /\ [Next]_vars => [Isolated!Next]_Isolated!vars
  <2> SUFFICES ASSUME IInv, [Next]_vars PROVE Isolated!Next \/ UNCHANGED Isolated!vars
    OBVIOUS
  <2>1. ASSUME NEW e \in Execs, Step(e) PROVE Isolated!Next \/ UNCHANGED Isolated!vars
    <3>1. ASSUME NEW f \in Frames, GetPooledFrame(e, f) PROVE UNCHANGED Isolated!vars
      BY <3>1, GetPooledFrameIsNothing
    <3>2. CASE ClearFrame(e) \/ \E f \in Frames : GetNewFrame(e, f)
      BY <3>2, StartIsStart DEF Isolated!Next
    <3>3. CASE Load(e)
      BY <3>3, LoadIsLoad DEF Isolated!Next
    <3>4. CASE \E b \in Blocks : TakePooled(e, b) \/ TakeNew(e, b)
      BY <3>4, TakeIsTake DEF Isolated!Next
    <3>5. CASE Fill(e)
      BY <3>5, FillIsFill DEF Isolated!Next
    <3>6. CASE Call(e)
      BY <3>6, CallIsCall DEF Isolated!Next
    <3>7. CASE Return(e)
      BY <3>7, ReturnIsReturn DEF Isolated!Next
    <3>8. CASE Fail(e) \/ Panic(e) \/ Finish(e)
      BY <3>8, FailIsFail, PanicIsPanic, FinishIsFinish DEF Isolated!Next
    <3>9. CASE \/ \E t \in Sites : ReleaseSkip(e, t) \/ ReleaseClear(e, t)
               \/ ReleasePut(e) \/ PutFrame(e)
      BY <3>9, ReleaseIsNothing
    <3>10. QED
      BY <2>1, <3>1, <3>2, <3>3, <3>4, <3>5, <3>6, <3>7, <3>8, <3>9 DEF Step
  <2>2. ASSUME NEW e \in Execs, NEW s \in Slots, KeptWrite(e, s) PROVE Isolated!Next
    BY <2>2, KeptWriteIsKeptWrite DEF Isolated!Next
  <2>3. QED
    BY <2>1, <2>2, PoolLossIsNothing DEF Next
<1>3. QED
  BY <1>1, <1>2, Invariance, PTL DEF Spec, RunsAreIsolated, Isolated!Spec
=============================================================================
