------------------------------ MODULE ArgPools ------------------------------
(***************************************************************************)
(* jitProgram.run (stepjit.go) and the argument pools (stepjit_pool.go).   *)
(*                                                                         *)
(* Executions of one compiled program run concurrently, each over a frame  *)
(* it takes from the program's sync.Pool or allocates.  A call borrows     *)
(* blocks from the pool of its sites and leaves each one in a scratch      *)
(* field of the frame; finish clears and repools them, then the frame.  A  *)
(* panic unwinds past finish and drops both.                               *)
(*                                                                         *)
(* A frame or block is an identity; unsafeNew returns one that nothing     *)
(* reachable refers to.  sync.Pool.Get may come back empty-handed at any   *)
(* time, and a pool may lose an item to the collector at any time.  The    *)
(* binding contract holds: a callee keeps no borrowed block.  It may keep  *)
(* a pointer into the frame, which is what frameEscapes is about.          *)
(***************************************************************************)
EXTENDS RunProgram

CONSTANTS
  Frames,   \* identities of frames in memory
  Blocks    \* identities of argument blocks in memory

ASSUME ArgPoolsAssumption == None \notin Frames \cup Blocks

VARIABLES
  phase,      \* where each execution is in run
  ip,         \* its next statement operation
  frame,      \* its frame, or None
  todo,       \* sites finish has still to release
  clearing,   \* the site release is at: cleared, not yet in the pool
  slots,      \* [Frames -> [Slots -> Val]], the words of each frame
  scratch,    \* [Frames -> [Sites -> Blocks or None]], its scratch fields
  content,    \* [Blocks -> Val], what each block holds
  framePool,  \* frames in jitProgram.pool
  blockPool,  \* [Sites -> SUBSET Blocks], sitePool.pool of each site
  kept,       \* executions whose frame a binding kept a pointer into
  outcome,    \* how each execution ended
  result      \* what run boxed and returned

runVars == <<phase, ip, frame, todo, clearing, outcome, result>>
memVars == <<slots, scratch, content, framePool, blockPool, kept>>
vars == <<phase, ip, frame, todo, clearing, slots, scratch, content,
          framePool, blockPool, kept, outcome, result>>

NilScratch == [t \in Sites |-> None]

\* Slip: pool the frames whether or not a pointer leaves the run.
PooledAlways == TRUE

\* The compiler gives the program a frame pool only when no frame pointer
\* leaves a run.
Pooled == ~FrameEscapes

\* Executions that hold a frame, and those that keep one alive.
Holding(e) == phase[e] \in {"clear", "run", "call", "finish"}
Owning(e) == Holding(e) \/ e \in kept

\* Memory something can still reach: unsafeNew returns none of it.
LiveFrames == framePool \cup {frame[e] : e \in {x \in Execs : Owning(x)}}
LiveBlocks == (UNION {blockPool[t] : t \in Sites})
                \cup {scratch[f][t] : f \in LiveFrames, t \in Sites}

TypeOK ==
  /\ phase \in [Execs -> {"idle", "clear", "run", "call", "finish", "done"}]
  /\ ip \in [Execs -> 1..(Len(Prog) + 1)]
  /\ frame \in [Execs -> Frames \cup {None}]
  /\ todo \in [Execs -> SUBSET Sites]
  /\ clearing \in [Execs -> Sites \cup {None}]
  /\ slots \in [Frames -> [Slots -> Val]]
  /\ scratch \in [Frames -> [Sites -> Blocks \cup {None}]]
  /\ content \in [Blocks -> Val]
  /\ framePool \subseteq Frames
  /\ blockPool \in [Sites -> SUBSET Blocks]
  /\ kept \subseteq Execs
  /\ outcome \in [Execs -> {"none", "ok", "error", "panic"}]
  /\ result \in [Execs -> Val]

Init ==
  /\ phase = [e \in Execs |-> "idle"]
  /\ ip = [e \in Execs |-> 1]
  /\ frame = [e \in Execs |-> None]
  /\ todo = [e \in Execs |-> {}]
  /\ clearing = [e \in Execs |-> None]
  /\ slots = [f \in Frames |-> ZeroSlots]
  /\ scratch = [f \in Frames |-> NilScratch]
  /\ content = [b \in Blocks |-> Zero]
  /\ framePool = {}
  /\ blockPool = [t \in Sites |-> {}]
  /\ kept = {}
  /\ outcome = [e \in Execs |-> "none"]
  /\ result = [e \in Execs |-> Zero]

-----------------------------------------------------------------------------
(* getFrame *)

\* A frame comes out of the pool with the previous execution's words in it.
GetPooledFrame(e, f) ==
  /\ phase[e] = "idle"
  /\ f \in framePool
  /\ framePool' = framePool \ {f}
  /\ frame' = [frame EXCEPT ![e] = f]
  /\ phase' = [phase EXCEPT ![e] = "clear"]
  /\ UNCHANGED <<ip, todo, clearing, slots, scratch, content, blockPool, kept, outcome, result>>

\* Slip: reuse the frame as it comes.
ClearFrameSkipped(e) ==
  /\ phase[e] = "clear"
  /\ phase' = [phase EXCEPT ![e] = "run"]
  /\ UNCHANGED <<ip, frame, todo, clearing, memVars, outcome, result>>

\* typedmemclr(p.frameRT, f)
ClearFrame(e) ==
  /\ phase[e] = "clear"
  /\ slots' = [slots EXCEPT ![frame[e]] = ZeroSlots]
  /\ scratch' = [scratch EXCEPT ![frame[e]] = NilScratch]
  /\ phase' = [phase EXCEPT ![e] = "run"]
  /\ UNCHANGED <<ip, frame, todo, clearing, content, framePool, blockPool, kept, outcome, result>>

\* unsafeNew(p.frameRT): zeroed memory.
GetNewFrame(e, f) ==
  /\ phase[e] = "idle"
  /\ f \in Frames \ LiveFrames
  /\ frame' = [frame EXCEPT ![e] = f]
  /\ slots' = [slots EXCEPT ![f] = ZeroSlots]
  /\ scratch' = [scratch EXCEPT ![f] = NilScratch]
  /\ phase' = [phase EXCEPT ![e] = "run"]
  /\ UNCHANGED <<ip, todo, clearing, content, framePool, blockPool, kept, outcome, result>>

-----------------------------------------------------------------------------
(* The statements *)

Running(e, kind) ==
  /\ phase[e] = "run"
  /\ ip[e] \in DOMAIN Prog
  /\ Prog[ip[e]].kind = kind

Advance(e) == ip' = [ip EXCEPT ![e] = @ + 1]

\* A hoisted stack name that the stack map lacks leaves its field alone.
Load(e) ==
  /\ Running(e, "load")
  /\ LET s == Prog[ip[e]].out IN
     \E v \in {e, slots[frame[e]][s]} : slots' = [slots EXCEPT ![frame[e]][s] = v]
  /\ Advance(e)
  /\ UNCHANGED <<phase, frame, todo, clearing, scratch, content, framePool, blockPool,
                 kept, outcome, result>>

\* site.take() and the store of the block in the scratch field.
TakePooled(e, b) ==
  /\ Running(e, "take")
  /\ LET t == Prog[ip[e]].site IN
     /\ b \in blockPool[t]
     /\ blockPool' = [blockPool EXCEPT ![t] = @ \ {b}]
     /\ scratch' = [scratch EXCEPT ![frame[e]][t] = b]
  /\ Advance(e)
  /\ UNCHANGED <<phase, frame, todo, clearing, slots, content, framePool, kept, outcome, result>>

TakeNew(e, b) ==
  /\ Running(e, "take")
  /\ b \in Blocks \ LiveBlocks
  /\ content' = [content EXCEPT ![b] = Zero]
  /\ scratch' = [scratch EXCEPT ![frame[e]][Prog[ip[e]].site] = b]
  /\ Advance(e)
  /\ UNCHANGED <<phase, frame, todo, clearing, slots, framePool, blockPool, kept, outcome, result>>

Fill(e) ==
  /\ Running(e, "fill")
  /\ LET o == Prog[ip[e]] IN
     content' = [content EXCEPT ![scratch[frame[e]][o.site]] =
                   IF o.src \in Slots THEN slots[frame[e]][o.src] ELSE e]
  /\ Advance(e)
  /\ UNCHANGED <<phase, frame, todo, clearing, slots, scratch, framePool, blockPool,
                 kept, outcome, result>>

Call(e) ==
  /\ Running(e, "call")
  /\ phase' = [phase EXCEPT ![e] = "call"]
  /\ kept' \in IF Prog[ip[e]].alias THEN {kept, kept \cup {e}} ELSE {kept}
  /\ UNCHANGED <<ip, frame, todo, clearing, slots, scratch, content, framePool, blockPool,
                 outcome, result>>

\* The binding reads what it was passed, at any point of its run, and returns.
Results(e) ==
  LET o == Prog[ip[e]] IN
  {e} \cup (IF o.src \in Slots THEN {slots[frame[e]][o.src]} ELSE {})
      \cup (IF o.site \in Sites THEN {content[scratch[frame[e]][o.site]]} ELSE {})

Return(e) ==
  /\ phase[e] = "call"
  /\ phase' = [phase EXCEPT ![e] = "run"]
  /\ LET o == Prog[ip[e]] IN
     IF o.out \in Slots
       THEN \E v \in Results(e) : slots' = [slots EXCEPT ![frame[e]][o.out] = v]
       ELSE slots' = slots
  /\ Advance(e)
  /\ UNCHANGED <<frame, todo, clearing, scratch, content, framePool, blockPool,
                 kept, outcome, result>>

\* A pointer into the frame that a binding kept is written at any later time.
KeptWrite(e, s) ==
  /\ e \in kept
  /\ slots' = [slots EXCEPT ![frame[e]][s] = e]
  /\ UNCHANGED <<runVars, scratch, content, framePool, blockPool, kept>>

-----------------------------------------------------------------------------
(* finish and putFrame *)

\* Both the error path and the normal one go through finish.
Leave(e, how) ==
  /\ phase' = [phase EXCEPT ![e] = "finish"]
  /\ todo' = [todo EXCEPT ![e] = Sites]
  /\ outcome' = [outcome EXCEPT ![e] = how]
  /\ UNCHANGED <<ip, frame, clearing, memVars>>

\* Slip: the error path puts the frame back before it releases the sites.
FailPutsFrameFirst(e) ==
  /\ phase[e] = "call"
  /\ phase' = [phase EXCEPT ![e] = "finish"]
  /\ todo' = [todo EXCEPT ![e] = Sites]
  /\ outcome' = [outcome EXCEPT ![e] = "error"]
  /\ framePool' = framePool \cup {frame[e]}
  /\ UNCHANGED <<ip, frame, clearing, slots, scratch, content, blockPool, kept, result>>

\* Slip: the error path puts the frame back and never releases the sites.
FailSkipsRelease(e) ==
  /\ phase[e] = "call"
  /\ phase' = [phase EXCEPT ![e] = "finish"]
  /\ todo' = [todo EXCEPT ![e] = {}]
  /\ outcome' = [outcome EXCEPT ![e] = "error"]
  /\ UNCHANGED <<ip, frame, clearing, memVars, result>>

Fail(e) ==
  /\ phase[e] = "call" \/ Running(e, "fill") \/ Running(e, "call")
  /\ Leave(e, "error")
  /\ UNCHANGED result

\* The result is boxed by copy before finish gives the frame away.
Finish(e) ==
  /\ phase[e] = "run"
  /\ ip[e] = Len(Prog) + 1
  /\ result' = IF RetSlot \in Slots THEN [result EXCEPT ![e] = slots[frame[e]][RetSlot]]
                                    ELSE result
  /\ Leave(e, "ok")

\* A panic unwinds to guard (runtime.go) without finish: nothing is repooled.
Panic(e) ==
  /\ phase[e] = "call"
  /\ phase' = [phase EXCEPT ![e] = "done"]
  /\ outcome' = [outcome EXCEPT ![e] = "panic"]
  /\ UNCHANGED <<ip, frame, todo, clearing, memVars, result>>

\* Slip: the loop does not move past a site whose call never ran.
ReleaseSkipMissing(e, t) ==
  /\ phase[e] = "finish"
  /\ clearing[e] = None
  /\ t \in todo[e]
  /\ scratch[frame[e]][t] = None
  /\ UNCHANGED vars

\* A site whose call never ran holds a nil scratch.
ReleaseSkip(e, t) ==
  /\ phase[e] = "finish"
  /\ clearing[e] = None
  /\ t \in todo[e]
  /\ scratch[frame[e]][t] = None
  /\ todo' = [todo EXCEPT ![e] = @ \ {t}]
  /\ UNCHANGED <<phase, ip, frame, clearing, memVars, outcome, result>>

\* Slip: repool the block as the call left it.
ReleaseClearSkipped(e, t) ==
  /\ phase[e] = "finish"
  /\ clearing[e] = None
  /\ t \in todo[e]
  /\ scratch[frame[e]][t] # None
  /\ clearing' = [clearing EXCEPT ![e] = t]
  /\ UNCHANGED <<phase, ip, frame, todo, memVars, outcome, result>>

ReleaseClear(e, t) ==
  /\ phase[e] = "finish"
  /\ clearing[e] = None
  /\ t \in todo[e]
  /\ scratch[frame[e]][t] # None
  /\ content' = [content EXCEPT ![scratch[frame[e]][t]] = Zero]
  /\ clearing' = [clearing EXCEPT ![e] = t]
  /\ UNCHANGED <<phase, ip, frame, todo, slots, scratch, framePool, blockPool, kept,
                 outcome, result>>

\* Slip: the scratch field is set to nil before its block is put.
ReleasePutNil(e) ==
  /\ phase[e] = "finish"
  /\ clearing[e] # None
  /\ blockPool' = [blockPool EXCEPT ![clearing[e]] = @ \cup {None}]
  /\ scratch' = [scratch EXCEPT ![frame[e]][clearing[e]] = None]
  /\ todo' = [todo EXCEPT ![e] = @ \ {clearing[e]}]
  /\ clearing' = [clearing EXCEPT ![e] = None]
  /\ UNCHANGED <<phase, ip, frame, slots, content, framePool, kept, outcome, result>>

\* Slip: the scratch field keeps the block it gave back.
ReleasePutKeepsScratch(e) ==
  /\ phase[e] = "finish"
  /\ clearing[e] # None
  /\ blockPool' = [blockPool EXCEPT ![clearing[e]] = @ \cup {scratch[frame[e]][clearing[e]]}]
  /\ todo' = [todo EXCEPT ![e] = @ \ {clearing[e]}]
  /\ clearing' = [clearing EXCEPT ![e] = None]
  /\ UNCHANGED <<phase, ip, frame, slots, scratch, content, framePool, kept, outcome, result>>

ReleasePut(e) ==
  /\ phase[e] = "finish"
  /\ clearing[e] # None
  /\ LET t == clearing[e] IN
     /\ blockPool' = [blockPool EXCEPT ![t] = @ \cup {scratch[frame[e]][t]}]
     /\ scratch' = [scratch EXCEPT ![frame[e]][t] = None]
     /\ todo' = [todo EXCEPT ![e] = @ \ {t}]
  /\ clearing' = [clearing EXCEPT ![e] = None]
  /\ UNCHANGED <<phase, ip, frame, slots, content, framePool, kept, outcome, result>>

PutFrame(e) ==
  /\ phase[e] = "finish"
  /\ todo[e] = {}
  /\ framePool' = IF Pooled THEN framePool \cup {frame[e]} ELSE framePool
  /\ phase' = [phase EXCEPT ![e] = "done"]
  /\ UNCHANGED <<ip, frame, todo, clearing, slots, scratch, content, blockPool, kept,
                 outcome, result>>

-----------------------------------------------------------------------------
(* sync.Pool drops items between collections. *)

PoolLosesFrame(f) ==
  /\ f \in framePool
  /\ framePool' = framePool \ {f}
  /\ UNCHANGED <<runVars, slots, scratch, content, blockPool, kept>>

PoolLosesBlock(t, b) ==
  /\ b \in blockPool[t]
  /\ blockPool' = [blockPool EXCEPT ![t] = @ \ {b}]
  /\ UNCHANGED <<runVars, slots, scratch, content, framePool, kept>>

Step(e) ==
  \/ \E f \in Frames : GetPooledFrame(e, f) \/ GetNewFrame(e, f)
  \/ ClearFrame(e)
  \/ Load(e)
  \/ \E b \in Blocks : TakePooled(e, b) \/ TakeNew(e, b)
  \/ Fill(e)
  \/ Call(e)
  \/ Return(e)
  \/ Fail(e)
  \/ Panic(e)
  \/ Finish(e)
  \/ \E t \in Sites : ReleaseSkip(e, t) \/ ReleaseClear(e, t)
  \/ ReleasePut(e)
  \/ PutFrame(e)

Next ==
  \/ \E e \in Execs : Step(e) \/ \E s \in Slots : KeptWrite(e, s)
  \/ \E f \in framePool : PoolLosesFrame(f)
  \/ \E t \in Sites : \E b \in blockPool[t] : PoolLosesBlock(t, b)

Spec == Init /\ [][Next]_vars

FairSpec == Spec /\ \A e \in Execs : WF_vars(Step(e))

-----------------------------------------------------------------------------
(* What the pools must keep true *)

\* No two executions that can still read or write a frame share it, and a
\* frame in the pool belongs to nobody: the sharing a pool that is handed a
\* frame twice, or a frame a binding still points into, would bring.
FramesUnshared ==
  \A e \in Execs : Owning(e) =>
    /\ frame[e] \in Frames \ framePool
    /\ \A d \in Execs : Owning(d) /\ frame[d] = frame[e] => d = e

\* A block is borrowed once or pooled once: release must clear its scratch
\* field, and take must remove what it returns.
BlocksUnshared ==
  \A f, g \in LiveFrames : \A t, u \in Sites :
    scratch[f][t] # None =>
      /\ scratch[f][t] \notin UNION {blockPool[x] : x \in Sites}
      /\ scratch[g][u] = scratch[f][t] => g = f /\ u = t

\* take() promises zeroed memory (stepjit_pool.go:45-47) and does not clear:
\* every block in a pool is zero already, whatever path released it.
PooledBlocksCleared ==
  \A t \in Sites : \A b \in blockPool[t] : content[b] = Zero

\* An execution that ends without a panic gives every borrowed block back
\* before it lets go of its frame, on the error path as well.
FinishReturnsEverything ==
  [][\A e \in Execs : phase[e] = "finish" /\ phase'[e] = "done" =>
       scratch'[frame[e]] = NilScratch]_vars

\* Every execution that has started ends, if bindings return.
EveryRunEnds == \A e \in Execs : Holding(e) ~> phase[e] = "done"

-----------------------------------------------------------------------------
(* The abstract specification: memory of one's own *)

AbstractPhase ==
  [e \in Execs |-> CASE phase[e] \in {"idle", "clear"} -> "idle"
                     [] phase[e] \in {"run", "call"} -> phase[e]
                     [] OTHER -> "ended"]

Executing(e) == phase[e] \in {"run", "call"}

AbstractMem ==
  [e \in Execs |-> IF Executing(e) \/ e \in kept THEN slots[frame[e]] ELSE ZeroSlots]

AbstractLit ==
  [e \in Execs |-> [t \in Sites |->
     IF Executing(e) /\ scratch[frame[e]][t] # None
       THEN content[scratch[frame[e]][t]] ELSE Zero]]

Isolated == INSTANCE IsolatedRuns
  WITH phase <- AbstractPhase, mem <- AbstractMem, lit <- AbstractLit

\* Executions over pooled frames and blocks behave as if each had fresh
\* memory: no callee, result or kept pointer ever sees another execution's
\* value or a previous execution's leftovers.
RunsAreIsolated == Isolated!Spec
=============================================================================
