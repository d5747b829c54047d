---------------------------- MODULE IsolatedRuns ----------------------------
(***************************************************************************)
(* What running a compiled program promises: every execution has a memory  *)
(* of its own.  Its slots start zero, no other execution writes them, a    *)
(* literal's fields hold what this execution stored, and a binding that    *)
(* was given a pointer into the frame and kept it goes on reading and      *)
(* writing the memory of that execution only.                              *)
(***************************************************************************)
EXTENDS RunProgram

VARIABLES
  phase,    \* [Execs -> {"idle", "run", "call", "ended"}]
  ip,       \* next operation of each execution
  mem,      \* private slots of each execution
  lit,      \* private blocks of each execution, by site
  kept,     \* executions whose memory a binding kept a pointer to
  outcome,  \* "none" until it ends, then "ok", "error" or "panic"
  result    \* the value the execution returned

vars == <<phase, ip, mem, lit, kept, outcome, result>>

Init ==
  /\ phase = [e \in Execs |-> "idle"]
  /\ ip = [e \in Execs |-> 1]
  /\ mem = [e \in Execs |-> ZeroSlots]
  /\ lit = [e \in Execs |-> ZeroSites]
  /\ kept = {}
  /\ outcome = [e \in Execs |-> "none"]
  /\ result = [e \in Execs |-> Zero]

Running(e, kind) ==
  /\ phase[e] = "run"
  /\ ip[e] \in DOMAIN Prog
  /\ Prog[ip[e]].kind = kind

Advance(e) == ip' = [ip EXCEPT ![e] = @ + 1]

\* What a binding can hand back: a value of its own, or what it was passed.
Results(e) ==
  LET o == Prog[ip[e]] IN
  {e} \cup (IF o.src \in Slots THEN {mem[e][o.src]} ELSE {})
      \cup (IF o.site \in Sites THEN {lit[e][o.site]} ELSE {})

\* An ended execution has no memory, unless a binding still points at it.
End(e, how) ==
  /\ phase' = [phase EXCEPT ![e] = "ended"]
  /\ outcome' = [outcome EXCEPT ![e] = how]
  /\ lit' = [lit EXCEPT ![e] = ZeroSites]
  /\ mem' = IF e \in kept THEN mem ELSE [mem EXCEPT ![e] = ZeroSlots]

Start(e) ==
  /\ phase[e] = "idle"
  /\ phase' = [phase EXCEPT ![e] = "run"]
  /\ UNCHANGED <<ip, mem, lit, kept, outcome, result>>

Load(e) ==
  /\ Running(e, "load")
  /\ \E v \in {e, mem[e][Prog[ip[e]].out]} :
       mem' = [mem EXCEPT ![e][Prog[ip[e]].out] = v]
  /\ Advance(e)
  /\ UNCHANGED <<phase, lit, kept, outcome, result>>

Take(e) ==
  /\ Running(e, "take")
  /\ Advance(e)
  /\ UNCHANGED <<phase, mem, lit, kept, outcome, result>>

Fill(e) ==
  /\ Running(e, "fill")
  /\ LET o == Prog[ip[e]] IN
     lit' = [lit EXCEPT ![e][o.site] = IF o.src \in Slots THEN mem[e][o.src] ELSE e]
  /\ Advance(e)
  /\ UNCHANGED <<phase, mem, kept, outcome, result>>

Call(e) ==
  /\ Running(e, "call")
  /\ phase' = [phase EXCEPT ![e] = "call"]
  /\ kept' \in IF Prog[ip[e]].alias THEN {kept, kept \cup {e}} ELSE {kept}
  /\ UNCHANGED <<ip, mem, lit, outcome, result>>

Return(e) ==
  /\ phase[e] = "call"
  /\ phase' = [phase EXCEPT ![e] = "run"]
  /\ LET o == Prog[ip[e]] IN
     IF o.out \in Slots
       THEN \E v \in Results(e) : mem' = [mem EXCEPT ![e][o.out] = v]
       ELSE mem' = mem
  /\ Advance(e)
  /\ UNCHANGED <<lit, kept, outcome, result>>

\* A binding returns an error, or a node refuses a value it reads (a field of
\* a nil pointer, an interface of the wrong type).
Fail(e) ==
  /\ phase[e] = "call" \/ Running(e, "fill") \/ Running(e, "call")
  /\ End(e, "error")
  /\ UNCHANGED <<ip, kept, result>>

Panic(e) ==
  /\ phase[e] = "call"
  /\ End(e, "panic")
  /\ UNCHANGED <<ip, kept, result>>

Finish(e) ==
  /\ phase[e] = "run"
  /\ ip[e] = Len(Prog) + 1
  /\ result' = IF RetSlot \in Slots THEN [result EXCEPT ![e] = mem[e][RetSlot]] ELSE result
  /\ End(e, "ok")
  /\ UNCHANGED <<ip, kept>>

\* A binding that kept a pointer writes through it, at any later time.
KeptWrite(e, s) ==
  /\ e \in kept
  /\ mem' = [mem EXCEPT ![e][s] = e]
  /\ UNCHANGED <<phase, ip, lit, kept, outcome, result>>

Next ==
  \E e \in Execs :
    \/ Start(e) \/ Load(e) \/ Take(e) \/ Fill(e)
    \/ Call(e) \/ Return(e) \/ Fail(e) \/ Panic(e) \/ Finish(e)
    \/ \E s \in Slots : KeptWrite(e, s)

Spec == Init /\ [][Next]_vars
=============================================================================
