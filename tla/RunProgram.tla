----------------------------- MODULE RunProgram -----------------------------
(***************************************************************************)
(* The memory traffic of one program compiled for the step JIT.            *)
(*                                                                         *)
(* jitCompileProgram (stepjit.go) turns a program into a list of closures  *)
(* that every execution runs in order over a frame.  What the closures do  *)
(* to memory that executions could share is one of four operations, in the *)
(* order the node builders emit them:                                      *)
(*                                                                         *)
(*   load  store a value that belongs to this execution in a frame slot: a *)
(*         hoisted stack name, the seed of a value binding, a literal      *)
(*   take  site.take(): borrow a block for a variadic pack, a composite    *)
(*         literal or a boxed string                                       *)
(*   fill  store into the block of a site, either a fresh value or what    *)
(*         the slot src holds                                              *)
(*   call  run a binding; it reads the slot src and the block of site, and *)
(*         its result goes to the slot out.  alias says the binding gets a *)
(*         pointer into the frame: an interface that points at a slot, or  *)
(*         the address of a name                                           *)
(*                                                                         *)
(* A value is the execution that produced it, or Zero.                     *)
(***************************************************************************)
EXTENDS Naturals, Sequences

CONSTANTS
  Execs,    \* executions of the program, each by some goroutine
  Slots,    \* frame fields for names and hoisted stack reads
  Sites,    \* argument-pool sites, one scratch field of the frame each
  None,     \* no slot, no site, no frame, no block: a nil pointer
  Zero,     \* the zero value
  Prog,     \* the operations, in order
  RetSlot   \* the slot "return name;" reads, or None

Val == Execs \cup {Zero}

Op == [kind  : {"load", "take", "fill", "call"},
       out   : Slots \cup {None},
       src   : Slots \cup {None},
       site  : Sites \cup {None},
       alias : BOOLEAN]

(***************************************************************************)
(* The shape the node builders give a program: a literal's block is taken  *)
(* before its fields are stored, and every site is evaluated once per run. *)
(***************************************************************************)
WellFormed ==
  /\ Prog \in Seq(Op)
  /\ \A i \in DOMAIN Prog :
       LET o == Prog[i] IN
       /\ o.kind = "load" => o.out \in Slots
       /\ o.kind = "take" => o.site \in Sites
       /\ o.kind = "fill" =>
            /\ o.site \in Sites
            /\ \E j \in 1..(i-1) : Prog[j].kind = "take" /\ Prog[j].site = o.site
       /\ o.kind = "call" /\ o.site # None =>
            \E j \in 1..(i-1) : Prog[j].kind = "take" /\ Prog[j].site = o.site
       /\ \A j \in DOMAIN Prog :
            Prog[j].kind = "take" /\ o.kind = "take" /\ Prog[j].site = o.site => i = j

ASSUME RunProgramAssumption ==
  /\ None \notin Slots \cup Sites
  /\ Zero \notin Execs
  /\ RetSlot \in Slots \cup {None}
  /\ WellFormed

\* frameEscapes: some node hands a pointer into the frame to a callee.
FrameEscapes == \E i \in DOMAIN Prog : Prog[i].kind = "call" /\ Prog[i].alias

\* The sites whose block an execution about to run operation i has taken.
TakenBefore(i) == {t \in Sites : \E j \in 1..(i-1) : Prog[j].kind = "take" /\ Prog[j].site = t}

ZeroSlots == [s \in Slots |-> Zero]
ZeroSites == [t \in Sites |-> Zero]
=============================================================================
