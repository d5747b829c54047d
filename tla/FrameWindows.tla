---------------------------- MODULE FrameWindows ----------------------------
(***************************************************************************)
(* The argument frame of the reflect evaluator: assignFrame                *)
(* (vm_compile.go) gives every call of a program a window into one array,  *)
(* and invoke (vm.go) fills the window of a call argument by argument,     *)
(* running the calls nested in each argument in between.                   *)
(*                                                                         *)
(* A program is its calls.  What matters of an argument, a statement or a  *)
(* callee is the calls inside it, in the order they run: none in a name,   *)
(* one in a nested call, several in a composite literal.  args[c][k] are   *)
(* those of argument k, callee[c] those of fnArg (a func value the program *)
(* computes, as in mk(x).F(y)), and roots those of the statements.  The    *)
(* value of argument k of call c is <<c, k>>.                              *)
(*                                                                         *)
(* Concurrent runs share the layout, which nothing writes after the        *)
(* compilation, and have a frame each: one run shows what any of them does.*)
(***************************************************************************)
EXTENDS Naturals, Sequences, Functions

CONSTANTS
  Calls,
  Programs

ASSUME ProgramsAssumption ==
  Programs \subseteq [roots : Seq(Calls), args : [Calls -> Seq(Seq(Calls))],
                      callee : [Calls -> Seq(Calls)]]

VARIABLES
  prog,       \* the program
  stage,      \* "layout", "run", then "failed" or "panic" if it comes to that
  todo,       \* lists of calls assignFrame has still to reach, innermost first
  laid,       \* history: the calls it has reached
  off,        \* the start of each call's window, 0 if assignFrame never came
  size,       \* vmProgram.frame, the words handed out so far
  frame,      \* the frame of the run
  at,         \* how far each call is: 0 before it starts, k at argument k
  received    \* what the callee of each finished call was passed

layoutVars == <<todo, laid, off, size>>
vars == <<prog, stage, layoutVars, frame, at, received>>

Args == prog.args
Callee == prog.callee
Arity(c) == Len(Args[c])
Values == Calls \X Nat
Unset == <<>>

Running(c) == at[c] \in 1..(Arity(c) + 1)
Done(c) == at[c] = Arity(c) + 2

TypeOK ==
  /\ prog \in Programs
  /\ stage \in {"layout", "run", "failed", "panic"}
  /\ todo \in Seq(Seq(Calls))
  /\ laid \subseteq Calls
  /\ size \in Nat
  /\ off \in [Calls -> 0..size]
  /\ stage # "layout" => frame \in [0..(size - 1) -> Values \cup {Unset}]
  /\ \A c \in Calls : at[c] \in 0..(Arity(c) + 2)
  /\ DOMAIN received = Calls

Init ==
  /\ prog \in Programs
  /\ stage = "layout"
  /\ todo = <<prog.roots>>
  /\ laid = {}
  /\ off = [c \in Calls |-> 0]
  /\ size = 0
  /\ frame = <<>>
  /\ at = [c \in Calls |-> 0]
  /\ received = [c \in Calls |-> <<>>]

-----------------------------------------------------------------------------
(* assignFrame and assignArg *)

\* The call at the front, and the lists behind it.
NextCall == Head(Head(todo))
Rest == <<Tail(Head(todo))>> \o Tail(todo)

\* Slip: the walk goes into a nested call but not into a composite literal.
AssignFrameNoLiterals ==
  /\ stage = "layout" /\ todo # <<>> /\ Head(todo) # <<>>
  /\ LET c == NextCall
     IN /\ off' = [off EXCEPT ![c] = size]
        /\ size' = size + Arity(c)
        /\ laid' = laid \cup {c}
        /\ todo' = SelectSeq(Args[c], LAMBDA q : Len(q) = 1) \o Rest
  /\ UNCHANGED <<prog, stage, frame, at, received>>

\* Slip: only arguments without a call count, as if a nested call kept its result
\* in its own window.
AssignFrameLeavesOnly ==
  /\ stage = "layout" /\ todo # <<>> /\ Head(todo) # <<>>
  /\ LET c == NextCall
     IN /\ off' = [off EXCEPT ![c] = size]
        /\ size' = size + Len(SelectSeq(Args[c], LAMBDA q : q = <<>>))
        /\ laid' = laid \cup {c}
        /\ todo' = Args[c] \o Rest
  /\ UNCHANGED <<prog, stage, frame, at, received>>

\* Slip: the offset of the call moves past its words and the frame does not.
AssignFrameLate ==
  /\ stage = "layout" /\ todo # <<>> /\ Head(todo) # <<>>
  /\ LET c == NextCall
     IN /\ off' = [off EXCEPT ![c] = size + Arity(c)]
        /\ size' = size
        /\ laid' = laid \cup {c}
        /\ todo' = Args[c] \o Rest
  /\ UNCHANGED <<prog, stage, frame, at, received>>

\* The calls of the callee are not visited: assignFrame reads c.args only.
AssignFrame ==
  /\ stage = "layout" /\ todo # <<>> /\ Head(todo) # <<>>
  /\ LET c == NextCall
     IN /\ off' = [off EXCEPT ![c] = size]
        /\ size' = size + Arity(c)
        /\ laid' = laid \cup {c}
        /\ todo' = Args[c] \o Rest
  /\ UNCHANGED <<prog, stage, frame, at, received>>

\* An argument without calls, or none left in it.
AssignArgEnds ==
  /\ stage = "layout" /\ todo # <<>> /\ Head(todo) = <<>>
  /\ todo' = Tail(todo)
  /\ UNCHANGED <<prog, stage, laid, off, size, frame, at, received>>

\* vmProgram.run allocates the frame.
Run ==
  /\ stage = "layout" /\ todo = <<>>
  /\ stage' = "run"
  /\ frame' = [i \in 0..(size - 1) |-> Unset]
  /\ UNCHANGED <<prog, layoutVars, at, received>>

-----------------------------------------------------------------------------
(* invoke *)

\* c is the first call of q that has not run.
Turn(q, c) ==
  \E i \in DOMAIN q : q[i] = c /\ at[c] = 0 /\ \A j \in 1..(i - 1) : Done(q[j])

AllDone(q) == \A i \in DOMAIN q : Done(q[i])

\* What a running call evaluates: an argument, and after the last its callee.
Current(p) == IF at[p] <= Arity(p) THEN Args[p][at[p]] ELSE Callee[p]

Reached(c) ==
  /\ stage = "run"
  /\ Turn(prog.roots, c) \/ \E p \in Calls : Running(p) /\ Turn(Current(p), c)

Start(c) ==
  /\ Reached(c)
  /\ off[c] + Arity(c) <= size
  /\ at' = [at EXCEPT ![c] = 1]
  /\ UNCHANGED <<prog, stage, layoutVars, frame, received>>

\* frame[c.off : c.off+len(c.args)] is out of range.
StartOutside(c) ==
  /\ Reached(c)
  /\ off[c] + Arity(c) > size
  /\ stage' = "panic"
  /\ UNCHANGED <<prog, layoutVars, frame, at, received>>

StoreArg(c) ==
  /\ stage = "run" /\ at[c] \in 1..Arity(c) /\ AllDone(Args[c][at[c]])
  /\ frame' = [frame EXCEPT ![off[c] + at[c] - 1] = <<c, at[c]>>]
  /\ at' = [at EXCEPT ![c] = @ + 1]
  /\ UNCHANGED <<prog, stage, layoutVars, received>>

\* An argument or the callee cannot be evaluated: a nil pointer on the way to a
\* field, a stack value of another type, a nil func.
Fail(c) ==
  /\ stage = "run" /\ Running(c) /\ AllDone(Current(c))
  /\ stage' = "failed"
  /\ UNCHANGED <<prog, layoutVars, frame, at, received>>

\* The callee gets the window; its error ends the program.
Invoke(c) ==
  /\ stage = "run" /\ at[c] = Arity(c) + 1 /\ AllDone(Callee[c])
  /\ received' = [received EXCEPT ![c] = [k \in 1..Arity(c) |-> frame[off[c] + k - 1]]]
  /\ at' = [at EXCEPT ![c] = @ + 1]
  /\ stage' \in {"run", "failed"}
  /\ UNCHANGED <<prog, layoutVars, frame>>

Next ==
  \/ AssignFrame
  \/ AssignArgEnds
  \/ Run
  \/ \E c \in Calls : Start(c) \/ StartOutside(c) \/ StoreArg(c) \/ Fail(c) \/ Invoke(c)

Spec == Init /\ [][Next]_vars

-----------------------------------------------------------------------------
(* Properties *)

Window(c) == off[c]..(off[c] + Arity(c) - 1)

\* No call is made through a value that another call of the program computes.
NoComputedCallee == \A c \in Calls : Callee[c] = <<>>

\* vm_compile.go:354-355: assignFrame "assigns every call in the program a
\* disjoint window", inside the frame.
WindowsAreDisjoint ==
  /\ \A c \in laid : off[c] + Arity(c) <= size
  /\ \A c, d \in laid : c # d => Window(c) \cap Window(d) = {}

\* vm_compile.go:355-357: "a nested call cannot overwrite the arguments its
\* parent is still filling".
Arrived == \A c \in Calls : Done(c) => received[c] = [k \in 1..Arity(c) |-> <<c, k>>]

\* Where no callee is computed by a call, every callee receives the arguments
\* of its call, however calls and literals nest.
ArgumentsArrive == NoComputedCallee => Arrived

\* There, too, no call slices the frame past its end.
NoCallIsOutside == NoComputedCallee => stage # "panic"

\* The comment, of every program: assignFrame does not visit fnArg.
ArgumentsAlwaysArrive == Arrived
=============================================================================
