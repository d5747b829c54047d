----------------------------- MODULE DirectCalls -----------------------------
(***************************************************************************)
(* A program that is one flat call, as the JIT'd statement runs it         *)
(* (jitCompile in jit.go): resolve the parameters in order against the     *)
(* caller's stack, stop at the first that does not fit, call the func.     *)
(* Nothing outlives a call, so calls cannot meet.                          *)
(*                                                                         *)
(* What a stack holds for a name is "set" (a value the parameter accepts), *)
(* "wrong" (one it does not) or "unset" (no entry, or nil, which fills the *)
(* zero value).                                                            *)
(***************************************************************************)
EXTENDS Naturals

CONSTANTS
  Calls,      \* calls of the statement, each by some goroutine
  Arity,      \* the parameters are 1..Arity
  Slots,      \* those the source gives a variable
  Literal,    \* what it gives the others: a literal, or Zero where it gives none
  Zero,       \* the zero value of a parameter
  None        \* nothing yet

Params == 1..Arity

ASSUME StatementAssumption ==
  /\ Arity \in Nat
  /\ Slots \subseteq Params
  /\ DOMAIN Literal = Params \ Slots
  /\ None \notin Calls

Stacks == [Slots -> {"set", "unset", "wrong"}]

VARIABLES
  phase,    \* [Calls -> {"idle", "get", "call", "ended"}]
  stack,    \* the stack each call was given, by slot
  passed,   \* what the func received, or None
  outcome,  \* "none", then "ok", "error", "panic" or "refused"
  refused   \* the parameter an error of the caller's stack names, 0 for none

vars == <<phase, stack, passed, outcome, refused>>

Init ==
  /\ phase = [c \in Calls |-> "idle"]
  /\ stack = [c \in Calls |-> [p \in Slots |-> "unset"]]
  /\ passed = [c \in Calls |-> None]
  /\ outcome = [c \in Calls |-> "none"]
  /\ refused = [c \in Calls |-> 0]

\* What the call hands parameter p when its stack has nothing wrong there.
ValueOf(c, p) ==
  IF p \in Slots THEN IF stack[c][p] = "set" THEN <<c, p>> ELSE Zero ELSE Literal[p]

Begin(c, st) ==
  /\ phase[c] = "idle"
  /\ phase' = [phase EXCEPT ![c] = "get"]
  /\ stack' = [stack EXCEPT ![c] = st]
  /\ UNCHANGED <<passed, outcome, refused>>

\* The error names the first parameter whose value does not fit.
Refuse(c, p) ==
  /\ phase[c] = "get"
  /\ stack[c][p] = "wrong"
  /\ \A q \in Slots : q < p => stack[c][q] # "wrong"
  /\ phase' = [phase EXCEPT ![c] = "ended"]
  /\ outcome' = [outcome EXCEPT ![c] = "refused"]
  /\ refused' = [refused EXCEPT ![c] = p]
  /\ UNCHANGED <<stack, passed>>

Invoke(c) ==
  /\ phase[c] = "get"
  /\ \A p \in Slots : stack[c][p] # "wrong"
  /\ phase' = [phase EXCEPT ![c] = "call"]
  /\ passed' = [passed EXCEPT ![c] = [p \in Params |-> ValueOf(c, p)]]
  /\ UNCHANGED <<stack, outcome, refused>>

\* jitResult and jitError: the func returned a result, or an error, or panicked.
Return(c, how) ==
  /\ phase[c] = "call"
  /\ phase' = [phase EXCEPT ![c] = "ended"]
  /\ outcome' = [outcome EXCEPT ![c] = how]
  /\ UNCHANGED <<stack, passed, refused>>

Next ==
  \E c \in Calls :
    \/ \E st \in Stacks : Begin(c, st)
    \/ \E p \in Slots : Refuse(c, p)
    \/ Invoke(c)
    \/ \E how \in {"ok", "error", "panic"} : Return(c, how)

Spec == Init /\ [][Next]_vars
=============================================================================
