------------------------- MODULE FrameWindowsProofs -------------------------
(***************************************************************************)
(* FrameWindows for every program.                                         *)
(*                                                                         *)
(* The windows are disjoint because each starts at size, past all others.  *)
(* That arguments arrive needs two more facts: the walk of the layout has  *)
(* reached, or still holds, every call inside one it reached (Covered), so *)
(* a call that starts has a window; and what a running call has stored     *)
(* stays in its window (Filled).                                           *)
(***************************************************************************)
EXTENDS FrameWindows, SequenceTheorems, TLAPS

\* The calls the walk still holds.
Held == UNION {Range(q) : q \in Range(todo)}

Covered(q) == Range(q) \subseteq laid \cup Held

LayoutInv ==
  /\ Covered(prog.roots)
  /\ \A c \in laid : \A q \in Range(Args[c]) : Covered(q)
  /\ stage # "layout" => todo = <<>>
  /\ stage = "layout" => \A c \in Calls : at[c] = 0

Started == \A c \in Calls : at[c] > 0 => c \in laid

Filled ==
  \A c \in Calls : Running(c) =>
    \A k \in 1..Arity(c) : k < at[c] => frame[off[c] + k - 1] = <<c, k>>

\* The part that holds of every program, and the part that does not.
LInv == TypeOK /\ at \in [Calls -> Nat] /\ WindowsAreDisjoint /\ LayoutInv
AInv == Started /\ Filled /\ Arrived /\ stage # "panic"

Inv == LInv /\ (NoComputedCallee => AInv)

-----------------------------------------------------------------------------
(* The program *)

LEMMA ProgramTypes ==
  ASSUME prog \in Programs
  PROVE  /\ prog.roots \in Seq(Calls)
         /\ Args \in [Calls -> Seq(Seq(Calls))] /\ Callee \in [Calls -> Seq(Calls)]
         /\ \A c \in Calls : Arity(c) \in Nat
BY ProgramsAssumption DEF Args, Callee, Arity

\* An element of a list of calls is a call, and one of a list of lists a list.
LEMMA RangeType ==
  ASSUME NEW S, NEW q \in Seq(S)
  PROVE  Range(q) \subseteq S
BY DEF Range

LEMMA InitInv == Init => Inv
<1> SUFFICES ASSUME Init
             PROVE  Inv
  OBVIOUS
<1>1. /\ prog \in Programs /\ todo = <<prog.roots>> /\ prog.roots \in Seq(Calls)
      /\ \A c \in Calls : Arity(c) \in Nat
  BY ProgramTypes DEF Init
<1>2. TypeOK /\ at \in [Calls -> Nat]
  BY <1>1 DEF Init, TypeOK
<1>3. WindowsAreDisjoint
  BY DEF Init, WindowsAreDisjoint
<1>4. Covered(prog.roots)
  BY <1>1 DEF Covered, Held, Range
<1>5. LayoutInv
  BY <1>4 DEF Init, LayoutInv
<1>6. AInv
  BY <1>1 DEF Init, AInv, Started, Filled, Arrived, Running, Done
<1> QED BY <1>2, <1>3, <1>5, <1>6 DEF Inv, LInv

-----------------------------------------------------------------------------
(* The layout *)

\* A list of calls is its first one and the rest.
LEMMA TailRange ==
  ASSUME NEW S, NEW q \in Seq(S), q # <<>>
  PROVE  /\ Head(q) \in S /\ Tail(q) \in Seq(S)
         /\ Range(q) = {Head(q)} \cup Range(Tail(q))
<1>1. /\ Head(q) \in S /\ Tail(q) \in Seq(S) /\ <<Head(q)>> \in Seq(S)
      /\ q = <<Head(q)>> \o Tail(q)
  OBVIOUS
<1>2. Range(<<Head(q)>>) = {Head(q)}
  BY DEF Range
<1>3. Range(<<Head(q)>> \o Tail(q)) = Range(<<Head(q)>>) \cup Range(Tail(q))
  BY <1>1, RangeConcatenation
<1>4. Range(q) = Range(<<Head(q)>> \o Tail(q))
  BY <1>1
<1> QED BY <1>1, <1>2, <1>3, <1>4

LEMMA AssignFrameInv ==
  ASSUME Inv, AssignFrame
  PROVE  Inv'
<1> DEFINE c == NextCall
<1>1. prog' = prog /\ stage' = stage /\ frame' = frame /\ at' = at /\ received' = received
  BY DEF AssignFrame
<1>2. /\ stage = "layout" /\ todo \in Seq(Seq(Calls)) /\ todo # <<>> /\ Head(todo) # <<>>
      /\ size \in Nat /\ off \in [Calls -> 0..size] /\ laid \subseteq Calls
      /\ prog \in Programs
  BY DEF AssignFrame, Inv, LInv, TypeOK
<1>3. /\ Head(todo) \in Seq(Calls) /\ Tail(todo) \in Seq(Seq(Calls))
      /\ Range(todo) = {Head(todo)} \cup Range(Tail(todo))
  BY <1>2, TailRange
<1>4. /\ c \in Calls /\ Tail(Head(todo)) \in Seq(Calls)
      /\ Range(Head(todo)) = {c} \cup Range(Tail(Head(todo)))
  BY <1>2, <1>3, TailRange DEF NextCall
<1>5. /\ Args[c] \in Seq(Seq(Calls)) /\ \A d \in Calls : Arity(d) \in Nat
      /\ Args' = Args /\ Callee' = Callee
  BY <1>1, <1>2, <1>4, ProgramTypes DEF Args, Callee
<1>6. /\ Rest \in Seq(Seq(Calls))
      /\ Range(Rest) = {Tail(Head(todo))} \cup Range(Tail(todo))
  <2>1. <<Tail(Head(todo))>> \in Seq(Seq(Calls)) /\ Range(<<Tail(Head(todo))>>) = {Tail(Head(todo))}
    <3>1. \A q : Range(<<q>>) = {q}
      BY DEF Range
    <3> QED BY <1>4, <3>1
  <2>2. /\ <<Tail(Head(todo))>> \o Tail(todo) \in Seq(Seq(Calls))
        /\ Range(<<Tail(Head(todo))>> \o Tail(todo))
             = Range(<<Tail(Head(todo))>>) \cup Range(Tail(todo))
    <3>1. \A p, q \in Seq(Seq(Calls)) :
            p \o q \in Seq(Seq(Calls)) /\ Range(p \o q) = Range(p) \cup Range(q)
      BY RangeConcatenation
    <3> QED BY <1>3, <2>1, <3>1
  <2> QED BY <2>1, <2>2 DEF Rest
<1>7. /\ off' = [off EXCEPT ![c] = size] /\ size' = size + Arity(c)
      /\ laid' = laid \cup {c} /\ todo' = Args[c] \o Rest
  BY DEF AssignFrame
<1>8. todo' \in Seq(Seq(Calls)) /\ Range(todo') = Range(Args[c]) \cup Range(Rest)
  BY <1>5, <1>6, <1>7, RangeConcatenation
<1> HIDE DEF c
<1>9. TypeOK' /\ (at \in [Calls -> Nat])'
  <2>1. size' \in Nat /\ size <= size'
    BY <1>2, <1>4, <1>5, <1>7
  <2>2. off' \in [Calls -> 0..size']
    BY <1>2, <1>4, <1>7, <2>1
  <2>3. \A d \in Calls : Arity(d)' = Arity(d)
    BY <1>5 DEF Arity
  <2>4. laid' \subseteq Calls
    BY <1>2, <1>4, <1>7
  <2> QED BY <1>1, <1>2, <1>8, <2>1, <2>2, <2>3, <2>4 DEF Inv, LInv, TypeOK
<1>10. WindowsAreDisjoint'
  <2>1. \A d \in Calls : Arity(d)' = Arity(d)
    BY <1>5 DEF Arity
  <2>2. \A d \in laid : off[d] + Arity(d) <= size /\ off[d] \in 0..size
    BY <1>2 DEF Inv, LInv, WindowsAreDisjoint
  <2>3. \A d \in laid' : /\ d = c => off'[d] = size
                         /\ d # c => d \in laid /\ off'[d] = off[d]
    BY <1>2, <1>4, <1>7
  <2>4. \A d \in laid' : off'[d] + Arity(d) <= size'
    BY <1>2, <1>4, <1>5, <1>7, <2>2, <2>3
  <2>5. ASSUME NEW d \in laid', NEW e \in laid', d # e
        PROVE  Window(d)' \cap Window(e)' = {}
    <3>1. /\ Window(d)' = off'[d]..(off'[d] + Arity(d) - 1)
          /\ Window(e)' = off'[e]..(off'[e] + Arity(e) - 1)
          /\ Arity(d) \in Nat /\ Arity(e) \in Nat
      BY <1>2, <1>4, <1>5, <1>7, <2>1 DEF Window
    <3>2. CASE d # c /\ e # c
      BY <1>2, <2>3, <2>5, <3>1, <3>2 DEF Inv, LInv, WindowsAreDisjoint, Window
    <3>3. CASE d = c
      BY <1>2, <2>2, <2>3, <2>5, <3>1, <3>3
    <3>4. CASE e = c
      BY <1>2, <2>2, <2>3, <2>5, <3>1, <3>4
    <3> QED BY <3>2, <3>3, <3>4
  <2>6. \A d \in laid' : off'[d] + Arity(d)' <= size'
    BY <1>2, <1>4, <1>7, <2>1, <2>4
  <2> QED BY <2>5, <2>6 DEF WindowsAreDisjoint
\* Nothing the walk held is lost: c is laid out, its arguments are held.
<1>11. laid \cup Held \subseteq laid' \cup Held'
  <2>1. Held = Range(Head(todo)) \cup UNION {Range(q) : q \in Range(Tail(todo))}
    BY <1>3 DEF Held
  <2>2. UNION {Range(q) : q \in Range(Rest)} \subseteq Held'
    BY <1>8 DEF Held
  <2>3. UNION {Range(q) : q \in Range(Rest)}
          = Range(Tail(Head(todo))) \cup UNION {Range(q) : q \in Range(Tail(todo))}
    BY <1>6
  <2> QED BY <1>4, <1>7, <2>1, <2>2, <2>3
<1>12. \A q \in Range(Args[c]) : Range(q) \subseteq Held'
  BY <1>8 DEF Held
<1>13. LayoutInv'
  <2>1. \A q : Covered(q) => Range(q) \subseteq laid' \cup Held'
    BY <1>11 DEF Covered
  <2>2. \A d \in laid' : \A q \in Range(Args[d]) : Range(q) \subseteq laid' \cup Held'
    BY <1>7, <1>12, <2>1 DEF Inv, LInv, LayoutInv
  <2>3. Range(prog.roots) \subseteq laid' \cup Held'
    BY <2>1 DEF Inv, LInv, LayoutInv
  <2> QED BY <1>1, <1>2, <1>5, <2>2, <2>3 DEF Inv, LInv, LayoutInv, Covered
<1>14. AInv'
  <2>1. \A d \in Calls : at'[d] = 0 /\ Arity(d)' = Arity(d) /\ Arity(d) \in Nat
    BY <1>1, <1>2, <1>5 DEF Inv, LInv, LayoutInv, Arity
  <2> QED BY <1>1, <1>2, <2>1 DEF AInv, Started, Filled, Arrived, Running, Done
<1> QED BY <1>9, <1>10, <1>13, <1>14 DEF Inv, LInv

LEMMA AssignArgEndsInv ==
  ASSUME Inv, AssignArgEnds
  PROVE  Inv'
<1>1. /\ todo \in Seq(Seq(Calls)) /\ todo # <<>> /\ Head(todo) = <<>> /\ todo' = Tail(todo)
      /\ UNCHANGED <<prog, stage, laid, off, size, frame, at, received>>
      /\ stage = "layout"
  BY DEF AssignArgEnds, Inv, LInv, TypeOK
<1>2. todo' \in Seq(Seq(Calls)) /\ Range(todo) = {Head(todo)} \cup Range(todo')
  BY <1>1, TailRange
<1>3. Held' = Held
  <2>1. Range(Head(todo)) = {}
    BY <1>1 DEF Range
  <2>2. Held = Range(Head(todo)) \cup UNION {Range(q) : q \in Range(todo')}
    BY <1>2 DEF Held
  <2> QED BY <2>1, <2>2 DEF Held
<1>4. LInv'
  <2>1. TypeOK' /\ (at \in [Calls -> Nat])' /\ WindowsAreDisjoint'
    BY <1>1, <1>2 DEF Inv, LInv, TypeOK, WindowsAreDisjoint, Window, Arity, Args
  <2>2. LayoutInv'
    BY <1>1, <1>3 DEF Inv, LInv, LayoutInv, Covered, Args
  <2> QED BY <2>1, <2>2 DEF LInv
<1>5. (NoComputedCallee => AInv)'
  BY <1>1 DEF Inv, NoComputedCallee, AInv, Started, Filled, Arrived, Running, Done, Arity, Args, Callee
<1> QED BY <1>4, <1>5 DEF Inv

LEMMA RunInv ==
  ASSUME Inv, Run
  PROVE  Inv'
<1>1. /\ stage = "layout" /\ stage' = "run" /\ todo = <<>>
      /\ frame' = [i \in 0..(size - 1) |-> Unset]
      /\ UNCHANGED <<prog, todo, laid, off, size, at, received>>
      /\ prog \in Programs
  BY DEF Run, layoutVars, Inv, LInv, TypeOK
<1>2. TypeOK' /\ (at \in [Calls -> Nat])' /\ WindowsAreDisjoint'
  BY <1>1 DEF Inv, LInv, TypeOK, WindowsAreDisjoint, Window, Arity, Args
<1>3. LayoutInv'
  BY <1>1 DEF Inv, LInv, LayoutInv, Covered, Held, Args
<1>4. AInv'
  <2>1. \A c \in Calls : at'[c] = 0 /\ Arity(c)' \in Nat
    BY <1>1, ProgramTypes DEF Inv, LInv, LayoutInv, Arity, Args
  <2> QED BY <1>1, <2>1 DEF AInv, Started, Filled, Arrived, Running, Done
<1> QED BY <1>2, <1>3, <1>4 DEF Inv, LInv

-----------------------------------------------------------------------------
(* The run *)

\* Every call a list holds has a window once the layout is over.
LEMMA LaidOut ==
  ASSUME Inv, stage # "layout", NEW q, Covered(q)
  PROVE  Range(q) \subseteq laid
<1>1. todo = <<>>
  BY DEF Inv, LInv, LayoutInv
<1>2. Held = {}
  BY <1>1 DEF Held, Range
<1> QED BY <1>2 DEF Covered

\* A call that is reached is inside one that is laid out, unless it computes a
\* callee.
LEMMA ReachedIsLaid ==
  ASSUME Inv, NoComputedCallee, NEW c \in Calls, Reached(c)
  PROVE  c \in laid
<1>1. stage = "run" /\ prog \in Programs
  BY DEF Reached, Inv, LInv, TypeOK
<1>2. \A q : Turn(q, c) => c \in Range(q)
  BY DEF Turn, Range
<1>3. CASE Turn(prog.roots, c)
  BY <1>1, <1>2, <1>3, LaidOut DEF Inv, LInv, LayoutInv
<1>4. ASSUME NEW p \in Calls, Running(p), Turn(Current(p), c)
      PROVE  c \in laid
  <2>1. Arity(p) \in Nat /\ at[p] \in 1..(Arity(p) + 1) /\ Args[p] \in Seq(Seq(Calls))
    BY <1>1, <1>4, ProgramTypes DEF Running
  <2>2. p \in laid
    BY <1>4, <2>1 DEF Inv, AInv, Started
  <2>3. Callee[p] = <<>> /\ c \notin Range(<<>>)
    BY DEF NoComputedCallee, Range
  <2>4. Current(p) # Callee[p]
    BY <1>2, <1>4, <2>3
  <2>5. at[p] \in DOMAIN Args[p] /\ Current(p) = Args[p][at[p]]
    BY <2>1, <2>4 DEF Current, Arity
  <2>6. Current(p) \in Range(Args[p])
    BY <2>5 DEF Range
  <2>7. Covered(Current(p))
    BY <2>2, <2>6 DEF Inv, LInv, LayoutInv
  <2> QED BY <1>1, <1>2, <1>4, <2>7, LaidOut
<1> QED BY <1>3, <1>4 DEF Reached

\* What a step of the run leaves alone.
LEMMA LayoutKept ==
  ASSUME Inv, stage = "run", stage' \in {"run", "failed", "panic"},
         UNCHANGED <<prog, layoutVars>>, TypeOK', (at \in [Calls -> Nat])'
  PROVE  LInv'
<1> USE DEF layoutVars
<1>1. WindowsAreDisjoint'
  BY DEF Inv, LInv, WindowsAreDisjoint, Window, Arity, Args
<1>2. LayoutInv'
  BY DEF Inv, LInv, LayoutInv, Covered, Held, Args
<1> QED BY <1>1, <1>2 DEF LInv

LEMMA StartInv ==
  ASSUME Inv, NEW c \in Calls, Start(c)
  PROVE  Inv'
<1>1. /\ stage = "run" /\ at' = [at EXCEPT ![c] = 1] /\ Reached(c)
      /\ UNCHANGED <<prog, stage, layoutVars, frame, received>>
      /\ prog \in Programs /\ at \in [Calls -> Nat]
  BY DEF Start, Reached, Inv, LInv, TypeOK
<1>2. \A d \in Calls : Arity(d) \in Nat /\ Arity(d)' = Arity(d)
  BY <1>1, ProgramTypes DEF Arity, Args
<1>3. at'[c] = 1 /\ \A d \in Calls : d # c => at'[d] = at[d]
  BY <1>1
<1>4. TypeOK' /\ (at \in [Calls -> Nat])'
  BY <1>1, <1>2, <1>3 DEF Inv, LInv, TypeOK, layoutVars
<1>5. LInv'
  BY <1>1, <1>4, LayoutKept
<1>6. ASSUME NoComputedCallee
      PROVE  AInv'
  <2>1. c \in laid
    BY <1>1, <1>6, ReachedIsLaid
  <2>2. Started'
    BY <1>1, <1>3, <1>6, <2>1 DEF Inv, AInv, Started, layoutVars
  <2>3. Filled'
    <3>1. SUFFICES ASSUME NEW d \in Calls, Running(d)', NEW k \in 1..Arity(d), k < at'[d]
                   PROVE  frame[off[d] + k - 1] = <<d, k>>
      BY <1>1, <1>2 DEF Filled, layoutVars
    <3>2. d # c
      BY <1>2, <1>3, <3>1 DEF Running
    <3>3. Running(d) /\ k < at[d]
      BY <1>2, <1>3, <3>1, <3>2 DEF Running
    <3> QED BY <1>6, <3>1, <3>3 DEF Inv, AInv, Filled
  <2>4. Arrived'
    BY <1>1, <1>2, <1>3, <1>6 DEF Inv, AInv, Arrived, Done
  <2> QED BY <1>1, <2>2, <2>3, <2>4 DEF AInv
<1>7. NoComputedCallee' => NoComputedCallee
  BY <1>1 DEF NoComputedCallee, Callee
<1> QED BY <1>5, <1>6, <1>7 DEF Inv

LEMMA StartOutsideInv ==
  ASSUME Inv, NEW c \in Calls, StartOutside(c)
  PROVE  Inv'
<1>1. /\ stage = "run" /\ stage' = "panic" /\ Reached(c) /\ off[c] + Arity(c) > size
      /\ UNCHANGED <<prog, layoutVars, frame, at, received>>
      /\ prog \in Programs
  BY DEF StartOutside, Reached, Inv, LInv, TypeOK
<1>2. TypeOK' /\ (at \in [Calls -> Nat])'
  BY <1>1 DEF Inv, LInv, TypeOK, layoutVars, Arity, Args
<1>3. LInv'
  BY <1>1, <1>2, LayoutKept
\* A call with a window is not outside the frame.
<1>4. ~ NoComputedCallee
  <2>1. SUFFICES ASSUME NoComputedCallee
                 PROVE  FALSE
    OBVIOUS
  <2>2. c \in laid
    BY <1>1, <2>1, ReachedIsLaid
  <2>3. off[c] + Arity(c) <= size
    BY <2>2 DEF Inv, LInv, WindowsAreDisjoint
  <2>4. off[c] \in Nat /\ size \in Nat /\ Arity(c) \in Nat
    BY <1>1, ProgramTypes DEF Inv, LInv, TypeOK
  <2> QED BY <1>1, <2>3, <2>4
<1>5. NoComputedCallee' => NoComputedCallee
  BY <1>1 DEF NoComputedCallee, Callee
<1> QED BY <1>3, <1>4, <1>5 DEF Inv

LEMMA StoreArgInv ==
  ASSUME Inv, NEW c \in Calls, StoreArg(c)
  PROVE  Inv'
<1>1. /\ stage = "run" /\ at[c] \in 1..Arity(c)
      /\ frame' = [frame EXCEPT ![off[c] + at[c] - 1] = <<c, at[c]>>]
      /\ at' = [at EXCEPT ![c] = @ + 1]
      /\ UNCHANGED <<prog, stage, layoutVars, received>>
      /\ prog \in Programs /\ at \in [Calls -> Nat] /\ size \in Nat
      /\ off \in [Calls -> 0..size]
      /\ frame \in [0..(size - 1) -> Values \cup {Unset}]
  BY DEF StoreArg, Inv, LInv, TypeOK
<1>2. \A d \in Calls : Arity(d) \in Nat /\ Arity(d)' = Arity(d)
  BY <1>1, ProgramTypes DEF Arity, Args
<1>3. at'[c] = at[c] + 1 /\ at[c] \in Nat /\ \A d \in Calls : d # c => at'[d] = at[d]
  BY <1>1
<1>4. TypeOK' /\ (at \in [Calls -> Nat])'
  <2>1. frame' \in [0..(size - 1) -> Values \cup {Unset}]
    <3>1. <<c, at[c]>> \in Values
      BY <1>3 DEF Values
    <3> QED BY <1>1, <3>1
  <2>2. \A d \in Calls : at'[d] \in 0..(Arity(d)' + 2)
    BY <1>1, <1>2, <1>3 DEF Inv, LInv, TypeOK
  <2>3. at' \in [Calls -> Nat]
    BY <1>1, <1>3
  <2> QED BY <1>1, <2>1, <2>2, <2>3 DEF Inv, LInv, TypeOK, layoutVars
<1>5. LInv'
  BY <1>1, <1>4, LayoutKept
<1>6. ASSUME NoComputedCallee
      PROVE  AInv'
  <2>1. Started'
    BY <1>1, <1>3, <1>6 DEF Inv, AInv, Started, layoutVars
  <2>2. c \in laid /\ off[c] + Arity(c) <= size
    BY <1>1, <1>3, <1>6 DEF Inv, AInv, Started, LInv, WindowsAreDisjoint
  <2>3. Filled'
    <3>1. SUFFICES ASSUME NEW d \in Calls, Running(d)', NEW k \in 1..Arity(d), k < at'[d]
                   PROVE  frame'[off[d] + k - 1] = <<d, k>>
      BY <1>1, <1>2 DEF Filled, layoutVars
    <3>2. k \in Nat /\ off[d] \in Nat /\ off[c] \in Nat /\ at[d] \in Nat
      BY <1>1
    <3>3. CASE d = c
      <4>1. off[c] + k - 1 \in 0..(size - 1)
        BY <1>1, <1>2, <2>2, <3>1, <3>2, <3>3
      <4>2. CASE k = at[c]
        BY <1>1, <3>3, <4>1, <4>2
      <4>3. CASE k # at[c]
        <5>1. k < at[c] /\ Running(c)
          BY <1>1, <1>2, <1>3, <3>1, <3>2, <3>3, <4>3 DEF Running
        <5>2. frame[off[c] + k - 1] = <<c, k>>
          BY <1>6, <3>1, <3>3, <5>1 DEF Inv, AInv, Filled
        <5>3. off[c] + k - 1 # off[c] + at[c] - 1
          BY <3>2, <3>3, <4>3
        <5> QED BY <1>1, <3>3, <4>1, <5>2, <5>3
      <4> QED BY <4>2, <4>3
    <3>4. CASE d # c
      <4>1. Running(d) /\ k < at[d]
        BY <1>2, <1>3, <3>1, <3>4 DEF Running
      <4>2. frame[off[d] + k - 1] = <<d, k>>
        BY <1>6, <3>1, <4>1 DEF Inv, AInv, Filled
      <4>3. d \in laid /\ off[d] + Arity(d) <= size
        BY <1>2, <1>6, <4>1 DEF Inv, AInv, Started, Running, LInv, WindowsAreDisjoint
      <4>4. off[d] + k - 1 \in Window(d) /\ off[d] + k - 1 \in 0..(size - 1)
        <5>1. k \in 1..Arity(d) /\ Arity(d) \in Nat /\ size \in Nat
          BY <1>1, <1>2, <3>1
        <5> QED BY <3>2, <4>3, <5>1 DEF Window
      <4>5. off[c] + at[c] - 1 \in Window(c)
        BY <1>1, <1>2, <3>2 DEF Window
      <4>6. Window(c) \cap Window(d) = {}
        BY <2>2, <3>4, <4>3 DEF Inv, LInv, WindowsAreDisjoint
      <4>7. off[d] + k - 1 # off[c] + at[c] - 1
        BY <4>4, <4>5, <4>6
      <4> QED BY <1>1, <4>2, <4>4, <4>7
    <3> QED BY <3>3, <3>4
  <2>4. Arrived'
    BY <1>1, <1>2, <1>3, <1>6 DEF Inv, AInv, Arrived, Done
  <2> QED BY <1>1, <1>6, <2>1, <2>3, <2>4 DEF Inv, AInv
<1>7. NoComputedCallee' => NoComputedCallee
  BY <1>1 DEF NoComputedCallee, Callee
<1> QED BY <1>5, <1>6, <1>7 DEF Inv

LEMMA FailInv ==
  ASSUME Inv, NEW c \in Calls, Fail(c)
  PROVE  Inv'
<1>1. /\ stage = "run" /\ stage' = "failed"
      /\ UNCHANGED <<prog, layoutVars, frame, at, received>>
  BY DEF Fail
<1>2. TypeOK' /\ (at \in [Calls -> Nat])'
  BY <1>1 DEF Inv, LInv, TypeOK, layoutVars, Arity, Args
<1>3. LInv'
  BY <1>1, <1>2, LayoutKept
<1>4. (NoComputedCallee => AInv)'
  BY <1>1 DEF Inv, NoComputedCallee, AInv, Started, Filled, Arrived, Running, Done, Arity,
     Args, Callee, layoutVars
<1> QED BY <1>3, <1>4 DEF Inv

LEMMA InvokeInv ==
  ASSUME Inv, NEW c \in Calls, Invoke(c)
  PROVE  Inv'
<1>1. /\ stage = "run" /\ at[c] = Arity(c) + 1 /\ stage' \in {"run", "failed"}
      /\ received' = [received EXCEPT ![c] = [k \in 1..Arity(c) |-> frame[off[c] + k - 1]]]
      /\ at' = [at EXCEPT ![c] = @ + 1]
      /\ UNCHANGED <<prog, layoutVars, frame>>
      /\ prog \in Programs /\ at \in [Calls -> Nat]
  BY DEF Invoke, Inv, LInv, TypeOK
<1>2. \A d \in Calls : Arity(d) \in Nat /\ Arity(d)' = Arity(d)
  BY <1>1, ProgramTypes DEF Arity, Args
<1>3. at'[c] = Arity(c) + 2 /\ \A d \in Calls : d # c => at'[d] = at[d]
  BY <1>1, <1>2
<1>4. TypeOK' /\ (at \in [Calls -> Nat])'
  BY <1>1, <1>2, <1>3 DEF Inv, LInv, TypeOK, layoutVars
<1>5. LInv'
  BY <1>1, <1>4, LayoutKept
<1>6. ASSUME NoComputedCallee
      PROVE  AInv'
  <2>1. Started'
    BY <1>1, <1>2, <1>3, <1>6 DEF Inv, AInv, Started, layoutVars
  <2>2. Filled'
    <3>1. SUFFICES ASSUME NEW d \in Calls, Running(d)', NEW k \in 1..Arity(d), k < at'[d]
                   PROVE  frame[off[d] + k - 1] = <<d, k>>
      BY <1>1, <1>2 DEF Filled, layoutVars
    <3>2. d # c
      BY <1>2, <1>3, <3>1 DEF Running
    <3>3. Running(d) /\ k < at[d]
      BY <1>2, <1>3, <3>1, <3>2 DEF Running
    <3> QED BY <1>6, <3>1, <3>3 DEF Inv, AInv, Filled
  <2>3. Arrived'
    <3>1. SUFFICES ASSUME NEW d \in Calls, Done(d)'
                   PROVE  received'[d] = [k \in 1..Arity(d) |-> <<d, k>>]
      BY <1>2 DEF Arrived
    <3>2. CASE d = c
      <4>1. \A k \in 1..Arity(c) : frame[off[c] + k - 1] = <<c, k>>
        <5>1. Running(c) /\ \A k \in 1..Arity(c) : k < at[c]
          BY <1>1, <1>2 DEF Running
        <5>2. Filled
          BY <1>6 DEF Inv, AInv
        <5> QED BY <5>1, <5>2 DEF Filled
      <4>2. received'[c] = [k \in 1..Arity(c) |-> frame[off[c] + k - 1]]
        BY <1>1 DEF Inv, LInv, TypeOK
      <4> QED BY <3>2, <4>1, <4>2
    <3>3. CASE d # c
      BY <1>1, <1>2, <1>3, <1>6, <3>1, <3>3 DEF Inv, AInv, Arrived, Done
    <3> QED BY <3>2, <3>3
  <2> QED BY <1>1, <2>1, <2>2, <2>3 DEF AInv
<1>7. NoComputedCallee' => NoComputedCallee
  BY <1>1 DEF NoComputedCallee, Callee
<1> QED BY <1>5, <1>6, <1>7 DEF Inv

LEMMA StepInv == Inv /\ [Next]_vars => Inv'
<1> SUFFICES ASSUME Inv, [Next]_vars
             PROVE  Inv'
  OBVIOUS
<1>1. CASE AssignFrame
  BY <1>1, AssignFrameInv
<1>2. CASE AssignArgEnds
  BY <1>2, AssignArgEndsInv
<1>3. CASE Run
  BY <1>3, RunInv
<1>4. ASSUME NEW c \in Calls, Start(c)
      PROVE  Inv'
  BY <1>4, StartInv
<1>5. ASSUME NEW c \in Calls, StartOutside(c)
      PROVE  Inv'
  BY <1>5, StartOutsideInv
<1>6. ASSUME NEW c \in Calls, StoreArg(c)
      PROVE  Inv'
  BY <1>6, StoreArgInv
<1>7. ASSUME NEW c \in Calls, Fail(c)
      PROVE  Inv'
  BY <1>7, FailInv
<1>8. ASSUME NEW c \in Calls, Invoke(c)
      PROVE  Inv'
  BY <1>8, InvokeInv
<1>9. CASE UNCHANGED vars
  BY <1>9 DEF vars, layoutVars, Inv, LInv, AInv, TypeOK, WindowsAreDisjoint, Window, LayoutInv,
     Covered, Held, Started, Filled, Arrived, NoComputedCallee, Running, Done, Arity, Args, Callee
<1> QED BY <1>1, <1>2, <1>3, <1>4, <1>5, <1>6, <1>7, <1>8, <1>9 DEF Next

\* The invariant holds of every reachable state.
THEOREM InvHolds == Spec => []Inv
<1>1. Init => Inv
  BY InitInv
<1>2. Inv /\ [Next]_vars => Inv'
  BY StepInv
<1> QED BY <1>1, <1>2, PTL DEF Spec

-----------------------------------------------------------------------------
(* The results *)

\* The layout and the run keep their types.
THEOREM TypeCorrect == Spec => []TypeOK
<1>1. Inv => TypeOK
  BY DEF Inv, LInv
<1> QED BY <1>1, InvHolds, PTL

\* Calls that assignFrame reaches have windows of their own, inside the frame,
\* for every program.
THEOREM WindowsNeverOverlap == Spec => []WindowsAreDisjoint
<1>1. Inv => WindowsAreDisjoint
  BY DEF Inv, LInv
<1> QED BY <1>1, InvHolds, PTL

\* Every callee receives the arguments of its call, however the calls and the
\* literals of the program nest, if no callee is computed by a call.
THEOREM EveryArgumentArrives == Spec => []ArgumentsArrive
<1>1. Inv => ArgumentsArrive
  BY DEF Inv, AInv, ArgumentsArrive
<1> QED BY <1>1, InvHolds, PTL

\* Nor does such a program slice the frame past its end.
THEOREM EveryCallIsInside == Spec => []NoCallIsOutside
<1>1. Inv => NoCallIsOutside
  BY DEF Inv, AInv, NoCallIsOutside
<1> QED BY <1>1, InvHolds, PTL
=============================================================================
