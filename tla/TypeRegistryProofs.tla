------------------------- MODULE TypeRegistryProofs -------------------------
(***************************************************************************)
(* TypeRegistry for every type graph, depth, seed and set of bindings.     *)
(*                                                                         *)
(* BindTypeIsFinal is inductive given the types of the variables.  The     *)
(* other two properties speak of the recorded types only, so the invariant *)
(* adds what they need of the calls still to make: CallsAreRooted.  That a *)
(* type is recorded once, which keeps the depth of a parent what its parts *)
(* were called with, takes that a name BindType did not give stays what    *)
(* discover first made it: FirstRecordedStays, which is what the code does *)
(* and not what types.go:17 says of it (LaterBindWins).                    *)
(***************************************************************************)
EXTENDS TypeRegistry, SequenceTheorems, TLAPS

\* A call of discover is for a type the host gave, at level one, or for a part
\* of a type recorded one level above.
CallsAreRooted ==
  \A c \in Pending :
    /\ c.depth = 1 => c.type \in roots
    /\ c.depth > 1 => \E s \in Types : found[s] = c.depth - 1 /\ c.type \in Range(Parts[s])

\* discover does not touch a name that is taken: a type it recorded keeps its
\* name until BindType gives that name away.
FirstRecordedStays ==
  \A t \in Types : found[t] > 0 /\ manual[NameOf[t]] = None => registry[NameOf[t]] = t

NamesStay == BindTypeIsFinal /\ FirstRecordedStays

Inv == TypeOK /\ NamesStay /\ DiscoveryIsClosed /\ DiscoveryIsRooted /\ CallsAreRooted

-----------------------------------------------------------------------------
(* The stack of calls *)

Call == [type : Types, depth : 1..(Depth + 1)]

\* The calls a recorded type makes are for its parts, all at one depth.
LEMMA CallsOfParts ==
  ASSUME NEW t \in Types, NEW d \in 1..(Depth + 1)
  PROVE  /\ Calls(t, d) \in Seq(Call)
         /\ \A c \in Range(Calls(t, d)) : c.depth = d /\ c.type \in Range(Parts[t])
         /\ \A p \in Range(Parts[t]) : [type |-> p, depth |-> d] \in Range(Calls(t, d))
<1>1. Parts[t] \in Seq(Types)
  BY RegistryAssumption
<1>2. /\ Len(Parts[t]) \in Nat /\ DOMAIN Parts[t] = 1..Len(Parts[t])
      /\ \A i \in 1..Len(Parts[t]) : Parts[t][i] \in Types
  BY <1>1
<1>3. Calls(t, d) = [i \in 1..Len(Parts[t]) |-> [type |-> Parts[t][i], depth |-> d]]
  BY <1>2 DEF Calls
<1>4. \A i \in 1..Len(Parts[t]) : [type |-> Parts[t][i], depth |-> d] \in Call
  BY <1>2 DEF Call
<1>5. Calls(t, d) \in Seq(Call)
  BY <1>2, <1>3, <1>4
<1> QED BY <1>2, <1>3, <1>5 DEF Range

-----------------------------------------------------------------------------
(* The steps *)

LEMMA InitInv == Init => Inv
<1> SUFFICES ASSUME Init
             PROVE  Inv
  OBVIOUS
<1>1. TypeOK
  BY RegistryAssumption DEF Init, TypeOK
<1>2. NamesStay /\ DiscoveryIsClosed /\ DiscoveryIsRooted
  BY RegistryAssumption DEF Init, NamesStay, BindTypeIsFinal, FirstRecordedStays,
     DiscoveryIsClosed, DiscoveryIsRooted
<1>3. CallsAreRooted
  BY DEF Init, CallsAreRooted, Pending, Range
<1> QED BY <1>1, <1>2, <1>3 DEF Inv

\* A walk starts with one call, at level one.
LEMMA StartOfWalk ==
  ASSUME NEW t \in Types, walk' = <<[type |-> t, depth |-> 1]>>
  PROVE  /\ walk' \in Seq(Call)
         /\ Pending' = {[type |-> t, depth |-> 1]}
<1>1. [type |-> t, depth |-> 1] \in Call
  BY RegistryAssumption DEF Call
<1> QED BY <1>1 DEF Pending, Range

LEMMA BindInv ==
  ASSUME Inv, NEW t \in Bindable, Bind(t)
  PROVE  Inv'
<1> USE DEF Bind, Discover
<1>1. t \in Types
  BY RegistryAssumption
<1>2. walk' \in Seq(Call) /\ Pending' = {[type |-> t, depth |-> 1]} /\ Pending = {}
  BY <1>1, StartOfWalk DEF Pending, Range
<1>3. TypeOK'
  BY <1>1, <1>2 DEF Inv, TypeOK, Call
<1>4. NamesStay'
  BY DEF Inv, NamesStay, BindTypeIsFinal, FirstRecordedStays
<1>5. DiscoveryIsClosed'
  BY <1>2 DEF Inv, DiscoveryIsClosed, Named
<1>6. DiscoveryIsRooted'
  BY DEF Inv, DiscoveryIsRooted
<1>7. CallsAreRooted'
  BY <1>2 DEF CallsAreRooted
<1> QED BY <1>3, <1>4, <1>5, <1>6, <1>7 DEF Inv

LEMMA BindTypeInv ==
  ASSUME Inv, NEW n \in Names, NEW t \in Types, BindType(n, t)
  PROVE  Inv'
<1> USE DEF BindType, Discover
<1>1. walk' \in Seq(Call) /\ Pending' = {[type |-> t, depth |-> 1]} /\ Pending = {}
  BY StartOfWalk DEF Pending, Range
<1>2. TypeOK'
  BY <1>1 DEF Inv, TypeOK, Call
<1>3. NamesStay'
  BY RegistryAssumption DEF Inv, NamesStay, BindTypeIsFinal, FirstRecordedStays, TypeOK
<1>4. DiscoveryIsClosed'
  <2>1. \A s \in Types : Named(s) => Named(s)'
    BY RegistryAssumption DEF Named, Inv, TypeOK
  <2>2. \A s \in Types : Range(Parts[s]) \subseteq Types
    BY RegistryAssumption DEF Range
  <2> QED BY <1>1, <2>1, <2>2 DEF Inv, DiscoveryIsClosed
<1>5. DiscoveryIsRooted'
  BY DEF Inv, DiscoveryIsRooted
<1>6. CallsAreRooted'
  BY <1>1 DEF CallsAreRooted
<1> QED BY <1>2, <1>3, <1>4, <1>5, <1>6 DEF Inv

\* What is left of the walk when its next call is done.
LEMMA TailRange ==
  ASSUME NEW S, NEW q \in Seq(S), q # <<>>
  PROVE  /\ Head(q) \in S /\ Tail(q) \in Seq(S)
         /\ Range(q) = {Head(q)} \cup Range(Tail(q))
<1>1. /\ Head(q) \in S /\ Tail(q) \in Seq(S) /\ <<Head(q)>> \in Seq(S)
      /\ q = <<Head(q)>> \o Tail(q)
  OBVIOUS
<1>2. Range(<<Head(q)>>) = {Head(q)}
  BY DEF Range
<1>3. Range(<<Head(q)>> \o Tail(q)) = Range(<<Head(q)>>) \cup Range(Tail(q))
  BY <1>1, RangeConcatenation
<1>4. Range(q) = Range(<<Head(q)>> \o Tail(q))
  BY <1>1
<1> QED BY <1>1, <1>2, <1>3, <1>4

LEMMA ReturnInv ==
  ASSUME Inv, Return
  PROVE  Inv'
<1> USE DEF Return
<1>1. walk \in Seq(Call) /\ walk # <<>>
  BY DEF Inv, TypeOK, Call
<1>2. Head(walk) \in Call /\ walk' \in Seq(Call) /\ Pending = {Head(walk)} \cup Pending'
  BY <1>1, TailRange DEF Pending
<1>3. TypeOK'
  BY <1>2 DEF Inv, TypeOK, Call
<1>4. NamesStay'
  BY DEF Inv, NamesStay, BindTypeIsFinal, FirstRecordedStays
\* The call that returns was too deep to count or has nothing left to record.
<1>5. DiscoveryIsClosed'
  <2>1. SUFFICES ASSUME NEW t \in Types, found[t] \in 1..(Depth - 1),
                        NEW p \in Range(Parts[t]), ~ Named(p)
                 PROVE  \E c \in Pending' : c.type = p /\ c.depth <= Depth
    BY DEF DiscoveryIsClosed, Named
  <2>2. PICK c \in Pending : c.type = p /\ c.depth <= Depth
    BY <2>1 DEF Inv, DiscoveryIsClosed
  <2>3. c # Head(walk)
    BY <2>1, <2>2, <1>2, RegistryAssumption DEF Call
  <2> QED BY <1>2, <2>2, <2>3
<1>6. DiscoveryIsRooted'
  BY DEF Inv, DiscoveryIsRooted
<1>7. CallsAreRooted'
  BY <1>2 DEF Inv, CallsAreRooted
<1> QED BY <1>3, <1>4, <1>5, <1>6, <1>7 DEF Inv

LEMMA RecordInv ==
  ASSUME Inv, Record
  PROVE  Inv'
<1> DEFINE t == Head(walk).type
           d == Head(walk).depth
<1>1. walk \in Seq(Call) /\ walk # <<>>
  BY DEF Inv, TypeOK, Call, Record
<1>2. /\ Head(walk) \in Call /\ Tail(walk) \in Seq(Call)
      /\ Pending = {Head(walk)} \cup Range(Tail(walk))
  BY <1>1, TailRange DEF Pending
<1>3. t \in Types /\ d \in 1..Depth /\ d + 1 \in 1..(Depth + 1)
  BY <1>2, RegistryAssumption DEF Call, Record
<1>4. /\ registry' = [registry EXCEPT ![NameOf[t]] = t]
      /\ found' = [found EXCEPT ![t] = d]
      /\ walk' = Calls(t, d + 1) \o Tail(walk)
      /\ roots' = roots /\ manual' = manual
      /\ registry[NameOf[t]] = None
  BY DEF Record, Named
<1>5. /\ walk' \in Seq(Call)
      /\ Pending' = Range(Calls(t, d + 1)) \cup Range(Tail(walk))
  <2>1. Calls(t, d + 1) \in Seq(Call)
    BY <1>3, CallsOfParts
  <2>2. /\ Calls(t, d + 1) \o Tail(walk) \in Seq(Call)
        /\ Range(Calls(t, d + 1) \o Tail(walk))
             = Range(Calls(t, d + 1)) \cup Range(Tail(walk))
    <3>1. \A S : \A p, q \in Seq(S) : p \o q \in Seq(S)
      OBVIOUS
    <3>2. \A p, q \in Seq(Call) : Range(p \o q) = Range(p) \cup Range(q)
      BY RangeConcatenation
    <3> QED BY <1>2, <2>1, <3>1, <3>2
  <2> QED BY <1>4, <2>2 DEF Pending
\* A type is recorded once: the second time its name is taken.
<1>6. found[t] = 0 /\ manual[NameOf[t]] = None
  <2>1. /\ found[t] \in 0..Depth /\ NameOf[t] \in Names
        /\ manual[NameOf[t]] \in Types \cup {None} /\ None \notin Types
    BY <1>3, RegistryAssumption DEF Inv, TypeOK
  <2> QED BY <1>3, <1>4, <2>1 DEF Inv, NamesStay, BindTypeIsFinal, FirstRecordedStays
<1>7. TypeOK'
  <2>1. registry' \in [Names -> Types \cup {None}] /\ found' \in [Types -> 0..Depth]
    <3>1. d \in 0..Depth
      BY <1>3, RegistryAssumption
    <3> HIDE DEF t, d
    <3> QED BY <1>3, <1>4, <3>1 DEF Inv, TypeOK
  <2>2. walk' \in Seq([type : Types, depth : 1..(Depth + 1)])
    BY <1>5 DEF Call
  <2> QED BY <1>4, <2>1, <2>2 DEF Inv, TypeOK
<1>8. NamesStay'
  <2>1. \A n \in Names : manual[n] # None => registry'[n] = manual[n]
    BY <1>4, <1>6, RegistryAssumption DEF Inv, TypeOK, NamesStay, BindTypeIsFinal, FirstRecordedStays
  <2>2. SUFFICES ASSUME NEW s \in Types, found'[s] > 0, manual[NameOf[s]] = None
                 PROVE  registry'[NameOf[s]] = s
    BY <1>4, <2>1 DEF NamesStay, BindTypeIsFinal, FirstRecordedStays
  <2>3. CASE s = t
    BY <1>3, <1>4, <2>3, RegistryAssumption DEF Inv, TypeOK
  <2>4. CASE s # t
    <3>1. registry[NameOf[s]] = s /\ s # None
      BY <1>4, <2>2, <2>4, RegistryAssumption DEF Inv, NamesStay, BindTypeIsFinal, FirstRecordedStays, TypeOK
    <3> QED BY <1>4, <3>1, RegistryAssumption DEF Inv, TypeOK
  <2> QED BY <2>3, <2>4
<1>9. DiscoveryIsClosed'
  <2>1. SUFFICES ASSUME NEW s \in Types, found'[s] \in 1..(Depth - 1),
                        NEW p \in Range(Parts[s]), ~ Named(p)'
                 PROVE  \E c \in Pending' : c.type = p /\ c.depth <= Depth
    BY DEF DiscoveryIsClosed
  <2>2. CASE s = t
    <3>1. found'[s] = d
      BY <1>3, <1>4, <2>2 DEF Inv, TypeOK
    <3>2. [type |-> p, depth |-> d + 1] \in Pending' /\ d + 1 <= Depth
      BY <1>3, <1>5, <2>1, <2>2, <3>1, CallsOfParts, RegistryAssumption
    <3> QED BY <3>2
  <2>3. CASE s # t
    <3>1. p \in Types
      BY <2>1, RegistryAssumption DEF Range
    <3>2. ~ Named(p) /\ p # t
      BY <1>3, <1>4, <2>1, <3>1, RegistryAssumption DEF Named, Inv, TypeOK
    <3>3. PICK c \in Pending : c.type = p /\ c.depth <= Depth
      BY <1>4, <2>1, <2>3, <3>2 DEF Inv, DiscoveryIsClosed
    <3> QED BY <1>2, <1>5, <3>2, <3>3
  <2> QED BY <2>2, <2>3
\* What was recorded stays recorded at the same depth.
<1>10. \A s \in Types : found[s] > 0 => found'[s] = found[s]
  BY <1>4, <1>6
<1>11. \A s \in Types : found[s] \in 0..Depth
  BY DEF Inv, TypeOK
<1>12. ASSUME NEW s \in Types, NEW k \in 2..(Depth + 1),
              \E r \in Types : found[r] = k - 1 /\ s \in Range(Parts[r])
       PROVE  \E r \in Types : found'[r] = k - 1 /\ s \in Range(Parts[r])
  <2>1. PICK r \in Types : found[r] = k - 1 /\ s \in Range(Parts[r])
    BY <1>12
  <2>2. found[r] > 0
    BY <2>1, <1>12
  <2> QED BY <1>10, <2>1, <2>2
<1>13. DiscoveryIsRooted'
  <2>1. SUFFICES ASSUME NEW s \in Types
                 PROVE  /\ found'[s] = 1 => s \in roots
                        /\ found'[s] > 1 => \E r \in Types :
                             found'[r] = found'[s] - 1 /\ s \in Range(Parts[r])
    BY <1>4 DEF DiscoveryIsRooted
  <2>2. CASE s = t
    <3>1. found'[s] = d
      BY <1>3, <1>4, <2>2 DEF Inv, TypeOK
    <3>2. d = 1 => t \in roots
      BY <1>2 DEF Inv, CallsAreRooted
    <3>3. d > 1 => \E r \in Types : found[r] = d - 1 /\ t \in Range(Parts[r])
      BY <1>2 DEF Inv, CallsAreRooted
    <3>4. d > 1 => d \in 2..(Depth + 1)
      BY <1>3, RegistryAssumption
    <3> QED BY <2>2, <3>1, <3>2, <3>3, <3>4, <1>12, <1>3
  <2>3. CASE s # t
    <3>1. found'[s] = found[s] /\ found[s] \in 0..Depth
      BY <1>4, <1>11, <2>3
    <3>2. found[s] > 1 => found[s] \in 2..(Depth + 1)
      BY <3>1, RegistryAssumption
    <3>3. found[s] = 1 => s \in roots
      BY DEF Inv, DiscoveryIsRooted
    <3>4. found[s] > 1 => \E r \in Types : found[r] = found[s] - 1 /\ s \in Range(Parts[r])
      BY DEF Inv, DiscoveryIsRooted
    <3> QED BY <3>1, <3>2, <3>3, <3>4, <1>12
  <2> QED BY <2>2, <2>3
<1>14. CallsAreRooted'
  <2>1. SUFFICES ASSUME NEW c \in Pending'
                 PROVE  /\ c.depth = 1 => c.type \in roots
                        /\ c.depth > 1 => \E r \in Types :
                             found'[r] = c.depth - 1 /\ c.type \in Range(Parts[r])
    BY <1>4 DEF CallsAreRooted
  <2>2. CASE c \in Range(Tail(walk))
    <3>1. c \in Pending /\ c \in Call
      <4>1. c \in Pending
        BY <1>2, <2>2
      <4> QED BY <1>1, <4>1 DEF Pending, Range
    <3>2. c.depth > 1 => c.depth \in 2..(Depth + 1)
      BY <3>1, RegistryAssumption DEF Call
    <3>3. c.type \in Types
      BY <3>1 DEF Call
    <3>4. /\ c.depth = 1 => c.type \in roots
          /\ c.depth > 1 => \E r \in Types : found[r] = c.depth - 1 /\ c.type \in Range(Parts[r])
      BY <3>1 DEF Inv, CallsAreRooted
    <3> QED BY <3>2, <3>3, <3>4, <1>12
  <2>3. CASE c \in Range(Calls(t, d + 1))
    <3>1. c.depth = d + 1 /\ c.type \in Range(Parts[t])
      BY <1>3, <2>3, CallsOfParts
    <3>2. found'[t] = d
      BY <1>3, <1>4 DEF Inv, TypeOK
    <3> QED BY <1>3, <3>1, <3>2
  <2> QED BY <1>5, <2>1, <2>2, <2>3
<1> QED BY <1>7, <1>8, <1>9, <1>13, <1>14 DEF Inv

LEMMA StepInv == Inv /\ [Next]_vars => Inv'
<1> SUFFICES ASSUME Inv, [Next]_vars
             PROVE  Inv'
  OBVIOUS
<1>1. ASSUME NEW t \in Bindable, Bind(t)
      PROVE  Inv'
  BY <1>1, BindInv
<1>2. ASSUME NEW r \in Renamings, BindType(r[1], r[2])
      PROVE  Inv'
  <2>1. r[1] \in Names /\ r[2] \in Types
    BY RegistryAssumption
  <2> QED BY <1>2, <2>1, BindTypeInv
<1>3. CASE Return
  BY <1>3, ReturnInv
<1>4. CASE Record
  BY <1>4, RecordInv
<1>5. CASE UNCHANGED vars
  BY <1>5 DEF vars, Inv, TypeOK, NamesStay, BindTypeIsFinal, FirstRecordedStays,
     DiscoveryIsClosed, DiscoveryIsRooted, CallsAreRooted, Pending, Named
<1> QED BY <1>1, <1>2, <1>3, <1>4, <1>5 DEF Next

\* The invariant holds of every reachable state.
THEOREM InvHolds == Spec => []Inv
<1>1. Init => Inv
  BY InitInv
<1>2. Inv /\ [Next]_vars => Inv'
  BY StepInv
<1> QED BY <1>1, <1>2, PTL DEF Spec

-----------------------------------------------------------------------------
(* The results *)

\* The walk never goes below its depth bound, whatever it is given.
THEOREM TypeCorrect == Spec => []TypeOK
<1>1. Inv => TypeOK
  BY DEF Inv
<1> QED BY <1>1, InvHolds, PTL

\* No part of a type recorded above the last level is forgotten, for every
\* type graph, recursive ones and those with colliding names included.
THEOREM WalksForgetNothing == Spec => []DiscoveryIsClosed
<1>1. Inv => DiscoveryIsClosed
  BY DEF Inv
<1> QED BY <1>1, InvHolds, PTL

\* Nothing is recorded that is further than the depth bound from a type the
\* host gave.
THEOREM WalksStayInReach == Spec => []DiscoveryIsRooted
<1>1. Inv => DiscoveryIsRooted
  BY DEF Inv
<1> QED BY <1>1, InvHolds, PTL

\* BindType settles a collision for good: no sequence of later Binds and
\* BindTypes of other names changes what the name means.
THEOREM BindTypeLasts == Spec => []BindTypeIsFinal
<1>1. Inv => BindTypeIsFinal
  BY DEF Inv, NamesStay
<1> QED BY <1>1, InvHolds, PTL
=============================================================================
