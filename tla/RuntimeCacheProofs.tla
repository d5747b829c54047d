------------------------- MODULE RuntimeCacheProofs -------------------------
(***************************************************************************)
(* Proofs about RuntimeCache, for every number of goroutines, bindings,    *)
(* sources and binds.                                                      *)
(***************************************************************************)
EXTENDS RuntimeCache, TLAPS

ReadSections == {"lookup", "compile", "types"}
WriteSections == {"store", "bind", "discover", "type"}
OutsideLocks == {"idle", "parse", "next", "lock"}

Locals ==
  /\ pc \in [Clients -> ReadSections \cup WriteSections \cup OutsideLocks \cup {"drain"}]
  /\ want \in [Clients -> {"idle", "store", "bind", "type"}]
  /\ arg \in [Clients -> Srcs \cup TypeNames \cup {None}]
  /\ keep \in [Clients -> BOOLEAN]
  /\ snap \in [Clients -> [Names -> Nat]]
  /\ scope \in [Clients -> Seq(Names \cup {None})]
  /\ version \in Nat /\ bindings \in [Names -> Nat] /\ asked \in Nat

(***************************************************************************)
(* The lock.  MapsUnraced is not inductive: it needs the place of every    *)
(* goroutine to say which part of the lock it holds, that nobody waits for *)
(* a free lock, and that who is inside a write section drained the readers.*)
(***************************************************************************)
LockDiscipline ==
  /\ readers \subseteq Clients /\ rwait \subseteq Clients
  /\ writer \in Clients \cup {None}
  /\ readers \cap rwait = {}
  /\ writer = None => rwait = {}
  /\ \A c \in Clients :
       /\ c \in readers \cup rwait <=> pc[c] \in ReadSections
       /\ writer = c <=> pc[c] \in WriteSections \cup {"drain"}
       /\ pc[c] \in WriteSections => readers = {}
       /\ pc[c] \in {"lock", "drain"} => want[c] # "idle"

\* A goroutine on its way to bind a name has one to bind.
BindTarget ==
  \A c \in Clients :
    \/ pc[c] \in {"bind", "discover"}
    \/ pc[c] \in {"lock", "drain"} /\ want[c] = "bind"
    => BindsMore(c)

LInv == Locals /\ LockDiscipline /\ BindTarget

LEMMA InitLInv == Init => LInv
BY RuntimeAssumption DEF Init, LInv, Locals, LockDiscipline, BindTarget, NothingRead,
   ReadSections, WriteSections, OutsideLocks

-----------------------------------------------------------------------------
(* Every step preserves the lock discipline. *)

LEMMA StepLInv == LInv /\ [Next]_vars => LInv'
<1> SUFFICES ASSUME LInv, [Next]_vars
             PROVE  LInv'
  OBVIOUS
<1> USE RuntimeAssumption DEF LInv, Locals, LockDiscipline, BindTarget, BindsMore,
      ReadSections, WriteSections, OutsideLocks, dataVars
<1>0. NothingRead \in [Names -> Nat] /\ <<>> \in Seq(Names \cup {None})
  BY DEF NothingRead
<1>1. CASE UNCHANGED vars
  BY <1>1 DEF vars, lockVars, dataVars, localVars
<1>2. ASSUME NEW c \in Clients, NEW s \in Srcs, CallCompile(c, s)  PROVE LInv'
  BY <1>2 DEF CallCompile, RLock, Goto
<1>3. ASSUME NEW c \in Clients, NEW s \in Srcs, CallSupports(c, s)  PROVE LInv'
  BY <1>3 DEF CallSupports, Goto, lockVars
<1>4. ASSUME NEW c \in Clients, NEW names \in Scopes, CallBind(c, names)  PROVE LInv'
  BY <1>4 DEF CallBind, Goto, lockVars
<1>5. ASSUME NEW c \in Clients, NEW t \in TypeNames, CallBindType(c, t)  PROVE LInv'
  BY <1>5 DEF CallBindType, WantLock, Goto, lockVars
<1>6. ASSUME NEW c \in Clients, CallTypes(c)  PROVE LInv'
  <2>1. CASE writer = None
    BY <1>6, <2>1 DEF CallTypes, RLock, Goto, localVars
  <2>2. CASE writer # None
    <3>1. Locals'
      BY <1>6, <2>2 DEF CallTypes, RLock, Goto, localVars
    <3>2. LockDiscipline'
      BY <1>6, <2>2 DEF CallTypes, RLock, Goto, localVars
    <3>3. BindTarget'
      BY <1>6, <2>2 DEF CallTypes, RLock, Goto, localVars
    <3>4. QED
      BY <3>1, <3>2, <3>3
  <2>3. QED
    BY <2>1, <2>2
<1>7. ASSUME NEW c \in Clients, ClaimLock(c)  PROVE LInv'
  BY <1>7 DEF ClaimLock, Goto, localVars
<1>8. ASSUME NEW c \in Clients, EnterLock(c)  PROVE LInv'
  BY <1>8 DEF EnterLock, Goto, lockVars, localVars
<1>9. ASSUME NEW c \in Clients, LookupHit(c)  PROVE LInv'
  BY <1>0, <1>9 DEF LookupHit, Running, RUnlock, Return, Goto
<1>10. ASSUME NEW c \in Clients, LookupMiss(c)  PROVE LInv'
  BY <1>10 DEF LookupMiss, Running, RUnlock, Goto, localVars
<1>11. ASSUME NEW c \in Clients, ParseFails(c)  PROVE LInv'
  BY <1>0, <1>11 DEF ParseFails, Return, Goto, lockVars
<1>12. ASSUME NEW c \in Clients, ParseDone(c)  PROVE LInv'
  <2>1. CASE writer = None
    BY <1>12, <2>1 DEF ParseDone, RLock, Goto, localVars
  <2>2. CASE writer # None
    <3>1. Locals'
      BY <1>12, <2>2 DEF ParseDone, RLock, Goto, localVars
    <3>2. LockDiscipline'
      BY <1>12, <2>2 DEF ParseDone, RLock, Goto, localVars
    <3>3. BindTarget'
      BY <1>12, <2>2 DEF ParseDone, RLock, Goto, localVars
    <3>4. QED
      BY <3>1, <3>2, <3>3
  <2>3. QED
    BY <2>1, <2>2
<1>13. ASSUME NEW c \in Clients, NEW n \in Names, ReadBinding(c, n)  PROVE LInv'
  BY <1>13 DEF ReadBinding, lockVars
<1>14. ASSUME NEW c \in Clients, CompileFails(c)  PROVE LInv'
  BY <1>0, <1>14 DEF CompileFails, Running, RUnlock, Return, Goto
<1>15. ASSUME NEW c \in Clients, CompilePanics(c)  PROVE LInv'
  BY <1>0, <1>15 DEF CompilePanics, Running, RUnlock, Return, Goto
<1>16. ASSUME NEW c \in Clients, CompileDone(c)  PROVE LInv'
  <2>1. /\ readers' = readers \ {c} /\ UNCHANGED <<rwait, writer>>
        /\ pc[c] = "compile" /\ c \notin rwait
        /\ UNCHANGED <<bindings, version, asked>>
    BY <1>16 DEF CompileDone, Running, RUnlock
  <2>2. CASE keep[c]
    <3>1. WantLock(c, "store") /\ UNCHANGED <<arg, keep, snap, scope>>
      BY <1>16, <2>2, Zenon DEF CompileDone
    <3>2. QED
      BY <2>1, <3>1 DEF WantLock, Goto
  <2>3. CASE ~ keep[c]
    <3>1. Return(c)
      BY <1>16, <2>3, Zenon DEF CompileDone
    <3>2. QED
      BY <1>0, <2>1, <3>1 DEF Return, Goto
  <2>4. QED
    BY <2>2, <2>3
<1>17. ASSUME NEW c \in Clients, Store(c)  PROVE LInv'
  BY <1>0, <1>17 DEF Store, Unlock, Return, Goto
<1>18. ASSUME NEW c \in Clients, ScopeEnds(c)  PROVE LInv'
  BY <1>0, <1>18 DEF ScopeEnds, Return, Goto, lockVars
<1>19. ASSUME NEW c \in Clients, BindNext(c)  PROVE LInv'
  BY <1>19 DEF BindNext, WantLock, Goto, lockVars
<1>20. ASSUME NEW c \in Clients, SetBinding(c)  PROVE LInv'
  <2>1. bindings' \in [Names -> Nat] /\ version' \in Nat
    BY <1>20 DEF SetBinding
  <2>2. BindsMore(c) /\ pc[c] = "bind"
    BY <1>20 DEF SetBinding
  <2>3. QED
    BY <1>20, <2>1, <2>2 DEF SetBinding, Goto, lockVars, localVars
<1>21. ASSUME NEW c \in Clients, Discover(c)  PROVE LInv'
  <2>1. scope[c] \in Seq(Names \cup {None}) /\ scope[c] # <<>>
    BY <1>21 DEF Discover
  <2>2. scope' \in [Clients -> Seq(Names \cup {None})]
    BY <1>21, <2>1 DEF Discover
  <2>3. QED
    BY <1>21, <2>2 DEF Discover, Unlock, Goto
<1>22. ASSUME NEW c \in Clients, SetType(c)  PROVE LInv'
  BY <1>0, <1>22 DEF SetType, Unlock, Return, Goto
<1>23. ASSUME NEW c \in Clients, TypesDone(c)  PROVE LInv'
  BY <1>0, <1>23 DEF TypesDone, Running, RUnlock, Return, Goto
<1>24. QED
  BY <1>1, <1>2, <1>3, <1>4, <1>5, <1>6, <1>7, <1>8, <1>9, <1>10, <1>11, <1>12, <1>13,
     <1>14, <1>15, <1>16, <1>17, <1>18, <1>19, <1>20, <1>21, <1>22, <1>23
     DEF Next, Call, Step

LEMMA LockInvariance == Spec => []LInv
BY InitLInv, StepLInv, PTL DEF Spec

\* No goroutine changes a map of the runtime while another changes or reads
\* one (runtime.go:78-88, 97-105, 146-147, 176-178, 188-190, 203-205).
THEOREM MapsNeverRace == Spec => []MapsUnraced
<1>1. LInv => MapsUnraced
  <2> SUFFICES ASSUME LInv, NEW c \in Writing
               PROVE  Writing = {c} /\ Reading = {}
    BY DEF MapsUnraced
  <2>1. c \in Clients /\ writer = c /\ readers = {}
    BY DEF LInv, LockDiscipline, Writing, WriteSections
  <2>2. Writing = {c}
    BY <2>1 DEF LInv, LockDiscipline, Writing, WriteSections
  <2>3. Reading = {}
    BY <2>1 DEF LInv, LockDiscipline, Reading, Running, ReadSections
  <2>4. QED
    BY <2>2, <2>3
<1>2. QED
  BY <1>1, LockInvariance, PTL

\* Every path out of a call, a compiler panic included, gives back its lock
\* (the deferred RUnlocks of runtime.go:147 and 204).
THEOREM NoLockIsLeaked == Spec => []IdleHoldsNoLock
<1>1. LInv => IdleHoldsNoLock
  BY DEF LInv, LockDiscipline, IdleHoldsNoLock, ReadSections, WriteSections
<1>2. QED
  BY <1>1, LockInvariance, PTL

-----------------------------------------------------------------------------
(***************************************************************************)
(* The data.  That a compilation reads the bindings of one moment is the   *)
(* conjunct ReadsArePresent: while a compiler holds the read lock no Bind  *)
(* can pass, so what it has read is still what the bindings hold.          *)
(***************************************************************************)
Building(c) ==
  \/ pc[c] = "store"
  \/ pc[c] \in {"lock", "drain"} /\ want[c] = "store"

Typing(c) ==
  \/ pc[c] = "type"
  \/ pc[c] \in {"lock", "drain"} /\ want[c] = "type"

CallArguments ==
  \A c \in Clients :
    /\ pc[c] \in {"lookup", "parse", "compile"} \/ Building(c) => arg[c] \in Srcs
    /\ Typing(c) => arg[c] \in TypeNames

ReadsArePresent ==
  \A c \in Clients :
    /\ snap[c] \in [Names -> 0..version]
    /\ pc[c] = "compile" => \A n \in Names : snap[c][n] \in {0, bindings[n]}
    /\ Building(c) => \A n \in Uses[arg[c]] : snap[c][n] # 0
    /\ snap[c] # NothingRead => Building(c) \/ (pc[c] = "compile" /\ c \in readers)

\* The conjuncts of TypeOK about the programs that calls left behind.
Held ==
  /\ cache \in [Srcs -> MaybeProgram(version)]
  /\ \A s \in Srcs : cache[s] \in ProgramsOf(s, version) \cup {NoProgram}
  /\ got \in [Clients -> MaybeProgram(version)]

DInv == TypeOK /\ CallArguments /\ ReadsArePresent

IInv == LInv /\ DInv

LEMMA InitIInv == Init => IInv
<1> SUFFICES ASSUME Init
             PROVE  DInv
  BY InitLInv DEF IInv
<1>0. version = 0 /\ 0 \in 0..0 /\ version \in Nat
  BY DEF Init
<1>1. TypeOK
  <2>1. bindings \in [Names -> 0..version]
    BY <1>0 DEF Init
  <2>2. NoProgram \in MaybeProgram(version)
    BY DEF MaybeProgram
  <2>3. Held
    BY <2>2 DEF Init, Held
  <2>4. /\ readers \subseteq Clients /\ rwait \subseteq Clients
        /\ writer \in Clients \cup {None}
        /\ asked \in Nat /\ types \subseteq TypeNames
    BY DEF Init
  <2>5. QED
    BY <1>0, <2>1, <2>3, <2>4 DEF TypeOK, Held
<1>2. CallArguments
  BY DEF Init, CallArguments, Building, Typing
<1>3. ReadsArePresent
  <2>1. NothingRead \in [Names -> 0..version] /\ \A n \in Names : NothingRead[n] = 0
    BY <1>0 DEF NothingRead
  <2>2. \A c \in Clients : snap[c] = NothingRead /\ pc[c] = "idle"
    BY DEF Init
  <2>3. QED
    <3> SUFFICES ASSUME NEW c \in Clients
                 PROVE  ReadsArePresent!(c)
      BY Zenon DEF ReadsArePresent
    <3>1. ~ Building(c) /\ pc[c] # "compile"
      BY <2>2 DEF Building
    <3>2. QED
      BY <2>1, <2>2, <3>1
<1>4. QED
  BY <1>1, <1>2, <1>3 DEF DInv

\* A program being built is one TypeOK allows in the cache.
LEMMA BuiltProgram ==
  ASSUME IInv, NEW c \in Clients, Building(c)
  PROVE  /\ arg[c] \in Srcs
         /\ Program(c) \in ProgramsOf(arg[c], version)
<1>1. arg[c] \in Srcs /\ Uses[arg[c]] \subseteq Names
  BY RuntimeAssumption DEF IInv, DInv, CallArguments
<1>2. \A n \in Uses[arg[c]] : snap[c][n] \in 0..version /\ snap[c][n] # 0
  BY <1>1 DEF IInv, DInv, ReadsArePresent
<1>3. version \in Nat
  BY DEF IInv, DInv, TypeOK
<1>4. [n \in Uses[arg[c]] |-> snap[c][n]] \in [Uses[arg[c]] -> 1..version]
  BY <1>2, <1>3
<1>5. QED
  BY <1>1, <1>4 DEF Program, ProgramsOf

\* What Bind made stays a program when there are more bindings.
LEMMA ProgramsGrow ==
  ASSUME NEW v \in Nat, NEW s
  PROVE  ProgramsOf(s, v) \subseteq ProgramsOf(s, v + 1)
<1>1. \A n \in 1..v : n \in 1..(v + 1)
  OBVIOUS
<1>2. \A p : p \in [Uses[s] -> 1..v] => p \in [Uses[s] -> 1..(v + 1)]
  BY <1>1
<1>3. QED
  BY <1>2 DEF ProgramsOf

-----------------------------------------------------------------------------
(* Every step preserves the data invariant. *)

LEMMA StepTypeOK == IInv /\ [Next]_vars => TypeOK'
<1> SUFFICES ASSUME IInv, [Next]_vars
             PROVE  TypeOK'
  OBVIOUS
<1>1. LInv' /\ TypeOK
  BY StepLInv DEF IInv, DInv
<1>2. /\ readers' \subseteq Clients /\ rwait' \subseteq Clients
      /\ writer' \in Clients \cup {None}
      /\ version' \in Nat /\ asked' \in Nat
  BY <1>1 DEF LInv, Locals, LockDiscipline
<1>3. bindings' \in [Names -> 0..version'] /\ types' \subseteq TypeNames /\ Held'
  <2>1. CASE UNCHANGED <<bindings, version, types, cache, got>>
    BY <1>1, <2>1 DEF TypeOK, Held
  <2>2. ASSUME NEW c \in Clients, LookupHit(c)
        PROVE  UNCHANGED <<bindings, version, types>> /\ Held'
    <3>1. arg[c] \in Srcs /\ cache[arg[c]] \in ProgramsOf(arg[c], version)
      BY <2>2 DEF LookupHit, Running, IInv, DInv, CallArguments, TypeOK
    <3>2. UNCHANGED <<bindings, version, types, cache>> /\ got' = [got EXCEPT ![c] = cache[arg[c]]]
      BY <2>2 DEF LookupHit, dataVars
    <3>3. cache[arg[c]] \in MaybeProgram(version)
      BY <3>1 DEF MaybeProgram
    <3>4. QED
      BY <1>1, <3>2, <3>3 DEF TypeOK, Held
  <2>3. ASSUME NEW c \in Clients, Refused(c), UNCHANGED <<bindings, version, types, cache>>
        PROVE  Held'
    <3>1. got' = [got EXCEPT ![c] = NoProgram] \/ got' = got
      <4>1. CASE keep[c]
        BY <2>3, <4>1, Zenon DEF Refused
      <4>2. CASE ~ keep[c]
        BY <2>3, <4>2, Zenon DEF Refused
      <4>3. QED
        BY <4>1, <4>2
    <3>2. NoProgram \in MaybeProgram(version)
      BY DEF MaybeProgram
    <3>3. QED
      BY <1>1, <2>3, <3>1, <3>2 DEF TypeOK, Held
  <2>4. ASSUME NEW c \in Clients, Store(c)
        PROVE  UNCHANGED <<bindings, version, types>> /\ Held'
    <3>1. arg[c] \in Srcs /\ Program(c) \in ProgramsOf(arg[c], version)
      BY <2>4, BuiltProgram DEF Store, Building
    <3>2. Program(c) \in MaybeProgram(version)
      BY <3>1 DEF MaybeProgram
    <3>3. /\ UNCHANGED <<bindings, version, types>>
          /\ got' = [got EXCEPT ![c] = Program(c)]
          /\ cache' = [cache EXCEPT ![arg[c]] = Program(c)]
      BY <2>4 DEF Store
    <3>4. QED
      BY <1>1, <3>1, <3>2, <3>3 DEF TypeOK, Held
  <2>5. ASSUME NEW c \in Clients, SetBinding(c)
        PROVE  bindings' \in [Names -> 0..version'] /\ types' = types /\ Held'
    <3>1. version' = version + 1 /\ version \in Nat /\ UNCHANGED <<types, cache, got>>
      BY <1>1, <2>5 DEF SetBinding, TypeOK
    <3>2. bindings' \in [Names -> 0..version']
      <4>1. \A n \in 0..version : n \in 0..(version + 1)
        BY <3>1
      <4>2. version + 1 \in 0..(version + 1)
        BY <3>1
      <4>3. QED
        BY <1>1, <2>5, <3>1, <4>1, <4>2 DEF SetBinding, TypeOK
    <3>3. \A s \in Srcs : ProgramsOf(s, version) \subseteq ProgramsOf(s, version')
      BY <3>1, ProgramsGrow
    <3>4. MaybeProgram(version) \subseteq MaybeProgram(version')
      BY <3>3 DEF MaybeProgram
    <3>5. QED
      BY <1>1, <3>1, <3>2, <3>3, <3>4 DEF TypeOK, Held
  <2>6. ASSUME NEW c \in Clients, Discover(c)
        PROVE  types' \subseteq TypeNames /\ UNCHANGED <<bindings, version, cache, got>>
    <3>1. Head(scope[c]) \in Names
      BY <2>6 DEF Discover, IInv, LInv, Locals, BindTarget, BindsMore
    <3>2. QED
      BY <1>1, <2>6, <3>1, RuntimeAssumption DEF Discover, TypeOK
  <2>7. ASSUME NEW c \in Clients, SetType(c)
        PROVE  types' \subseteq TypeNames /\ UNCHANGED <<bindings, version, cache, got>>
    BY <1>1, <2>7 DEF SetType, TypeOK, IInv, DInv, CallArguments, Typing
  <2>8. ASSUME NEW c \in Clients, Call(c)
        PROVE  UNCHANGED <<bindings, version, types, cache, got>>
    BY <2>8 DEF Call, CallCompile, CallSupports, CallBind, CallBindType, CallTypes,
       WantLock, dataVars
  <2>9. ASSUME NEW c \in Clients, Step(c)
        PROVE  \/ LookupHit(c) \/ Store(c) \/ SetBinding(c) \/ Discover(c) \/ SetType(c)
               \/ Refused(c) /\ UNCHANGED <<bindings, version, types, cache>>
               \/ UNCHANGED <<bindings, version, types, cache, got>>
    BY <2>9 DEF Step, ClaimLock, EnterLock, LookupMiss, ParseFails, ParseDone, ReadBinding,
       CompileFails, CompilePanics, CompileDone, ScopeEnds, BindNext, TypesDone, dataVars
  <2>10. TypeOK => bindings \in [Names -> 0..version] /\ types \subseteq TypeNames /\ Held
    BY DEF TypeOK, Held
  <2>11. CASE UNCHANGED vars
    BY <2>1, <2>11 DEF vars, dataVars
  <2>12. CASE Next
    <3>1. PICK c \in Clients : Call(c) \/ Step(c)
      BY <2>12 DEF Next
    <3>2. QED
      BY <1>1, <3>1, <2>1, <2>2, <2>3, <2>4, <2>5, <2>6, <2>7, <2>8, <2>9, <2>10 DEF Held
  <2>13. QED
    BY <2>11, <2>12
<1>4. QED
  BY <1>2, <1>3 DEF TypeOK, Held

\* What CompileDone does to its own goroutine, for each of its two callers.
LEMMA CompileDoneCases ==
  ASSUME LInv, NEW c \in Clients, CompileDone(c)
  PROVE  /\ pc[c] = "compile" /\ c \notin rwait /\ Unread(c) = {}
         /\ NeedsTypes[arg[c]] \subseteq types
         /\ RUnlock(c) /\ UNCHANGED <<dataVars, got, asked>>
         /\ \/ WantLock(c, "store") /\ keep[c] /\ UNCHANGED <<arg, keep, snap, scope>>
            \/ Return(c)
<1>1. CASE keep[c]
  BY <1>1, Zenon DEF CompileDone, Running
<1>2. CASE ~ keep[c]
  BY <1>2, Zenon DEF CompileDone, Running
<1>3. QED
  BY <1>1, <1>2

LEMMA StepCallArguments == IInv /\ [Next]_vars => CallArguments'
<1> SUFFICES ASSUME IInv, [Next]_vars
             PROVE  CallArguments'
  OBVIOUS
<1>0. LInv /\ LInv' /\ TypeOK /\ CallArguments /\ ReadsArePresent
  BY StepLInv DEF IInv, DInv
<1> USE DEF CallArguments, Building, Typing, dataVars
<1>1. CASE UNCHANGED vars
  BY <1>0, <1>1 DEF vars, lockVars, localVars
<1>2. ASSUME NEW c \in Clients, NEW s \in Srcs, CallCompile(c, s)  PROVE CallArguments'
  BY <1>0, <1>2 DEF CallCompile, RLock, Goto, LInv, Locals
<1>3. ASSUME NEW c \in Clients, NEW s \in Srcs, CallSupports(c, s)  PROVE CallArguments'
  BY <1>0, <1>3 DEF CallSupports, Goto, lockVars, LInv, Locals
<1>4. ASSUME NEW c \in Clients, NEW names \in Scopes, CallBind(c, names)  PROVE CallArguments'
  BY <1>0, <1>4 DEF CallBind, Goto, lockVars, LInv, Locals
<1>5. ASSUME NEW c \in Clients, NEW t \in TypeNames, CallBindType(c, t)  PROVE CallArguments'
  BY <1>0, <1>5 DEF CallBindType, WantLock, Goto, lockVars, LInv, Locals
<1>6. ASSUME NEW c \in Clients, CallTypes(c)  PROVE CallArguments'
  BY <1>0, <1>6 DEF CallTypes, RLock, Goto, localVars, LInv, Locals
<1>7. ASSUME NEW c \in Clients, ClaimLock(c)  PROVE CallArguments'
  BY <1>0, <1>7 DEF ClaimLock, Goto, localVars, LInv, Locals
<1>8. ASSUME NEW c \in Clients, EnterLock(c)  PROVE CallArguments'
  BY <1>0, <1>8 DEF EnterLock, Goto, lockVars, localVars, LInv, Locals
<1>9. ASSUME NEW c \in Clients, LookupHit(c)  PROVE CallArguments'
  BY <1>0, <1>9 DEF LookupHit, Running, RUnlock, Return, Goto, LInv, Locals
<1>10. ASSUME NEW c \in Clients, LookupMiss(c)  PROVE CallArguments'
  BY <1>0, <1>10 DEF LookupMiss, Running, RUnlock, Goto, localVars, LInv, Locals
<1>11. ASSUME NEW c \in Clients, ParseFails(c)  PROVE CallArguments'
  BY <1>0, <1>11 DEF ParseFails, Return, Goto, lockVars, LInv, Locals
<1>12. ASSUME NEW c \in Clients, ParseDone(c)  PROVE CallArguments'
  BY <1>0, <1>12 DEF ParseDone, RLock, Goto, localVars, LInv, Locals
<1>13. ASSUME NEW c \in Clients, NEW n \in Names, ReadBinding(c, n)  PROVE CallArguments'
  BY <1>0, <1>13 DEF ReadBinding, Unread, Running, lockVars, LInv, Locals
<1>14. ASSUME NEW c \in Clients, CompileFails(c)  PROVE CallArguments'
  BY <1>0, <1>14 DEF CompileFails, Running, RUnlock, Return, Goto, LInv, Locals
<1>15. ASSUME NEW c \in Clients, CompilePanics(c)  PROVE CallArguments'
  BY <1>0, <1>15 DEF CompilePanics, Running, RUnlock, Return, Goto, LInv, Locals
<1>16. ASSUME NEW c \in Clients, CompileDone(c)  PROVE CallArguments'
  <2>1. CASE Return(c)
    BY <1>0, <2>1 DEF Return, Goto, LInv, Locals
  <2>2. CASE WantLock(c, "store") /\ UNCHANGED arg
    <3>1. pc[c] = "compile"
      BY <1>0, <1>16, CompileDoneCases
    <3>2. QED
      BY <1>0, <2>2, <3>1 DEF WantLock, Goto, LInv, Locals
  <2>3. QED
    BY <1>0, <1>16, <2>1, <2>2, CompileDoneCases
<1>17. ASSUME NEW c \in Clients, Store(c)  PROVE CallArguments'
  BY <1>0, <1>17 DEF Store, Unlock, Return, Goto, LInv, Locals
<1>18. ASSUME NEW c \in Clients, ScopeEnds(c)  PROVE CallArguments'
  BY <1>0, <1>18 DEF ScopeEnds, Return, Goto, lockVars, LInv, Locals
<1>19. ASSUME NEW c \in Clients, BindNext(c)  PROVE CallArguments'
  BY <1>0, <1>19 DEF BindNext, WantLock, Goto, lockVars, LInv, Locals
<1>20. ASSUME NEW c \in Clients, SetBinding(c)  PROVE CallArguments'
  BY <1>0, <1>20 DEF SetBinding, Goto, lockVars, localVars, LInv, Locals
<1>21. ASSUME NEW c \in Clients, Discover(c)  PROVE CallArguments'
  BY <1>0, <1>21 DEF Discover, Unlock, Goto, LInv, Locals
<1>22. ASSUME NEW c \in Clients, SetType(c)  PROVE CallArguments'
  BY <1>0, <1>22 DEF SetType, Unlock, Return, Goto, LInv, Locals
<1>23. ASSUME NEW c \in Clients, TypesDone(c)  PROVE CallArguments'
  BY <1>0, <1>23 DEF TypesDone, Running, RUnlock, Return, Goto, LInv, Locals
<1>24. QED
  BY <1>1, <1>2, <1>3, <1>4, <1>5, <1>6, <1>7, <1>8, <1>9, <1>10, <1>11, <1>12, <1>13, <1>14, <1>15, <1>16, <1>17, <1>18, <1>19, <1>20, <1>21, <1>22, <1>23
     DEF Next, Call, Step

\* A goroutine that takes no step keeps its place, its locals and its lock.
Undisturbed(d) ==
  /\ pc'[d] = pc[d] /\ want'[d] = want[d] /\ arg'[d] = arg[d] /\ snap'[d] = snap[d]
  /\ scope'[d] = scope[d]
  /\ d \in readers => d \in readers'

LEMMA OthersUndisturbed ==
  ASSUME IInv, NEW c \in Clients, Call(c) \/ Step(c), NEW d \in Clients \ {c}
  PROVE  Undisturbed(d)
<1>0. LInv
  BY DEF IInv
<1>1. CASE Call(c)
  BY <1>0, <1>1 DEF Call, CallCompile, CallSupports, CallBind, CallBindType, CallTypes,
     WantLock, RLock, Goto, lockVars, localVars, LInv, Locals, Undisturbed
<1>2. CASE ClaimLock(c) \/ EnterLock(c)
  BY <1>0, <1>2 DEF ClaimLock, EnterLock, Goto, lockVars, localVars, LInv, Locals, Undisturbed
<1>3. CASE LookupHit(c) \/ LookupMiss(c) \/ ParseFails(c) \/ ParseDone(c)
  BY <1>0, <1>3 DEF LookupHit, LookupMiss, ParseFails, ParseDone, RLock, RUnlock, Return, Goto,
     lockVars, localVars, LInv, Locals, Undisturbed
<1>4. CASE \E n \in Names : ReadBinding(c, n)
  BY <1>0, <1>4 DEF ReadBinding, lockVars, LInv, Locals, Undisturbed
<1>5. CASE CompileFails(c) \/ CompilePanics(c) \/ TypesDone(c)
  BY <1>0, <1>5 DEF CompileFails, CompilePanics, TypesDone, RUnlock, Return, Goto,
     LInv, Locals, Undisturbed
<1>6. CASE CompileDone(c)
  <2>1. CASE Return(c)
    BY <1>0, <1>6, <2>1, CompileDoneCases DEF RUnlock, Return, Goto, LInv, Locals, Undisturbed
  <2>2. CASE WantLock(c, "store") /\ UNCHANGED <<arg, keep, snap, scope>>
    BY <1>0, <1>6, <2>2, CompileDoneCases DEF RUnlock, WantLock, Goto, LInv, Locals, Undisturbed
  <2>3. QED
    BY <1>0, <1>6, <2>1, <2>2, CompileDoneCases
<1>7. CASE Store(c) \/ Discover(c) \/ SetType(c)
  <2>1. readers = {}
    BY <1>0, <1>7 DEF Store, Discover, SetType, LInv, LockDiscipline, WriteSections
  <2>2. QED
    BY <1>0, <1>7, <2>1 DEF Store, Discover, SetType, Return, Goto, LInv, Locals, Undisturbed
<1>8. CASE ScopeEnds(c) \/ BindNext(c) \/ SetBinding(c)
  BY <1>0, <1>8 DEF ScopeEnds, BindNext, SetBinding, WantLock, Return, Goto, lockVars, localVars,
     LInv, Locals, Undisturbed
<1>9. QED
  BY <1>1, <1>2, <1>3, <1>4, <1>5, <1>6, <1>7, <1>8 DEF Step

\* What ReadsArePresent says of one goroutine.
Reads(c) ==
  /\ snap[c] \in [Names -> 0..version]
  /\ pc[c] = "compile" => \A n \in Names : snap[c][n] \in {0, bindings[n]}
  /\ Building(c) => \A n \in Uses[arg[c]] : snap[c][n] # 0
  /\ snap[c] # NothingRead => Building(c) \/ (pc[c] = "compile" /\ c \in readers)

\* A goroutine that takes no step keeps what it read, while no Bind passes.
LEMMA UndisturbedReads ==
  ASSUME IInv, NEW d \in Clients, Undisturbed(d), UNCHANGED <<bindings, version>>
  PROVE  Reads(d)'
BY DEF IInv, DInv, ReadsArePresent, Reads, Building, Undisturbed

\* Nothing is wrong with a goroutine that has read nothing and builds nothing.
LEMMA NothingToRead ==
  ASSUME TypeOK', NEW d \in Clients, snap'[d] = NothingRead, ~ Building(d)'
  PROVE  Reads(d)'
<1>1. NothingRead \in [Names -> 0..version'] /\ \A n \in Names : NothingRead[n] = 0
  BY DEF NothingRead, TypeOK
<1>2. QED
  BY <1>1 DEF Reads

LEMMA StepReadsArePresent == IInv /\ [Next]_vars => ReadsArePresent'
<1> SUFFICES ASSUME IInv, [Next]_vars
             PROVE  ReadsArePresent'
  OBVIOUS
<1>0. LInv /\ TypeOK /\ TypeOK' /\ ReadsArePresent
  BY StepTypeOK DEF IInv, DInv
<1>1. CASE UNCHANGED vars
  BY <1>0, <1>1 DEF vars, lockVars, localVars, dataVars, ReadsArePresent, Building
<1>2. CASE Next
  <2>1. PICK c \in Clients : Call(c) \/ Step(c)
    BY <1>2 DEF Next
  <2> DEFINE Blank == snap'[c] = NothingRead /\ ~ Building(c)'
  <2>2. pc[c] \in OutsideLocks \cup {"types"} /\ ~ Building(c) => snap[c] = NothingRead
    BY <1>0 DEF ReadsArePresent, OutsideLocks
  <2>3. \/ UNCHANGED <<bindings, version>> /\ (Blank \/ Undisturbed(c) \/ Reads(c)')
        \/ SetBinding(c)
    <3>1. CASE Call(c)
      <4>1. pc[c] = "idle" /\ pc'[c] # "store" /\ UNCHANGED <<bindings, version, snap>>
        BY <1>0, <3>1 DEF Call, CallCompile, CallSupports, CallBind, CallBindType, CallTypes,
           WantLock, Goto, dataVars, localVars, LInv, Locals
      <4>2. pc'[c] \in {"lock", "drain"} => want'[c] = "type"
        BY <1>0, <3>1 DEF Call, CallCompile, CallSupports, CallBind, CallBindType, CallTypes,
           WantLock, Goto, LInv, Locals
      <4>3. QED
        BY <2>2, <4>1, <4>2 DEF Building, OutsideLocks
    <3>2. CASE ClaimLock(c) \/ EnterLock(c)
      <4>1. UNCHANGED <<bindings, version, snap, arg, want>> /\ pc[c] \in {"lock", "drain"}
        BY <3>2 DEF ClaimLock, EnterLock, dataVars, localVars
      <4>2. Building(c)' <=> Building(c)
        BY <1>0, <3>2, <4>1 DEF ClaimLock, EnterLock, Goto, Building, LInv, Locals
      <4>3. pc'[c] # "compile"
        BY <1>0, <3>2, <4>1 DEF ClaimLock, EnterLock, Goto, LInv, Locals
      <4>4. QED
        BY <1>0, <4>1, <4>2, <4>3 DEF ReadsArePresent, Reads
    <3>3. CASE LookupHit(c) \/ ParseFails(c) \/ CompileFails(c) \/ CompilePanics(c) \/ Store(c)
               \/ ScopeEnds(c) \/ SetType(c) \/ TypesDone(c)
      <4>1. Return(c) /\ UNCHANGED <<bindings, version>>
        BY <3>3 DEF LookupHit, ParseFails, CompileFails, CompilePanics, Store, ScopeEnds,
           SetType, TypesDone, dataVars
      <4>2. QED
        BY <1>0, <4>1 DEF Return, Goto, Building, LInv, Locals
    <3>4. CASE LookupMiss(c) \/ ParseDone(c) \/ BindNext(c) \/ Discover(c)
      <4>1. /\ UNCHANGED <<bindings, version, snap>>
            /\ pc[c] \in {"lookup", "parse", "next", "discover"}
        BY <3>4 DEF LookupMiss, ParseDone, BindNext, Discover, Running, dataVars, localVars
      <4>2. snap[c] = NothingRead
        BY <1>0, <4>1 DEF ReadsArePresent, Building
      <4>3. ~ Building(c)'
        BY <1>0, <3>4 DEF LookupMiss, ParseDone, BindNext, Discover, WantLock, Goto, Building,
           LInv, Locals
      <4>4. QED
        BY <4>1, <4>2, <4>3
    <3>5. ASSUME NEW n \in Names, ReadBinding(c, n)
          PROVE  UNCHANGED <<bindings, version>> /\ Reads(c)'
      <4>1. /\ snap' = [snap EXCEPT ![c][n] = bindings[n]]
            /\ UNCHANGED <<bindings, version, pc, arg, want, readers>>
            /\ pc[c] = "compile" /\ c \in readers
        BY <1>0, <3>5 DEF ReadBinding, Running, dataVars, lockVars, LInv, LockDiscipline, ReadSections
      <4>2. snap'[c] \in [Names -> 0..version]
        BY <1>0, <4>1 DEF ReadsArePresent, TypeOK, LInv, Locals
      <4>3. \A m \in Names : snap'[c][m] \in {0, bindings[m]}
        BY <1>0, <4>1 DEF ReadsArePresent, LInv, Locals
      <4>4. QED
        BY <4>1, <4>2, <4>3 DEF Reads, Building
    <3>6. CASE CompileDone(c)
      <4>1. /\ UNCHANGED <<bindings, version>> /\ Unread(c) = {}
            /\ Return(c) \/ (WantLock(c, "store") /\ UNCHANGED <<arg, snap>>)
        BY <1>0, <3>6, CompileDoneCases DEF dataVars
      <4>2. CASE Return(c)
        BY <1>0, <4>1, <4>2 DEF Return, Goto, Building, LInv, Locals
      <4>3. CASE WantLock(c, "store") /\ UNCHANGED <<arg, snap>>
        <5>1. pc'[c] = "lock" /\ Building(c)'
          BY <1>0, <4>3 DEF WantLock, Goto, Building, LInv, Locals
        <5>2. \A n \in Uses[arg[c]] : snap[c][n] # 0
          BY <4>1 DEF Unread
        <5>3. snap[c] \in [Names -> 0..version]
          BY <1>0 DEF ReadsArePresent
        <5>4. QED
          BY <4>1, <4>3, <5>1, <5>2, <5>3 DEF Reads
      <4>4. QED
        BY <4>1, <4>2, <4>3
    <3>7. QED
      BY <2>1, <3>1, <3>2, <3>3, <3>4, <3>5, <3>6 DEF Step
  <2>4. CASE UNCHANGED <<bindings, version>> /\ (Blank \/ Undisturbed(c) \/ Reads(c)')
    <3>1. \A d \in Clients \ {c} : Reads(d)'
      BY <2>1, <2>4, OthersUndisturbed, UndisturbedReads
    <3>2. Reads(c)'
      BY <1>0, <2>4, NothingToRead, UndisturbedReads
    <3>3. QED
      BY <3>1, <3>2 DEF Reads, ReadsArePresent
  <2>5. CASE SetBinding(c)
    <3>1. /\ UNCHANGED <<snap, arg, want, readers>> /\ pc' = [pc EXCEPT ![c] = "discover"]
          /\ pc[c] = "bind" /\ version' = version + 1 /\ readers = {}
      BY <1>0, <2>5 DEF SetBinding, Goto, lockVars, localVars, LInv, LockDiscipline, WriteSections
    <3>2. \A n \in 0..version : n \in 0..(version + 1)
      BY <1>0 DEF TypeOK
    <3>3. \A d \in Clients : snap[d] \in [Names -> 0..(version + 1)]
      BY <1>0, <3>2 DEF ReadsArePresent
    <3>4. \A d \in Clients : Building(d)' <=> Building(d)
      BY <1>0, <3>1 DEF Building, LInv, Locals
    <3>5. \A d \in Clients : ~ Building(d) => snap[d] = NothingRead
      BY <1>0, <3>1 DEF ReadsArePresent
    <3>6. \A n \in Names : NothingRead[n] = 0
      BY DEF NothingRead
    <3>7. \A d \in Clients : pc'[d] = "compile" => ~ Building(d)
      BY <1>0, <3>1 DEF Building, LInv, Locals
    <3>8. QED
      BY <1>0, <3>1, <3>3, <3>4, <3>5, <3>6, <3>7 DEF ReadsArePresent
  <2>6. QED
    BY <2>3, <2>4, <2>5
<1>3. QED
  BY <1>1, <1>2

LEMMA Invariance == Spec => []IInv
<1>1. IInv /\ [Next]_vars => IInv'
  BY StepLInv, StepTypeOK, StepCallArguments, StepReadsArePresent DEF IInv, DInv
<1>2. QED
  BY InitIInv, <1>1, PTL DEF Spec

\* What the cache and the callers hold was compiled from the source it stands
\* for, against bindings that Bind had made (runtime.go:175-206).
THEOREM TypeCorrect == Spec => []TypeOK
<1>1. IInv => TypeOK
  BY DEF IInv, DInv
<1>2. QED
  BY <1>1, Invariance, PTL

-----------------------------------------------------------------------------
(***************************************************************************)
(* RuntimeCache implements AtomicRuntime.  A Bind takes effect when it     *)
(* sets the binding, with the types its discovery is about to add; a       *)
(* compilation when the compiler returns, still under the read lock.       *)
(***************************************************************************)
Pending == [c \in Clients |-> Built(c)]

LEMMA BuiltIsProgram ==
  ASSUME NEW c \in Clients
  PROVE  /\ Building(c) => Built(c) = Program(c)
         /\ ~ Building(c) => Built(c) = NoProgram
BY DEF Built, Building

LEMMA OneBuilt ==
  ASSUME NEW c \in Clients, \A d \in Clients \ {c} : Undisturbed(d)
  PROVE  Pending' = [Pending EXCEPT ![c] = Built(c)']
<1>1. \A d \in Clients \ {c} : Program(d)' = Program(d)
  BY DEF Program, Undisturbed
<1>2. \A d \in Clients \ {c} : Built(d)' = Built(d)
  BY <1>1 DEF Built, Undisturbed
<1>3. QED
  BY <1>2 DEF Pending

\* The types of a Bind between its two writes are those of one name.
LEMMA OneDiscovered ==
  ASSUME LInv, NEW c \in Clients
  PROVE  /\ pc[c] = "discover" => BeingDiscovered = TypesOf[Head(scope[c])]
         /\ pc[c] \in {"store", "bind", "type"} => BeingDiscovered = {}
<1>1. \A d \in Clients : pc[d] = "discover" => writer = d
  BY DEF LInv, LockDiscipline, WriteSections
<1>2. pc[c] \in WriteSections => writer = c
  BY DEF LInv, LockDiscipline
<1>3. CASE pc[c] = "discover"
  <2>1. {d \in Clients : pc[d] = "discover"} = {c}
    BY <1>1, <1>2, <1>3 DEF WriteSections
  <2>2. BeingDiscovered = UNION {TypesOf[Head(scope[d])] : d \in {c}}
    BY <2>1 DEF BeingDiscovered
  <2>3. QED
    BY <1>3, <2>2
<1>4. CASE pc[c] \in {"store", "bind", "type"}
  <2>1. {d \in Clients : pc[d] = "discover"} = {}
    BY <1>1, <1>2, <1>4 DEF WriteSections
  <2>2. QED
    BY <1>4, <2>1 DEF BeingDiscovered
<1>5. QED
  BY <1>3, <1>4

\* A compiler that holds the read lock sees no Bind between its two writes.
LEMMA NoneDiscovered ==
  ASSUME LInv, readers # {}
  PROVE  BeingDiscovered = {}
<1>1. {d \in Clients : pc[d] = "discover"} = {}
  BY DEF LInv, LockDiscipline, WriteSections
<1>2. QED
  BY <1>1 DEF BeingDiscovered

LEMMA DiscoveredByOne ==
  ASSUME LInv', NEW c \in Clients, pc'[c] = "discover", scope'[c] = scope[c]
  PROVE  BeingDiscovered' = TypesOf[Head(scope[c])]
<1>1. \A d \in Clients : pc'[d] = "discover" => writer' = d
  BY DEF LInv, LockDiscipline, WriteSections
<1>2. {d \in Clients : pc'[d] = "discover"} = {c}
  BY <1>1
<1>3. BeingDiscovered' = UNION {TypesOf[Head(scope'[d])] : d \in {c}}
  BY <1>2 DEF BeingDiscovered
<1>4. QED
  BY <1>3

LEMMA DiscoveredKept ==
  ASSUME NEW c \in Clients, \A d \in Clients \ {c} : Undisturbed(d),
         pc[c] # "discover", pc'[c] # "discover"
  PROVE  BeingDiscovered' = BeingDiscovered
<1>1. {d \in Clients : pc'[d] = "discover"} = {d \in Clients : pc[d] = "discover"}
  BY DEF Undisturbed
<1>2. \A d \in {x \in Clients : pc[x] = "discover"} : scope'[d] = scope[d]
  BY DEF Undisturbed
<1>3. QED
  BY <1>1, <1>2 DEF BeingDiscovered

\* A program built is what AtomicRuntime takes from the present bindings.
LEMMA BuiltIsPresent ==
  ASSUME IInv, NEW c \in Clients, pc[c] = "compile", c \notin rwait, Unread(c) = {},
         NeedsTypes[arg[c]] \subseteq types
  PROVE  /\ arg[c] \in Srcs
         /\ Program(c) = Atomic!Compiled(arg[c])
         /\ Atomic!Compilable(arg[c])
<1>1. arg[c] \in Srcs /\ Uses[arg[c]] \subseteq Names
  BY RuntimeAssumption DEF IInv, DInv, CallArguments
<1>2. \A n \in Uses[arg[c]] : snap[c][n] = bindings[n] /\ bindings[n] # 0
  BY <1>1 DEF IInv, DInv, ReadsArePresent, Unread
<1>3. QED
  BY <1>1, <1>2 DEF Program, Atomic!Compiled, Atomic!Compilable

\* Goroutines that share a Runtime see an AtomicRuntime, whatever the bindings,
\* sources and interleaving: a compilation reflects the bindings and types of
\* one moment of its call, and a Bind happens at once (runtime.go:20-107,
\* 136-206, types.go:49-129).
THEOREM CompilationIsAtomic == Spec => CompileIsAtomic
<1>1. Init => Atomic!Init
  <2> SUFFICES ASSUME Init
               PROVE  Atomic!Init
    OBVIOUS
  <2>1. \A c \in Clients : Built(c) = NoProgram
    BY DEF Init, Built
  <2>2. BeingDiscovered = {}
    BY DEF Init, BeingDiscovered
  <2>3. QED
    BY <2>1, <2>2 DEF Init, Atomic!Init, Atomic!NoProgram, NoProgram
<1>2. IInv /\ [Next]_vars => [Atomic!Next]_Atomic!vars
  <2> SUFFICES ASSUME IInv, [Next]_vars
               PROVE  Atomic!Next \/ UNCHANGED Atomic!vars
    BY DEF Atomic!vars
  <2>0. LInv /\ LInv' /\ TypeOK
    BY StepLInv DEF IInv, DInv
  <2>1. CASE UNCHANGED vars
    <3>1. UNCHANGED <<bindings, types, version, cache, got, pc, want, arg, snap, scope>>
      BY <2>1 DEF vars, localVars, dataVars
    <3>2. \A c \in Clients : Built(c)' = Built(c)
      BY <3>1 DEF Built, Program
    <3>3. BeingDiscovered' = BeingDiscovered
      BY <3>1 DEF BeingDiscovered
    <3>4. Pending' = Pending
      BY <3>2 DEF Pending
    <3>5. QED
      BY <3>1, <3>3, <3>4 DEF Atomic!vars, Pending
  <2>2. CASE Next
    <3>1. PICK c \in Clients : Call(c) \/ Step(c)
      BY <2>2 DEF Next
    <3>2. \A d \in Clients \ {c} : Undisturbed(d)
      BY <3>1, OthersUndisturbed
    <3>3. /\ Pending' = [Pending EXCEPT ![c] = Built(c)']
          /\ Pending \in [Clients -> {Built(d) : d \in Clients}]
      BY <3>2, OneBuilt DEF Pending
    <3> DEFINE Still == /\ UNCHANGED <<bindings, version, types, cache>>
                        /\ pc[c] # "discover" /\ pc'[c] # "discover"
    <3>4. Still => UNCHANGED <<bindings, version, cache, types \cup BeingDiscovered>>
      BY <3>2, DiscoveredKept
    <3>5. ~ Building(c) /\ ~ Building(c)' => Pending' = Pending
      <4>1. ~ Building(c) => Built(c) = NoProgram
        BY BuiltIsProgram
      <4>2. ~ Building(c)' => Built(c)' = NoProgram
        BY DEF Built, Building
      <4>3. Pending[c] = Built(c) /\ Pending' = [Pending EXCEPT ![c] = Built(c)']
        BY <3>3 DEF Pending
      <4>4. QED
        BY <3>3, <4>1, <4>2, <4>3
    <3>6. CASE Call(c)
      <4>1. Still /\ got' = got /\ ~ Building(c)
        BY <2>0, <3>6 DEF Call, CallCompile, CallSupports, CallBind, CallBindType, CallTypes,
           WantLock, Goto, dataVars, localVars, Building, LInv, Locals
      <4>2. ~ Building(c)'
        BY <2>0, <3>6 DEF Call, CallCompile, CallSupports, CallBind, CallBindType, CallTypes,
           WantLock, Goto, Building, LInv, Locals
      <4>3. QED
        BY <3>4, <3>5, <4>1, <4>2 DEF Atomic!vars, Pending
    <3>7. CASE ClaimLock(c) \/ EnterLock(c)
      <4>1. Still /\ UNCHANGED <<got, arg, snap>>
        BY <2>0, <3>7 DEF ClaimLock, EnterLock, Goto, dataVars, localVars, LInv, Locals
      <4>2. Building(c)' <=> Building(c)
        BY <2>0, <3>7 DEF ClaimLock, EnterLock, Goto, localVars, Building, LInv, Locals
      <4>3. Built(c)' = Built(c)
        BY <4>1, <4>2 DEF Built, Building, Program
      <4>4. Pending' = Pending
        BY <3>3, <4>3 DEF Pending
      <4>5. QED
        BY <3>4, <4>1, <4>4 DEF Atomic!vars, Pending
    <3>8. CASE LookupMiss(c) \/ ParseDone(c) \/ (\E n \in Names : ReadBinding(c, n))
               \/ ScopeEnds(c) \/ BindNext(c) \/ TypesDone(c)
      <4>1. Still /\ got' = got /\ ~ Building(c)
        BY <2>0, <3>8 DEF LookupMiss, ParseDone, ReadBinding, ScopeEnds, BindNext, TypesDone,
           Running, WantLock, Return, Goto, dataVars, localVars, Building, LInv, Locals
      <4>2. ~ Building(c)'
        BY <2>0, <3>8 DEF LookupMiss, ParseDone, ReadBinding, ScopeEnds, BindNext, TypesDone,
           Running, WantLock, Return, Goto, Building, LInv, Locals
      <4>3. QED
        BY <3>4, <3>5, <4>1, <4>2 DEF Atomic!vars, Pending
    <3>9. CASE LookupHit(c)
      <4>1. /\ Still /\ ~ Building(c) /\ arg[c] \in Srcs /\ cache[arg[c]] # NoProgram
            /\ got' = [got EXCEPT ![c] = cache[arg[c]]]
        BY <2>0, <3>9 DEF LookupHit, Running, Return, Goto, dataVars, Building, LInv, Locals,
           IInv, DInv, CallArguments
      <4>2. ~ Building(c)'
        BY <2>0, <3>9 DEF LookupHit, Return, Goto, Building, LInv, Locals
      <4>3. Atomic!Hit(c, arg[c])
        BY <3>4, <3>5, <4>1, <4>2 DEF Atomic!Hit, Atomic!NoProgram, NoProgram, Pending
      <4>4. QED
        BY <4>1, <4>3 DEF Atomic!Next
    <3>10. CASE ParseFails(c) \/ CompileFails(c) \/ CompilePanics(c)
      <4>1. Still /\ ~ Building(c) /\ Refused(c)
        BY <2>0, <3>10 DEF ParseFails, CompileFails, CompilePanics, Running, Return, Goto,
           dataVars, Building, LInv, Locals
      <4>2. ~ Building(c)'
        BY <2>0, <3>10 DEF ParseFails, CompileFails, CompilePanics, Return, Goto, Building,
           LInv, Locals
      <4>3. CASE keep[c]
        <5>1. got' = [got EXCEPT ![c] = NoProgram]
          BY <4>1, <4>3, Zenon DEF Refused
        <5>2. Atomic!Refuse(c)
          BY <3>4, <3>5, <4>1, <4>2, <5>1 DEF Atomic!Refuse, Atomic!NoProgram, NoProgram, Pending
        <5>3. QED
          BY <5>2 DEF Atomic!Next
      <4>4. CASE ~ keep[c]
        <5>1. got' = got
          BY <4>1, <4>4, Zenon DEF Refused
        <5>2. QED
          BY <3>4, <3>5, <4>1, <4>2, <5>1 DEF Atomic!vars, Pending
      <4>5. QED
        BY <4>3, <4>4
    <3>11. CASE CompileDone(c)
      <4>1. /\ Still /\ got' = got /\ ~ Building(c)
            /\ pc[c] = "compile" /\ c \notin rwait /\ Unread(c) = {}
            /\ NeedsTypes[arg[c]] \subseteq types
        <5>1. pc'[c] \in {"lock", "idle"}
          BY <2>0, <3>11, CompileDoneCases DEF WantLock, Return, Goto, LInv, Locals
        <5>2. QED
          BY <2>0, <3>11, <5>1, CompileDoneCases DEF dataVars, Building
      <4>2. CASE Return(c)
        <5>1. ~ Building(c)'
          BY <2>0, <4>2 DEF Return, Goto, Building, LInv, Locals
        <5>2. QED
          BY <3>4, <3>5, <4>1, <5>1 DEF Atomic!vars, Pending
      <4>3. CASE WantLock(c, "store") /\ UNCHANGED <<arg, keep, snap, scope>>
        <5>1. Building(c)'
          BY <2>0, <4>3 DEF WantLock, Goto, Building, LInv, Locals
        <5>2. Built(c)' = Program(c)
          BY <4>3, <5>1, BuiltIsProgram DEF Built, Building, Program
        <5>3. Program(c) = Atomic!Compiled(arg[c]) /\ arg[c] \in Srcs
          BY <4>1, BuiltIsPresent
        <5>4. \A n \in Uses[arg[c]] : bindings[n] # 0
          BY <4>1, BuiltIsPresent DEF Atomic!Compilable
        <5>5. Atomic!Compilable(arg[c])
          BY <4>1, <5>4 DEF Atomic!Compilable
        <5>6. Pending[c] = NoProgram /\ Pending' = [Pending EXCEPT ![c] = Atomic!Compiled(arg[c])]
          BY <3>3, <4>1, <5>2, <5>3, BuiltIsProgram DEF Pending
        <5>7. Atomic!Snapshot(c, arg[c])
          BY <3>4, <4>1, <5>5, <5>6 DEF Atomic!Snapshot, Atomic!NoProgram, NoProgram, Pending
        <5>8. QED
          BY <5>3, <5>7 DEF Atomic!Next
      <4>4. QED
        BY <2>0, <3>11, <4>2, <4>3, CompileDoneCases
    <3>12. CASE Store(c)
      <4>1. /\ pc[c] = "store" /\ Building(c) /\ UNCHANGED <<bindings, version, types>>
            /\ cache' = [cache EXCEPT ![arg[c]] = Program(c)]
            /\ got' = [got EXCEPT ![c] = Program(c)]
            /\ pc'[c] = "idle"
        BY <2>0, <3>12 DEF Store, Return, Goto, Building, LInv, Locals
      <4>2. Built(c) = Program(c) /\ Program(c) # NoProgram /\ Program(c).src = arg[c]
        <5>1. Program(c) \in ProgramsOf(arg[c], version) /\ arg[c] \in Srcs
          BY <4>1, BuiltProgram
        <5>2. QED
          BY <4>1, <5>1, BuiltIsProgram, RuntimeAssumption DEF Program, NoProgram
      <4>3. Pending' = [Pending EXCEPT ![c] = NoProgram]
        BY <3>3, <4>1 DEF Built
      <4>4. types \cup BeingDiscovered = (types \cup BeingDiscovered)'
        BY <3>2, <4>1, DiscoveredKept
      <4>5. Atomic!Publish(c)
        BY <4>1, <4>2, <4>3, <4>4 DEF Atomic!Publish, Atomic!NoProgram, NoProgram, Pending
      <4>6. QED
        BY <4>5 DEF Atomic!Next
    <3>13. CASE SetBinding(c)
      <4>1. /\ bindings' = [bindings EXCEPT ![Head(scope[c])] = version + 1]
            /\ version' = version + 1 /\ UNCHANGED <<types, cache, got, scope>>
            /\ pc[c] = "bind" /\ pc'[c] = "discover" /\ Head(scope[c]) \in Names
        BY <2>0, <3>13 DEF SetBinding, Goto, localVars, LInv, Locals, BindTarget, BindsMore
      <4>2. BeingDiscovered = {} /\ BeingDiscovered' = TypesOf[Head(scope[c])]
        BY <2>0, <4>1, OneDiscovered, DiscoveredByOne
      <4>3. Pending' = Pending
        BY <3>5, <4>1 DEF Building
      <4>4. Atomic!Bind(Head(scope[c]))
        BY <4>1, <4>2, <4>3 DEF Atomic!Bind, Pending
      <4>5. QED
        BY <4>1, <4>4 DEF Atomic!Next
    <3>14. CASE Discover(c)
      <4>1. /\ types' = types \cup TypesOf[Head(scope[c])]
            /\ UNCHANGED <<bindings, version, cache, got>>
            /\ pc[c] = "discover" /\ pc'[c] = "next"
        BY <2>0, <3>14 DEF Discover, Goto, LInv, Locals
      <4>2. BeingDiscovered = TypesOf[Head(scope[c])]
        BY <2>0, <4>1, OneDiscovered
      <4>3. BeingDiscovered' = {}
        <5>1. \A d \in Clients : pc[d] = "discover" => d = c
          BY <2>0, <4>1 DEF LInv, LockDiscipline, WriteSections
        <5>2. {d \in Clients : pc'[d] = "discover"} = {}
          BY <3>2, <4>1, <5>1 DEF Undisturbed
        <5>3. QED
          BY <5>2 DEF BeingDiscovered
      <4>4. Pending' = Pending
        BY <3>5, <4>1 DEF Building
      <4>5. QED
        BY <4>1, <4>2, <4>3, <4>4 DEF Atomic!vars, Pending
    <3>15. CASE SetType(c)
      <4>1. /\ types' = types \cup {arg[c]} /\ arg[c] \in TypeNames
            /\ UNCHANGED <<bindings, version, cache, got>>
            /\ pc[c] = "type" /\ pc'[c] = "idle"
        BY <2>0, <3>15 DEF SetType, Return, Goto, LInv, Locals, IInv, DInv, CallArguments, Typing
      <4>2. BeingDiscovered' = BeingDiscovered
        BY <3>2, <4>1, DiscoveredKept
      <4>3. Pending' = Pending
        BY <3>5, <4>1 DEF Building
      <4>4. Atomic!BindType(arg[c])
        BY <4>1, <4>2, <4>3 DEF Atomic!BindType, Pending
      <4>5. QED
        BY <4>1, <4>4 DEF Atomic!Next
    <3>16. QED
      BY <3>1, <3>6, <3>7, <3>8, <3>9, <3>10, <3>11, <3>12, <3>13, <3>14, <3>15 DEF Step
  <2>3. QED
    BY <2>1, <2>2
<1>3. QED
  BY <1>1, <1>2, Invariance, PTL DEF Spec, CompileIsAtomic, Atomic!Spec
=============================================================================
