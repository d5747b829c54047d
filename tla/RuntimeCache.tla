---------------------------- MODULE RuntimeCache ----------------------------
(***************************************************************************)
(* Runtime (runtime.go, types.go): the bindings, the type registry and the *)
(* cache of compiled programs, shared by goroutines under one              *)
(* sync.RWMutex.                                                           *)
(*                                                                         *)
(* A Compile holds the read lock twice, once to look the source up and     *)
(* once while the compiler reads bindings and types, parses between the    *)
(* two with no lock, and takes the write lock to store what it built.      *)
(* Between any two of these other goroutines Bind and Compile.             *)
(*                                                                         *)
(* A binding is the number of the Bind that made it, so a rebind of a name *)
(* is visible.  Names stand for func and value bindings alike, and a type  *)
(* is its name: which type a name means is the subject of TypeRegistry.    *)
(***************************************************************************)
EXTENDS Naturals, Sequences

CONSTANTS
  Clients, Names, TypeNames, Srcs, Uses, NeedsTypes, TypesOf, None,
  Unparsable,   \* sources the parser refuses
  Panics,       \* sources on which the compiler panics
  Scopes,       \* the argument lists of BindScope, in the order it sorts them:
                \* sequences of names, with None for a nil value
  MaxBinds      \* bound on the names handed to Bind, so that runs are finite

ASSUME RuntimeAssumption ==
  /\ Uses \in [Srcs -> SUBSET Names]
  /\ NeedsTypes \in [Srcs -> SUBSET TypeNames]
  /\ TypesOf \in [Names -> SUBSET TypeNames]
  /\ MaxBinds \in Nat
  /\ Unparsable \subseteq Srcs /\ Panics \subseteq Srcs
  /\ Scopes \subseteq Seq(Names \cup {None})
  /\ None \notin Clients \cup Names \cup Srcs \cup TypeNames

VARIABLES
  readers,    \* goroutines that hold the read lock
  rwait,      \* goroutines waiting for it behind a writer
  writer,     \* the goroutine in Lock or holding it, or None
  bindings, types, version, cache,
  pc,         \* where each goroutine is
  want,       \* the critical section a goroutine in Lock wants to enter
  arg,        \* the source or the type name the call was given
  keep,       \* whether it caches the program: Compile does, Supports does not
  snap,       \* bindings the compiler has read so far, 0 for the others
  scope,      \* names the call has still to bind
  asked,      \* how many names were handed to Bind, for the bound
  got         \* the program the goroutine's last Compile returned, or NoProgram

lockVars == <<readers, rwait, writer>>
dataVars == <<bindings, types, version, cache>>
localVars == <<want, arg, keep, snap, scope>>
vars == <<lockVars, dataVars, pc, localVars, got, asked>>

NoProgram == [src |-> None, snap |-> <<>>]
NothingRead == [n \in Names |-> 0]

Init ==
  /\ readers = {} /\ rwait = {} /\ writer = None
  /\ bindings = [n \in Names |-> 0]
  /\ types = {}
  /\ version = 0
  /\ cache = [s \in Srcs |-> NoProgram]
  /\ pc = [c \in Clients |-> "idle"]
  /\ want = [c \in Clients |-> "idle"]
  /\ arg = [c \in Clients |-> None]
  /\ keep = [c \in Clients |-> FALSE]
  /\ snap = [c \in Clients |-> NothingRead]
  /\ scope = [c \in Clients |-> <<>>]
  /\ got = [c \in Clients |-> NoProgram]
  /\ asked = 0

-----------------------------------------------------------------------------
(* sync.RWMutex.  A writer in Lock keeps new readers out and enters once   *)
(* the present ones have left; its Unlock lets in every reader that waited.*)

RLock(c) ==
  /\ IF writer = None THEN readers' = readers \cup {c} /\ rwait' = rwait
                      ELSE rwait' = rwait \cup {c} /\ readers' = readers
  /\ UNCHANGED writer

RUnlock(c) ==
  /\ readers' = readers \ {c}
  /\ UNCHANGED <<rwait, writer>>

Unlock ==
  /\ writer' = None
  /\ readers' = rwait
  /\ rwait' = {}

\* Past an RLock: a goroutine that waits for one is in rwait.
Running(c, l) == pc[c] = l /\ c \notin rwait

Goto(c, l) == pc' = [pc EXCEPT ![c] = l]

\* The call returns and its locals are gone.
Return(c) ==
  /\ Goto(c, "idle")
  /\ want' = [want EXCEPT ![c] = "idle"]
  /\ arg' = [arg EXCEPT ![c] = None]
  /\ keep' = [keep EXCEPT ![c] = FALSE]
  /\ snap' = [snap EXCEPT ![c] = NothingRead]
  /\ scope' = [scope EXCEPT ![c] = <<>>]

\* Enter a critical section of the write lock, once Lock allows.
WantLock(c, l) ==
  /\ Goto(c, "lock")
  /\ want' = [want EXCEPT ![c] = l]

ClaimLock(c) ==
  /\ pc[c] = "lock" /\ writer = None
  /\ writer' = c
  /\ Goto(c, "drain")
  /\ UNCHANGED <<readers, rwait, dataVars, localVars, got, asked>>

EnterLock(c) ==
  /\ pc[c] = "drain" /\ readers = {}
  /\ Goto(c, want[c])
  /\ UNCHANGED <<lockVars, dataVars, localVars, got, asked>>

-----------------------------------------------------------------------------
(* Compile and Supports.                                                   *)

CallCompile(c, s) ==
  /\ pc[c] = "idle"
  /\ RLock(c)
  /\ Goto(c, "lookup")
  /\ arg' = [arg EXCEPT ![c] = s]
  /\ keep' = [keep EXCEPT ![c] = TRUE]
  /\ UNCHANGED <<dataVars, want, snap, scope, got, asked>>

LookupHit(c) ==
  /\ Running(c, "lookup") /\ cache[arg[c]] # NoProgram
  /\ got' = [got EXCEPT ![c] = cache[arg[c]]]
  /\ RUnlock(c)
  /\ Return(c)
  /\ UNCHANGED <<dataVars, asked>>

LookupMiss(c) ==
  /\ Running(c, "lookup") /\ cache[arg[c]] = NoProgram
  /\ RUnlock(c)
  /\ Goto(c, "parse")
  /\ UNCHANGED <<dataVars, localVars, got, asked>>

\* Supports does not consult the cache: it parses at once.
CallSupports(c, s) ==
  /\ pc[c] = "idle"
  /\ Goto(c, "parse")
  /\ arg' = [arg EXCEPT ![c] = s]
  /\ UNCHANGED <<lockVars, dataVars, want, keep, snap, scope, got, asked>>

\* What a failed call hands its caller: Compile no program, and Supports,
\* which never returns one, only the error.
Refused(c) == got' = IF keep[c] THEN [got EXCEPT ![c] = NoProgram] ELSE got

ParseFails(c) ==
  /\ pc[c] = "parse" /\ arg[c] \in Unparsable
  /\ Refused(c)
  /\ Return(c)
  /\ UNCHANGED <<lockVars, dataVars, asked>>

\* Slip: the compiler reads the bindings and types without the read lock.
ParseDoneUnlocked(c) ==
  /\ pc[c] = "parse" /\ arg[c] \notin Unparsable
  /\ Goto(c, "compile")
  /\ UNCHANGED <<lockVars, dataVars, localVars, got, asked>>

ParseDone(c) ==
  /\ pc[c] = "parse" /\ arg[c] \notin Unparsable
  /\ RLock(c)
  /\ Goto(c, "compile")
  /\ UNCHANGED <<dataVars, localVars, got, asked>>

Unread(c) == {n \in Uses[arg[c]] : snap[c][n] = 0}

ReadBinding(c, n) ==
  /\ Running(c, "compile") /\ n \in Unread(c)
  /\ bindings[n] # 0
  /\ snap' = [snap EXCEPT ![c][n] = bindings[n]]
  /\ UNCHANGED <<lockVars, dataVars, pc, want, arg, keep, scope, got, asked>>

\* An unknown binding, or a var statement naming an unknown type.
CompileFails(c) ==
  /\ Running(c, "compile")
  /\ \/ \E n \in Unread(c) : bindings[n] = 0
     \/ ~ NeedsTypes[arg[c]] \subseteq types
  /\ Refused(c)
  /\ RUnlock(c)
  /\ Return(c)
  /\ UNCHANGED <<dataVars, asked>>

\* Slip: the RUnlock after the compiler is not deferred (docs/changelog.md:327-329).
CompilePanicsLeaks(c) ==
  /\ Running(c, "compile") /\ arg[c] \in Panics
  /\ Refused(c)
  /\ Return(c)
  /\ UNCHANGED <<lockVars, dataVars, asked>>

\* The panic leaves through the deferred RUnlock and reaches the caller.
CompilePanics(c) ==
  /\ Running(c, "compile") /\ arg[c] \in Panics
  /\ Refused(c)
  /\ RUnlock(c)
  /\ Return(c)
  /\ UNCHANGED <<dataVars, asked>>

\* Slip: a name that is not bound is left for the execution to find.
CompileDoneUnknown(c) ==
  /\ Running(c, "compile") /\ arg[c] \notin Panics
  /\ RUnlock(c)
  /\ IF keep[c]
       THEN WantLock(c, "store") /\ UNCHANGED <<arg, keep, snap, scope>>
       ELSE Return(c)
  /\ UNCHANGED <<dataVars, got, asked>>

CompileDone(c) ==
  /\ Running(c, "compile") /\ arg[c] \notin Panics
  /\ Unread(c) = {} /\ NeedsTypes[arg[c]] \subseteq types
  /\ RUnlock(c)
  /\ IF keep[c]
       THEN WantLock(c, "store") /\ UNCHANGED <<arg, keep, snap, scope>>
       ELSE Return(c)
  /\ UNCHANGED <<dataVars, got, asked>>

Program(c) == [src |-> arg[c], snap |-> [n \in Uses[arg[c]] |-> snap[c][n]]]

Store(c) ==
  /\ pc[c] = "store"
  /\ cache' = [cache EXCEPT ![arg[c]] = Program(c)]
  /\ got' = [got EXCEPT ![c] = Program(c)]
  /\ Unlock
  /\ Return(c)
  /\ UNCHANGED <<bindings, types, version, asked>>

-----------------------------------------------------------------------------
(* Bind, BindScope, BindType and Types.  Bind is a BindScope of one name.  *)

CallBind(c, names) ==
  /\ pc[c] = "idle"
  /\ asked + Len(names) <= MaxBinds
  /\ asked' = asked + Len(names)
  /\ Goto(c, "next")
  /\ scope' = [scope EXCEPT ![c] = names]
  /\ UNCHANGED <<lockVars, dataVars, want, arg, keep, snap, got>>

BindsMore(c) == scope[c] # <<>> /\ Head(scope[c]) # None

\* Slip: Bind refuses a nil value with the lock already taken.
ScopeEndsLocked(c) ==
  /\ pc[c] = "next" /\ ~ BindsMore(c)
  /\ IF scope[c] # <<>> /\ writer = None THEN writer' = c ELSE writer' = writer
  /\ Return(c)
  /\ UNCHANGED <<readers, rwait, dataVars, got, asked>>

\* Bind refuses a nil value before it locks; the names before it stay bound.
ScopeEnds(c) ==
  /\ pc[c] = "next" /\ ~ BindsMore(c)
  /\ Return(c)
  /\ UNCHANGED <<lockVars, dataVars, got, asked>>

BindNext(c) ==
  /\ pc[c] = "next" /\ BindsMore(c)
  /\ WantLock(c, "bind")
  /\ UNCHANGED <<lockVars, dataVars, arg, keep, snap, scope, got, asked>>

SetBinding(c) ==
  /\ pc[c] = "bind"
  /\ bindings' = [bindings EXCEPT ![Head(scope[c])] = version + 1]
  /\ version' = version + 1
  /\ Goto(c, "discover")
  /\ UNCHANGED <<lockVars, types, cache, localVars, got, asked>>

Discover(c) ==
  /\ pc[c] = "discover"
  /\ types' = types \cup TypesOf[Head(scope[c])]
  /\ scope' = [scope EXCEPT ![c] = Tail(@)]
  /\ Unlock
  /\ Goto(c, "next")
  /\ UNCHANGED <<bindings, version, cache, want, arg, keep, snap, got, asked>>

CallBindType(c, t) ==
  /\ pc[c] = "idle"
  /\ arg' = [arg EXCEPT ![c] = t]
  /\ WantLock(c, "type")
  /\ UNCHANGED <<lockVars, dataVars, keep, snap, scope, got, asked>>

SetType(c) ==
  /\ pc[c] = "type"
  /\ types' = types \cup {arg[c]}
  /\ Unlock
  /\ Return(c)
  /\ UNCHANGED <<bindings, version, cache, got, asked>>

\* Slip: Types ranges over the registry without the lock.
CallTypesUnlocked(c) ==
  /\ pc[c] = "idle"
  /\ Goto(c, "types")
  /\ UNCHANGED <<lockVars, dataVars, localVars, got, asked>>

CallTypes(c) ==
  /\ pc[c] = "idle"
  /\ RLock(c)
  /\ Goto(c, "types")
  /\ UNCHANGED <<dataVars, localVars, got, asked>>

TypesDone(c) ==
  /\ Running(c, "types")
  /\ RUnlock(c)
  /\ Return(c)
  /\ UNCHANGED <<dataVars, got, asked>>

-----------------------------------------------------------------------------

Call(c) ==
  \/ \E s \in Srcs : CallCompile(c, s) \/ CallSupports(c, s)
  \/ \E names \in Scopes : CallBind(c, names)
  \/ \E t \in TypeNames : CallBindType(c, t)
  \/ CallTypes(c)

Step(c) ==
  \/ ClaimLock(c) \/ EnterLock(c)
  \/ LookupHit(c) \/ LookupMiss(c)
  \/ ParseFails(c) \/ ParseDone(c)
  \/ \E n \in Names : ReadBinding(c, n)
  \/ CompileFails(c) \/ CompilePanics(c) \/ CompileDone(c) \/ Store(c)
  \/ ScopeEnds(c) \/ BindNext(c) \/ SetBinding(c) \/ Discover(c)
  \/ SetType(c) \/ TypesDone(c)

Next == \E c \in Clients : Call(c) \/ Step(c)

Spec == Init /\ [][Next]_vars

\* A goroutine in a call keeps running, and a Lock that is free again and
\* again is granted: sync.Mutex turns to handing itself over, in order, when
\* a waiter starves.
FairSpec ==
  /\ Spec
  /\ \A c \in Clients : WF_vars(Step(c)) /\ SF_vars(ClaimLock(c))

-----------------------------------------------------------------------------
(* Properties.                                                             *)

Reading == {c \in Clients : \E l \in {"lookup", "compile", "types"} : Running(c, l)}
Writing == {c \in Clients : pc[c] \in {"store", "bind", "discover", "type"}}

\* What a compilation of s can be: it captured what the first v Binds made.
ProgramsOf(s, v) == [src : {s}, snap : [Uses[s] -> 1..v]]
MaybeProgram(v) == {NoProgram} \cup UNION {ProgramsOf(s, v) : s \in Srcs}

\* The types of the variables, and every program the cache or a caller holds
\* was compiled from the source it stands for, from bindings that existed.
TypeOK ==
  /\ readers \subseteq Clients /\ rwait \subseteq Clients
  /\ writer \in Clients \cup {None}
  /\ version \in Nat /\ asked \in Nat
  /\ bindings \in [Names -> 0..version]
  /\ types \subseteq TypeNames
  /\ cache \in [Srcs -> MaybeProgram(version)]
  /\ \A s \in Srcs : cache[s] \in ProgramsOf(s, version) \cup {NoProgram}
  /\ got \in [Clients -> MaybeProgram(version)]

\* The maps of the runtime are Go maps: a goroutine that changes one
\* (Compile's store, Bind, BindType) is alone, with no other goroutine changing
\* or reading any (Compile's lookup, the compiler, Types).  What RWMutex
\* promises, at every point where runtime.go and types.go rely on it.
MapsUnraced ==
  \A c \in Writing : Writing = {c} /\ Reading = {}

\* No call leaves a lock behind, on any path out: not the failed parse or
\* compilation, not a panic of the compiler, which only the deferred RUnlock
\* of compileUncached and Supports covers, not a Bind that stops at a nil.
IdleHoldsNoLock ==
  \A c \in Clients : pc[c] \in {"idle", "parse", "next", "lock"} =>
    c \notin readers \cup rwait /\ writer # c

\* The lock discipline as a whole makes Bind and the compiler's reading of the
\* bindings and types single steps, and the cache holds only programs some
\* Compile built: the goroutines see an AtomicRuntime.
Built(c) ==
  IF \/ pc[c] = "store"
     \/ pc[c] \in {"lock", "drain"} /\ want[c] = "store"
  THEN Program(c) ELSE NoProgram

BeingDiscovered ==
  UNION {TypesOf[Head(scope[c])] : c \in {d \in Clients : pc[d] = "discover"}}

Atomic == INSTANCE AtomicRuntime
  WITH types <- types \cup BeingDiscovered,
       pending <- [c \in Clients |-> Built(c)]

CompileIsAtomic == Atomic!Spec

\* docs.go:35-38 on a rebind: "A program that has already compiled captured
\* the binding as it stood then, and Runtime.Compile caches a compilation per
\* source string. A later Bind under the same name reaches neither."  Once a
\* source has a cached compilation, later compilations return that one.
RebindReachesNoCachedProgram ==
  [][\A s \in Srcs : cache[s] # NoProgram => cache'[s] = cache[s]]_cache

\* Every call returns: no interleaving of readers and writers, and no path out
\* of a call, leaves the others waiting for a lock for ever.
EveryCallReturns ==
  \A c \in Clients : pc[c] # "idle" ~> pc[c] = "idle"
=============================================================================
