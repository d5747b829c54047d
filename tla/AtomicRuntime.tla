--------------------------- MODULE AtomicRuntime ---------------------------
(***************************************************************************)
(* What a Runtime promises to goroutines that share it: a Bind takes       *)
(* effect in one step, a compilation reads every binding and type it needs *)
(* at one moment, and only then is it published in the cache.  Nothing     *)
(* orders two publications of one source, and a Bind leaves both the cache *)
(* and the programs already handed out alone (docs.go:35-38).              *)
(***************************************************************************)
EXTENDS Naturals

CONSTANTS
  Clients,      \* goroutines that call the Runtime
  Names,        \* binding names
  TypeNames,    \* names of types a var statement can use
  Srcs,         \* program sources
  Uses,         \* [Srcs -> SUBSET Names], the bindings a source mentions
  NeedsTypes,   \* [Srcs -> SUBSET TypeNames], the types it declares names with
  TypesOf,      \* [Names -> SUBSET TypeNames], what binding a name registers
  None

VARIABLES
  bindings,   \* [Names -> Nat], 0 when the name is unbound
  types,      \* the names in the type registry
  version,    \* number of Binds so far: each makes a new binding
  cache,      \* [Srcs -> compiled program or NoProgram]
  pending,    \* [Clients -> compiled program not yet published, or NoProgram]
  got         \* [Clients -> the program its last Compile returned, or NoProgram]

vars == <<bindings, types, version, cache, pending, got>>

\* What a Compile that fails hands back, and a source not compiled yet.
NoProgram == [src |-> None, snap |-> <<>>]

\* A compiled program is its source and the bindings it captured.
Compiled(s) == [src |-> s, snap |-> [n \in Uses[s] |-> bindings[n]]]

\* Every binding the source names exists, and so does every type.
Compilable(s) ==
  /\ \A n \in Uses[s] : bindings[n] # 0
  /\ NeedsTypes[s] \subseteq types

Init ==
  /\ bindings = [n \in Names |-> 0]
  /\ types = {}
  /\ version = 0
  /\ cache = [s \in Srcs |-> NoProgram]
  /\ pending = [c \in Clients |-> NoProgram]
  /\ got = [c \in Clients |-> NoProgram]

\* A BindType brings its own type names and no binding.
BindType(t) ==
  /\ types' = types \cup {t}
  /\ UNCHANGED <<bindings, version, cache, pending, got>>

Bind(n) ==
  /\ version' = version + 1
  /\ bindings' = [bindings EXCEPT ![n] = version + 1]
  /\ types' = types \cup TypesOf[n]
  /\ UNCHANGED <<cache, pending, got>>

Snapshot(c, s) ==
  /\ pending[c] = NoProgram
  /\ Compilable(s)
  /\ pending' = [pending EXCEPT ![c] = Compiled(s)]
  /\ UNCHANGED <<bindings, types, version, cache, got>>

Publish(c) ==
  /\ pending[c] # NoProgram
  /\ cache' = [cache EXCEPT ![pending[c].src] = pending[c]]
  /\ got' = [got EXCEPT ![c] = pending[c]]
  /\ pending' = [pending EXCEPT ![c] = NoProgram]
  /\ UNCHANGED <<bindings, types, version>>

Hit(c, s) ==
  /\ cache[s] # NoProgram
  /\ got' = [got EXCEPT ![c] = cache[s]]
  /\ UNCHANGED <<bindings, types, version, cache, pending>>

\* A Compile that fails, or panics, returns no program.
Refuse(c) ==
  /\ got' = [got EXCEPT ![c] = NoProgram]
  /\ UNCHANGED <<bindings, types, version, cache, pending>>

Next ==
  \/ \E n \in Names : Bind(n)
  \/ \E t \in TypeNames : BindType(t)
  \/ \E c \in Clients :
       \/ \E s \in Srcs : Snapshot(c, s) \/ Hit(c, s)
       \/ Publish(c)
       \/ Refuse(c)

Spec == Init /\ [][Next]_vars
=============================================================================
