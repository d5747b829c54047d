---------------------------- MODULE TypeRegistry ----------------------------
(***************************************************************************)
(* Which type a name in a var statement means (types.go).                  *)
(*                                                                         *)
(* Bind and BindType walk the type they are given and record every type    *)
(* they meet under the name it prints.  The walk goes Depth levels down    *)
(* and stops at a name the registry holds already.                         *)
(*                                                                         *)
(* reflect is a constant graph: NameOf is Type.String, which two types may *)
(* share, and Parts the types discover recurses into, in its order.  The   *)
(* recursion is a stack of the calls it has still to make.  Both methods   *)
(* hold the write lock from the first step of a walk to the last, so a new *)
(* one starts only when the stack is empty (the lock is RuntimeCache's).   *)
(***************************************************************************)
EXTENDS Naturals, Sequences, Functions

CONSTANTS
  Types, Names, NameOf, Parts,
  Depth,      \* discoverDepth
  Seed,       \* predeclared: [Names -> Types or None]
  Bindable,   \* types of the values the host may Bind
  Renamings,  \* <<name, type>> pairs it may give BindType
  None

ASSUME RegistryAssumption ==
  /\ NameOf \in [Types -> Names]
  /\ Parts \in [Types -> Seq(Types)]
  /\ Depth \in Nat \ {0}
  /\ Seed \in [Names -> Types \cup {None}]
  /\ Bindable \subseteq Types
  /\ Renamings \subseteq Names \X Types
  /\ None \notin Types

VARIABLES
  registry,   \* Runtime.types
  walk,       \* calls of discover still to make, innermost first
  roots,      \* history: the types Bind and BindType were given
  found,      \* history: the depth at which the walk recorded a type, or 0
  manual      \* history: the type the last BindType gave a name, or None

vars == <<registry, walk, roots, found, manual>>

Pending == Range(walk)
Named(t) == registry[NameOf[t]] # None

TypeOK ==
  /\ registry \in [Names -> Types \cup {None}]
  /\ walk \in Seq([type : Types, depth : 1..(Depth + 1)])
  /\ roots \subseteq Types
  /\ found \in [Types -> 0..Depth]
  /\ manual \in [Names -> Types \cup {None}]

Init ==
  /\ registry = Seed
  /\ walk = <<>>
  /\ roots = {}
  /\ found = [t \in Types |-> 0]
  /\ manual = [n \in Names |-> None]

-----------------------------------------------------------------------------

Discover(t) == walk' = <<[type |-> t, depth |-> 1]>>

\* Bind of a func or of a value: a nil one is refused and changes nothing.
Bind(t) ==
  /\ walk = <<>>
  /\ roots' = roots \cup {t}
  /\ Discover(t)
  /\ UNCHANGED <<registry, found, manual>>

\* The name is recorded before the walk starts from the type.
BindType(n, t) ==
  /\ walk = <<>>
  /\ registry' = [registry EXCEPT ![n] = t]
  /\ manual' = [manual EXCEPT ![n] = t]
  /\ roots' = roots \cup {t}
  /\ Discover(t)
  /\ UNCHANGED found

Calls(t, depth) == [i \in DOMAIN Parts[t] |-> [type |-> Parts[t][i], depth |-> depth]]

\* Slip: a name that is taken ends the walk of its siblings too.
ReturnEndsWalk ==
  /\ walk # <<>>
  /\ Head(walk).depth > Depth \/ Named(Head(walk).type)
  /\ walk' = <<>>
  /\ UNCHANGED <<registry, roots, found, manual>>

\* discover returns at once: too deep, or the name is taken.
Return ==
  /\ walk # <<>>
  /\ Head(walk).depth > Depth \/ Named(Head(walk).type)
  /\ walk' = Tail(walk)
  /\ UNCHANGED <<registry, roots, found, manual>>

\* Slip: the bound is off by one.
RecordTooDeep ==
  /\ walk # <<>>
  /\ Head(walk).depth <= Depth + 1
  /\ ~ Named(Head(walk).type)
  /\ LET t == Head(walk).type
         d == Head(walk).depth
     IN /\ registry' = [registry EXCEPT ![NameOf[t]] = t]
        /\ found' = [found EXCEPT ![t] = d]
        /\ walk' = Calls(t, d + 1) \o Tail(walk)
  /\ UNCHANGED <<roots, manual>>

\* Slip: the recursion stays at the depth of its caller.
RecordSameDepth ==
  /\ walk # <<>>
  /\ Head(walk).depth <= Depth
  /\ ~ Named(Head(walk).type)
  /\ LET t == Head(walk).type
         d == Head(walk).depth
     IN /\ registry' = [registry EXCEPT ![NameOf[t]] = t]
        /\ found' = [found EXCEPT ![t] = d]
        /\ walk' = Calls(t, d) \o Tail(walk)
  /\ UNCHANGED <<roots, manual>>

\* Slip: the later Bind wins, over a name that BindType has settled as well.
RecordLaterWins ==
  /\ walk # <<>>
  /\ Head(walk).depth <= Depth
  /\ registry[NameOf[Head(walk).type]] # Head(walk).type
  /\ LET t == Head(walk).type
         d == Head(walk).depth
     IN /\ registry' = [registry EXCEPT ![NameOf[t]] = t]
        /\ found' = [found EXCEPT ![t] = d]
        /\ walk' = Calls(t, d + 1) \o Tail(walk)
  /\ UNCHANGED <<roots, manual>>

\* discover records the type and recurses.
Record ==
  /\ walk # <<>>
  /\ Head(walk).depth <= Depth
  /\ ~ Named(Head(walk).type)
  /\ LET t == Head(walk).type
         d == Head(walk).depth
     IN /\ registry' = [registry EXCEPT ![NameOf[t]] = t]
        /\ found' = [found EXCEPT ![t] = d]
        /\ walk' = Calls(t, d + 1) \o Tail(walk)
  /\ UNCHANGED <<roots, manual>>

Next ==
  \/ \E t \in Bindable : Bind(t)
  \/ \E r \in Renamings : BindType(r[1], r[2])
  \/ Return
  \/ Record

Spec == Init /\ [][Next]_vars

-----------------------------------------------------------------------------
(* What discovery must get right *)

\* A type that was recorded above the last level has the names of all its
\* parts recorded, or a call that will: no sibling is forgotten when another
\* branch of the recursion ran into a known name or into the bottom.
DiscoveryIsClosed ==
  \A t \in Types : found[t] \in 1..(Depth - 1) =>
    \A p \in Range(Parts[t]) :
      \/ Named(p)
      \/ \E c \in Pending : c.type = p /\ c.depth <= Depth

\* A type recorded at a depth is a part of one recorded at the depth above,
\* up to a type the host gave: nothing is nameable further down than Depth.
DiscoveryIsRooted ==
  \A t \in Types :
    /\ found[t] = 1 => t \in roots
    /\ found[t] > 1 => \E s \in Types : found[s] = found[t] - 1 /\ t \in Range(Parts[s])

\* types.go:16-17, docs/types.md:57-59: where two types print one name, BindType
\* "is the way out" and "resolves the collision".  The name it gave keeps its
\* type whatever the walks of other calls meet, types that print it included.
BindTypeIsFinal ==
  \A n \in Names : manual[n] # None => registry[n] = manual[n]

-----------------------------------------------------------------------------
(* What the documentation says and the walk does not do *)

\* docs.go:61: "Binding a function registers every type its signature
\* mentions", and docs/types.md:135-136 of BindType: "The walk then covers the
\* registered type like anything else".
SignaturesAreNameable ==
  walk = <<>> => \A t \in roots : \A p \in Range(Parts[t]) : Named(p)

\* types.go:16-17: of two types that print the same name, "the later Bind
\* wins": once discover has looked at the type given to Bind, its name means it.
LaterBindWins ==
  [][\A t \in roots : walk = <<[type |-> t, depth |-> 1]>> => registry'[NameOf[t]] = t]_vars
=============================================================================
