----------------------------- MODULE PrivateNames -----------------------------
(***************************************************************************)
(* What docs/syntax.md promises of a value binding: the copy is per run,   *)
(* the next run starts from the bound value again, and concurrent runs     *)
(* cannot see each other.  Every run has each name to itself from the      *)
(* start; only a pointer the host bound leads out of it.  A value of the   *)
(* caller's stack is refused exactly when its type does not fit.           *)
(***************************************************************************)
EXTENDS BoundNames

VARIABLE own     \* [Runs -> [Names -> what the name holds in the run]]

privateVars == <<vars, own>>

InitPrivate ==
  /\ Init
  /\ own = [r \in Runs |-> Bound]

Read(r) ==
  /\ Turn(r, "read")
  /\ Receive(r, own[r][At(r).name])
  /\ UNCHANGED own

Extend(r) ==
  /\ Turn(r, "append")
  /\ own' = [own EXCEPT ![r][At(r).name] = Append(@, <<r, ip[r]>>)]
  /\ Change(r)

Assign(r) ==
  /\ Turn(r, "set")
  /\ own' = [own EXCEPT ![r][At(r).name] = <<<<r, ip[r]>>>>]
  /\ Change(r)

Accept(r) ==
  /\ Turn(r, "stack")
  /\ given[r] \in Accepts \cup {None}
  /\ Change(r)
  /\ UNCHANGED own

Refuse(r) ==
  /\ Turn(r, "stack")
  /\ given[r] \notin Accepts \cup {None}
  /\ End(r, "refused")
  /\ UNCHANGED own

NextPrivate ==
  \E r \in Runs :
    \/ Read(r) \/ Extend(r) \/ Assign(r) \/ Accept(r) \/ Refuse(r)
    \/ /\ \/ \E t \in Types \cup {None} : Begin(r, t)
          \/ Load(r) \/ Store(r) \/ Fail(r) \/ Finish(r)
       /\ UNCHANGED own

SpecPrivate == InitPrivate /\ [][NextPrivate]_privateVars
=============================================================================
