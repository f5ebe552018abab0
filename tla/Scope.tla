--------------------------------- MODULE Scope ---------------------------------
(***************************************************************************)
(* Scopes of stores: a scope creates the instance of a token at its first  *)
(* use, hands it out from then on, and disposes of what it owns.  A child  *)
(* scope owns the tokens that are local to it and asks its parent for the  *)
(* others.                                                                 *)
(*                                                                         *)
(* The factory of a token and fromJSON() of an instance are application    *)
(* code, and may call every operation of every scope.  On the call stack,  *)
(* a frame is a get() whose factory runs, or whose instance is restored    *)
(* from a payload that was kept for it.                                    *)
(***************************************************************************)
EXTENDS Naturals, FiniteSets, SequencesExt

CONSTANTS
  Scopes, Tokens,
  Parent,        (* The parent of a child scope.                            *)
  Local,         (* The tokens a child scope owns.                          *)
  NoScope,
  MaxInstances,  (* Bound: instances.                                       *)
  MaxKept,       (* Bound: payloads that are kept.                          *)
  MaxNesting     (* Bound: nested calls of get().                           *)

ASSUME ScopeAssumption ==
  /\ Parent \in [Scopes -> Scopes \cup {NoScope}]
  /\ NoScope \notin Scopes
  /\ \A s \in Scopes : Parent[s] # NoScope => Parent[Parent[s]] = NoScope
  /\ Local \in [Scopes -> SUBSET Tokens]
  /\ {MaxInstances, MaxKept, MaxNesting} \subseteq Nat

VARIABLES
  opened,        (* The child scopes there are, in order of creation.       *)
  disposed,      (* Those that are disposed.                                *)
  instances,     (* The instance of each token that has one, by scope.      *)
  creationOrder, (* The instances each scope owns, in order of ownership.   *)
  delegated,     (* What a child has from its parent.                       *)
  lazyHydration, (* Tokens with a payload that is kept for them.            *)
  frames,
  made,          (* Of each instance: its scope, and what its factory got.  *)
  deaths         (* The instances disposed of, in this order.               *)

scopeVars == <<opened, disposed, instances, creationOrder, delegated, lazyHydration, frames, made, deaths>>
keptVars == <<opened, disposed>>

Live(s) == (Parent[s] = NoScope \/ s \in ToSet(opened)) /\ s \notin disposed
IsDead(i) == i \in ToSet(deaths)

With(f, t, i) == [u \in DOMAIN f \cup {t} |-> IF u = t THEN i ELSE f[u]]
Without(f, t) == [u \in DOMAIN f \ {t} |-> f[u]]

Top == Last(frames)
Creating == frames # <<>> /\ Top.instance = 0
Hydrating == frames # <<>> /\ Top.instance # 0

\* The calls that are left when a get() ends, with an instance for its caller
\* or with an error.
Told(stack, i) ==
  IF stack # <<>> /\ Last(stack).instance = 0 THEN [stack EXCEPT ![Len(stack)].got = @ \cup {i}] ELSE stack
Thrown == Front(frames)

Kept == {k \in Scopes \X Tokens : k[2] \in lazyHydration[k[1]]}

-----------------------------------------------------------------------------
(***************************************************************************)
(* get().                                                                  *)
(***************************************************************************)
\* The scope that answers for a token: a child hands on what is not its own.
Owner(s, t) == IF Parent[s] = NoScope \/ t \in DOMAIN instances[s] \cup Local[s] THEN s ELSE Parent[s]

Resolving(s) == {frames[k].token : k \in {k \in DOMAIN frames : frames[k].scope = s /\ frames[k].instance = 0}}

\* An instance there is, which a child keeps for the next time.
GetExisting(s, t) ==
  /\ Live(s)
  /\ LET o == Owner(s, t)
     IN  IF o # s /\ t \in DOMAIN delegated[s]
           THEN frames' = Told(frames, delegated[s][t]) /\ UNCHANGED delegated
           ELSE /\ Live(o) /\ t \in DOMAIN instances[o]
                /\ frames' = Told(frames, instances[o][t])
                /\ delegated' = IF o = s THEN delegated ELSE [delegated EXCEPT ![s] = With(@, t, instances[o][t])]
  /\ UNCHANGED <<keptVars, instances, creationOrder, lazyHydration, made, deaths>>

\* The factory starts, unless it is running already: a cycle.
GetCreates(s, t) ==
  /\ Live(s) /\ Len(frames) < MaxNesting
  /\ LET o == Owner(s, t)
     IN  /\ o = s \/ t \notin DOMAIN delegated[s]
         /\ Live(o) /\ t \notin DOMAIN instances[o] \cup Resolving(o)
         /\ frames' = Append(frames, [scope |-> o, token |-> t, asked |-> s, got |-> {}, instance |-> 0])
  /\ UNCHANGED <<keptVars, instances, creationOrder, delegated, lazyHydration, made, deaths>>

\* A get() ends with an instance, which the child that asked keeps.
Answer(i) ==
  IF Top.asked \in disposed THEN frames' = Thrown /\ UNCHANGED delegated
  ELSE /\ frames' = Told(Thrown, i)
       /\ delegated' = IF Top.asked = Top.scope THEN delegated
                       ELSE [delegated EXCEPT ![Top.asked] = With(@, Top.token, i)]

\* A wrong variant: the factory cannot have disposed of the scope.
SurvivedAlways(s) == TRUE

\* Is the scope still there when its factory returns?
Survived(s) == s \notin disposed

\* The factory returns an instance: a new one, or one its scope has already.
Adopt(i) ==
  /\ instances' = [instances EXCEPT ![Top.scope] = With(@, Top.token, i)]
  /\ creationOrder' = [creationOrder EXCEPT ![Top.scope] = IF i \in ToSet(@) THEN @ ELSE Append(@, i)]
  /\ IF Top.token \in lazyHydration[Top.scope]
       THEN frames' = [frames EXCEPT ![Len(frames)].instance = i, ![Len(frames)].got = {}] /\ UNCHANGED delegated
       ELSE Answer(i)
  /\ UNCHANGED <<keptVars, lazyHydration, deaths>>

FactoryReturns ==
  /\ Creating /\ Len(made) < MaxInstances
  /\ made' = Append(made, [scope |-> Top.scope, needs |-> {d \in Top.got : ~IsDead(d)}])
  /\ IF Survived(Top.scope)
       THEN Adopt(Len(made) + 1)
       ELSE /\ deaths' = Append(deaths, Len(made) + 1)
            /\ frames' = Thrown
            /\ UNCHANGED <<keptVars, instances, creationOrder, delegated, lazyHydration>>

FactoryReturnsAnother(i) ==
  /\ Creating /\ Survived(Top.scope)
  /\ i \in Top.got \cap ToSet(creationOrder[Top.scope])
  /\ Adopt(i)
  /\ UNCHANGED made

FactoryThrows ==
  /\ Creating
  /\ frames' = Thrown
  /\ UNCHANGED <<keptVars, instances, creationOrder, delegated, lazyHydration, made, deaths>>

\* fromJSON() returns.
Hydrated ==
  /\ Hydrating
  /\ IF Top.scope \in disposed THEN frames' = Thrown /\ UNCHANGED delegated ELSE Answer(Top.instance)
  /\ UNCHANGED <<keptVars, instances, creationOrder, lazyHydration, made, deaths>>

\* It throws: the scope goes on owning the instance, but the token has none.
HydrationFails ==
  /\ Hydrating
  /\ frames' = Thrown
  /\ instances' =
       IF Top.token \in DOMAIN instances[Top.scope] /\ instances[Top.scope][Top.token] = Top.instance
         THEN [instances EXCEPT ![Top.scope] = Without(@, Top.token)]
         ELSE instances
  /\ UNCHANGED <<keptVars, creationOrder, delegated, lazyHydration, made, deaths>>

-----------------------------------------------------------------------------
(***************************************************************************)
(* The other operations.                                                   *)
(***************************************************************************)
\* set(), of a new instance or of one the scope owns and no token has.
Set(s, t, i) ==
  /\ Live(s)
  /\ \/ i \in ToSet(creationOrder[s]) \ {instances[s][u] : u \in DOMAIN instances[s]}
        /\ UNCHANGED <<made, creationOrder>>
     \/ /\ i = Len(made) + 1 /\ Len(made) < MaxInstances
        /\ made' = Append(made, [scope |-> s, needs |-> {}])
        /\ creationOrder' = [creationOrder EXCEPT ![s] = Append(@, i)]
  /\ instances' = [instances EXCEPT ![s] = With(@, t, i)]
  /\ lazyHydration' = [lazyHydration EXCEPT ![s] = @ \ {t}]
  /\ delegated' = [delegated EXCEPT ![s] = Without(@, t)]
  /\ UNCHANGED <<keptVars, frames, deaths>>

\* hydrate(): the payload is kept for the first get().
Hydrate(s, t) ==
  /\ Live(s) /\ t \notin lazyHydration[s]
  /\ Cardinality(Kept) < MaxKept
  /\ lazyHydration' = [lazyHydration EXCEPT ![s] = @ \cup {t}]
  /\ UNCHANGED <<keptVars, instances, creationOrder, delegated, frames, made, deaths>>

\* child().
Child(s) ==
  /\ Parent[s] # NoScope /\ Live(Parent[s])
  /\ s \notin ToSet(opened)
  /\ opened' = Append(opened, s)
  /\ UNCHANGED <<disposed, instances, creationOrder, delegated, lazyHydration, frames, made, deaths>>

\* A wrong variant: in the order of creation.
InOrder(s) == creationOrder[s]

\* What a scope owns, in the order in which dispose() takes it.
Disposal(s) == Reverse(creationOrder[s])

\* dispose(): the children first, the newest first.
ChildrenOf(s) == {c \in ToSet(opened) \ disposed : Parent[c] = s}
Deaths(s) ==
  LET taken(c) == IF c \in ChildrenOf(s) THEN Disposal(c) ELSE <<>>
  IN  FlattenSeq([k \in DOMAIN opened |-> taken(Reverse(opened)[k])]) \o Disposal(s)

Dispose(s) ==
  /\ Live(s)
  /\ LET family == ChildrenOf(s) \cup {s}
         emptied(f, nothing) == [c \in Scopes |-> IF c \in family THEN nothing ELSE f[c]]
     IN  /\ disposed' = disposed \cup family
         /\ deaths' = deaths \o Deaths(s)
         /\ creationOrder' = emptied(creationOrder, <<>>)
         /\ instances' = emptied(instances, <<>>)
         /\ delegated' = emptied(delegated, <<>>)
  /\ UNCHANGED <<opened, lazyHydration, frames, made>>

ScopeInit ==
  /\ opened = <<>>
  /\ disposed = {}
  /\ instances = [s \in Scopes |-> <<>>]
  /\ creationOrder = [s \in Scopes |-> <<>>]
  /\ delegated = [s \in Scopes |-> <<>>]
  /\ lazyHydration = [s \in Scopes |-> {}]
  /\ frames = <<>>
  /\ made = <<>>
  /\ deaths = <<>>

ScopeNext ==
  \/ \E s \in Scopes, t \in Tokens :
       \/ GetExisting(s, t) \/ GetCreates(s, t) \/ Hydrate(s, t)
       \/ \E i \in 1..MaxInstances : Set(s, t, i)
  \/ \E s \in Scopes : Child(s) \/ Dispose(s)
  \/ \E i \in 1..MaxInstances : FactoryReturnsAnother(i)
  \/ FactoryReturns \/ FactoryThrows \/ Hydrated \/ HydrationFails

ScopeSpec == ScopeInit /\ [][ScopeNext]_scopeVars

-----------------------------------------------------------------------------
(***************************************************************************)
(* Properties.                                                             *)
(***************************************************************************)
(***************************************************************************)
(* Every instance that was created or installed, a replaced one and one    *)
(* that failed to hydrate included, is disposed of once, when its scope    *)
(* is; if its scope was disposed of by its own factory, at once.  What a   *)
(* live scope hands out, or has from its parent, is alive.                 *)
(***************************************************************************)
OwnedDieOnce ==
  /\ \A i \in DOMAIN made :
       Cardinality({k \in DOMAIN deaths : deaths[k] = i}) = (IF made[i].scope \in disposed THEN 1 ELSE 0)
  /\ \A s \in Scopes, t \in Tokens :
       /\ t \in DOMAIN instances[s] => ~IsDead(instances[s][t])
       /\ t \in DOMAIN delegated[s] => ~IsDead(delegated[s][t])

(***************************************************************************)
(* An instance is disposed of before the ones its factory asked for, in    *)
(* its own scope or in the parent: an instance never outlives those it     *)
(* was built from.                                                         *)
(***************************************************************************)
UsersGoFirst ==
  \A j, k \in DOMAIN deaths :
    j < k => ~(deaths[j] \in made[deaths[k]].needs /\ made[deaths[j]].scope \in {made[deaths[k]].scope, Parent[made[deaths[k]].scope]})
=============================================================================
