---------------------------- MODULE Capabilities ----------------------------
(***************************************************************************)
(* The capability registry (walastack-runtime/src/capabilities.rs): a      *)
(* contract has providers under names and one selection strategy; plugins  *)
(* fill the registry, `build` freezes it, and any task may then call       *)
(* Capabilities::get.  A provider is represented by who registered it.     *)
(* The frozen view keeps one atomic rotation counter per contract whose    *)
(* strategy is a weighted round robin; concurrent callers race on it.      *)
(***************************************************************************)
EXTENDS Integers, Sequences, FiniteSets, Tables

CONSTANTS
    Contract,      \* the capability types (TypeId)
    Name,          \* the provider names
    DefaultName,   \* DEFAULT_NAME
    None,          \* Option::None
    CounterSize    \* how many values the rotation counter has (usize)

ASSUME CapabilitiesAssumption ==
    /\ DefaultName \in Name
    /\ None \notin Nat /\ None \notin Name /\ None \notin Contract \X Nat
    /\ CounterSize \in Nat \ {0}

-----------------------------------------------------------------------------
(* SelectionStrategy.                                                      *)

Single == [kind |-> "Single"]
Fallback(chain) == [kind |-> "Fallback", chain |-> chain]
WeightedRoundRobin(weights) ==
    [kind |-> "WeightedRoundRobin", weights |-> weights]

IsStrategy(s) ==
    \/ s = Single
    \/ s.kind = "Fallback" /\ s.chain \in Seq(Name)
    \/ s.kind = "WeightedRoundRobin" /\ s.weights \in Seq(Name \X Nat)

(***************************************************************************)
(* CapabilityRegistry: a bucket of named providers per contract, and the   *)
(* strategy of each (Single where none was set).                           *)
(***************************************************************************)
EmptyRegistry ==
    [providers  |-> [c \in Contract |-> << >>],
     strategies |-> [c \in Contract |-> Single]]

\* Calls of `register` by one provider, one per <<contract, name>>: a provider
\* under the same name is replaced.
Register(registry, capabilities, provider) ==
    LET names(c) == {name \in Name : <<c, name>> \in capabilities}
    IN  [registry EXCEPT !.providers =
            [c \in Contract |-> Extend(registry.providers[c],
                                      [name \in names(c) |-> provider])]]

\* Calls of `set_strategy`, a sequence of <<contract, strategy>>: of several for
\* a contract the last one stays.
SetStrategies(registry, calls) ==
    LET for(c) == {k \in DOMAIN calls : calls[k][1] = c}
        last(c) == CHOOSE k \in for(c) : \A j \in for(c) : j <= k
    IN  [registry EXCEPT !.strategies =
            [c \in Contract |-> IF for(c) = {} THEN registry.strategies[c]
                                ELSE calls[last(c)][2]]]

ResolveProvider(bucket, name) ==
    IF name \in DOMAIN bucket THEN bucket[name] ELSE None

ContainsType(registry, c) == DOMAIN registry.providers[c] # {}
ContainsTypedName(registry, c, name) == name \in DOMAIN registry.providers[c]

\* The first name of the chain that is registered.
FirstRegistered(bucket, chain) ==
    LET found == {i \in DOMAIN chain : chain[i] \in DOMAIN bucket}
    IN  IF found = {} THEN None
        ELSE bucket[chain[CHOOSE i \in found : \A j \in found : i <= j]]

-----------------------------------------------------------------------------
(* weighted_pick: the name whose span of the running total holds pick.     *)

\* What the first i entries weigh, for every i.
RunningTotal(weights) ==
    LET upTo[i \in 0 .. Len(weights)] ==
            IF i = 0 THEN 0 ELSE upTo[i - 1] + weights[i][2]
    IN  upTo

Total(weights) == RunningTotal(weights)[Len(weights)]

PickedEntry(weights, pick) ==
    CHOOSE i \in DOMAIN weights : /\ RunningTotal(weights)[i - 1] <= pick
                                  /\ pick < RunningTotal(weights)[i]
PickedName(weights, pick) == weights[PickedEntry(weights, pick)][1]

\* The strategies that do not rotate, and a rotation with no weight at all.
GetFixed(registry, c) ==
    LET bucket   == registry.providers[c]
        strategy == registry.strategies[c]
    IN  CASE strategy.kind = "Single" -> ResolveProvider(bucket, DefaultName)
          [] strategy.kind = "Fallback" ->
                FirstRegistered(bucket, strategy.chain)
          [] OTHER -> None

Rotates(registry, c) ==
    /\ registry.strategies[c].kind = "WeightedRoundRobin"
    /\ ContainsType(registry, c)
    /\ Total(registry.strategies[c].weights) > 0

\* CapabilityRegistry::build: the frozen view counts the picks of the contracts
\* that rotate, each from zero.
FrozenRotation(registry) ==
    [c \in Contract |->
        IF registry.strategies[c].kind = "WeightedRoundRobin" THEN 0 ELSE None]

\* What `get` may return: for a rotation, any name that has weight.
Obtainable(registry, c) ==
    IF Rotates(registry, c)
    THEN LET weights == registry.strategies[c].weights
         IN  {ResolveProvider(registry.providers[c], PickedName(weights, k)) :
                 k \in 0 .. Total(weights) - 1}
    ELSE {GetFixed(registry, c)}

=============================================================================
