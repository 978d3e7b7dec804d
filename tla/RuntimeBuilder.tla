--------------------------- MODULE RuntimeBuilder ---------------------------
(***************************************************************************)
(* The Configure phase of a runtime (walastack-runtime/src/runtime.rs and  *)
(* plugins.rs): an application calls the builder's with* methods in any    *)
(* order; build applies the plugins one after the other, moves their       *)
(* services behind its own, freezes the registries and validates what the  *)
(* plugins require; the runtime then starts its services, each of which    *)
(* looks up what it uses, and tasks call Capabilities::get concurrently.   *)
(*                                                                         *)
(* A plugin is a record of what its hooks do:                              *)
(*   resources     sequence of resource types inserted                     *)
(*   capabilities  sequence of <<contract, name>> registered               *)
(*   strategies    sequence of <<contract, strategy>> set                  *)
(*   services      sequence of services planned                            *)
(*   requires      sequence of <<contract, name or None>>                  *)
(* and a service a record of what its start looks up: `uses`, a set of     *)
(* contracts, and `reads`, a set of resource types.                        *)
(***************************************************************************)
EXTENDS Capabilities, SequencesExt

CONSTANTS
    Plugin,        \* the plugins an application may add
    OwnResource,   \* resource types it inserts itself
    OwnService,    \* services the application adds itself
    OwnCapability, \* <<contract, name>> pairs it registers itself
    Caller,        \* tasks that call Capabilities::get
    MaxPlugins,    \* bound: with_plugin calls
    MaxOwn,        \* bound: other with* calls
    MaxLookups     \* bound: calls of Capabilities::get

ASSUME LookupsAssumption == MaxLookups \in Nat /\ MaxLookups < CounterSize

ASSUME PluginAssumption ==
    \A p \in Plugin :
        /\ p.services \in Seq(ToSet(p.services))
        /\ p.strategies \in Seq(ToSet(p.strategies))
        /\ \A k \in DOMAIN p.strategies : IsStrategy(p.strategies[k][2])

\* What a plugin does about a contract its services use.
Declares(p, c) ==
    \/ \E capability \in ToSet(p.capabilities) :
          capability \in Contract \X Name /\ capability[1] = c
    \/ \E k \in DOMAIN p.requires : p.requires[k][1] = c

\* What a plugin answers for, as those the repository ships do: each of its
\* services reads resources it inserts and uses contracts it registers a provider
\* of or requires.  Nothing is asked of what the application brings itself.
ASSUME ServicesAssumption ==
    /\ \A s \in OwnService : s.uses \subseteq Contract
    /\ \A p \in Plugin : \A s \in ToSet(p.services) :
          /\ s.reads \subseteq ToSet(p.resources)
          /\ \A c \in s.uses : c \in Contract /\ Declares(p, c)

VARIABLES
    phase,       \* where RuntimeBuilder::run is
    plugins,     \* PluginManager.plugins
    applied,     \* how many of them have been applied
    own,         \* the with* calls made: sequence of records, for reference
    resources,   \* ResourceRegistry: resource type -> who inserted it
    registry,    \* CapabilityRegistry
    staged,      \* ServicePlanner.services
    services,    \* RuntimeBuilder.services
    started,     \* how many services have been started
    rotation,    \* CapabilitiesInner.rotation
    pick,        \* per caller: the slot its fetch_add returned, or None
    lookups,     \* how many lookups have begun, for the bound
    served       \* reference: what the lookups have returned, per contract

rvars == <<phase, plugins, applied, own, resources, registry, staged,
           services, started, rotation, pick, lookups, served>>

\* Who registers: the application, or the i-th plugin.
Application == 0

RInit ==
    /\ phase = "configure"
    /\ plugins = << >>
    /\ applied = 0
    /\ own = << >>
    /\ resources = << >>
    /\ registry = EmptyRegistry
    /\ staged = << >>
    /\ services = << >>
    /\ started = 0
    /\ rotation = [c \in Contract |-> None]
    /\ pick = [t \in Caller |-> None]
    /\ lookups = 0
    /\ served = [c \in Contract |-> << >>]

-----------------------------------------------------------------------------
(* ResourceRegistry::insert: a value of the same type is replaced.         *)

Insert(table, r, who) == Put(table, r, who)

-----------------------------------------------------------------------------
(* The with* methods.                                                      *)

MayConfigure == phase = "configure" /\ Len(own) < MaxOwn
BuildVars == <<applied, staged, started, rotation, pick, lookups, served>>

WithPlugin(p) ==
    /\ phase = "configure" /\ Len(plugins) < MaxPlugins
    /\ plugins' = Append(plugins, p)
    /\ UNCHANGED <<phase, own, resources, registry, services, BuildVars>>

WithResource(r) ==
    /\ MayConfigure
    /\ resources' = Insert(resources, r, Application)
    /\ own' = Append(own, <<"resource", r>>)
    /\ UNCHANGED <<phase, plugins, registry, services, BuildVars>>

WithCapability(c, name) ==
    /\ MayConfigure
    /\ registry' = Register(registry, {<<c, name>>}, Application)
    /\ own' = Append(own, <<"capability", c, name>>)
    /\ UNCHANGED <<phase, plugins, resources, services, BuildVars>>

WithSupervised(s) ==
    /\ MayConfigure
    /\ services' = Append(services, s)
    /\ own' = Append(own, <<"service", s>>)
    /\ UNCHANGED <<phase, plugins, resources, registry, BuildVars>>

-----------------------------------------------------------------------------
(* build.                                                                  *)

\* The three hooks of one plugin, i its place in the manager.
RegisterResources(table, i) ==
    Extend(table, [r \in ToSet(plugins[i].resources) |-> i])

RegisterCapabilities(table, i) ==
    SetStrategies(Register(table, ToSet(plugins[i].capabilities), i),
                  plugins[i].strategies)

RegisterServices(planner, i) == planner \o plugins[i].services

\* PluginManager::apply_all, one iteration.
ApplyPlugin ==
    LET i == applied + 1
    IN  /\ phase \in {"configure", "applying"}
        /\ applied < Len(plugins)
        /\ phase' = "applying"
        /\ resources' = RegisterResources(resources, i)
        /\ registry' = RegisterCapabilities(registry, i)
        /\ staged' = RegisterServices(staged, i)
        /\ applied' = i
        /\ UNCHANGED <<plugins, own, services, started, rotation, pick, lookups,
                       served>>

\* The planner is drained and the registries are frozen.
Freeze ==
    /\ phase \in {"configure", "applying"}
    /\ applied = Len(plugins)
    /\ phase' = "frozen"
    /\ services' = services \o staged
    /\ staged' = << >>
    /\ rotation' = FrozenRotation(registry)
    /\ UNCHANGED <<plugins, applied, own, resources, registry, started, pick,
                   lookups, served>>

\* Mutant: Requirements are not looked at.
SatisfiedAlways(requirement) == TRUE

\* CapabilityRequirement::is_satisfied_by.
Satisfied(requirement) ==
    IF requirement[2] = None
    THEN ContainsType(registry, requirement[1])
    ELSE ContainsTypedName(registry, requirement[1], requirement[2])

MetBy(p) == \A k \in DOMAIN p.requires : Satisfied(p.requires[k])

Validate ==
    /\ phase = "frozen"
    /\ phase' = IF \A i \in DOMAIN plugins : MetBy(plugins[i])
                THEN "built" ELSE "rejected"
    /\ UNCHANGED <<plugins, own, resources, registry, services, BuildVars>>

-----------------------------------------------------------------------------
(* Runtime::start as far as the lookups of Service::start go.              *)

\* RuntimeContext: a resource of a type, and what a capability may resolve to.
ContextResource(r) == ResolveProvider(resources, r)
ContextCapability(c) == Obtainable(registry, c)

LookupsSucceed(s) ==
    /\ \A r \in s.reads : ContextResource(r) # None
    /\ \A c \in s.uses : None \notin ContextCapability(c)

StartService ==
    /\ phase = "built" /\ started < Len(services)
    /\ IF LookupsSucceed(services[started + 1])
       THEN started' = started + 1 /\ UNCHANGED phase
       ELSE phase' = "startFailed" /\ UNCHANGED started
    /\ UNCHANGED <<plugins, applied, own, resources, registry, staged,
                   services, rotation, pick, lookups, served>>

-----------------------------------------------------------------------------
(* Capabilities::get by concurrent tasks.  `served` records the answers.   *)

MayLookup == phase = "built" /\ started = Len(services) /\ lookups < MaxLookups

\* Mutant: The counter is loaded and stored: a concurrent call overwrites the store.
FetchThenStore(t, c) ==
    /\ MayLookup /\ Rotates(registry, c) /\ pick[t] = None
    /\ pick' = [pick EXCEPT ![t] =
                    <<c, rotation[c] % Total(registry.strategies[c].weights)>>]
    /\ rotation' = [rotation EXCEPT ![c] =
                        IF \A u \in Caller : pick[u] = None THEN (@ + 1) % CounterSize ELSE @]
    /\ lookups' = lookups + 1
    /\ UNCHANGED <<phase, plugins, applied, own, resources, registry, staged,
                   services, started, served>>

\* fetch_add wraps at the width of the counter.
FetchAdd(t, c) ==
    /\ MayLookup /\ Rotates(registry, c) /\ pick[t] = None
    /\ pick' = [pick EXCEPT ![t] =
                    <<c, rotation[c] % Total(registry.strategies[c].weights)>>]
    /\ rotation' = [rotation EXCEPT ![c] = (@ + 1) % CounterSize]
    /\ lookups' = lookups + 1
    /\ UNCHANGED <<phase, plugins, applied, own, resources, registry, staged,
                   services, started, served>>

ResolvePick(t) ==
    /\ pick[t] # None
    /\ LET c    == pick[t][1]
           name == PickedName(registry.strategies[c].weights, pick[t][2])
       IN  served' = [served EXCEPT ![c] =
                         Append(@, ResolveProvider(registry.providers[c], name))]
    /\ pick' = [pick EXCEPT ![t] = None]
    /\ UNCHANGED <<phase, plugins, applied, own, resources, registry, staged,
                   services, started, rotation, lookups>>

-----------------------------------------------------------------------------
(* Properties.                                                             *)

\* The names that are registered for a contract meet the strategy that is set:
\* the default one, one of a chain, all that a rotation gives weight.
Reached(c) ==
    LET names    == DOMAIN registry.providers[c]
        strategy == registry.strategies[c]
    IN  \/ strategy.kind = "Single" /\ DefaultName \in names
        \/ strategy.kind = "Fallback" /\ ToSet(strategy.chain) \cap names # {}
        \/ /\ strategy.kind = "WeightedRoundRobin"
           /\ Total(strategy.weights) > 0
           /\ \A i \in DOMAIN strategy.weights :
                 strategy.weights[i][2] > 0 => strategy.weights[i][1] \in names

\* Whatever plugins are combined in whatever order, and whatever the application
\* adds or replaces: if validation passes, the start of a plugin's service finds
\* every resource it reads and has a provider for every contract it uses.  It can
\* fail in one way only: a contract that has providers has them under names its
\* strategy does not look for, as CapabilityRequirement::any accepts any name
\* (apply_all, is_satisfied_by, Capabilities::get; Worker::start, resolve_env).
ServicesResolve ==
    phase = "startFailed" =>
        LET s == services[started + 1]
        IN  \/ s \in OwnService
            \/ /\ \A r \in s.reads : ContextResource(r) # None
               /\ \A c \in s.uses : ContainsType(registry, c)
               /\ \E c \in s.uses : ~ Reached(c)

\* A weighted round robin is exact, whatever callers race: once every call that
\* began has returned and the calls make whole rounds, each registered
\* provider has answered its weight times the rounds (weighted_pick).
Idle == \A t \in Caller : pick[t] = None
AnswersOf(c, provider) ==
    Cardinality({k \in DOMAIN served[c] : served[c][k] = provider})
WeightOf(weights, bucket, provider) ==
    Total([i \in DOMAIN weights |->
              <<weights[i][1], IF ResolveProvider(bucket, weights[i][1]) = provider
                               THEN weights[i][2] ELSE 0>>])
Balanced ==
    \A c \in Contract :
        (Rotates(registry, c) /\ Idle) =>
            LET weights == registry.strategies[c].weights
                calls   == Len(served[c])
            IN  calls % Total(weights) = 0 =>
                    \A provider \in 0 .. Len(plugins) :
                        AnswersOf(c, provider) =
                            (calls \div Total(weights))
                            * WeightOf(weights, registry.providers[c], provider)

=============================================================================
