------------------------------- MODULE Registry -------------------------------
(***************************************************************************)
(* typed/registry.go: the registry through which controllers share the     *)
(* informer factories, and so the caches, of one another.                  *)
(*                                                                         *)
(* A provider creates a factory under a key, asks it for informers, starts *)
(* it and may remove it from the registry; a consumer looks a resource up  *)
(* under a key.  The informer factories are client-go's (external):        *)
(* ForResource creates the informer of a resource when there is none, and  *)
(* Start runs the informers there are.  A method of Registry is one        *)
(* critical section.                                                       *)
(***************************************************************************)
EXTENDS Naturals

CONSTANTS Providers, Consumers,
          Keys,          \* FactoryKey
          Resources,     \* GroupVersionResource
          NoFactory,
          MaxFactories   \* factories created

Factories == 1..MaxFactories

ASSUME RegistryAssumption == MaxFactories \in Nat /\ NoFactory \notin Factories

VARIABLES
    factories,   \* Registry.factories
    created,     \* how many factories have been created
    informers,   \* the informers of each factory
    running,     \* those that have been started
    removals,    \* how often each key has been removed
    provider,    \* what each provider has registered
    handle       \* what each consumer has been handed out

registryVars == <<factories, created, informers, running, removals, provider, handle>>

\* A registration lasts from Add to Remove: the key, and the number of earlier
\* removals of the key.
Registration == [key : Keys, since : 0..MaxFactories]
Idle == [at |-> "idle"]
None == [found |-> FALSE]

RegistryTypeOK ==
    /\ factories \in [Keys -> Factories \cup {NoFactory}]
    /\ created \in 0..MaxFactories
    /\ informers \in [Factories -> SUBSET Resources]
    /\ running \in [Factories -> SUBSET Resources]
    /\ \A f \in Factories : running[f] \subseteq informers[f]
    /\ removals \in [Keys -> 0..MaxFactories]
    /\ \A p \in Providers :
         \/ provider[p] = Idle
         \/ provider[p] \in [at : {"registered", "started"}, reg : Registration,
                             factory : 1..created, declared : SUBSET Resources]
    /\ \A c \in Consumers :
         \/ handle[c] = None
         \/ handle[c] \in [found : {TRUE}, reg : Registration,
                           factory : 1..created, resource : Resources]

RegistryInit ==
    /\ factories = [k \in Keys |-> NoFactory]
    /\ created = 0
    /\ informers = [f \in Factories |-> {}]
    /\ running = [f \in Factories |-> {}]
    /\ removals = [k \in Keys |-> 0]
    /\ provider = [p \in Providers |-> Idle]
    /\ handle = [c \in Consumers |-> None]

------------------------------------------------------------------------------
Current(k) == [key |-> k, since |-> removals[k]]

\* A plausible slip: Add replaces the factory that is there.
AddReplaces(k, f) ==
    /\ factories' = [factories EXCEPT ![k] = f]

\* Registry.Add; it is an error when the key is taken.
Add(k, f) ==
    /\ factories[k] = NoFactory
    /\ factories' = [factories EXCEPT ![k] = f]

\* A plausible slip: the registry gets a factory of its own.
NewTwice(p, k) ==
    /\ provider[p] = Idle
    /\ created + 2 <= MaxFactories
    /\ created' = created + 2
    /\ Add(k, created + 2)
    /\ provider' = [provider EXCEPT ![p] =
                      [at |-> "registered", reg |-> Current(k),
                       factory |-> created + 1, declared |-> {}]]
    /\ UNCHANGED <<informers, running, removals, handle>>

\* NewFilteredDynamicSharedInformerFactory.
New(p, k) ==
    /\ provider[p] = Idle
    /\ created < MaxFactories
    /\ created' = created + 1
    /\ Add(k, created + 1)
    /\ provider' = [provider EXCEPT ![p] =
                      [at |-> "registered", reg |-> Current(k),
                       factory |-> created + 1, declared |-> {}]]
    /\ UNCHANGED <<informers, running, removals, handle>>

\* ... fails, and the new factory is dropped.
NewFails(p, k) ==
    /\ provider[p] = Idle
    /\ created < MaxFactories
    /\ created' = created + 1
    /\ factories[k] # NoFactory
    /\ UNCHANGED <<factories, informers, running, removals, provider, handle>>

\* Registry.Remove.  It stops no informers.
Remove(p) ==
    /\ provider[p].at = "started"
    /\ LET k == provider[p].reg.key
       IN  /\ factories' = [factories EXCEPT ![k] = NoFactory]
           /\ removals' = [removals EXCEPT ![k] = @ + 1]
    /\ provider' = [provider EXCEPT ![p] = Idle]
    /\ UNCHANGED <<created, informers, running, handle>>

\* InformerFactoryForKey, which the functions for informers, listers and
\* indexers call.  With an unknown key the consumer has an error, or a panic,
\* and may try again.
Lookup(c, k, r) ==
    /\ handle[c] = None
    /\ factories[k] # NoFactory
    /\ informers' = [informers EXCEPT ![factories[k]] = @ \cup {r}]
    /\ handle' = [handle EXCEPT ![c] =
                    [found |-> TRUE, reg |-> Current(k), factory |-> factories[k],
                     resource |-> r]]
    /\ UNCHANGED <<factories, created, running, removals, provider>>

\* The provider asks its factory for an informer before it starts it ...
Declare(p, r) ==
    /\ provider[p].at = "registered"
    /\ informers' = [informers EXCEPT ![provider[p].factory] = @ \cup {r}]
    /\ provider' = [provider EXCEPT ![p].declared = @ \cup {r}]
    /\ UNCHANGED <<factories, created, running, removals, handle>>

\* ... and starts it.
StartFactory(p) ==
    /\ provider[p].at = "registered"
    /\ running' = [running EXCEPT ![provider[p].factory] = informers[provider[p].factory]]
    /\ provider' = [provider EXCEPT ![p].at = "started"]
    /\ UNCHANGED <<factories, created, informers, removals, handle>>

------------------------------------------------------------------------------
RegistryNext ==
    \/ \E p \in Providers, k \in Keys : New(p, k) \/ NewFails(p, k)
    \/ \E p \in Providers : Remove(p) \/ StartFactory(p)
    \/ \E p \in Providers, r \in Resources : Declare(p, r)
    \/ \E c \in Consumers, k \in Keys, r \in Resources : Lookup(c, k, r)

\* A controller that has registered its factory goes on to start it.
RegistrySpec ==
    /\ RegistryInit /\ [][RegistryNext]_registryVars
    /\ \A p \in Providers : WF_registryVars(StartFactory(p))

------------------------------------------------------------------------------
Found == {c \in Consumers : handle[c].found}
Registered == {p \in Providers : provider[p] # Idle}

(***************************************************************************)
(* registry.go:4-7: controllers do not maintain separate caches of the     *)
(* same objects.  Whoever looks a resource up between a registration of a  *)
(* key and its removal gets the factory that the provider registered, when *)
(* providers compete for the key and take turns with it.                   *)
(***************************************************************************)
CachesAreShared ==
    /\ \A p \in Registered : factories[provider[p].reg.key] = provider[p].factory
    /\ \A c, d \in Found : handle[c].reg = handle[d].reg => handle[c].factory = handle[d].factory
    /\ \A c \in Found, p \in Registered :
         handle[c].reg = provider[p].reg => handle[c].factory = provider[p].factory

(***************************************************************************)
(* A consumer that looks up a resource which the provider declares before  *)
(* it starts the factory has a running informer in the end, whether it     *)
(* came before or after the start.                                         *)
(***************************************************************************)
DeclaredIsServed ==
    \A c \in Consumers, p \in Providers :
        (/\ handle[c].found /\ provider[p] # Idle
         /\ handle[c].reg = provider[p].reg
         /\ handle[c].resource \in provider[p].declared)
        ~> (handle[c].found /\ handle[c].resource \in running[handle[c].factory])

\* registry.go:61-62: "handlers from other controllers can easily access the
\* cached resources held by the informer": the informer that a consumer is
\* handed out runs in the end.
\* TLC refutes it; see the README.
HandedOutIsServed ==
    \A c \in Consumers :
        handle[c].found ~> (handle[c].found /\ handle[c].resource \in running[handle[c].factory])
==============================================================================
