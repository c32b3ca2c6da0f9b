--------------------------------- MODULE CRDs ---------------------------------
(***************************************************************************)
(* bootstrap/crds.go: the replicas of a controller install their CRDs when *)
(* they start.  Each creates or updates the CRDs one after the other, then *)
(* polls the discovery API until it has seen every resource they serve.    *)
(*                                                                         *)
(* The API server (external) keeps a resource version per CRD, refuses an  *)
(* update with an old one, and publishes what the CRDs serve later on.     *)
(***************************************************************************)
EXTENDS Naturals, Sequences, Functions

CONSTANTS Replicas,
          Crds,          \* the CRDs of the file system, a sequence
          Defs,          \* definitions of a CRD
          NoCrd,
          Desired,       \* the definition of each CRD in each replica's files
          Serves,        \* what a CRD with a definition serves
          Existing,      \* definitions there are at first
          Steps,         \* retry.DefaultBackoff.Steps
          MaxFaults, MaxDeletes,
          MaxTimeouts    \* replicas that may reach maxCRDInstallTime

Names == Range(Crds)
Resources == UNION {Serves[c][d] : c \in Names, d \in Defs}

ASSUME CRDsAssumption ==
    /\ Crds \in Seq(Names) /\ \A i, j \in DOMAIN Crds : Crds[i] = Crds[j] => i = j
    /\ NoCrd \notin Defs
    /\ Desired \in [Replicas -> [Names -> Defs]]
    /\ Existing \in [Names -> Defs \cup {NoCrd}]
    /\ Steps \in Nat \ {0}
    /\ MaxFaults \in Nat /\ MaxDeletes \in Nat /\ MaxTimeouts \in Nat

VARIABLES store,       \* the definitions in the cluster
          version,     \* their resource versions; a deleted one is not used again
          discovery,   \* what the discovery API lists
          pc,          \* where each replica is
          idx,         \* the CRD of the loop in createCRDs
          got,         \* the resource version it has read
          tries,       \* calls of the function passed to RetryOnConflict
          waiting,     \* resourcesByGV
          wrote,       \* history: CRDs it has created or updated
          seen,        \* history: resources a poll has shown it
          faults, deletes, timeouts

server == <<store, version, discovery>>
replica == <<pc, idx, got, tries, waiting, wrote, seen>>
bounds == <<faults, deletes, timeouts>>
vars == <<server, replica, bounds>>

Ended == {"installed", "failed"}

TypeOK ==
    /\ store \in [Names -> Defs \cup {NoCrd}]
    /\ version \in [Names -> Nat]
    /\ discovery \subseteq Resources
    /\ pc \in [Replicas -> {"get", "create", "reget", "update", "poll"} \cup Ended]
    /\ idx \in [Replicas -> 1..Len(Crds) + 1]
    /\ \A r \in Replicas : idx[r] > Len(Crds) => pc[r] \in {"poll"} \cup Ended
    /\ got \in [Replicas -> Nat]
    /\ \A r \in Replicas : pc[r] = "update" => got[r] <= version[Crds[idx[r]]]
    /\ tries \in [Replicas -> 0..Steps]
    /\ waiting \in [Replicas -> SUBSET Resources]
    /\ wrote \in [Replicas -> SUBSET Names]
    /\ seen \in [Replicas -> SUBSET Resources]
    /\ faults \in 0..MaxFaults /\ deletes \in 0..MaxDeletes /\ timeouts \in 0..MaxTimeouts

Wants(r) == UNION {Serves[c][Desired[r][c]] : c \in Names}

\* What the CRDs in the cluster serve.
Served(st) == UNION {Serves[c][st[c]] : c \in {n \in Names : st[n] # NoCrd}}

\* createCRDs is about to look at its i-th CRD, or returns and
\* waitForDiscovery begins.
Loop(i) == IF i > Len(Crds) THEN "poll" ELSE "get"

Init ==
    /\ store = Existing
    /\ version = [c \in Names |-> 0]
    /\ discovery = Served(Existing)
    /\ pc = [r \in Replicas |-> Loop(1)]
    /\ idx = [r \in Replicas |-> 1]
    /\ got = [r \in Replicas |-> 0]
    /\ tries = [r \in Replicas |-> 0]
    /\ waiting = [r \in Replicas |-> Wants(r)]
    /\ wrote = [r \in Replicas |-> {}]
    /\ seen = [r \in Replicas |-> {}]
    /\ faults = 0 /\ deletes = 0 /\ timeouts = 0

------------------------------------------------------------------------------
\* The API server.
Write(c, d) ==
    /\ store' = [store EXCEPT ![c] = d]
    /\ version' = [version EXCEPT ![c] = @ + 1]

Publish ==
    /\ discovery' = Served(store)
    /\ discovery' # discovery
    /\ UNCHANGED <<store, version, replica, bounds>>

Delete(c) ==
    /\ store[c] # NoCrd
    /\ deletes < MaxDeletes
    /\ deletes' = deletes + 1
    /\ Write(c, NoCrd)
    /\ UNCHANGED <<discovery, replica, faults, timeouts>>

\* createCRDs returns an error.
Fail(r) == pc' = [pc EXCEPT ![r] = "failed"]

\* The loop in createCRDs goes on.
Continue(r) ==
    /\ idx' = [idx EXCEPT ![r] = @ + 1]
    /\ pc' = [pc EXCEPT ![r] = Loop(idx[r] + 1)]
    /\ wrote' = [wrote EXCEPT ![r] = @ \cup {Crds[idx[r]]}]

\* Any call may fail; one that writes may have been carried out.
CallFails(r) ==
    /\ pc[r] \in {"get", "create", "reget", "update"}
    /\ faults < MaxFaults
    /\ faults' = faults + 1
    /\ Fail(r)
    /\ LET c == Crds[idx[r]]
       IN  \/ UNCHANGED <<store, version>>
          \/ /\ \/ pc[r] = "create" /\ store[c] = NoCrd
                \/ pc[r] = "update" /\ store[c] # NoCrd /\ version[c] = got[r]
             /\ Write(c, Desired[r][c])
    /\ UNCHANGED <<discovery, idx, got, tries, waiting, wrote, seen, deletes, timeouts>>

Get(r) ==
    /\ pc[r] = "get"
    /\ pc' = [pc EXCEPT ![r] = IF store[Crds[idx[r]]] = NoCrd THEN "create" ELSE "reget"]
    /\ tries' = [tries EXCEPT ![r] = 0]
    /\ UNCHANGED <<server, idx, got, waiting, wrote, seen, bounds>>

\* A CRD that is there by now is an error.
Create(r) ==
    /\ pc[r] = "create"
    /\ LET c == Crds[idx[r]]
       IN  IF store[c] = NoCrd
           THEN Write(c, Desired[r][c]) /\ Continue(r)
           ELSE Fail(r) /\ UNCHANGED <<store, version, idx, wrote>>
    /\ UNCHANGED <<discovery, got, tries, waiting, seen, bounds>>

\* The function passed to RetryOnConflict: it reads the resource version ...
Reget(r) ==
    /\ pc[r] = "reget"
    /\ LET c == Crds[idx[r]]
       IN  IF store[c] = NoCrd
           THEN Fail(r) /\ UNCHANGED <<got, tries>>
           ELSE /\ got' = [got EXCEPT ![r] = version[c]]
                /\ tries' = [tries EXCEPT ![r] = @ + 1]
                /\ pc' = [pc EXCEPT ![r] = "update"]
    /\ UNCHANGED <<server, idx, waiting, wrote, seen, bounds>>

\* A plausible slip: the update carries the resource version of the first try.
UpdateStale(r) ==
    /\ pc[r] = "update"
    /\ LET c == Crds[idx[r]]
       IN  IF store[c] # NoCrd /\ version[c] = got[r]
           THEN Write(c, Desired[r][c]) /\ Continue(r) /\ UNCHANGED tries
           ELSE /\ IF store[c] = NoCrd \/ tries[r] = Steps
                   THEN Fail(r) /\ UNCHANGED tries
                   ELSE UNCHANGED pc /\ tries' = [tries EXCEPT ![r] = @ + 1]
                /\ UNCHANGED <<store, version, idx, wrote>>
    /\ UNCHANGED <<discovery, got, waiting, seen, bounds>>

\* A plausible slip: it is tried without an end.
UpdateEndless(r) ==
    /\ pc[r] = "update"
    /\ LET c == Crds[idx[r]]
       IN  IF store[c] # NoCrd /\ version[c] = got[r]
           THEN Write(c, Desired[r][c]) /\ Continue(r)
           ELSE UNCHANGED <<store, version, pc, idx, wrote>>
    /\ UNCHANGED <<discovery, got, tries, waiting, seen, bounds>>

\* ... and updates the CRD with it; a conflict is tried again, Steps times.
Update(r) ==
    /\ pc[r] = "update"
    /\ LET c == Crds[idx[r]]
       IN  IF store[c] # NoCrd /\ version[c] = got[r]
           THEN Write(c, Desired[r][c]) /\ Continue(r)
           ELSE /\ IF store[c] = NoCrd \/ tries[r] = Steps
                   THEN Fail(r)
                   ELSE pc' = [pc EXCEPT ![r] = "reget"]
                /\ UNCHANGED <<store, version, idx, wrote>>
    /\ UNCHANGED <<discovery, got, tries, waiting, seen, bounds>>

\* A plausible slip: one resource of the CRDs is enough.
PollAny(r) ==
    /\ pc[r] = "poll"
    /\ waiting' = [waiting EXCEPT ![r] = @ \ discovery]
    /\ seen' = [seen EXCEPT ![r] = @ \cup discovery]
    /\ pc' = [pc EXCEPT ![r] = IF waiting'[r] # Wants(r) THEN "installed" ELSE @]
    /\ UNCHANGED <<server, idx, got, tries, wrote, bounds>>

\* waitForDiscovery: what a poll shows is not waited for any more.
Poll(r) ==
    /\ pc[r] = "poll"
    /\ waiting' = [waiting EXCEPT ![r] = @ \ discovery]
    /\ seen' = [seen EXCEPT ![r] = @ \cup discovery]
    /\ pc' = [pc EXCEPT ![r] = IF waiting'[r] = {} THEN "installed" ELSE @]
    /\ UNCHANGED <<server, idx, got, tries, wrote, bounds>>

\* A poll that fails changes nothing; after maxCRDInstallTime it is an error.
Timeout(r) ==
    /\ pc[r] = "poll"
    /\ timeouts < MaxTimeouts
    /\ timeouts' = timeouts + 1
    /\ Fail(r)
    /\ UNCHANGED <<server, idx, got, tries, waiting, wrote, seen, faults, deletes>>

ReplicaStep(r) == Get(r) \/ Create(r) \/ Reget(r) \/ Update(r) \/ Poll(r)

Next ==
    \/ Publish
    \/ \E c \in Names : Delete(c)
    \/ \E r \in Replicas : ReplicaStep(r) \/ CallFails(r) \/ Timeout(r)

(***************************************************************************)
(* The server answers and publishes, and a poll that succeeds comes before *)
(* the time is over, unless Timeout says otherwise.                        *)
(***************************************************************************)
Spec ==
    /\ Init /\ [][Next]_vars
    /\ WF_vars(Publish)
    /\ \A r \in Replicas : WF_vars(ReplicaStep(r))

------------------------------------------------------------------------------
(***************************************************************************)
(* CRDs returns no error only when the replica has created or updated each *)
(* of its CRDs and a poll has shown it every resource they serve, though   *)
(* not all of them in one poll.                                            *)
(***************************************************************************)
InstalledIsServed ==
    \A r \in Replicas : pc[r] = "installed" => wrote[r] = Names /\ Wants(r) \subseteq seen[r]

(***************************************************************************)
(* bootstrap/crds.go:65, "createCRDs creates (or updates) CRDs": replicas  *)
(* that start together get the CRDs that are there updated, however        *)
(* their updates conflict, as long as there are not more replicas than     *)
(* Steps.  Without faults a replica fails only on a CRD that was missing:  *)
(* another one has created it between its get and its create.              *)
(***************************************************************************)
CreatesOrUpdates ==
    faults = 0 /\ deletes = 0 /\ timeouts = 0 =>
        \A r \in Replicas : pc[r] = "failed" => Existing[Crds[idx[r]]] = NoCrd

(***************************************************************************)
(* bootstrap/crds.go:34: every replica returns from CRDs in the end, no    *)
(* matter how their updates conflict.  One has to wait for the time to be  *)
(* over only if no CRD in the cluster serves a resource that it waits for: *)
(* its CRD was deleted, or a replica of an older release has put its own   *)
(* definition there before discovery showed the newer one.                 *)
(***************************************************************************)
EveryReplicaReturns ==
    \A r \in Replicas :
        <>[](pc[r] \in Ended \/ (pc[r] = "poll" /\ ~(waiting[r] \subseteq Served(store))))
==============================================================================
