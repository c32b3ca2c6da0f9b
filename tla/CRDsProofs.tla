------------------------------ MODULE CRDsProofs ------------------------------
(***************************************************************************)
(* Theorems about CRDs, for any number of replicas and CRDs.               *)
(*                                                                         *)
(* The argument. The loop over the definitions leaves none behind that it  *)
(* has not written (LoopIsDone), and a replica stops waiting for a name    *)
(* only when discovery has shown it (NothingIsForgotten): a replica that   *)
(* reports success has seen all of them served.                            *)
(*                                                                         *)
(* That nobody fails on a CRD that was there from the start takes          *)
(* counting. Where nothing is lost or deleted, the version of a CRD is the *)
(* number of replicas that have written it, and a replica whose update has *)
(* met a conflict n times has n of the others behind it                    *)
(* (ConflictsAreCounted). Each replica writes a CRD once, so there are     *)
(* fewer than Cardinality(Replicas) of them; that this is at most Steps,   *)
(* the tries of retry.RetryOnConflict, is an assumption of the theorem.    *)
(***************************************************************************)
EXTENDS CRDs, TLAPS, FiniteSetTheorems

\* The loop has written the CRDs before the one it is at, and a replica
\* that polls has left the loop.
LoopIsDone ==
    \A r \in Replicas :
        /\ wrote[r] = {Crds[i] : i \in 1..idx[r] - 1}
        /\ pc[r] \in {"poll", "installed"} => idx[r] = Len(Crds) + 1
        /\ pc[r] = "reget" => tries[r] < Steps

\* What a replica does not wait for any more, it has seen.
NothingIsForgotten ==
    \A r \in Replicas :
        /\ Wants(r) \subseteq waiting[r] \cup seen[r]
        /\ pc[r] = "installed" => waiting[r] = {}

IInv == TypeOK /\ LoopIsDone /\ NothingIsForgotten

Writers(c) == {r \in Replicas : c \in wrote[r]}

\* Without faults and deletions the version of a CRD counts the replicas
\* that have written it, and a replica that has tried k times has met k - 1
\* of them or more.
ConflictsAreCounted ==
    faults = 0 /\ deletes = 0 =>
        /\ \A c \in Names :
              /\ version[c] = Cardinality(Writers(c))
              /\ Existing[c] # NoCrd => store[c] # NoCrd
        /\ \A r \in Replicas :
              /\ pc[r] = "create" => Existing[Crds[idx[r]]] = NoCrd
              /\ pc[r] = "reget" => tries[r] <= version[Crds[idx[r]]]
              /\ pc[r] = "update" => tries[r] <= got[r] + 1

CInv == IInv /\ ConflictsAreCounted /\ CreatesOrUpdates

------------------------------------------------------------------------------
InLoop == {"get", "create", "reget", "update"}

\* A replica in the loop is at one of its CRDs, which it has not written yet.
LEMMA AtCrd ==
    ASSUME TypeOK, LoopIsDone, NEW r \in Replicas, pc[r] \in InLoop
    PROVE  /\ idx[r] \in 1..Len(Crds)
           /\ Crds[idx[r]] \in Names
           /\ Crds[idx[r]] \notin wrote[r]
<1>1. idx[r] \in 1..Len(Crds)
  <2>1. Len(Crds) \in Nat
    BY CRDsAssumption
  <2>2. idx[r] \in 1..Len(Crds) + 1 /\ (idx[r] > Len(Crds) => pc[r] \in {"poll"} \cup Ended)
    BY Zenon DEF TypeOK
  <2>3. pc[r] \notin {"poll"} \cup Ended
    BY Zenon DEF InLoop, Ended
  <2> QED
    BY <2>1, <2>2, <2>3
<1>2. DOMAIN Crds = 1..Len(Crds)
  BY CRDsAssumption
<1>3. Crds[idx[r]] \in Names
  BY <1>1, <1>2, Zenon DEF Names, Range
<1>4. ASSUME NEW i \in 1..idx[r] - 1 PROVE Crds[i] # Crds[idx[r]]
  <2>1. i \in 1..Len(Crds) /\ i # idx[r]
    BY <1>1, CRDsAssumption
  <2> QED
    BY <2>1, <1>1, <1>2, CRDsAssumption, Zenon
<1> QED
  BY <1>1, <1>3, <1>4 DEF LoopIsDone

\* Continue adds the replica's CRD to those it has written.
LEMMA ContinueKeeps ==
    ASSUME TypeOK, LoopIsDone, NEW r \in Replicas, pc[r] \in InLoop,
           Continue(r), tries' = tries
    PROVE  /\ pc' \in [Replicas -> {"get", "create", "reget", "update", "poll"} \cup Ended]
           /\ idx' \in [Replicas -> 1..Len(Crds) + 1]
           /\ wrote' \in [Replicas -> SUBSET Names]
           /\ pc'[r] \in {"get", "poll"}
           /\ idx'[r] > Len(Crds) => pc'[r] = "poll"
           /\ \A q \in Replicas \ {r} : pc'[q] = pc[q] /\ idx'[q] = idx[q] /\ wrote'[q] = wrote[q]
           /\ wrote'[r] = wrote[r] \cup {Crds[idx[r]]}
           /\ LoopIsDone'
<1>1. /\ idx[r] \in 1..Len(Crds) /\ Crds[idx[r]] \in Names /\ Len(Crds) \in Nat
  BY AtCrd, CRDsAssumption
<1>2. /\ idx' = [idx EXCEPT ![r] = idx[r] + 1]
      /\ pc' = [pc EXCEPT ![r] = IF idx[r] + 1 > Len(Crds) THEN "poll" ELSE "get"]
      /\ wrote' = [wrote EXCEPT ![r] = wrote[r] \cup {Crds[idx[r]]}]
  BY Zenon DEF Continue, Loop
<1>3. /\ idx \in [Replicas -> 1..Len(Crds) + 1]
      /\ pc \in [Replicas -> {"get", "create", "reget", "update", "poll"} \cup Ended]
      /\ wrote \in [Replicas -> SUBSET Names]
  BY Zenon DEF TypeOK
<1>4. /\ idx'[r] = idx[r] + 1
      /\ pc'[r] = IF idx[r] + 1 > Len(Crds) THEN "poll" ELSE "get"
      /\ wrote'[r] = wrote[r] \cup {Crds[idx[r]]}
      /\ \A q \in Replicas \ {r} : pc'[q] = pc[q] /\ idx'[q] = idx[q] /\ wrote'[q] = wrote[q]
  BY <1>2, <1>3, Zenon
<1>5. wrote'[r] = {Crds[i] : i \in 1..idx'[r] - 1}
  <2>1. 1..idx'[r] - 1 = (1..idx[r] - 1) \cup {idx[r]}
    BY <1>1, <1>4
  <2>2. wrote[r] = {Crds[i] : i \in 1..idx[r] - 1}
    BY Zenon DEF LoopIsDone
  <2>3. {Crds[i] : i \in (1..idx[r] - 1) \cup {idx[r]}} =
            {Crds[i] : i \in 1..idx[r] - 1} \cup {Crds[idx[r]]}
    BY Zenon
  <2> QED
    BY <2>1, <2>2, <2>3, <1>4, Zenon
<1>6. LoopIsDone'
  <2> SUFFICES ASSUME NEW q \in Replicas
               PROVE  /\ wrote'[q] = {Crds[i] : i \in 1..idx'[q] - 1}
                      /\ pc'[q] \in {"poll", "installed"} => idx'[q] = Len(Crds) + 1
                      /\ pc'[q] = "reget" => tries'[q] < Steps
    BY Zenon DEF LoopIsDone
  <2>1. CASE q = r
    BY <2>1, <1>1, <1>4, <1>5
  <2>2. CASE q # r
    BY <2>2, <1>4, Zenon DEF LoopIsDone
  <2> QED
    BY <2>1, <2>2, Zenon
<1>7. /\ pc' \in [Replicas -> {"get", "create", "reget", "update", "poll"} \cup Ended]
      /\ idx' \in [Replicas -> 1..Len(Crds) + 1]
      /\ wrote' \in [Replicas -> SUBSET Names]
  BY <1>1, <1>2, <1>3
<1> QED
  BY <1>1, <1>4, <1>6, <1>7, Zenon

\* Every resource a CRD may serve is a resource.
LEMMA ServedAreResources ==
    ASSUME NEW st \in [Names -> Defs \cup {NoCrd}]
    PROVE  /\ Served(st) \subseteq Resources
           /\ \A r \in Replicas : Wants(r) \subseteq Resources
<1>1. \A r \in Replicas, c \in Names : Desired[r][c] \in Defs
  BY CRDsAssumption
<1> QED
  BY <1>1 DEF Resources, Wants, Served

\* Before a replica has done anything.
LEMMA InitEstablishes == Init => IInv
<1> SUFFICES ASSUME Init PROVE IInv
  OBVIOUS
<1>1. Len(Crds) \in Nat
  BY CRDsAssumption
<1>2. TypeOK
  BY <1>1, ServedAreResources, CRDsAssumption DEF Init, TypeOK, Loop, Ended
<1>3. LoopIsDone
  <2> SUFFICES ASSUME NEW r \in Replicas
               PROVE  /\ wrote[r] = {Crds[i] : i \in 1..idx[r] - 1}
                      /\ pc[r] \in {"poll", "installed"} => idx[r] = Len(Crds) + 1
                      /\ pc[r] = "reget" => tries[r] < Steps
    BY Zenon DEF LoopIsDone
  <2>1. wrote[r] = {} /\ idx[r] = 1 /\ pc[r] = IF 1 > Len(Crds) THEN "poll" ELSE "get"
    BY Zenon DEF Init, Loop
  <2>2. 1..idx[r] - 1 = {}
    BY <2>1
  <2> QED
    BY <1>1, <2>1, <2>2
<1>4. NothingIsForgotten
  BY Zenon DEF Init, NothingIsForgotten, Loop
<1> QED
  BY <1>2, <1>3, <1>4, Zenon DEF IInv

\* A write of the CRD that r is at, or of any one.
LEMMA WriteKeeps ==
    ASSUME TypeOK, NEW c \in Names, NEW d \in Defs \cup {NoCrd}, Write(c, d)
    PROVE  /\ store' \in [Names -> Defs \cup {NoCrd}]
           /\ version' \in [Names -> Nat]
           /\ version'[c] = version[c] + 1
           /\ store'[c] = d
           /\ \A n \in Names \ {c} : version'[n] = version[n] /\ store'[n] = store[n]
           /\ \A n \in Names : version[n] <= version'[n]
BY DEF TypeOK, Write

\* The server's steps.
LEMMA ServerPreserves ==
    ASSUME IInv, Publish \/ \E c \in Names : Delete(c)
    PROVE  IInv'
<1> USE DEF IInv
<1>1. CASE Publish
  <2>1. discovery' \subseteq Resources
    BY <1>1, ServedAreResources, Zenon DEF Publish, TypeOK
  <2>2. TypeOK'
    BY <1>1, <2>1, Zenon DEF Publish, TypeOK, replica, bounds
  <2> QED
    BY <1>1, <2>2, Zenon DEF Publish, replica, bounds, LoopIsDone, NothingIsForgotten
<1>2. ASSUME NEW c \in Names, Delete(c) PROVE IInv'
  <2>1. /\ store' \in [Names -> Defs \cup {NoCrd}]
        /\ version' \in [Names -> Nat]
        /\ \A n \in Names : version[n] <= version'[n]
    BY <1>2, WriteKeeps, Zenon DEF Delete
  <2>2. deletes' \in 0..MaxDeletes
    BY <1>2, CRDsAssumption DEF Delete, TypeOK
  <2>3. UNCHANGED <<discovery, replica, faults, timeouts>>
    BY <1>2, Zenon DEF Delete
  <2>4. ASSUME NEW r \in Replicas, pc'[r] = "update" PROVE got'[r] <= version'[Crds[idx'[r]]]
    <3>1. Crds[idx[r]] \in Names /\ got[r] <= version[Crds[idx[r]]]
      BY <2>3, <2>4, AtCrd, Zenon DEF TypeOK, replica, InLoop
    <3> QED
      BY <3>1, <2>1, <2>3, SMTT(60) DEF TypeOK, replica
  <2>5. TypeOK'
    BY <2>1, <2>2, <2>3, <2>4, Zenon DEF TypeOK, replica
  <2> QED
    BY <2>5, <2>3, Zenon DEF replica, LoopIsDone, NothingIsForgotten
<1> QED
  BY <1>1, <1>2, Zenon

\* A version that only grows stays above what a replica has read.
LEMMA GotStaysOld ==
    ASSUME TypeOK, LoopIsDone, NEW q \in Replicas, pc[q] = "update",
           \A n \in Names : version'[n] \in Nat /\ version[n] <= version'[n]
    PROVE  got[q] <= version'[Crds[idx[q]]]
<1>1. Crds[idx[q]] \in Names
  BY AtCrd, Zenon DEF InLoop
<1>2. got[q] \in Nat /\ version[Crds[idx[q]]] \in Nat /\ got[q] <= version[Crds[idx[q]]]
  BY <1>1, Zenon DEF TypeOK
<1> QED
  BY <1>1, <1>2

\* A replica writes its CRD and goes on: Create and Update.
LEMMA WritingPreserves ==
    ASSUME IInv, NEW r \in Replicas, pc[r] \in {"create", "update"},
           Write(Crds[idx[r]], Desired[r][Crds[idx[r]]]), Continue(r),
           UNCHANGED <<discovery, got, tries, waiting, seen, bounds>>
    PROVE  IInv'
<1> USE DEF IInv
<1>1. Crds[idx[r]] \in Names /\ Desired[r][Crds[idx[r]]] \in Defs
  BY AtCrd, CRDsAssumption DEF InLoop
<1>2. /\ store' \in [Names -> Defs \cup {NoCrd}]
      /\ version' \in [Names -> Nat]
      /\ \A n \in Names : version[n] <= version'[n]
  BY <1>1, WriteKeeps, Zenon
<1>3. /\ pc' \in [Replicas -> {"get", "create", "reget", "update", "poll"} \cup Ended]
      /\ idx' \in [Replicas -> 1..Len(Crds) + 1]
      /\ wrote' \in [Replicas -> SUBSET Names]
      /\ pc'[r] \in {"get", "poll"}
      /\ idx'[r] > Len(Crds) => pc'[r] = "poll"
      /\ \A q \in Replicas \ {r} : pc'[q] = pc[q] /\ idx'[q] = idx[q]
      /\ LoopIsDone'
  BY ContinueKeeps, Zenon DEF InLoop
<1>4. ASSUME NEW q \in Replicas PROVE idx'[q] > Len(Crds) => pc'[q] \in {"poll"} \cup Ended
  BY <1>3, Zenon DEF TypeOK
<1>5. ASSUME NEW q \in Replicas, pc'[q] = "update" PROVE got'[q] <= version'[Crds[idx'[q]]]
  <2>1. q # r /\ pc[q] = "update" /\ idx'[q] = idx[q]
    BY <1>3, <1>5, Zenon
  <2> QED
    BY <1>2, <2>1, GotStaysOld, Zenon
<1>6. TypeOK'
  BY <1>2, <1>3, <1>4, <1>5, Zenon DEF TypeOK, bounds
<1>7. NothingIsForgotten'
  BY <1>3, Zenon DEF NothingIsForgotten
<1> QED
  BY <1>3, <1>6, <1>7, Zenon

\* A replica goes from one pc to another, and nothing else happens to it.
LEMMA MovingPreserves ==
    ASSUME IInv, NEW r \in Replicas, NEW p \in {"get", "create", "reget", "failed"},
           pc[r] # "installed", pc' = [pc EXCEPT ![r] = p],
           p # "failed" => idx[r] <= Len(Crds),
           p = "reget" => tries'[r] < Steps,
           tries' \in [Replicas -> 0..Steps],
           \A q \in Replicas \ {r} : tries'[q] = tries[q],
           version' \in [Names -> Nat],
           \A n \in Names : version[n] <= version'[n],
           store' \in [Names -> Defs \cup {NoCrd}],
           faults' \in 0..MaxFaults, timeouts' \in 0..MaxTimeouts,
           UNCHANGED <<discovery, idx, got, waiting, wrote, seen, deletes>>
    PROVE  IInv'
<1> USE DEF IInv
<1>0. Len(Crds) \in Nat
  BY CRDsAssumption
<1>1. pc \in [Replicas -> {"get", "create", "reget", "update", "poll"} \cup Ended]
  BY Zenon DEF TypeOK
<1>2. /\ pc' \in [Replicas -> {"get", "create", "reget", "update", "poll"} \cup Ended]
      /\ pc'[r] = p
      /\ \A q \in Replicas \ {r} : pc'[q] = pc[q]
  BY <1>1, Zenon DEF Ended
<1>3. ASSUME NEW q \in Replicas PROVE idx'[q] > Len(Crds) => pc'[q] \in {"poll"} \cup Ended
  <2>1. idx[q] \in 1..Len(Crds) + 1 /\ (idx[q] > Len(Crds) => pc[q] \in {"poll"} \cup Ended)
    BY Zenon DEF TypeOK
  <2>2. CASE q = r
    BY <1>0, <1>2, <2>1, <2>2 DEF Ended
  <2>3. CASE q # r
    BY <1>2, <2>1, <2>3, Zenon
  <2> QED
    BY <2>2, <2>3, Zenon
<1>4. ASSUME NEW q \in Replicas, pc'[q] = "update" PROVE got'[q] <= version'[Crds[idx'[q]]]
  BY <1>2, <1>4, GotStaysOld, Zenon
<1>5. TypeOK'
  BY <1>2, <1>3, <1>4, Zenon DEF TypeOK
<1>6. LoopIsDone'
  <2> SUFFICES ASSUME NEW q \in Replicas
               PROVE  /\ wrote'[q] = {Crds[i] : i \in 1..idx'[q] - 1}
                      /\ pc'[q] \in {"poll", "installed"} => idx'[q] = Len(Crds) + 1
                      /\ pc'[q] = "reget" => tries'[q] < Steps
    BY Zenon DEF LoopIsDone
  <2>0. /\ wrote[q] = {Crds[i] : i \in 1..idx[q] - 1}
        /\ pc[q] \in {"poll", "installed"} => idx[q] = Len(Crds) + 1
        /\ pc[q] = "reget" => tries[q] < Steps
    BY Zenon DEF LoopIsDone
  <2>1. CASE q = r
    BY <2>0, <2>1, <1>2, Zenon
  <2>2. CASE q # r
    BY <2>0, <2>2, <1>2, Zenon
  <2> QED
    BY <2>1, <2>2, Zenon
<1>7. NothingIsForgotten'
  BY <1>2, Zenon DEF NothingIsForgotten
<1> QED
  BY <1>5, <1>6, <1>7, Zenon

\* The loop's calls that do not write.
LEMMA LoopPreserves ==
    ASSUME IInv, NEW r \in Replicas, Get(r) \/ Create(r) \/ Update(r)
    PROVE  IInv'
<1> USE DEF IInv
<1>0. /\ tries \in [Replicas -> 0..Steps] /\ version \in [Names -> Nat]
      /\ store \in [Names -> Defs \cup {NoCrd}] /\ Steps \in Nat \ {0}
      /\ faults \in 0..MaxFaults /\ timeouts \in 0..MaxTimeouts
      /\ \A n \in Names : version[n] <= version[n]
  BY CRDsAssumption DEF TypeOK
<1>1. idx[r] <= Len(Crds) /\ pc[r] # "installed" /\ pc[r] \in InLoop
  <2>1. pc[r] \in InLoop
    BY Zenon DEF Get, Create, Update, InLoop
  <2> QED
    BY <2>1, AtCrd DEF InLoop
<1>2. CASE Get(r)
  <2>1. PICK p \in {"create", "reget"} : pc' = [pc EXCEPT ![r] = p]
    BY <1>2, Zenon DEF Get
  <2>2. tries' \in [Replicas -> 0..Steps] /\ tries'[r] < Steps /\ \A q \in Replicas \ {r} : tries'[q] = tries[q]
    BY <1>2, <1>0 DEF Get
  <2>3. UNCHANGED <<discovery, idx, got, waiting, wrote, seen, deletes, version, store, faults, timeouts>>
    BY <1>2, Zenon DEF Get, server, bounds
  <2> QED
    BY <1>0, <1>1, <2>1, <2>2, <2>3, MovingPreserves, Zenon
<1>3. CASE Create(r)
  <2>1. CASE store[Crds[idx[r]]] = NoCrd
    BY <1>3, <2>1, WritingPreserves, Zenon DEF Create
  <2>2. CASE store[Crds[idx[r]]] # NoCrd
    <3>1. /\ pc' = [pc EXCEPT ![r] = "failed"]
          /\ UNCHANGED <<discovery, idx, got, tries, waiting, wrote, seen, deletes, version, store, faults, timeouts>>
      BY <1>3, <2>2, Zenon DEF Create, Fail, bounds
    <3> QED
      BY <1>0, <1>1, <3>1, MovingPreserves, Zenon
  <2> QED
    BY <2>1, <2>2, Zenon
<1>4. CASE Update(r)
  <2>1. CASE store[Crds[idx[r]]] # NoCrd /\ version[Crds[idx[r]]] = got[r]
    BY <1>4, <2>1, WritingPreserves, Zenon DEF Update
  <2>2. CASE ~(store[Crds[idx[r]]] # NoCrd /\ version[Crds[idx[r]]] = got[r])
    <3>1. /\ \/ pc' = [pc EXCEPT ![r] = "failed"]
             \/ pc' = [pc EXCEPT ![r] = "reget"] /\ tries[r] # Steps
          /\ UNCHANGED <<discovery, idx, got, tries, waiting, wrote, seen, deletes, version, store, faults, timeouts>>
      BY <1>4, <2>2, Zenon DEF Update, Fail, bounds
    <3>2. tries[r] # Steps => tries'[r] < Steps
      BY <1>0, <3>1
    <3> QED
      BY <1>0, <1>1, <3>1, <3>2, MovingPreserves, Zenon
  <2> QED
    BY <2>1, <2>2, Zenon
<1> QED
  BY <1>2, <1>3, <1>4, Zenon

\* The closure that RetryOnConflict calls reads the CRD again.
LEMMA RegetPreserves ==
    ASSUME IInv, NEW r \in Replicas, Reget(r)
    PROVE  IInv'
<1> USE DEF IInv
<1>0. /\ tries \in [Replicas -> 0..Steps] /\ version \in [Names -> Nat]
      /\ store \in [Names -> Defs \cup {NoCrd}] /\ Steps \in Nat \ {0}
      /\ faults \in 0..MaxFaults /\ timeouts \in 0..MaxTimeouts
      /\ \A n \in Names : version[n] <= version[n]
      /\ pc \in [Replicas -> {"get", "create", "reget", "update", "poll"} \cup Ended]
      /\ got \in [Replicas -> Nat]
  BY CRDsAssumption DEF TypeOK
<1>1. pc[r] = "reget" /\ Crds[idx[r]] \in Names /\ tries[r] < Steps /\ idx[r] \in 1..Len(Crds)
  BY AtCrd, Zenon DEF Reget, InLoop, LoopIsDone
<1>2. CASE store[Crds[idx[r]]] = NoCrd
  <2>1. /\ pc' = [pc EXCEPT ![r] = "failed"]
        /\ UNCHANGED <<discovery, idx, got, tries, waiting, wrote, seen, deletes, version, store, faults, timeouts>>
    BY <1>2, Zenon DEF Reget, Fail, server, bounds
  <2> QED
    BY <1>0, <1>1, <2>1, MovingPreserves, Zenon
<1>3. CASE store[Crds[idx[r]]] # NoCrd
  <2>1. /\ got' = [got EXCEPT ![r] = version[Crds[idx[r]]]]
        /\ tries' = [tries EXCEPT ![r] = tries[r] + 1]
        /\ pc' = [pc EXCEPT ![r] = "update"]
        /\ UNCHANGED <<server, idx, waiting, wrote, seen, bounds>>
    BY <1>3, Zenon DEF Reget
  <2>2. /\ got' \in [Replicas -> Nat] /\ got'[r] = version[Crds[idx[r]]]
        /\ tries' \in [Replicas -> 0..Steps]
        /\ pc' \in [Replicas -> {"get", "create", "reget", "update", "poll"} \cup Ended]
        /\ pc'[r] = "update"
        /\ \A q \in Replicas \ {r} : pc'[q] = pc[q] /\ got'[q] = got[q] /\ tries'[q] = tries[q]
    <3>1. /\ got' \in [Replicas -> Nat] /\ got'[r] = version[Crds[idx[r]]]
          /\ \A q \in Replicas \ {r} : got'[q] = got[q]
      BY <1>0, <1>1, <2>1, Zenon
    <3>2. tries[r] + 1 \in 0..Steps
      BY <1>0, <1>1, SMTT(60)
    <3>3. tries' \in [Replicas -> 0..Steps] /\ \A q \in Replicas \ {r} : tries'[q] = tries[q]
      BY <1>0, <2>1, <3>2, Zenon
    <3>4. /\ pc' \in [Replicas -> {"get", "create", "reget", "update", "poll"} \cup Ended]
          /\ pc'[r] = "update" /\ \A q \in Replicas \ {r} : pc'[q] = pc[q]
      BY <1>0, <2>1, Zenon
    <3> QED
      BY <3>1, <3>3, <3>4, Zenon
  <2>3. ASSUME NEW q \in Replicas PROVE idx'[q] > Len(Crds) => pc'[q] \in {"poll"} \cup Ended
    <3>1. CASE q = r
      BY <3>1, <1>1, <2>1, CRDsAssumption
    <3>2. CASE q # r
      BY <3>2, <2>1, <2>2, Zenon DEF TypeOK
    <3> QED
      BY <3>1, <3>2, Zenon
  <2>4. ASSUME NEW q \in Replicas, pc'[q] = "update" PROVE got'[q] <= version'[Crds[idx'[q]]]
    <3>1. CASE q = r
      BY <3>1, <1>0, <1>1, <2>1, <2>2, ZenonT(60) DEF server
    <3>2. CASE q # r
      BY <3>2, <2>4, <2>1, <2>2 DEF TypeOK, server
    <3> QED
      BY <3>1, <3>2, Zenon
  <2>5. TypeOK'
    BY <2>1, <2>2, <2>3, <2>4, Zenon DEF TypeOK, server, bounds
  <2>6. LoopIsDone'
    <3> SUFFICES ASSUME NEW q \in Replicas
                 PROVE  /\ wrote'[q] = {Crds[i] : i \in 1..idx'[q] - 1}
                        /\ pc'[q] \in {"poll", "installed"} => idx'[q] = Len(Crds) + 1
                        /\ pc'[q] = "reget" => tries'[q] < Steps
      BY Zenon DEF LoopIsDone
    <3>1. CASE q = r
      BY <3>1, <2>1, <2>2, Zenon DEF LoopIsDone
    <3>2. CASE q # r
      BY <3>2, <2>1, <2>2, Zenon DEF LoopIsDone
    <3> QED
      BY <3>1, <3>2, Zenon
  <2>7. NothingIsForgotten'
    BY <2>1, <2>2, Zenon DEF NothingIsForgotten
  <2> QED
    BY <2>5, <2>6, <2>7, Zenon
<1> QED
  BY <1>2, <1>3, Zenon

\* A poll of discovery crosses out the names that it shows.
LEMMA PollPreserves ==
    ASSUME IInv, NEW r \in Replicas, Poll(r)
    PROVE  IInv'
<1> USE DEF IInv
<1>1. /\ pc \in [Replicas -> {"get", "create", "reget", "update", "poll"} \cup Ended]
      /\ waiting \in [Replicas -> SUBSET Resources]
      /\ seen \in [Replicas -> SUBSET Resources]
      /\ discovery \subseteq Resources
  BY Zenon DEF TypeOK
<1>2. /\ waiting' = [waiting EXCEPT ![r] = waiting[r] \ discovery]
      /\ seen' = [seen EXCEPT ![r] = seen[r] \cup discovery]
      /\ pc[r] = "poll"
      /\ UNCHANGED <<server, idx, got, tries, wrote, bounds>>
  BY Zenon DEF Poll
<1>3. /\ waiting' \in [Replicas -> SUBSET Resources] /\ waiting'[r] = waiting[r] \ discovery
      /\ seen' \in [Replicas -> SUBSET Resources] /\ seen'[r] = seen[r] \cup discovery
      /\ \A q \in Replicas \ {r} : waiting'[q] = waiting[q] /\ seen'[q] = seen[q]
  BY <1>1, <1>2, Zenon
<1>4. /\ pc' \in [Replicas -> {"get", "create", "reget", "update", "poll"} \cup Ended]
      /\ pc'[r] \in {"poll", "installed"}
      /\ pc'[r] = "installed" => waiting'[r] = {}
      /\ \A q \in Replicas \ {r} : pc'[q] = pc[q]
  BY <1>1, <1>2, Zenon DEF Poll, Ended
<1>5. ASSUME NEW q \in Replicas
      PROVE  /\ idx'[q] > Len(Crds) => pc'[q] \in {"poll"} \cup Ended
             /\ pc'[q] = "update" => got'[q] <= version'[Crds[idx'[q]]]
  <2>1. CASE q = r
    BY <2>1, <1>4, Zenon DEF Ended
  <2>2. CASE q # r
    BY <2>2, <1>2, <1>4, Zenon DEF TypeOK, server
  <2> QED
    BY <2>1, <2>2, Zenon
<1>6. TypeOK'
  BY <1>2, <1>3, <1>4, <1>5, Zenon DEF TypeOK, server, bounds
<1>7. LoopIsDone'
  BY <1>2, <1>4, Zenon DEF LoopIsDone
<1>8. NothingIsForgotten'
  <2> SUFFICES ASSUME NEW q \in Replicas
               PROVE  /\ Wants(q) \subseteq waiting'[q] \cup seen'[q]
                      /\ pc'[q] = "installed" => waiting'[q] = {}
    BY Zenon DEF NothingIsForgotten, Wants
  <2>1. CASE q = r
    BY <2>1, <1>3, <1>4, Zenon DEF NothingIsForgotten
  <2>2. CASE q # r
    BY <2>2, <1>3, <1>4, Zenon DEF NothingIsForgotten
  <2> QED
    BY <2>1, <2>2, Zenon
<1> QED
  BY <1>6, <1>7, <1>8, Zenon

\* A call fails, or the time is over.
LEMMA FailingPreserves ==
    ASSUME IInv, NEW r \in Replicas, CallFails(r) \/ Timeout(r)
    PROVE  IInv'
<1> USE DEF IInv
<1>0. /\ tries \in [Replicas -> 0..Steps] /\ version \in [Names -> Nat]
      /\ store \in [Names -> Defs \cup {NoCrd}]
      /\ faults \in 0..MaxFaults /\ timeouts \in 0..MaxTimeouts
      /\ \A n \in Names : version[n] <= version[n]
  BY DEF TypeOK
<1>1. CASE CallFails(r)
  <2>1. /\ pc' = [pc EXCEPT ![r] = "failed"] /\ pc[r] # "installed"
        /\ UNCHANGED <<discovery, idx, got, tries, waiting, wrote, seen, deletes, timeouts>>
    BY <1>1, Zenon DEF CallFails, Fail
  <2>2. faults' \in 0..MaxFaults
    BY <1>0, <1>1, CRDsAssumption DEF CallFails
  <2>3. /\ version' \in [Names -> Nat] /\ store' \in [Names -> Defs \cup {NoCrd}]
        /\ \A n \in Names : version[n] <= version'[n]
    <3>1. CASE UNCHANGED <<store, version>>
      BY <3>1, <1>0, Zenon
    <3>2. CASE Write(Crds[idx[r]], Desired[r][Crds[idx[r]]])
      <4>1. Crds[idx[r]] \in Names /\ Desired[r][Crds[idx[r]]] \in Defs
        BY <1>1, AtCrd, CRDsAssumption DEF CallFails, InLoop
      <4> QED
        BY <3>2, <4>1, WriteKeeps, Zenon
    <3> QED
      BY <1>1, <3>1, <3>2, Zenon DEF CallFails
  <2> QED
    BY <1>0, <2>1, <2>2, <2>3, MovingPreserves, Zenon
<1>2. CASE Timeout(r)
  <2>1. /\ pc' = [pc EXCEPT ![r] = "failed"] /\ pc[r] # "installed"
        /\ UNCHANGED <<discovery, idx, got, tries, waiting, wrote, seen, deletes, faults, store, version>>
    BY <1>2, Zenon DEF Timeout, Fail, server
  <2>2. timeouts' \in 0..MaxTimeouts
    BY <1>0, <1>2, CRDsAssumption DEF Timeout
  <2> QED
    BY <1>0, <2>1, <2>2, MovingPreserves, Zenon
<1> QED
  BY <1>1, <1>2, Zenon

\* Every step preserves the invariant.
LEMMA NextPreserves == IInv /\ [Next]_vars => IInv'
<1> SUFFICES ASSUME IInv, [Next]_vars PROVE IInv'
  OBVIOUS
<1>1. CASE Publish \/ \E c \in Names : Delete(c)
  BY <1>1, ServerPreserves, Zenon
<1>2. ASSUME NEW r \in Replicas, ReplicaStep(r) PROVE IInv'
  BY <1>2, LoopPreserves, RegetPreserves, PollPreserves, Zenon DEF ReplicaStep
<1>3. ASSUME NEW r \in Replicas, CallFails(r) \/ Timeout(r) PROVE IInv'
  BY <1>3, FailingPreserves, Zenon
<1>4. CASE UNCHANGED vars
  BY <1>4, Zenon DEF vars, server, replica, bounds, IInv, TypeOK, LoopIsDone, NothingIsForgotten, Wants
<1> QED
  BY <1>1, <1>2, <1>3, <1>4, Zenon DEF Next

\* The variables have their types, and no replica has read a version of a
\* CRD that there has not been.
THEOREM TypeCorrect == Spec => []TypeOK
<1>1. IInv => TypeOK
  BY Zenon DEF IInv
<1> QED
  BY <1>1, InitEstablishes, NextPreserves, PTL DEF Spec

\* CRDs returns no error only when it has written every CRD and seen all
\* that they serve, whatever the other replicas, the faults and the
\* deletions do.
THEOREM InstalledHolds == Spec => []InstalledIsServed
<1>1. ASSUME IInv PROVE InstalledIsServed
  <2> SUFFICES ASSUME NEW r \in Replicas, pc[r] = "installed"
               PROVE  wrote[r] = Names /\ Wants(r) \subseteq seen[r]
    BY Zenon DEF InstalledIsServed
  <2>1. idx[r] = Len(Crds) + 1 /\ wrote[r] = {Crds[i] : i \in 1..idx[r] - 1}
    BY <1>1, Zenon DEF IInv, LoopIsDone
  <2>2. 1..idx[r] - 1 = DOMAIN Crds
    BY <2>1, CRDsAssumption
  <2>3. wrote[r] = Names
    BY <2>1, <2>2, Zenon DEF Names, Range
  <2>4. Wants(r) \subseteq seen[r]
    BY <1>1, Zenon DEF IInv, NothingIsForgotten
  <2> QED
    BY <2>3, <2>4, Zenon
<1> QED
  BY <1>1, InitEstablishes, NextPreserves, PTL DEF Spec

------------------------------------------------------------------------------
Quiet == faults = 0 /\ deletes = 0

\* There are fewer writers of a CRD than replicas while one is yet to write.
LEMMA FewWriters ==
    ASSUME IsFiniteSet(Replicas), NEW r \in Replicas, NEW c, c \notin wrote[r]
    PROVE  /\ Cardinality(Writers(c)) \in Nat
           /\ Cardinality(Writers(c)) < Cardinality(Replicas)
<1>1. Writers(c) \in SUBSET Replicas /\ Writers(c) # Replicas
  BY Zenon DEF Writers
<1>2. IsFiniteSet(Writers(c)) /\ Cardinality(Writers(c)) <= Cardinality(Replicas)
  BY <1>1, FS_Subset, Zenon
<1>3. Cardinality(Writers(c)) # Cardinality(Replicas)
  BY <1>1, FS_Subset, Zenon
<1>4. Cardinality(Writers(c)) \in Nat /\ Cardinality(Replicas) \in Nat
  BY <1>2, FS_CardinalityType, Zenon
<1> QED
  BY <1>2, <1>3, <1>4

\* The replicas other than r are where they were, and r has not failed.
LEMMA WritingCounts ==
    ASSUME IsFiniteSet(Replicas), CInv, Quiet, NEW r \in Replicas, pc[r] \in {"create", "update"},
           Write(Crds[idx[r]], Desired[r][Crds[idx[r]]]), Continue(r),
           UNCHANGED <<got, tries, timeouts>>
    PROVE  ConflictsAreCounted' /\ CreatesOrUpdates'
<1> USE DEF CInv, IInv
<1> DEFINE c == Crds[idx[r]]
<1>1. c \in Names /\ c \notin wrote[r] /\ Desired[r][c] \in Defs /\ Desired[r][c] # NoCrd
  BY AtCrd, CRDsAssumption, SMTT(60) DEF InLoop
<1>2. /\ version' \in [Names -> Nat]
      /\ version'[c] = version[c] + 1
      /\ store'[c] = Desired[r][c]
      /\ \A n \in Names \ {c} : version'[n] = version[n] /\ store'[n] = store[n]
      /\ \A n \in Names : version[n] <= version'[n]
  BY <1>1, WriteKeeps
<1>3. /\ pc'[r] \in {"get", "poll"}
      /\ \A q \in Replicas \ {r} : pc'[q] = pc[q] /\ idx'[q] = idx[q] /\ wrote'[q] = wrote[q]
      /\ wrote'[r] = wrote[r] \cup {c}
  BY ContinueKeeps, Zenon DEF InLoop
<1>4. ASSUME NEW n \in Names
      PROVE  /\ version'[n] = Cardinality(Writers(n)')
             /\ Existing[n] # NoCrd => store'[n] # NoCrd
  <2>1. version[n] = Cardinality(Writers(n)) /\ (Existing[n] # NoCrd => store[n] # NoCrd)
    BY Zenon DEF ConflictsAreCounted, Quiet
  <2>2. CASE n = c
    <3>1. Writers(n)' = Writers(n) \cup {r} /\ r \notin Writers(n)
      BY <1>1, <1>3, <2>2 DEF Writers
    <3>2. IsFiniteSet(Writers(n))
      BY FS_Subset, Zenon DEF Writers
    <3>3. Cardinality(Writers(n)') = Cardinality(Writers(n)) + 1
      BY <3>1, <3>2, FS_AddElement, Zenon
    <3> QED
      BY <1>1, <1>2, <2>1, <2>2, <3>3, Zenon
  <2>3. CASE n # c
    <3>1. Writers(n)' = Writers(n)
      BY <1>3, <2>3, Zenon DEF Writers
    <3> QED
      BY <1>2, <2>1, <2>3, <3>1, Zenon
  <2> QED
    BY <2>2, <2>3, Zenon
<1>5. ASSUME NEW q \in Replicas
      PROVE  /\ pc'[q] = "create" => Existing[Crds[idx'[q]]] = NoCrd
             /\ pc'[q] = "reget" => tries'[q] <= version'[Crds[idx'[q]]]
             /\ pc'[q] = "update" => tries'[q] <= got'[q] + 1
  <2>1. CASE q = r
    BY <2>1, <1>3, Zenon
  <2>2. CASE q # r
    <3>1. pc'[q] = pc[q] /\ idx'[q] = idx[q]
      BY <1>3, <2>2, ZenonT(30)
    <3>2. pc[q] = "reget" => tries'[q] <= version'[Crds[idx[q]]]
      <4> SUFFICES ASSUME pc[q] = "reget" PROVE tries[q] <= version'[Crds[idx[q]]]
        OBVIOUS
      <4>1. Crds[idx[q]] \in Names
        BY AtCrd, Zenon DEF InLoop
      <4>2. tries[q] \in Nat /\ tries[q] <= version[Crds[idx[q]]] /\ version \in [Names -> Nat]
        BY CRDsAssumption DEF ConflictsAreCounted, Quiet, TypeOK
      <4> QED
        BY <1>2, <4>1, <4>2, SMTT(60)
    <3> QED
      BY <3>1, <3>2, Zenon DEF ConflictsAreCounted, Quiet
  <2> QED
    BY <2>1, <2>2, Zenon
<1>6. ConflictsAreCounted'
  BY <1>4, <1>5, Zenon DEF ConflictsAreCounted
<1>7. CreatesOrUpdates'
  BY <1>3, Zenon DEF CreatesOrUpdates, Quiet
<1> QED
  BY <1>6, <1>7, ZenonT(30)

\* A replica that fails without a fault does so on a CRD that was missing.
LEMMA MovingCounts ==
    ASSUME CInv, Quiet, NEW r \in Replicas, NEW p, pc' = [pc EXCEPT ![r] = p],
           p = "failed" => timeouts' # 0 \/ Existing[Crds[idx[r]]] = NoCrd,
           p = "create" => Existing[Crds[idx[r]]] = NoCrd,
           p = "reget" => tries'[r] <= version[Crds[idx[r]]],
           p = "update" => tries'[r] <= got'[r] + 1,
           timeouts' = 0 => timeouts = 0,
           \A q \in Replicas \ {r} : tries'[q] = tries[q] /\ got'[q] = got[q],
           UNCHANGED <<store, version, idx, wrote>>
    PROVE  ConflictsAreCounted' /\ CreatesOrUpdates'
<1> USE DEF CInv, IInv
<1>1. pc'[r] = p /\ \A q \in Replicas \ {r} : pc'[q] = pc[q]
  BY ZenonT(30) DEF TypeOK
<1>2. ASSUME NEW n \in Names
      PROVE  /\ version'[n] = Cardinality(Writers(n)')
             /\ Existing[n] # NoCrd => store'[n] # NoCrd
  BY DEF ConflictsAreCounted, Quiet, Writers
<1>3. ASSUME NEW q \in Replicas
      PROVE  /\ pc'[q] = "create" => Existing[Crds[idx'[q]]] = NoCrd
             /\ pc'[q] = "reget" => tries'[q] <= version'[Crds[idx'[q]]]
             /\ pc'[q] = "update" => tries'[q] <= got'[q] + 1
  <2>1. CASE q = r
    BY <2>1, <1>1, Zenon
  <2>2. CASE q # r
    BY <2>2, <1>1, ZenonT(30) DEF ConflictsAreCounted, Quiet
  <2> QED
    BY <2>1, <2>2, Zenon
<1>4. ConflictsAreCounted'
  BY <1>2, <1>3, Zenon DEF ConflictsAreCounted
<1>5. CreatesOrUpdates'
  BY <1>1, Zenon DEF CreatesOrUpdates, Quiet
<1> QED
  BY <1>4, <1>5, Zenon

\* An update of the replica that has the last of its tries does not conflict:
\* each of the others would have had to write before it.
LEMMA LastTryWins ==
    ASSUME IsFiniteSet(Replicas), Cardinality(Replicas) <= Steps, CInv, Quiet,
           NEW r \in Replicas, pc[r] = "update", version[Crds[idx[r]]] # got[r]
    PROVE  /\ tries[r] # Steps
           /\ tries[r] <= version[Crds[idx[r]]]
<1> DEFINE c == Crds[idx[r]]
<1>1. c \in Names /\ c \notin wrote[r]
  BY AtCrd, Zenon DEF CInv, IInv, InLoop
<1>2. /\ got[r] \in Nat /\ version[c] \in Nat /\ got[r] <= version[c]
      /\ tries[r] \in Nat /\ Steps \in Nat /\ version[c] # got[r]
  BY <1>1, CRDsAssumption DEF CInv, IInv, TypeOK
<1>3. tries[r] <= got[r] + 1 /\ version[c] = Cardinality(Writers(c))
  BY <1>1, Zenon DEF CInv, ConflictsAreCounted, Quiet
<1>4. version[c] < Cardinality(Replicas) /\ Cardinality(Replicas) \in Nat
  BY <1>1, <1>3, FewWriters, FS_CardinalityType, ZenonT(30)
<1> HIDE DEF c
<1>5. tries[r] # Steps /\ tries[r] <= version[c]
  BY <1>2, <1>3, <1>4
<1> QED
  BY <1>5, Zenon DEF c

\* A step of a replica keeps count of the conflicts.
LEMMA StepCounts ==
    ASSUME IsFiniteSet(Replicas), Cardinality(Replicas) <= Steps, CInv, Quiet,
           NEW r \in Replicas, ReplicaStep(r)
    PROVE  ConflictsAreCounted' /\ CreatesOrUpdates'
<1> DEFINE c == Crds[idx[r]]
<1>0. tries \in [Replicas -> 0..Steps] /\ got \in [Replicas -> Nat]
  BY Zenon DEF CInv, IInv, TypeOK
<1>7. tries[r] \in Nat /\ \A n \in Names : version[n] \in Nat /\ 0 <= version[n]
  BY CRDsAssumption DEF CInv, IInv, TypeOK
<1>1. pc[r] \in InLoop => c \in Names /\ (Existing[c] # NoCrd => store[c] # NoCrd)
  BY AtCrd, Zenon DEF CInv, IInv, ConflictsAreCounted, Quiet
<1>2. CASE Get(r)
  <2>1. PICK p \in {"create", "reget"} : /\ pc' = [pc EXCEPT ![r] = p]
                                         /\ p = "create" => store[c] = NoCrd
    BY <1>2, Zenon DEF Get
  <2>2. /\ tries'[r] = 0 /\ \A q \in Replicas \ {r} : tries'[q] = tries[q]
        /\ UNCHANGED <<store, version, idx, wrote, got, timeouts>>
    BY <1>0, <1>2, Zenon DEF Get, server, bounds
  <2>3. c \in Names /\ (Existing[c] # NoCrd => store[c] # NoCrd)
    BY <1>1, <1>2, Zenon DEF Get, InLoop
  <2>4. 0 <= version[c]
    BY <1>7, <2>3, Zenon
  <2> QED
    BY <2>1, <2>2, <2>3, <2>4, MovingCounts, ZenonT(30)
<1>3. CASE Create(r)
  <2>1. CASE store[c] = NoCrd
    BY <1>3, <2>1, WritingCounts, Zenon DEF Create, bounds
  <2>2. CASE store[c] # NoCrd
    <3>1. pc' = [pc EXCEPT ![r] = "failed"] /\ UNCHANGED <<store, version, idx, wrote, got, tries, timeouts>>
      BY <1>3, <2>2, Zenon DEF Create, Fail, bounds
    <3>2. Existing[c] = NoCrd
      BY <1>3, Zenon DEF Create, CInv, ConflictsAreCounted, Quiet
    <3> QED
      BY <3>1, <3>2, MovingCounts, Zenon
  <2> QED
    BY <2>1, <2>2, Zenon
<1>4. CASE Reget(r)
  <2>0. pc[r] = "reget" /\ c \in Names /\ (Existing[c] # NoCrd => store[c] # NoCrd)
    BY <1>1, <1>4, Zenon DEF Reget, InLoop
  <2>1. CASE store[c] = NoCrd
    <3>1. pc' = [pc EXCEPT ![r] = "failed"] /\ UNCHANGED <<store, version, idx, wrote, got, tries, timeouts>>
      BY <1>4, <2>1, Zenon DEF Reget, Fail, server, bounds
    <3> QED
      BY <2>0, <2>1, <3>1, MovingCounts, Zenon
  <2>2. CASE store[c] # NoCrd
    <3>1. /\ pc' = [pc EXCEPT ![r] = "update"]
          /\ got' = [got EXCEPT ![r] = version[c]]
          /\ tries' = [tries EXCEPT ![r] = tries[r] + 1]
          /\ UNCHANGED <<store, version, idx, wrote, timeouts>>
      BY <1>4, <2>2, Zenon DEF Reget, server, bounds
    <3>2. /\ got'[r] = version[c] /\ tries'[r] = tries[r] + 1
          /\ \A q \in Replicas \ {r} : tries'[q] = tries[q] /\ got'[q] = got[q]
      BY <1>0, <3>1, Zenon
    <3>3. tries[r] <= version[c]
      BY <2>0, Zenon DEF CInv, ConflictsAreCounted, Quiet
    <3>4. tries[r] \in Nat /\ version[c] \in Nat
      BY <1>7, <2>0, Zenon
    <3>5. tries'[r] <= got'[r] + 1
      BY <3>2, <3>3, <3>4
    <3> QED
      BY <3>1, <3>2, <3>5, MovingCounts, Zenon
  <2> QED
    BY <2>1, <2>2, Zenon
<1>5. CASE Update(r)
  <2>0. pc[r] = "update" /\ c \in Names /\ (Existing[c] # NoCrd => store[c] # NoCrd)
    BY <1>1, <1>5, Zenon DEF Update, InLoop
  <2>1. CASE store[c] # NoCrd /\ version[c] = got[r]
    BY <1>5, <2>1, WritingCounts, Zenon DEF Update, bounds
  <2>2. CASE ~(store[c] # NoCrd /\ version[c] = got[r])
    <3>1. /\ \/ /\ store[c] = NoCrd \/ tries[r] = Steps
                /\ pc' = [pc EXCEPT ![r] = "failed"]
             \/ /\ store[c] # NoCrd
                /\ pc' = [pc EXCEPT ![r] = "reget"]
          /\ UNCHANGED <<store, version, idx, wrote, got, tries, timeouts>>
      BY <1>5, <2>2, Zenon DEF Update, Fail, bounds
    <3>2. CASE store[c] = NoCrd
      BY <2>0, <3>1, <3>2, MovingCounts, Zenon
    <3>3. CASE store[c] # NoCrd
      <4>1. tries[r] # Steps /\ tries[r] <= version[c]
        BY <2>0, <2>2, <3>3, LastTryWins, Zenon
      <4> QED
        BY <3>1, <3>3, <4>1, MovingCounts, Zenon
    <3> QED
      BY <3>2, <3>3, Zenon
  <2> QED
    BY <2>1, <2>2, Zenon
<1>6. CASE Poll(r)
  <2>1. PICK p \in {"poll", "installed"} : pc' = [pc EXCEPT ![r] = p]
    BY <1>6, Zenon DEF Poll
  <2>2. UNCHANGED <<store, version, idx, wrote, got, tries, timeouts>>
    BY <1>6, Zenon DEF Poll, server, bounds
  <2> QED
    BY <2>1, <2>2, MovingCounts, Zenon
<1> QED
  BY <1>2, <1>3, <1>4, <1>5, <1>6, Zenon DEF ReplicaStep

\* Nobody has written, and nobody has met a conflict.
LEMMA InitCounts ==
    ASSUME Init
    PROVE  ConflictsAreCounted /\ CreatesOrUpdates
<1>1. \A n \in Names : Writers(n) = {}
  BY Zenon DEF Init, Writers
<1>2. \A r \in Replicas : pc[r] \in {"get", "poll"}
  BY Zenon DEF Init, Loop
<1> QED
  BY <1>1, <1>2, FS_EmptySet, Zenon DEF Init, ConflictsAreCounted, CreatesOrUpdates

\* Every step keeps count of the conflicts.
LEMMA NextCounts ==
    ASSUME IsFiniteSet(Replicas), Cardinality(Replicas) <= Steps, CInv, [Next]_vars
    PROVE  CInv'
<1> SUFFICES ConflictsAreCounted' /\ CreatesOrUpdates'
  BY NextPreserves, Zenon DEF CInv
<1>0. faults \in Nat /\ deletes \in Nat /\ timeouts \in Nat
  BY CRDsAssumption DEF CInv, IInv, TypeOK
<1>1. CASE Publish \/ UNCHANGED vars
  <2>1. UNCHANGED <<store, version, replica, bounds>>
    BY <1>1, Zenon DEF Publish, vars, server
  <2> QED
    BY <2>1, Zenon DEF CInv, ConflictsAreCounted, CreatesOrUpdates, Writers, replica, bounds
<1>2. ASSUME NEW c \in Names, Delete(c) PROVE ConflictsAreCounted' /\ CreatesOrUpdates'
  <2>1. deletes' # 0
    BY <1>0, <1>2 DEF Delete
  <2> QED
    BY <2>1, Zenon DEF ConflictsAreCounted, CreatesOrUpdates
<1>3. ASSUME NEW r \in Replicas, CallFails(r) PROVE ConflictsAreCounted' /\ CreatesOrUpdates'
  <2>1. faults' # 0
    BY <1>0, <1>3 DEF CallFails
  <2> QED
    BY <2>1, Zenon DEF ConflictsAreCounted, CreatesOrUpdates
<1>4. ASSUME NEW r \in Replicas, Timeout(r) PROVE ConflictsAreCounted' /\ CreatesOrUpdates'
  <2>1. /\ timeouts' # 0 /\ pc' = [pc EXCEPT ![r] = "failed"]
        /\ UNCHANGED <<store, version, idx, got, tries, wrote, faults, deletes>>
    BY <1>0, <1>4 DEF Timeout, Fail, server
  <2>2. CASE Quiet
    BY <2>1, <2>2, MovingCounts, Zenon
  <2>3. CASE ~Quiet
    BY <2>1, <2>3, ZenonT(30) DEF Quiet, ConflictsAreCounted, CreatesOrUpdates
  <2> QED
    BY <2>2, <2>3, Zenon
<1>5. ASSUME NEW r \in Replicas, ReplicaStep(r) PROVE ConflictsAreCounted' /\ CreatesOrUpdates'
  <2>1. UNCHANGED bounds
    BY <1>5, Zenon DEF ReplicaStep, Get, Create, Reget, Update, Poll
  <2>2. CASE Quiet
    BY <1>5, <2>2, StepCounts, Zenon
  <2>3. CASE ~Quiet
    BY <2>1, <2>3, Zenon DEF Quiet, ConflictsAreCounted, CreatesOrUpdates, bounds
  <2> QED
    BY <2>2, <2>3, Zenon
<1> QED
  BY <1>1, <1>2, <1>3, <1>4, <1>5, Zenon DEF Next

\* Replicas that start together update the CRDs that are there, however
\* their updates conflict, if RetryOnConflict tries at least as often as
\* there are replicas: a replica loses a try to another's write only, and
\* each of the others writes the CRD once.
THEOREM UpdatesHold ==
    ASSUME IsFiniteSet(Replicas), Cardinality(Replicas) <= Steps
    PROVE  Spec => []CreatesOrUpdates
<1>1. Init => CInv
  BY InitEstablishes, InitCounts, Zenon DEF CInv
<1>2. CInv /\ [Next]_vars => CInv'
  BY NextCounts, Zenon
<1>3. CInv => CreatesOrUpdates
  BY Zenon DEF CInv
<1> QED
  BY <1>1, <1>2, <1>3, PTL DEF Spec
==============================================================================
