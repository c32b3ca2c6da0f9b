---------------------------- MODULE ManagerProofs ----------------------------
(***************************************************************************)
(* Proofs about Manager, for any number of controllers, of concurrent      *)
(* Starts and of clients calling Go and Cancel.                            *)
(***************************************************************************)
EXTENDS Manager, TLAPS

Initialising(p) == pc[p] \in {"addCheck", "spawn", "ctxCheck", "services"}

(***************************************************************************)
(* Where callers can be: a client never runs Start's code, a starter never *)
(* runs Cancel's, and a loop over controllers has one left where it says.  *)
(***************************************************************************)
PlaceInv ==
    /\ \A p \in Starters : pc[p] \notin CancelPC /\ ops[p] = 0
    /\ \A p \in Clients : pc[p] \notin StartPC \cup {"returned"}
    /\ \A p \in Threads : pc[p] \in {"spawn", "ctxCheck", "lookup", "delete"} => rest[p] # <<>>

(***************************************************************************)
(* once.Do lets one Start in: the one that initialises is onceBy, the ones *)
(* beyond it come after it has finished, and it alone launches runs.       *)
(***************************************************************************)
OnceInv ==
    /\ errG <=> onceBy # None
    /\ onceDone => onceBy # None
    /\ \A p \in Starters : Initialising(p) => onceBy = p /\ ~onceDone
    /\ \A p \in Starters : pc[p] \in {"ready", "wait"} => onceDone
    /\ \A p \in Starters, c \in Controllers : run[<<c, p, 0>>] # "unused" => onceBy = p

(***************************************************************************)
(* Start returns from a done context only.                                 *)
(***************************************************************************)
ReturnInv ==
    \A p \in Starters :
        /\ result[p] = "startErr" => CtxDone
        /\ pc[p] = "returned" /\ result[p] # "alreadyStarted" => CtxDone

CoreInv == TypeOK /\ PlaceInv /\ OnceInv /\ ReturnInv

(***************************************************************************)
(* After errG.Wait the server is gone, so its error can no longer change.  *)
(***************************************************************************)
WaitInv ==
    \A p \in Starters :
        pc[p] = "returned" /\ result[p] \in {"nil", "serveErr"} =>
            /\ onceDone
            /\ server \in {"off", "stopped"}
            /\ result[p] = groupErr

(***************************************************************************)
(* While a Start initialises, each of its controllers is launched or still *)
(* to be handled by Go's loop; when it has finished, all are launched and  *)
(* the sweeper is there, or the context is done.                           *)
(***************************************************************************)
Launched(c, p) == run[<<c, p, 0>>] # "unused"

LaunchedBy(p) ==
    /\ pc[p] # "idle" => args[p] = StartArgs[p]
    /\ Initialising(p) => \A c \in Range(args[p]) : Launched(c, p) \/ c \in Range(rest[p])
    /\ pc[p] = "ctxCheck" => Launched(Head(rest[p]), p)
    /\ pc[p] = "services" => rest[p] = <<>>
    /\ ready[p] => onceDone

AllLaunched ==
    onceDone => \/ CtxDone
                \/ /\ sweeper # "off"
                   /\ \A c \in Range(StartArgs[onceBy]) : Launched(c, onceBy)

LaunchInv == AllLaunched /\ \A p \in Starters : LaunchedBy(p)

------------------------------------------------------------------------------
(* The first controller of a list, the others, and all of them. *)
LEMMA HeadTail ==
    ASSUME NEW s \in Seq(Controllers), s # <<>>
    PROVE  /\ Head(s) \in Controllers /\ Tail(s) \in Seq(Controllers)
           /\ Range(s) = {Head(s)} \cup Range(Tail(s))
           /\ Range(s) \subseteq Controllers
<1>1. Head(s) \in Controllers /\ Tail(s) \in Seq(Controllers) /\ Head(s) = s[1]
      /\ Len(s) \in Nat \ {0} /\ Len(Tail(s)) = Len(s) - 1
      /\ \A i \in 1..Len(Tail(s)) : Tail(s)[i] = s[i + 1]
  OBVIOUS
<1>2. Range(s) \subseteq Controllers
  BY DEF Range
<1>3. ASSUME NEW c \in Range(s) PROVE c \in {Head(s)} \cup Range(Tail(s))
  <2>1. PICK i \in 1..Len(s) : c = s[i]
    BY DEF Range
  <2>2. CASE i = 1
    BY <1>1, <2>1, <2>2, Zenon
  <2>3. CASE i # 1
    <3>1. i - 1 \in DOMAIN Tail(s) /\ Tail(s)[i - 1] = s[i]
      BY <1>1, <2>3
    <3> QED BY <2>1, <3>1, Zenon DEF Range
  <2> QED BY <2>2, <2>3, Zenon
<1>4. ASSUME NEW c \in {Head(s)} \cup Range(Tail(s)) PROVE c \in Range(s)
  <2>1. CASE c = Head(s)
    <3>1. 1 \in 1..Len(s)
      BY <1>1
    <3> QED BY <1>1, <2>1, <3>1 DEF Range
  <2>2. CASE c \in Range(Tail(s))
    <3>1. PICK i \in 1..Len(Tail(s)) : c = Tail(s)[i]
      BY <2>2 DEF Range
    <3>2. i + 1 \in 1..Len(s) /\ c = s[i + 1]
      BY <1>1, <3>1
    <3> QED BY <3>2 DEF Range
  <2> QED BY <2>1, <2>2, Zenon
<1> QED BY <1>1, <1>2, <1>3, <1>4, Zenon

(* The controllers of a list. *)
LEMMA RangeOf ==
    ASSUME NEW s \in Seq(Controllers)
    PROVE  Range(s) \subseteq Controllers
BY DEF Range

(* The run a thread launches. *)
LEMMA RunOf ==
    ASSUME TypeOK, NEW p \in Threads, NEW c \in Controllers
    PROVE  <<c, p, ops[p]>> \in Run
BY Zenon DEF TypeOK, Run

------------------------------------------------------------------------------
\* The initial states.
LEMMA InitCore == Init => CoreInv
<1> SUFFICES ASSUME Init PROVE CoreInv
  OBVIOUS
<1>1. TypeOK
  <2>1. rest \in [Threads -> Seq(Controllers)] /\ args \in [Threads -> Seq(Controllers)]
    BY DEF Init
  <2>2. ops \in [Threads -> 0..MaxOps]
    BY ManagerAssumption DEF Init
  <2> QED BY <2>1, <2>2, Zenon DEF Init, TypeOK, PC, Results
<1>2. PlaceInv
  BY Zenon DEF Init, PlaceInv, Threads, CancelPC, StartPC
<1>3. OnceInv
  BY ManagerAssumption DEF Init, OnceInv, Initialising, Threads, Run
<1>4. ReturnInv
  BY Zenon DEF Init, ReturnInv, Threads
<1> QED BY <1>1, <1>2, <1>3, <1>4, Zenon DEF CoreInv

(* Types are kept, one step per action. *)
LEMMA NextType == TypeOK /\ PlaceInv /\ [Next]_vars => TypeOK'
<1> SUFFICES ASSUME TypeOK, PlaceInv, [Next]_vars PROVE TypeOK'
  OBVIOUS
<1> USE DEF groupVars, serviceVars, runVars, callVars, TypeOK
<1>1. CASE CancelParent
  BY <1>1 DEF CancelParent
<1>2. ASSUME NEW p \in Threads, StartCall(p) PROVE TypeOK'
  <2>1. args' \in [Threads -> Seq(Controllers)]
    BY <1>2, ManagerAssumption, Zenon DEF StartCall
  <2>2. pc' \in [Threads -> PC] /\ result' \in [Threads -> Results]
    BY <1>2, Zenon DEF StartCall, PC, StartPC, Results
  <2> QED BY <1>2, <2>1, <2>2 DEF StartCall
<1>3. ASSUME NEW p \in Threads, OnceEnter(p) PROVE TypeOK'
  <2>1. rest' \in [Threads -> Seq(Controllers)]
    BY <1>3, Zenon DEF OnceEnter
  <2>2. pc' \in [Threads -> PC]
    BY <1>3, Zenon DEF OnceEnter, PC, StartPC, GoPC
  <2>3. p \in Starters
    BY <1>3, Zenon DEF OnceEnter, PlaceInv, Threads, StartPC
  <2>4. onceBy' \in Starters \cup {None} /\ errG' \in BOOLEAN
    BY <1>3, <2>3, Zenon DEF OnceEnter
  <2> QED BY <1>3, <2>1, <2>2, <2>4 DEF OnceEnter
<1>4. ASSUME NEW p \in Threads, StartServices(p) PROVE TypeOK'
  BY <1>4 DEF StartServices, PC, StartPC
<1>5. ASSUME NEW p \in Threads, CloseReady(p) PROVE TypeOK'
  BY <1>5 DEF CloseReady, PC, StartPC
<1>6. ASSUME NEW p \in Threads, WaitReturns(p) PROVE TypeOK'
  BY <1>6 DEF WaitReturns, PC, Results
<1>7. ASSUME NEW p \in Clients, NEW cs \in ClientArgs, GoCall(p, cs) PROVE TypeOK'
  <2>1. p \in Threads /\ cs \in Seq(Controllers)
    BY ManagerAssumption, Zenon DEF Threads
  <2>2. args' \in [Threads -> Seq(Controllers)] /\ rest' \in [Threads -> Seq(Controllers)]
    BY <1>7, <2>1, Zenon DEF GoCall
  <2>3. ops' \in [Threads -> 0..MaxOps]
    BY <1>7, <2>1, ManagerAssumption DEF GoCall, Idle
  <2>4. pc' \in [Threads -> PC]
    BY <1>7, <2>1, Zenon DEF GoCall, PC, GoPC
  <2> QED BY <1>7, <2>2, <2>3, <2>4 DEF GoCall
<1>8. ASSUME NEW p \in Threads, AddCheck(p) PROVE TypeOK'
  <2>1. Head(rest[p]) \in Controllers
    BY <1>8, HeadTail, Zenon DEF AddCheck
  <2>2. checks' \in [Names -> Controllers \cup {None}]
    BY <1>8, <2>1, ManagerAssumption, Zenon DEF AddCheck, AddHealthChecker
  <2>3. pc' \in [Threads -> PC]
    BY <1>8, Zenon DEF AddCheck, PC, GoPC
  <2> QED BY <1>8, <2>2, <2>3 DEF AddCheck
<1>9. ASSUME NEW p \in Threads, Spawn(p) PROVE TypeOK'
  <2>1. run' \in [Run -> {"unused", "spawned", "started", "returned"}]
    BY <1>9, Zenon DEF Spawn
  <2>2. pc' \in [Threads -> PC]
    BY <1>9, Zenon DEF Spawn, PC, GoPC
  <2> QED BY <1>9, <2>1, <2>2 DEF Spawn
<1>10. ASSUME NEW p \in Threads, CtxCheck(p) PROVE TypeOK'
  <2>1. Tail(rest[p]) \in Seq(Controllers) /\ <<>> \in Seq(Controllers)
    BY <1>10, HeadTail DEF CtxCheck, PlaceInv
  <2>2. rest' \in [Threads -> Seq(Controllers)]
    BY <1>10, <2>1, Zenon DEF CtxCheck, GoFails
  <2>3. pc' \in [Threads -> PC] /\ result' \in [Threads -> Results] /\ onceDone' \in BOOLEAN
    BY <1>10, ZenonT(90) DEF CtxCheck, GoFails, PC, GoPC, StartPC, Results
  <2> QED BY <1>10, <2>2, <2>3 DEF CtxCheck
<1>11. ASSUME NEW p \in Threads, GoReturns(p) PROVE TypeOK'
  BY <1>11 DEF GoReturns, PC, StartPC
<1>12. ASSUME NEW p \in Clients, NEW cs \in ClientArgs, CancelCall(p, cs) PROVE TypeOK'
  <2>1. p \in Threads /\ cs \in Seq(Controllers)
    BY ManagerAssumption, Zenon DEF Threads
  <2>2. args' \in [Threads -> Seq(Controllers)] /\ rest' \in [Threads -> Seq(Controllers)]
    BY <1>12, <2>1, Zenon DEF CancelCall
  <2>3. ops' \in [Threads -> 0..MaxOps]
    BY <1>12, <2>1, ManagerAssumption, SMTT(30) DEF CancelCall, Idle
  <2>4. pc' \in [Threads -> PC]
    BY <1>12, <2>1, Zenon DEF CancelCall, PC, CancelPC
  <2> QED BY <1>12, <2>2, <2>3, <2>4 DEF CancelCall
<1>13. ASSUME NEW p \in Threads, CancelLookup(p) PROVE TypeOK'
  <2>1. runCancelled' \in [Run -> BOOLEAN]
    BY <1>13, Zenon DEF CancelLookup
  <2>2. pc' \in [Threads -> PC]
    BY <1>13, Zenon DEF CancelLookup, PC, CancelPC
  <2> QED BY <1>13, <2>1, <2>2 DEF CancelLookup
<1>14. ASSUME NEW p \in Threads, CancelDelete(p) PROVE TypeOK'
  <2>1. Tail(rest[p]) \in Seq(Controllers)
    BY <1>14, HeadTail, Zenon DEF CancelDelete, PlaceInv
  <2>2. rest' \in [Threads -> Seq(Controllers)]
    BY <1>14, <2>1, Zenon DEF CancelDelete
  <2>3. pc' \in [Threads -> PC]
    BY <1>14, Zenon DEF CancelDelete, PC, CancelPC
  <2>4. cancelFuncs' \in [Controllers -> Run \cup {None}]
    BY <1>14, Zenon DEF CancelDelete
  <2>5. /\ UNCHANGED <<errG, parentDone, groupCancelled, groupErr, onceBy, onceDone>>
        /\ UNCHANGED <<server, srvShutdown, broadcaster, recorder, sweeper>>
        /\ UNCHANGED <<run, runCancelled, args, ops, ready, result, checks>>
    BY <1>14, Zenon DEF CancelDelete
  <2> QED BY <2>2, <2>3, <2>4, <2>5, SMTT(60)
<1>15. ASSUME NEW p \in Threads, CancelRemoveChecks(p) PROVE TypeOK'
  BY <1>15 DEF CancelRemoveChecks, RemoveHealthChecker, PC
<1>16. ASSUME NEW r \in Run, RunRegister(r) PROVE TypeOK'
  <2>1. r[1] \in Controllers
    BY Zenon DEF Run
  <2> QED BY <1>16, <2>1 DEF RunRegister
<1>17. ASSUME NEW r \in Run, RunReturn(r) PROVE TypeOK'
  BY <1>17 DEF RunReturn
<1>18. CASE ServiceStep
  <2>1. CASE Sweep
    <3>1. runCancelled' \in [Run -> BOOLEAN] /\ cancelFuncs' \in [Controllers -> Run \cup {None}]
      BY <2>1, Zenon DEF Sweep
    <3> QED BY <2>1, <3>1 DEF Sweep
  <2>2. CASE Serve
    BY <2>2 DEF Serve
  <2>3. CASE Record
    <3>1. recorder' = "done" /\ broadcaster' \in {"idle", "recording", "shutdown"}
      BY <2>3, Zenon DEF Record
    <3> QED BY <2>3, <3>1 DEF Record
  <2>4. CASE SweepBegin
    BY <2>4 DEF SweepBegin
  <2>5. CASE SweepCloseServer
    BY <2>5 DEF SweepCloseServer
  <2> QED BY <1>18, <2>1, <2>2, <2>3, <2>4, <2>5, Zenon DEF ServiceStep
<1>19. CASE ServeFails
  BY <1>19 DEF ServeFails
<1>20. CASE UNCHANGED vars
  BY <1>20 DEF vars
<1> QED
  BY <1>1, <1>2, <1>3, <1>4, <1>5, <1>6, <1>7, <1>8, <1>9, <1>10, <1>11, <1>12, <1>13,
     <1>14, <1>15, <1>16, <1>17, <1>18, <1>19, <1>20, Zenon
     DEF Next, CallStep

(***************************************************************************)
(* The steps that are not part of a call: the environment's and those of   *)
(* the errgroup's goroutines.                                              *)
(***************************************************************************)
Background ==
    \/ CancelParent \/ ServiceStep \/ ServeFails \/ UNCHANGED vars
    \/ \E r \in Run : RunRegister(r) \/ RunReturn(r)

\* What the services and runs do leaves the callers where they are.
LEMMA BackgroundFrame ==
    ASSUME TypeOK, Background
    PROVE  /\ UNCHANGED <<pc, rest, args, ops, ready, result, errG, onceBy, onceDone>>
           /\ CtxDone => CtxDone'
           /\ \A r \in Run : run'[r] = "unused" <=> run[r] = "unused"
           /\ sweeper # "off" => sweeper' # "off"
           /\ server \in {"off", "stopped"} => server' = server /\ groupErr' = groupErr
<1> USE DEF groupVars, serviceVars, runVars, callVars, CtxDone
<1>1. CASE CancelParent
  BY <1>1, Zenon DEF CancelParent
<1>2. CASE ServiceStep
  BY <1>2 DEF ServiceStep, Serve, Record, SweepBegin, Sweep, SweepCloseServer
<1>3. CASE ServeFails
  BY <1>3, Zenon DEF ServeFails
<1>4. CASE UNCHANGED vars
  BY <1>4, Zenon DEF vars
<1>5. ASSUME NEW q \in Run, RunRegister(q) \/ RunReturn(q)
      PROVE  /\ UNCHANGED <<groupVars, serviceVars, callVars>>
             /\ \A r \in Run : run'[r] = "unused" <=> run[r] = "unused"
  BY <1>5, Zenon DEF RunRegister, RunReturn, TypeOK
<1> QED BY <1>1, <1>2, <1>3, <1>4, <1>5, Zenon DEF Background

(* Next is a background step, the beginning of a call, or a step of one.   *)
LEMMA NextCases ==
    ASSUME [Next]_vars
    PROVE  \/ Background
           \/ \E p \in Threads : StartCall(p) \/ CallStep(p)
           \/ \E p \in Clients, cs \in ClientArgs : GoCall(p, cs) \/ CancelCall(p, cs)
BY Zenon DEF Next, Background

\* A step of p alone leaves the others where they are.
LEMMA PlaceStays ==
    ASSUME PlaceInv, NEW p \in Threads,
           \A q \in Threads \ {p} : pc'[q] = pc[q] /\ rest'[q] = rest[q] /\ ops'[q] = ops[q],
           p \in Starters => pc'[p] \notin CancelPC /\ ops'[p] = 0,
           p \in Clients => pc'[p] \notin StartPC \cup {"returned"},
           pc'[p] \in {"spawn", "ctxCheck", "lookup", "delete"} => rest'[p] # <<>>
    PROVE  PlaceInv'
<1>1. \A q \in Starters : pc'[q] \notin CancelPC /\ ops'[q] = 0
  BY Zenon DEF PlaceInv, Threads
<1>2. \A q \in Clients : pc'[q] \notin StartPC \cup {"returned"}
  BY Zenon DEF PlaceInv, Threads
<1>3. \A q \in Threads : pc'[q] \in {"spawn", "ctxCheck", "lookup", "delete"} => rest'[q] # <<>>
  BY Zenon DEF PlaceInv
<1> QED BY <1>1, <1>2, <1>3, Zenon DEF PlaceInv

\* Callers keep to their own code.
LEMMA NextPlace == TypeOK /\ PlaceInv /\ [Next]_vars => PlaceInv'
<1> SUFFICES ASSUME TypeOK, PlaceInv, [Next]_vars PROVE PlaceInv'
  OBVIOUS
<1> DEFINE Others(p) == \A q \in Threads \ {p} : /\ pc'[q] = pc[q] /\ rest'[q] = rest[q]
                                                 /\ ops'[q] = ops[q]
<1>t. /\ pc \in [Threads -> PC] /\ rest \in [Threads -> Seq(Controllers)]
      /\ ops \in [Threads -> 0..MaxOps]
  BY Zenon DEF TypeOK
<1>c. \A p \in Threads : /\ p \in Starters => p \notin Clients
                         /\ p \in Starters => pc[p] \notin CancelPC /\ ops[p] = 0
                         /\ p \in Clients => pc[p] \notin StartPC
                         /\ pc[p] \in {"spawn", "ctxCheck", "lookup", "delete"} => rest[p] # <<>>
  BY ManagerAssumption, Zenon DEF PlaceInv
<1>1. CASE Background
  <2>1. UNCHANGED <<pc, rest, ops>>
    BY <1>1, BackgroundFrame, Zenon
  <2> QED BY <2>1, Zenon DEF PlaceInv
<1>2. ASSUME NEW p \in Threads, StartCall(p) PROVE PlaceInv'
  <2>1. p \in Starters /\ rest' = rest /\ ops' = ops
        /\ \E l \in {"returned", "once"} : pc' = [pc EXCEPT ![p] = l]
    BY <1>2, Zenon DEF StartCall
  <2>2. Others(p) /\ pc'[p] \in {"returned", "once"} /\ ops'[p] = ops[p]
    BY <2>1, <1>t, Zenon
  <2> QED BY <1>c, <2>1, <2>2, PlaceStays, Zenon DEF CancelPC
<1>3. ASSUME NEW p \in Threads, OnceEnter(p) PROVE PlaceInv'
  <2>1. /\ pc[p] = "once" /\ ops' = ops
        /\ \E l \in {"addCheck", "ready"} : pc' = [pc EXCEPT ![p] = l]
        /\ rest' = rest \/ rest' = [rest EXCEPT ![p] = args[p]]
    BY <1>3, Zenon DEF OnceEnter
  <2>2. Others(p) /\ pc'[p] \in {"addCheck", "ready"} /\ ops'[p] = ops[p]
    BY <2>1, <1>t, Zenon
  <2>3. p \notin Clients
    BY <1>c, <2>1, Zenon DEF StartPC
  <2> QED BY <1>c, <2>2, <2>3, PlaceStays, Zenon DEF CancelPC
<1>4. ASSUME NEW p \in Threads, StartServices(p) \/ CloseReady(p) \/ WaitReturns(p)
      PROVE  PlaceInv'
  <2>1. /\ pc[p] \in StartPC /\ rest' = rest /\ ops' = ops
        /\ \E l \in {"ready", "returned", "wait"} : pc' = [pc EXCEPT ![p] = l]
    BY <1>4, Zenon DEF StartServices, CloseReady, WaitReturns, StartPC
  <2>2. Others(p) /\ pc'[p] \in {"ready", "returned", "wait"} /\ ops'[p] = ops[p]
    BY <2>1, <1>t, Zenon
  <2>3. p \notin Clients
    BY <1>c, <2>1, Zenon
  <2> QED BY <1>c, <2>2, <2>3, PlaceStays, Zenon DEF CancelPC
<1>5. ASSUME NEW p \in Clients, NEW cs \in ClientArgs, GoCall(p, cs) PROVE PlaceInv'
  <2>1. /\ pc[p] = "idle" /\ ops' = [ops EXCEPT ![p] = ops[p] + 1]
        /\ \/ rest' = rest /\ pc' = pc
           \/ rest' = [rest EXCEPT ![p] = cs] /\ pc' = [pc EXCEPT ![p] = "addCheck"]
    BY <1>5, Zenon DEF GoCall, Idle
  <2>2. p \in Threads /\ Others(p) /\ pc'[p] \in {"idle", "addCheck"}
    BY <2>1, <1>t, Zenon DEF Threads
  <2> QED BY <1>c, <2>2, PlaceStays, Zenon DEF StartPC
<1>6. ASSUME NEW p \in Threads, AddCheck(p) \/ Spawn(p) PROVE PlaceInv'
  <2>1. /\ rest[p] # <<>> /\ rest' = rest /\ ops' = ops
        /\ \E l \in {"spawn", "ctxCheck"} : pc' = [pc EXCEPT ![p] = l]
    BY <1>6, <1>c, Zenon DEF AddCheck, Spawn
  <2>2. Others(p) /\ pc'[p] \in {"spawn", "ctxCheck"} /\ ops'[p] = ops[p] /\ rest'[p] # <<>>
    BY <2>1, <1>t, Zenon
  <2> QED BY <1>c, <2>2, PlaceStays, Zenon DEF CancelPC, StartPC
<1>7. ASSUME NEW p \in Threads, CtxCheck(p) PROVE PlaceInv'
  <2>1. /\ ops' = ops /\ \E r : rest' = [rest EXCEPT ![p] = r]
        /\ \E l \in {"idle", "ready", "addCheck"} :
             pc' = [pc EXCEPT ![p] = l] /\ (p \in Clients => l # "ready")
    BY <1>7, Zenon DEF CtxCheck, GoFails
  <2>2. /\ Others(p) /\ pc'[p] \in {"idle", "ready", "addCheck"} /\ ops'[p] = ops[p]
        /\ p \in Clients => pc'[p] # "ready"
    BY <2>1, <1>t, Zenon
  <2> QED BY <1>c, <2>2, PlaceStays, Zenon DEF CancelPC, StartPC
<1>8. ASSUME NEW p \in Threads, GoReturns(p) PROVE PlaceInv'
  <2>1. /\ rest' = rest /\ ops' = ops
        /\ \E l \in {"idle", "services"} :
             pc' = [pc EXCEPT ![p] = l] /\ (p \in Clients => l # "services")
    BY <1>8, Zenon DEF GoReturns
  <2>2. /\ Others(p) /\ pc'[p] \in {"idle", "services"} /\ ops'[p] = ops[p]
        /\ p \in Clients => pc'[p] # "services"
    BY <2>1, <1>t, Zenon
  <2> QED BY <1>c, <2>2, PlaceStays, Zenon DEF CancelPC, StartPC
<1>9. ASSUME NEW p \in Clients, NEW cs \in ClientArgs, CancelCall(p, cs) PROVE PlaceInv'
  <2>1. /\ cs # <<>> /\ ops' = [ops EXCEPT ![p] = ops[p] + 1]
        /\ rest' = [rest EXCEPT ![p] = cs] /\ pc' = [pc EXCEPT ![p] = "lookup"]
    BY <1>9, Zenon DEF CancelCall
  <2>2. p \in Threads /\ Others(p) /\ pc'[p] = "lookup" /\ rest'[p] # <<>>
    BY <2>1, <1>t, Zenon DEF Threads
  <2> QED BY <1>c, <2>2, PlaceStays, Zenon DEF StartPC
<1>10. ASSUME NEW p \in Threads, CancelLookup(p) \/ CancelRemoveChecks(p) PROVE PlaceInv'
  <2>1. /\ pc[p] \in CancelPC /\ rest' = rest /\ ops' = ops
        /\ \/ pc[p] = "lookup" /\ pc' = [pc EXCEPT ![p] = "delete"]
           \/ pc' = [pc EXCEPT ![p] = "idle"]
    BY <1>10, Zenon DEF CancelLookup, CancelRemoveChecks, CancelPC
  <2>2. /\ Others(p) /\ pc'[p] \in {"delete", "idle"} /\ rest'[p] = rest[p]
        /\ pc'[p] = "delete" => pc[p] = "lookup"
    BY <2>1, <1>t, Zenon
  <2>3. p \notin Starters
    BY <1>c, <2>1, Zenon
  <2> QED BY <1>c, <2>2, <2>3, PlaceStays, Zenon DEF StartPC
<1>11. ASSUME NEW p \in Threads, CancelDelete(p) PROVE PlaceInv'
  <2>1. /\ pc[p] \in CancelPC /\ rest' = [rest EXCEPT ![p] = Tail(rest[p])] /\ ops' = ops
        /\ \E l \in {"removeChecks", "lookup"} :
             pc' = [pc EXCEPT ![p] = l] /\ (l = "lookup" => Tail(rest[p]) # <<>>)
    BY <1>11, Zenon DEF CancelDelete, CancelPC
  <2>2. /\ Others(p) /\ pc'[p] \in {"removeChecks", "lookup"}
        /\ pc'[p] = "lookup" => rest'[p] # <<>>
    BY <2>1, <1>t, Zenon
  <2>3. p \notin Starters
    BY <1>c, <2>1, Zenon
  <2> QED BY <2>2, <2>3, PlaceStays, Zenon DEF StartPC
<1> QED
  BY <1>1, <1>2, <1>3, <1>4, <1>5, <1>6, <1>7, <1>8, <1>9, <1>10, <1>11, NextCases, Zenon DEF CallStep

(* Only a starter's own steps move it or set its result.                   *)
LEMMA ClientFrame ==
    ASSUME TypeOK, PlaceInv,
           \/ \E p \in Clients, cs \in ClientArgs : GoCall(p, cs) \/ CancelCall(p, cs)
           \/ \E p \in Clients : CallStep(p)
    PROVE  /\ UNCHANGED <<groupVars, serviceVars>>
           /\ \A q \in Starters : /\ pc'[q] = pc[q] /\ rest'[q] = rest[q] /\ args'[q] = args[q]
                                  /\ ready'[q] = ready[q] /\ result'[q] = result[q]
           /\ \A q \in Starters, c \in Controllers : run'[<<c, q, 0>>] = run[<<c, q, 0>>]
<1>0. \A q \in Starters, c \in Controllers : <<c, q, 0>> \in Run
  BY ManagerAssumption DEF Run, Threads
<1>t. /\ pc \in [Threads -> PC] /\ rest \in [Threads -> Seq(Controllers)]
      /\ args \in [Threads -> Seq(Controllers)]
      /\ Clients \subseteq Threads /\ \A p \in Clients : p \notin Starters
      /\ Starters \subseteq Threads
  BY ManagerAssumption, Zenon DEF TypeOK, Threads
<1> USE DEF groupVars, serviceVars, runVars
<1>1. ASSUME NEW p \in Clients, NEW cs \in ClientArgs, GoCall(p, cs) \/ CancelCall(p, cs)
      PROVE  /\ UNCHANGED <<groupVars, serviceVars, run, ready, result>>
             /\ \A q \in Starters : pc'[q] = pc[q] /\ rest'[q] = rest[q] /\ args'[q] = args[q]
  <2>1. /\ UNCHANGED <<groupVars, serviceVars, run, ready, result>>
        /\ args' = [args EXCEPT ![p] = cs]
        /\ rest' = rest \/ rest' = [rest EXCEPT ![p] = cs]
        /\ pc' = pc \/ \E l : pc' = [pc EXCEPT ![p] = l]
    BY <1>1, Zenon DEF GoCall, CancelCall
  <2> QED BY <1>t, <2>1, Zenon
<1>2. ASSUME NEW p \in Clients, CallStep(p)
      PROVE  \/ AddCheck(p) \/ Spawn(p) \/ CtxCheck(p) \/ GoReturns(p)
             \/ CancelLookup(p) \/ CancelDelete(p) \/ CancelRemoveChecks(p)
  BY <1>2, Zenon DEF CallStep, PlaceInv, StartPC, OnceEnter, StartServices, CloseReady, WaitReturns
<1>3. ASSUME NEW p \in Clients,
             \/ AddCheck(p) \/ GoReturns(p)
             \/ CancelLookup(p) \/ CancelDelete(p) \/ CancelRemoveChecks(p)
      PROVE  /\ UNCHANGED <<groupVars, serviceVars, run, args, ready, result>>
             /\ \A q \in Starters : pc'[q] = pc[q] /\ rest'[q] = rest[q]
  <2>1. /\ UNCHANGED <<groupVars, serviceVars, run, args, ready, result>>
        /\ rest' = rest \/ \E r : rest' = [rest EXCEPT ![p] = r]
        /\ \E l : pc' = [pc EXCEPT ![p] = l]
    BY <1>3, Zenon DEF AddCheck, GoReturns, CancelLookup, CancelDelete, CancelRemoveChecks
  <2> QED BY <1>t, <2>1, Zenon
<1>4. ASSUME NEW p \in Clients, CtxCheck(p)
      PROVE  /\ UNCHANGED <<groupVars, serviceVars, run, args, ready, result>>
             /\ \A q \in Starters : pc'[q] = pc[q] /\ rest'[q] = rest[q]
  <2>1. /\ UNCHANGED <<groupVars, serviceVars, run, args, ready, result>>
        /\ \E r : rest' = [rest EXCEPT ![p] = r]
        /\ \E l : pc' = [pc EXCEPT ![p] = l]
    BY <1>4, Zenon DEF CtxCheck, GoFails
  <2> QED BY <1>t, <2>1, Zenon
<1>5. ASSUME NEW p \in Clients, Spawn(p)
      PROVE  /\ UNCHANGED <<groupVars, serviceVars, rest, args, ready, result>>
             /\ \A q \in Starters : pc'[q] = pc[q]
             /\ \A q \in Starters, c \in Controllers : run'[<<c, q, 0>>] = run[<<c, q, 0>>]
  <2>1. UNCHANGED <<groupVars, serviceVars, rest, args, ready, result>>
        /\ \A q \in Starters : pc'[q] = pc[q]
    BY <1>t, <1>5, Zenon DEF Spawn
  <2>2. run' = [run EXCEPT ![<<Head(rest[p]), p, ops[p]>>] = "spawned"]
    BY <1>5, Zenon DEF Spawn
  <2>3. ASSUME NEW q \in Starters, NEW c \in Controllers
        PROVE  run'[<<c, q, 0>>] = run[<<c, q, 0>>]
    <3>1. p # q
      BY <1>t, Zenon
    <3>2. <<c, q, 0>> # <<Head(rest[p]), p, ops[p]>>
      BY <3>1, Zenon
    <3> QED BY <1>0, <2>2, <3>2, Zenon DEF TypeOK
  <2> QED BY <2>1, <2>3, Zenon
<1> QED BY <1>1, <1>2, <1>3, <1>4, <1>5, Zenon

(* A step of a starter that does not enter once.Do and launches nothing. *)
LEMMA OnceMove ==
    ASSUME TypeOK, OnceInv, NEW p \in Starters, NEW x,
           pc' = [pc EXCEPT ![p] = x], UNCHANGED <<errG, onceBy, run>>,
           x \in {"addCheck", "spawn", "ctxCheck", "services"} => onceBy = p /\ ~onceDone',
           x \in {"ready", "wait"} => onceDone',
           onceDone' = onceDone \/ (onceDone' = TRUE /\ onceBy = p)
    PROVE  OnceInv'
<1>0. p # None /\ pc \in [Threads -> PC] /\ Starters \subseteq Threads
  BY ManagerAssumption, Zenon DEF TypeOK, Threads
<1>1. (errG <=> onceBy # None)'
  BY Zenon DEF OnceInv
<1>2. (onceDone => onceBy # None)'
  BY <1>0, Zenon DEF OnceInv
<1>3. (\A q \in Starters : Initialising(q) => onceBy = q /\ ~onceDone)'
  BY <1>0, Zenon DEF OnceInv, Initialising
<1>4. (\A q \in Starters : pc[q] \in {"ready", "wait"} => onceDone)'
  BY <1>0 DEF OnceInv
<1>5. (\A q \in Starters, c \in Controllers : run[<<c, q, 0>>] # "unused" => onceBy = q)'
  BY Zenon DEF OnceInv
<1> QED BY <1>1, <1>2, <1>3, <1>4, <1>5, Zenon DEF OnceInv

\* Only one Start gets past once.Do.
LEMMA NextOnce == TypeOK /\ PlaceInv /\ OnceInv /\ [Next]_vars => OnceInv'
<1> SUFFICES ASSUME TypeOK, PlaceInv, OnceInv, [Next]_vars PROVE OnceInv'
  OBVIOUS
<1>0. Starters \subseteq Threads /\ \A p \in Starters, c \in Controllers : <<c, p, 0>> \in Run
  BY ManagerAssumption DEF Run, Threads
<1> USE DEF groupVars, serviceVars, runVars
<1>1. CASE Background
  <2>1. UNCHANGED <<pc, errG, onceBy, onceDone>>
    BY <1>1, BackgroundFrame, Zenon
  <2>2. \A p \in Starters, c \in Controllers :
            run'[<<c, p, 0>>] = "unused" <=> run[<<c, p, 0>>] = "unused"
    BY <1>0, <1>1, BackgroundFrame, ZenonT(90)
  <2> QED BY <2>1, <2>2, Zenon DEF OnceInv, Initialising
<1>2. CASE \/ \E p \in Clients, cs \in ClientArgs : GoCall(p, cs) \/ CancelCall(p, cs)
           \/ \E p \in Clients : CallStep(p)
  <2>1. /\ UNCHANGED <<errG, onceBy, onceDone>>
        /\ \A q \in Starters : pc'[q] = pc[q]
        /\ \A q \in Starters, c \in Controllers : run'[<<c, q, 0>>] = run[<<c, q, 0>>]
    BY <1>2, ClientFrame, Zenon
  <2> QED BY <2>1, Zenon DEF OnceInv, Initialising
<1>3. ASSUME NEW p \in Threads, StartCall(p) PROVE OnceInv'
  <2>1. /\ p \in Starters /\ UNCHANGED <<errG, onceBy, onceDone, run>>
        /\ \/ pc' = [pc EXCEPT ![p] = "returned"] \/ pc' = [pc EXCEPT ![p] = "once"]
    BY <1>3, Zenon DEF StartCall
  <2> QED BY <2>1, OnceMove, Zenon
<1>4. ASSUME NEW p \in Starters, OnceEnter(p) PROVE OnceInv'
  <2>1. CASE onceBy = None
    <3>1. /\ onceBy' = p /\ errG' = TRUE /\ onceDone' = onceDone /\ run' = run
          /\ pc' = [pc EXCEPT ![p] = "addCheck"]
      BY <1>4, <2>1, Zenon DEF OnceEnter, OnceInv
    <3> QED
      BY <1>0, <2>1, <3>1, ManagerAssumption, Zenon DEF OnceInv, Initialising, TypeOK, Threads
  <2>2. CASE onceBy # None
    <3>1. onceDone /\ pc' = [pc EXCEPT ![p] = "ready"] /\ UNCHANGED <<errG, onceBy, onceDone, run>>
      BY <1>4, <2>2, Zenon DEF OnceEnter
    <3> QED BY <3>1, OnceMove, Zenon
  <2> QED BY <2>1, <2>2, Zenon
<1>5. ASSUME NEW p \in Starters, StartServices(p) PROVE OnceInv'
  <2>1. /\ pc[p] = "services" /\ onceDone' = TRUE /\ pc' = [pc EXCEPT ![p] = "ready"]
        /\ UNCHANGED <<errG, onceBy, run>>
    BY <1>5, Zenon DEF StartServices
  <2>2. onceBy = p
    BY <2>1, Zenon DEF OnceInv, Initialising
  <2> QED BY <2>1, <2>2, OnceMove, Zenon
<1>6. ASSUME NEW p \in Starters, CloseReady(p) \/ WaitReturns(p) PROVE OnceInv'
  <2>1. /\ pc[p] \in {"ready", "wait"} /\ UNCHANGED <<errG, onceBy, onceDone, run>>
        /\ \/ pc' = [pc EXCEPT ![p] = "returned"] \/ pc' = [pc EXCEPT ![p] = "wait"]
    BY <1>6, Zenon DEF CloseReady, WaitReturns
  <2>2. onceDone
    BY <2>1, Zenon DEF OnceInv
  <2> QED BY <2>1, <2>2, OnceMove, Zenon
<1>7. ASSUME NEW p \in Starters, AddCheck(p) \/ GoReturns(p) PROVE OnceInv'
  <2>1. /\ pc[p] = "addCheck" /\ UNCHANGED <<errG, onceBy, onceDone, run>>
        /\ \/ pc' = [pc EXCEPT ![p] = "spawn"] \/ pc' = [pc EXCEPT ![p] = "services"]
    BY <1>7, ManagerAssumption, Zenon DEF AddCheck, GoReturns
  <2>2. onceBy = p /\ ~onceDone
    BY <2>1, Zenon DEF OnceInv, Initialising
  <2> QED BY <2>1, <2>2, OnceMove, Zenon
<1>8. ASSUME NEW p \in Starters, Spawn(p) PROVE OnceInv'
  <2>1. /\ onceBy = p /\ ~onceDone /\ UNCHANGED <<errG, onceBy, onceDone>>
        /\ pc' = [pc EXCEPT ![p] = "ctxCheck"]
        /\ run' = [run EXCEPT ![<<Head(rest[p]), p, ops[p]>>] = "spawned"]
    BY <1>8, Zenon DEF Spawn, OnceInv, Initialising
  <2>2. ASSUME NEW q \in Starters, NEW c \in Controllers, run'[<<c, q, 0>>] # "unused"
        PROVE  onceBy = q
    <3>1. CASE q = p
      BY <2>1, <3>1, Zenon
    <3>2. CASE q # p
      <4>1. <<c, q, 0>> # <<Head(rest[p]), p, ops[p]>>
        BY <3>2, Zenon
      <4>2. run'[<<c, q, 0>>] = run[<<c, q, 0>>]
        BY <1>0, <2>1, <4>1, Zenon DEF TypeOK
      <4> QED BY <2>2, <4>2, Zenon DEF OnceInv
    <3> QED BY <3>1, <3>2, Zenon
  <2> QED BY <1>0, <2>1, <2>2 DEF OnceInv, Initialising, TypeOK
<1>9. ASSUME NEW p \in Starters, CtxCheck(p) PROVE OnceInv'
  <2>1. onceBy = p /\ ~onceDone /\ p \notin Clients
    BY <1>9, ManagerAssumption, Zenon DEF CtxCheck, OnceInv, Initialising
  <2>2. UNCHANGED <<errG, onceBy, run>>
    BY <1>9, Zenon DEF CtxCheck
  <2>3. CASE CtxDone
    <3>1. onceDone' = TRUE /\ pc' = [pc EXCEPT ![p] = "ready"]
      BY <1>9, <2>1, <2>3, Zenon DEF CtxCheck, GoFails
    <3> QED BY <2>1, <2>2, <3>1, OnceMove, Zenon
  <2>4. CASE ~CtxDone
    <3>1. onceDone' = onceDone /\ pc' = [pc EXCEPT ![p] = "addCheck"]
      BY <1>9, <2>4, Zenon DEF CtxCheck
    <3> QED BY <2>1, <2>2, <3>1, OnceMove, Zenon
  <2> QED BY <2>3, <2>4, Zenon
<1>10. ASSUME NEW p \in Starters,
              CancelLookup(p) \/ CancelDelete(p) \/ CancelRemoveChecks(p)
       PROVE  FALSE
  BY <1>10, Zenon DEF PlaceInv, CancelPC, CancelLookup, CancelDelete, CancelRemoveChecks
<1> QED
  BY <1>1, <1>2, <1>3, <1>4, <1>5, <1>6, <1>7, <1>8, <1>9, <1>10, NextCases, Zenon
     DEF CallStep, Threads

\* Start returns from a done context only.
LEMMA NextReturn == TypeOK /\ PlaceInv /\ ReturnInv /\ [Next]_vars => ReturnInv'
<1> SUFFICES ASSUME TypeOK, PlaceInv, ReturnInv, [Next]_vars PROVE ReturnInv'
  OBVIOUS
<1> USE DEF groupVars, CtxDone, Threads
<1>1. CASE Background
  <2>1. UNCHANGED <<pc, result>> /\ (CtxDone => CtxDone')
    BY <1>1, BackgroundFrame, ZenonT(90)
  <2> QED BY <2>1, Zenon DEF ReturnInv
<1>2. CASE \/ \E p \in Clients, cs \in ClientArgs : GoCall(p, cs) \/ CancelCall(p, cs)
           \/ \E p \in Clients : CallStep(p)
  <2>1. UNCHANGED groupVars /\ \A q \in Starters : pc'[q] = pc[q] /\ result'[q] = result[q]
    BY <1>2, ClientFrame, ZenonT(90)
  <2>2. CtxDone => CtxDone'
    BY <2>1, Zenon
  <2> HIDE DEF CtxDone, groupVars
  <2> QED BY <2>1, <2>2, Zenon DEF ReturnInv
<1>3. ASSUME NEW p \in Threads, StartCall(p) PROVE ReturnInv'
  BY <1>3, SMTT(30) DEF StartCall, ReturnInv, TypeOK
<1>4. ASSUME NEW p \in Starters,
             OnceEnter(p) \/ StartServices(p) \/ AddCheck(p) \/ GoReturns(p) \/ Spawn(p)
      PROVE  ReturnInv'
  BY <1>4 DEF OnceEnter, StartServices, AddCheck, GoReturns, Spawn, ReturnInv, TypeOK
<1>5. ASSUME NEW p \in Starters, CloseReady(p) PROVE ReturnInv'
  BY <1>5, Zenon DEF CloseReady, ReturnInv, TypeOK
<1>6. ASSUME NEW p \in Starters, WaitReturns(p) PROVE ReturnInv'
  BY <1>6, Zenon DEF WaitReturns, ReturnInv, TypeOK
<1>7. ASSUME NEW p \in Starters, CtxCheck(p) PROVE ReturnInv'
  BY <1>7, Zenon DEF CtxCheck, GoFails, ReturnInv, TypeOK
<1>8. ASSUME NEW p \in Starters,
             CancelLookup(p) \/ CancelDelete(p) \/ CancelRemoveChecks(p)
      PROVE  FALSE
  BY <1>8, Zenon DEF PlaceInv, CancelPC, CancelLookup, CancelDelete, CancelRemoveChecks
<1> QED
  BY <1>1, <1>2, <1>3, <1>4, <1>5, <1>6, <1>7, <1>8, NextCases, Zenon DEF CallStep

\* The invariant that the theorems share.
LEMMA CoreInvariant == Spec => []CoreInv
<1>1. CoreInv /\ [Next]_vars => CoreInv'
  BY NextType, NextPlace, NextOnce, NextReturn, Zenon DEF CoreInv
<1> QED BY <1>1, InitCore, PTL DEF Spec

(***************************************************************************)
(* Every variable of the manager keeps its type.                           *)
(***************************************************************************)
THEOREM TypeCorrect == Spec => []TypeOK
<1>1. CoreInv => TypeOK
  BY Zenon DEF CoreInv
<1> QED BY <1>1, CoreInvariant, PTL

(***************************************************************************)
(* Once Start has returned no controller goroutine has a live context.     *)
(***************************************************************************)
THEOREM NothingRunsUnstopped == Spec => []StopsControllers
<1>1. CoreInv => StopsControllers
  BY Zenon DEF CoreInv, ReturnInv, StopsControllers, Cancelled
<1> QED BY <1>1, CoreInvariant, PTL

(***************************************************************************)
(* Of any number of concurrent Starts one launches controllers.            *)
(***************************************************************************)
THEOREM FirstStartOnly == Spec => []OneStartTakesEffect
<1>1. CoreInv => OneStartTakesEffect
  BY Zenon DEF CoreInv, OnceInv, OneStartTakesEffect
<1> QED BY <1>1, CoreInvariant, PTL

------------------------------------------------------------------------------
\* After errG.Wait nothing changes the error.
LEMMA NextWait == CoreInv /\ WaitInv /\ [Next]_vars => WaitInv'
<1> SUFFICES ASSUME TypeOK, PlaceInv, OnceInv, WaitInv, [Next]_vars PROVE WaitInv'
  BY Zenon DEF CoreInv
<1> USE DEF groupVars, serviceVars, Threads
<1>1. CASE Background
  <2>1. /\ UNCHANGED <<pc, result, onceDone>>
        /\ server \in {"off", "stopped"} => server' = server /\ groupErr' = groupErr
    BY <1>1, BackgroundFrame, ZenonT(90)
  <2> QED BY <2>1, Zenon DEF WaitInv
<1>2. CASE \/ \E p \in Clients, cs \in ClientArgs : GoCall(p, cs) \/ CancelCall(p, cs)
           \/ \E p \in Clients : CallStep(p)
  <2>1. /\ UNCHANGED <<onceDone, server, groupErr>>
        /\ \A q \in Starters : pc'[q] = pc[q] /\ result'[q] = result[q]
    BY <1>2, ClientFrame, Zenon
  <2> QED BY <2>1, Zenon DEF WaitInv
<1>3. ASSUME NEW p \in Threads, StartCall(p) PROVE WaitInv'
  BY <1>3, ZenonT(90) DEF StartCall, WaitInv, TypeOK
<1>4. ASSUME NEW p \in Starters, OnceEnter(p) \/ AddCheck(p) \/ GoReturns(p) \/ Spawn(p)
      PROVE  WaitInv'
  BY <1>4, ManagerAssumption, ZenonT(90) DEF OnceEnter, AddCheck, GoReturns, Spawn, WaitInv, TypeOK
<1>5. ASSUME NEW p \in Starters, StartServices(p) PROVE WaitInv'
  <2>1. ~onceDone /\ pc' = [pc EXCEPT ![p] = "ready"] /\ result' = result
    BY <1>5, Zenon DEF StartServices, OnceInv, Initialising
  <2> QED BY <2>1, Zenon DEF WaitInv, TypeOK
<1>6. ASSUME NEW p \in Starters, CloseReady(p) PROVE WaitInv'
  BY <1>6, Zenon DEF CloseReady, WaitInv, TypeOK
<1>7. ASSUME NEW p \in Starters, WaitReturns(p) PROVE WaitInv'
  <2>1. onceDone
    BY <1>7, Zenon DEF WaitReturns, OnceInv
  <2> QED BY <1>7, <2>1, Zenon DEF WaitReturns, GroupIsDone, WaitInv, TypeOK
<1>8. ASSUME NEW p \in Starters, CtxCheck(p) PROVE WaitInv'
  <2>1. ~onceDone /\ p \notin Clients
    BY <1>8, ManagerAssumption, Zenon DEF CtxCheck, OnceInv, Initialising
  <2>2. \A q \in Starters : ~(pc[q] = "returned" /\ result[q] \in {"nil", "serveErr"})
    BY <2>1, Zenon DEF WaitInv
  <2>3. \/ /\ pc' = [pc EXCEPT ![p] = "ready"]
           /\ result' = [result EXCEPT ![p] = "startErr"]
        \/ /\ pc' = [pc EXCEPT ![p] = "addCheck"]
           /\ result' = result
    BY <1>8, <2>1, Zenon DEF CtxCheck, GoFails
  <2> QED BY <2>2, <2>3, Zenon DEF WaitInv, TypeOK
<1>9. ASSUME NEW p \in Starters,
             CancelLookup(p) \/ CancelDelete(p) \/ CancelRemoveChecks(p)
      PROVE  FALSE
  BY <1>9, Zenon DEF PlaceInv, CancelPC, CancelLookup, CancelDelete, CancelRemoveChecks
<1> QED
  BY <1>1, <1>2, <1>3, <1>4, <1>5, <1>6, <1>7, <1>8, <1>9, NextCases, Zenon DEF CallStep

(***************************************************************************)
(* A Start that waited returns the server's failure if there was one, and  *)
(* nothing that happens afterwards makes its answer wrong.                 *)
(***************************************************************************)
THEOREM ErrorReachesCaller == Spec => []ServerErrorIsReturned
<1>1. Init => WaitInv
  BY Zenon DEF Init, WaitInv, Threads
<1>2. CoreInv /\ WaitInv /\ [Next]_vars => WaitInv'
  BY NextWait, Zenon
<1>3. WaitInv => ServerErrorIsReturned
  BY Zenon DEF WaitInv, ServerErrorIsReturned
<1> QED BY <1>1, <1>2, <1>3, CoreInvariant, PTL DEF Spec

------------------------------------------------------------------------------
(* A starter that does not move stays launched as it was. *)
LEMMA LaunchStays ==
    ASSUME TypeOK, PlaceInv, NEW q \in Starters, LaunchedBy(q),
           pc'[q] = pc[q], args'[q] = args[q], rest'[q] = rest[q], ready'[q] = ready[q],
           onceDone => onceDone',
           \A c \in Controllers : Launched(c, q) => Launched(c, q)'
    PROVE  LaunchedBy(q)'
<1>1. Range(args[q]) \subseteq Controllers
  <2>1. args[q] \in Seq(Controllers)
    BY Zenon DEF TypeOK, Threads
  <2> QED BY <2>1, RangeOf, Zenon
<1>2. ASSUME pc[q] = "ctxCheck" PROVE Launched(Head(rest[q]), q)'
  <2>1. rest[q] # <<>> /\ rest[q] \in Seq(Controllers)
    BY <1>2, Zenon DEF TypeOK, PlaceInv, Threads
  <2> QED BY <1>2, <2>1, HeadTail, Zenon DEF LaunchedBy
<1>3. Launched(Head(rest[q]), q)' = (run'[<<Head(rest[q]), q, 0>>] # "unused")
  BY Zenon DEF Launched
<1> QED BY <1>1, <1>2, <1>3, Zenon DEF LaunchedBy, Initialising, Launched

(* What all Starts have launched stays launched. *)
LEMMA AllStays ==
    ASSUME TypeOK, OnceInv, AllLaunched,
           UNCHANGED <<onceBy, onceDone>>, CtxDone => CtxDone',
           sweeper # "off" => sweeper' # "off",
           \A q \in Starters, c \in Controllers : Launched(c, q) => Launched(c, q)'
    PROVE  AllLaunched'
<1> SUFFICES ASSUME onceDone, ~CtxDone
             PROVE  sweeper' # "off" /\ \A c \in Range(StartArgs[onceBy]) : Launched(c, onceBy)'
  BY Zenon DEF AllLaunched, Launched
<1>1. onceBy \in Starters
  BY Zenon DEF OnceInv, TypeOK
<1>2. Range(StartArgs[onceBy]) \subseteq Controllers
  <2>1. StartArgs[onceBy] \in Seq(Controllers)
    BY <1>1, ManagerAssumption, Zenon
  <2> QED BY <2>1, RangeOf, Zenon
<1> QED BY <1>1, <1>2, Zenon DEF AllLaunched

\* Start launches the controllers it was given, in turn.
LEMMA NextLaunch == CoreInv /\ LaunchInv /\ [Next]_vars => LaunchInv'
<1> SUFFICES ASSUME TypeOK, PlaceInv, OnceInv, LaunchInv, [Next]_vars PROVE LaunchInv'
  BY Zenon DEF CoreInv
<1>0. Starters \subseteq Threads /\ \A p \in Starters, c \in Controllers : <<c, p, 0>> \in Run
  BY ManagerAssumption DEF Run, Threads
<1>t. /\ pc \in [Threads -> PC] /\ run \in [Run -> {"unused", "spawned", "started", "returned"}]
      /\ rest \in [Threads -> Seq(Controllers)] /\ args \in [Threads -> Seq(Controllers)]
      /\ ready \in [Threads -> BOOLEAN]
  BY Zenon DEF TypeOK
<1>1. CASE Background
  <2>1. \A q \in Starters, c \in Controllers : Launched(c, q) => Launched(c, q)'
    BY <1>0, <1>1, BackgroundFrame, Zenon DEF Launched
  <2>2. /\ UNCHANGED <<pc, rest, args, ready, onceBy, onceDone>>
        /\ CtxDone => CtxDone'
        /\ sweeper # "off" => sweeper' # "off"
    BY <1>1, BackgroundFrame, Zenon
  <2>3. AllLaunched'
    BY <2>1, <2>2, AllStays, Zenon DEF LaunchInv
  <2>4. ASSUME NEW q \in Starters PROVE LaunchedBy(q)'
    BY <2>1, <2>2, LaunchStays, Zenon DEF LaunchInv
  <2> QED BY <2>3, <2>4, Zenon DEF LaunchInv
<1> USE DEF groupVars, serviceVars, runVars
<1>2. CASE \/ \E p \in Clients, cs \in ClientArgs : GoCall(p, cs) \/ CancelCall(p, cs)
           \/ \E p \in Clients : CallStep(p)
  <2>1. \A q \in Starters, c \in Controllers : Launched(c, q) => Launched(c, q)'
    BY <1>2, ClientFrame, ZenonT(90) DEF Launched
  <2>2. CtxDone' = CtxDone /\ UNCHANGED <<onceBy, onceDone, sweeper>>
    BY <1>2, ClientFrame DEF CtxDone
  <2>3. \A q \in Starters : pc'[q] = pc[q] /\ args'[q] = args[q] /\ rest'[q] = rest[q] /\ ready'[q] = ready[q]
    BY <1>2, ClientFrame, Zenon
  <2>4. AllLaunched'
    BY <2>1, <2>2, AllStays, Zenon DEF LaunchInv
  <2>5. ASSUME NEW q \in Starters PROVE LaunchedBy(q)'
    BY <2>1, <2>2, <2>3, LaunchStays, Zenon DEF LaunchInv
  <2> QED BY <2>4, <2>5, Zenon DEF LaunchInv
<1>3. ASSUME NEW p \in Threads, StartCall(p) PROVE LaunchInv'
  <2>1. /\ p \in Starters /\ UNCHANGED <<run, onceBy, onceDone, sweeper, rest, ready>>
        /\ args' = [args EXCEPT ![p] = StartArgs[p]] /\ CtxDone' = CtxDone
        /\ \/ pc' = [pc EXCEPT ![p] = "returned"] \/ pc' = [pc EXCEPT ![p] = "once"]
    BY <1>3, Zenon DEF StartCall, CtxDone
  <2>2. LaunchedBy(p)'
    BY <1>t, <2>1, Zenon DEF LaunchInv, LaunchedBy, Initialising
  <2>3. \A q \in Starters, c \in Controllers : Launched(c, q) => Launched(c, q)'
    BY <2>1, Zenon DEF Launched
  <2>4. ASSUME NEW q \in Starters \ {p} PROVE LaunchedBy(q)'
    <3>1. q \in Starters /\ pc'[q] = pc[q] /\ args'[q] = args[q] /\ rest'[q] = rest[q]
          /\ ready'[q] = ready[q]
      BY <1>0, <1>t, <2>1, Zenon
    <3>2. LaunchedBy(q) /\ (onceDone => onceDone')
      BY <3>1, <2>1, Zenon DEF LaunchInv
    <3> QED BY <3>1, <3>2, <2>3, LaunchStays, Zenon
  <2> QED BY <2>1, <2>2, <2>3, <2>4, AllStays, Zenon DEF LaunchInv
<1>4. ASSUME NEW p \in Starters, OnceEnter(p) PROVE LaunchInv'
  <2>1. /\ UNCHANGED <<run, onceDone, sweeper, args, ready>> /\ CtxDone' = CtxDone
        /\ \/ /\ onceBy = None /\ onceBy' = p
              /\ rest' = [rest EXCEPT ![p] = args[p]]
              /\ pc' = [pc EXCEPT ![p] = "addCheck"]
           \/ /\ onceBy' = onceBy /\ rest' = rest
              /\ pc' = [pc EXCEPT ![p] = "ready"]
        /\ pc[p] = "once"
    BY <1>4, Zenon DEF OnceEnter, CtxDone
  <2>2. LaunchedBy(p)'
    BY <1>0, <1>t, <2>1, Zenon DEF LaunchInv, LaunchedBy, Initialising
  <2>3. \A q \in Starters, c \in Controllers : Launched(c, q) => Launched(c, q)'
    BY <2>1, Zenon DEF Launched
  <2>4. ASSUME NEW q \in Starters \ {p} PROVE LaunchedBy(q)'
    <3>1. q \in Starters /\ pc'[q] = pc[q] /\ args'[q] = args[q] /\ rest'[q] = rest[q]
          /\ ready'[q] = ready[q]
      BY <1>0, <1>t, <2>1, Zenon
    <3>2. LaunchedBy(q) /\ (onceDone => onceDone')
      BY <3>1, <2>1, Zenon DEF LaunchInv
    <3> QED BY <3>1, <3>2, <2>3, LaunchStays, Zenon
  <2>5. AllLaunched'
    <3>1. CASE onceBy' = onceBy
      BY <2>1, <2>3, <3>1, AllStays, Zenon DEF LaunchInv
    <3>2. CASE onceBy = None
      BY <2>1, <3>2, Zenon DEF OnceInv, AllLaunched
    <3> QED BY <2>1, <3>1, <3>2, Zenon
  <2> QED BY <2>2, <2>4, <2>5, Zenon DEF LaunchInv
<1>5. ASSUME NEW p \in Starters, StartServices(p) PROVE LaunchInv'
  <2>1. /\ pc[p] = "services" /\ pc' = [pc EXCEPT ![p] = "ready"]
        /\ UNCHANGED <<run, onceBy, rest, args, ready>>
        /\ onceDone' = TRUE /\ sweeper' = "waiting"
    BY <1>5, Zenon DEF StartServices
  <2>2. LaunchedBy(p)'
    BY <1>0, <1>t, <2>1, Zenon DEF LaunchInv, LaunchedBy, Initialising
  <2>3. \A q \in Starters, c \in Controllers : Launched(c, q) => Launched(c, q)'
    BY <2>1, Zenon DEF Launched
  <2>4. ASSUME NEW q \in Starters \ {p} PROVE LaunchedBy(q)'
    <3>1. q \in Starters /\ pc'[q] = pc[q] /\ args'[q] = args[q] /\ rest'[q] = rest[q]
          /\ ready'[q] = ready[q]
      BY <1>0, <1>t, <2>1, Zenon
    <3>2. LaunchedBy(q) /\ (onceDone => onceDone')
      BY <3>1, <2>1, Zenon DEF LaunchInv
    <3> QED BY <3>1, <3>2, <2>3, LaunchStays, Zenon
  <2>5. onceBy = p /\ args[p] = StartArgs[p] /\ rest[p] = <<>>
    BY <2>1, Zenon DEF OnceInv, Initialising, LaunchInv, LaunchedBy
  <2>6. Range(rest[p]) = {}
    BY <2>5 DEF Range
  <2>7. \A c \in Range(StartArgs[p]) : Launched(c, p)
    BY <2>1, <2>5, <2>6, Zenon DEF LaunchInv, LaunchedBy, Initialising
  <2>8. AllLaunched'
    BY <2>1, <2>5, <2>7, Zenon DEF AllLaunched, Launched
  <2> QED BY <2>2, <2>4, <2>8, Zenon DEF LaunchInv
<1>6. ASSUME NEW p \in Starters, CloseReady(p) \/ WaitReturns(p) PROVE LaunchInv'
  <2>1. /\ pc[p] \in {"ready", "wait"}
        /\ \/ pc' = [pc EXCEPT ![p] = "returned"] \/ pc' = [pc EXCEPT ![p] = "wait"]
        /\ UNCHANGED <<run, onceBy, onceDone, sweeper, rest, args>>
        /\ CtxDone => CtxDone'
        /\ ready' = ready \/ ready' = [ready EXCEPT ![p] = TRUE]
    BY <1>6 DEF CloseReady, WaitReturns, CtxDone
  <2>2. LaunchedBy(p)'
    BY <1>0, <1>t, <2>1, Zenon DEF LaunchInv, LaunchedBy, OnceInv, Initialising
  <2>3. \A q \in Starters, c \in Controllers : Launched(c, q) => Launched(c, q)'
    BY <2>1, Zenon DEF Launched
  <2>4. ASSUME NEW q \in Starters \ {p} PROVE LaunchedBy(q)'
    <3>1. q \in Starters /\ pc'[q] = pc[q] /\ args'[q] = args[q] /\ rest'[q] = rest[q]
          /\ ready'[q] = ready[q]
      BY <1>0, <1>t, <2>1, Zenon
    <3>2. LaunchedBy(q) /\ (onceDone => onceDone')
      BY <3>1, <2>1, Zenon DEF LaunchInv
    <3> QED BY <3>1, <3>2, <2>3, LaunchStays, Zenon
  <2> QED BY <2>1, <2>2, <2>3, <2>4, AllStays, Zenon DEF LaunchInv
<1>7. ASSUME NEW p \in Starters, AddCheck(p) \/ GoReturns(p) PROVE LaunchInv'
  <2>1. /\ pc[p] = "addCheck"
        /\ \/ pc' = [pc EXCEPT ![p] = "spawn"]
           \/ pc' = [pc EXCEPT ![p] = "services"] /\ rest[p] = <<>>
        /\ UNCHANGED <<run, onceBy, onceDone, sweeper, rest, args, ready>>
        /\ CtxDone' = CtxDone
    <3>1. CASE AddCheck(p)
      BY <3>1, Zenon DEF AddCheck, CtxDone
    <3>2. CASE GoReturns(p)
      BY <3>2, ManagerAssumption, Zenon DEF GoReturns, CtxDone
    <3> QED BY <1>7, <3>1, <3>2, Zenon
  <2>2. LaunchedBy(p)'
    BY <1>0, <1>t, <2>1, Zenon DEF LaunchInv, LaunchedBy, Initialising, Launched
  <2>3. \A q \in Starters, c \in Controllers : Launched(c, q) => Launched(c, q)'
    BY <2>1, Zenon DEF Launched
  <2>4. ASSUME NEW q \in Starters \ {p} PROVE LaunchedBy(q)'
    <3>1. q \in Starters /\ pc'[q] = pc[q] /\ args'[q] = args[q] /\ rest'[q] = rest[q]
          /\ ready'[q] = ready[q]
      BY <1>0, <1>t, <2>1, Zenon
    <3>2. LaunchedBy(q) /\ (onceDone => onceDone')
      BY <3>1, <2>1, Zenon DEF LaunchInv
    <3> QED BY <3>1, <3>2, <2>3, LaunchStays, Zenon
  <2> QED BY <2>1, <2>2, <2>3, <2>4, AllStays, Zenon DEF LaunchInv
<1>8. ASSUME NEW p \in Starters, Spawn(p) PROVE LaunchInv'
  <2>1. /\ pc[p] = "spawn" /\ pc' = [pc EXCEPT ![p] = "ctxCheck"]
        /\ run' = [run EXCEPT ![<<Head(rest[p]), p, ops[p]>>] = "spawned"]
        /\ UNCHANGED <<onceBy, onceDone, sweeper, rest, args, ready>>
        /\ CtxDone' = CtxDone
    BY <1>8, Zenon DEF Spawn, CtxDone
  <2>2. ops[p] = 0 /\ Head(rest[p]) \in Controllers
    <3>1. ops[p] = 0 /\ rest[p] # <<>> /\ rest[p] \in Seq(Controllers)
      BY <1>0, <1>t, <2>1, Zenon DEF PlaceInv
    <3> QED BY <3>1, HeadTail, Zenon
  <2>3. \A q \in Starters, c \in Controllers : Launched(c, q) => Launched(c, q)'
    BY <1>0, <1>t, <2>1, Zenon DEF Launched
  <2>4. Launched(Head(rest[p]), p)'
    BY <1>0, <1>t, <2>1, <2>2, Zenon DEF Launched
  <2>5. Range(args[p]) \subseteq Controllers
    <3>1. args[p] \in Seq(Controllers)
      BY <1>0, <1>t, Zenon
    <3> QED BY <3>1, RangeOf, Zenon
  <2>6. LaunchedBy(p)'
    BY <1>0, <1>t, <2>1, <2>3, <2>4, <2>5, Zenon DEF LaunchInv, LaunchedBy, Initialising, Launched
  <2>7. ASSUME NEW q \in Starters \ {p} PROVE LaunchedBy(q)'
    <3>1. q \in Starters /\ pc'[q] = pc[q] /\ args'[q] = args[q] /\ rest'[q] = rest[q]
          /\ ready'[q] = ready[q]
      BY <1>0, <1>t, <2>1, Zenon
    <3>2. LaunchedBy(q) /\ (onceDone => onceDone')
      BY <3>1, <2>1, Zenon DEF LaunchInv
    <3> QED BY <3>1, <3>2, <2>3, LaunchStays, Zenon
  <2> QED BY <2>1, <2>3, <2>6, <2>7, AllStays, Zenon DEF LaunchInv
<1>9. ASSUME NEW p \in Starters, CtxCheck(p) PROVE LaunchInv'
  <2>1. /\ pc[p] = "ctxCheck" /\ UNCHANGED <<run, onceBy, sweeper, args, ready>>
        /\ CtxDone' = CtxDone
    BY <1>9, Zenon DEF CtxCheck, CtxDone
  <2>2. ~onceDone /\ p \notin Clients
    BY <2>1, ManagerAssumption, Zenon DEF OnceInv, Initialising
  <2>3. \/ /\ CtxDone /\ onceDone' = TRUE
           /\ pc' = [pc EXCEPT ![p] = "ready"]
           /\ rest' = [rest EXCEPT ![p] = <<>>]
        \/ /\ onceDone' = onceDone
           /\ pc' = [pc EXCEPT ![p] = "addCheck"]
           /\ rest' = [rest EXCEPT ![p] = Tail(rest[p])]
    BY <1>9, <2>2, Zenon DEF CtxCheck, GoFails
  <2>4. rest[p] # <<>> /\ rest[p] \in Seq(Controllers)
    BY <1>0, <1>t, <2>1, Zenon DEF PlaceInv
  <2>5. Range(rest[p]) = {Head(rest[p])} \cup Range(Tail(rest[p]))
    BY <2>4, HeadTail, Zenon
  <2>6. LaunchedBy(p)'
    BY <1>0, <1>t, <2>1, <2>2, <2>3, <2>5, Zenon DEF LaunchInv, LaunchedBy, Initialising, Launched
  <2>7. \A q \in Starters, c \in Controllers : Launched(c, q) => Launched(c, q)'
    BY <2>1, Zenon DEF Launched
  <2>8. ASSUME NEW q \in Starters \ {p} PROVE LaunchedBy(q)'
    <3>1. q \in Starters /\ pc'[q] = pc[q] /\ args'[q] = args[q] /\ rest'[q] = rest[q]
          /\ ready'[q] = ready[q]
      BY <1>0, <1>t, <2>1, <2>2, <2>3, Zenon
    <3>2. LaunchedBy(q) /\ (onceDone => onceDone')
      BY <3>1, <2>2, Zenon DEF LaunchInv
    <3> QED BY <3>1, <3>2, <2>7, LaunchStays, Zenon
  <2>9. AllLaunched'
    BY <2>1, <2>2, <2>3, Zenon DEF AllLaunched
  <2> QED BY <2>6, <2>8, <2>9, Zenon DEF LaunchInv
<1>10. ASSUME NEW p \in Starters,
              CancelLookup(p) \/ CancelDelete(p) \/ CancelRemoveChecks(p)
       PROVE  FALSE
  BY <1>10, Zenon DEF PlaceInv, CancelPC, CancelLookup, CancelDelete, CancelRemoveChecks
<1> QED
  BY <1>1, <1>2, <1>3, <1>4, <1>5, <1>6, <1>7, <1>8, <1>9, <1>10, NextCases, Zenon
     DEF CallStep, Threads

(***************************************************************************)
(* A closed readyc, whichever Start closed it, means that the controllers  *)
(* of the Start that took effect are launched and the goroutine that stops *)
(* them is in place, unless the context is done already.                   *)
(***************************************************************************)
THEOREM ReadyIsReady == Spec => []ReadyMeansLaunched
<1>1. Init => LaunchInv
  BY Zenon DEF Init, LaunchInv, LaunchedBy, AllLaunched, Initialising, Threads
<1>2. CoreInv /\ LaunchInv /\ [Next]_vars => LaunchInv'
  BY NextLaunch, Zenon
<1>3. LaunchInv => ReadyMeansLaunched
  BY Zenon DEF LaunchInv, LaunchedBy, AllLaunched, Launched, ReadyMeansLaunched
<1> QED BY <1>1, <1>2, <1>3, CoreInvariant, PTL DEF Spec
==============================================================================
