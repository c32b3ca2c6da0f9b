------------------------------- MODULE Manager -------------------------------
(***************************************************************************)
(* Manager (manager/manager.go) and the health check registry it keeps     *)
(* (healthz/handler.go): Start, Go and Cancel called by several            *)
(* goroutines, and the goroutines Start and Go put into the errgroup.      *)
(*                                                                         *)
(* Each critical section of m.lock and of the health handler's mutex is    *)
(* one step, since nothing inside blocks; whatever the code does between   *)
(* two critical sections may be interleaved with everything else.          *)
(***************************************************************************)
EXTENDS Naturals, Sequences, Functions

CONSTANTS
    Controllers,    \* the controllers
    Blocking,       \* those whose Start runs until its context is cancelled
    Names,          \* controller names
    Name,           \* Name[c]: c.Name()
    Starters,       \* goroutines that call Start once
    StartArgs,      \* StartArgs[p]: the controllers p passes to Start
    Clients,        \* goroutines that call Go and Cancel
    ClientArgs,     \* the argument lists clients use
    MaxOps,         \* calls per client
    None            \* no controller, no run, no thread

Threads == Starters \cup Clients

ASSUME ManagerAssumption ==
    /\ Blocking \subseteq Controllers
    /\ Name \in [Controllers -> Names]
    /\ StartArgs \in [Starters -> Seq(Controllers)]
    /\ ClientArgs \subseteq Seq(Controllers)
    /\ MaxOps \in Nat
    /\ None \notin Controllers /\ None \notin Threads
    /\ Starters \cap Clients = {}

(***************************************************************************)
(* A run is one goroutine that Go puts into the errgroup: the controller,  *)
(* the thread that launched it, and which of its calls did.                *)
(***************************************************************************)
Run == Controllers \X Threads \X (0..MaxOps)

ASSUME NoneIsNoRun == None \notin Run

VARIABLES
    errG,           \* m.errG # nil
    parentDone,     \* the context passed to Start is cancelled
    groupCancelled, \* the errgroup has cancelled its context
    groupErr,       \* the first error of the errgroup
    onceBy,         \* the thread that runs, or ran, once.Do's function
    onceDone,       \* once.Do's function has returned
    cancelFuncs,    \* m.cancelFuncs: controller -> the run it cancels
    checks,         \* healthzHandler.checks: name -> controller
    server,         \* the goroutine of the health / debug server
    srvShutdown,    \* srv.Shutdown was called
    broadcaster,    \* the event broadcaster
    recorder,       \* the goroutine that starts recording events
    sweeper,        \* the goroutine that stops everything
    run,            \* the goroutine of each run
    runCancelled,   \* the run's own cancel function was called
    pc, rest, args, \* callers: place, controllers left to handle, arguments
    ops,            \* calls a client has made
    ready,          \* the starter's readyc is closed
    result          \* what the starter's Start returned

groupVars == <<errG, parentDone, groupCancelled, groupErr, onceBy, onceDone>>
serviceVars == <<server, srvShutdown, broadcaster, recorder, sweeper>>
runVars == <<run, runCancelled, cancelFuncs>>
callVars == <<pc, rest, args, ops, ready, result>>
vars == <<groupVars, serviceVars, runVars, callVars, checks>>

StartPC == {"once", "services", "ready", "wait"}
GoPC == {"addCheck", "spawn", "ctxCheck"}
CancelPC == {"lookup", "delete", "removeChecks"}
PC == {"idle", "returned"} \cup StartPC \cup GoPC \cup CancelPC

Results == {"none", "alreadyStarted", "startErr", "nil", "serveErr"}

TypeOK ==
    /\ errG \in BOOLEAN /\ parentDone \in BOOLEAN /\ groupCancelled \in BOOLEAN
    /\ groupErr \in {"nil", "serveErr"}
    /\ onceBy \in Starters \cup {None} /\ onceDone \in BOOLEAN
    /\ cancelFuncs \in [Controllers -> Run \cup {None}]
    /\ checks \in [Names -> Controllers \cup {None}]
    /\ server \in {"off", "spawned", "serving", "stopped"}
    /\ srvShutdown \in BOOLEAN
    /\ broadcaster \in {"idle", "recording", "shutdown"}
    /\ recorder \in {"off", "spawned", "done"}
    /\ sweeper \in {"off", "waiting", "sweeping", "closing", "done"}
    /\ run \in [Run -> {"unused", "spawned", "started", "returned"}]
    /\ runCancelled \in [Run -> BOOLEAN]
    /\ pc \in [Threads -> PC]
    /\ rest \in [Threads -> Seq(Controllers)]
    /\ args \in [Threads -> Seq(Controllers)]
    /\ ops \in [Threads -> 0..MaxOps]
    /\ ready \in [Threads -> BOOLEAN]
    /\ result \in [Threads -> Results]

Init ==
    /\ errG = FALSE /\ parentDone = FALSE /\ groupCancelled = FALSE
    /\ groupErr = "nil"
    /\ onceBy = None /\ onceDone = FALSE
    /\ cancelFuncs = [c \in Controllers |-> None]
    /\ checks = [n \in Names |-> None]
    /\ server = "off" /\ srvShutdown = FALSE
    /\ broadcaster = "idle" /\ recorder = "off" /\ sweeper = "off"
    /\ run = [r \in Run |-> "unused"]
    /\ runCancelled = [r \in Run |-> FALSE]
    /\ pc = [p \in Threads |-> "idle"]
    /\ rest = [p \in Threads |-> <<>>]
    /\ args = [p \in Threads |-> <<>>]
    /\ ops = [p \in Threads |-> 0]
    /\ ready = [p \in Threads |-> FALSE]
    /\ result = [p \in Threads |-> "none"]

\* The errgroup's context, a child of the one passed to Start, is done.
CtxDone == parentDone \/ groupCancelled

\* The context a run gives its controller, a child of the errgroup's, is done.
Cancelled(r) == runCancelled[r] \/ CtxDone
------------------------------------------------------------------------------
(***************************************************************************)
(* The environment.                                                        *)
(***************************************************************************)
CancelParent ==
    /\ ~parentDone
    /\ parentDone' = TRUE
    /\ UNCHANGED <<errG, groupCancelled, groupErr, onceBy, onceDone,
                   serviceVars, runVars, callVars, checks>>

(***************************************************************************)
(* Start.                                                                  *)
(***************************************************************************)
\* The check of m.errG under the read lock.
StartCall(p) ==
    /\ p \in Starters /\ pc[p] = "idle"
    /\ args' = [args EXCEPT ![p] = StartArgs[p]]
    /\ IF errG THEN /\ pc' = [pc EXCEPT ![p] = "returned"]
                    /\ result' = [result EXCEPT ![p] = "alreadyStarted"]
               ELSE /\ pc' = [pc EXCEPT ![p] = "once"]
                    /\ UNCHANGED result
    /\ UNCHANGED <<groupVars, serviceVars, runVars, rest, ops, ready, checks>>

\* A plausible slip: no once.Do, whoever saw a nil errG initialises.
EnterWithoutOnce(p) ==
    /\ pc[p] = "once"
    /\ onceBy' = p /\ errG' = TRUE
    /\ rest' = [rest EXCEPT ![p] = args[p]]
    /\ pc' = [pc EXCEPT ![p] = "addCheck"]
    /\ UNCHANGED <<parentDone, groupCancelled, groupErr, onceDone,
                   serviceVars, runVars, args, ops, ready, result, checks>>

\* A plausible slip: an atomic flag instead of sync.Once; whoever finds it
\* set goes on at once.
EnterWithFlag(p) ==
    /\ pc[p] = "once"
    /\ IF onceBy = None
         THEN /\ onceBy' = p /\ errG' = TRUE
              /\ rest' = [rest EXCEPT ![p] = args[p]]
              /\ pc' = [pc EXCEPT ![p] = "addCheck"]
         ELSE /\ pc' = [pc EXCEPT ![p] = "ready"]
              /\ UNCHANGED <<onceBy, errG, rest>>
    /\ UNCHANGED <<parentDone, groupCancelled, groupErr, onceDone,
                   serviceVars, runVars, args, ops, ready, result, checks>>

\* once.Do: the first caller creates the errgroup and calls Go; the others
\* wait until it is done and go on without doing anything.
OnceEnter(p) ==
    /\ pc[p] = "once"
    /\ \/ /\ onceBy = None
          /\ onceBy' = p /\ errG' = TRUE
          /\ rest' = [rest EXCEPT ![p] = args[p]]
          /\ pc' = [pc EXCEPT ![p] = "addCheck"]
       \/ /\ onceDone
          /\ pc' = [pc EXCEPT ![p] = "ready"]
          /\ UNCHANGED <<onceBy, errG, rest>>
    /\ UNCHANGED <<parentDone, groupCancelled, groupErr, onceDone,
                   serviceVars, runVars, args, ops, ready, result, checks>>

\* The server, the broadcaster and the sweeper join the errgroup.
StartServices(p) ==
    /\ pc[p] = "services"
    /\ server' = "spawned" /\ recorder' = "spawned" /\ sweeper' = "waiting"
    /\ onceDone' = TRUE
    /\ pc' = [pc EXCEPT ![p] = "ready"]
    /\ UNCHANGED <<errG, parentDone, groupCancelled, groupErr, onceBy,
                   srvShutdown, broadcaster, runVars,
                   rest, args, ops, ready, result, checks>>

\* A plausible slip: Start does not wait for the errgroup.
CloseReadyAndReturn(p) ==
    /\ pc[p] = "ready"
    /\ ready' = [ready EXCEPT ![p] = TRUE]
    /\ pc' = [pc EXCEPT ![p] = "returned"]
    /\ result' = [result EXCEPT ![p] = IF @ = "startErr" THEN @ ELSE "nil"]
    /\ UNCHANGED <<groupVars, serviceVars, runVars, rest, args, ops, checks>>

CloseReady(p) ==
    /\ pc[p] = "ready"
    /\ ready' = [ready EXCEPT ![p] = TRUE]
    /\ pc' = [pc EXCEPT ![p] = IF result[p] = "startErr" THEN "returned" ELSE "wait"]
    /\ UNCHANGED <<groupVars, serviceVars, runVars, rest, args, ops, result, checks>>

GroupIsDone ==
    /\ \A r \in Run : run[r] \in {"unused", "returned"}
    /\ server \in {"off", "stopped"}
    /\ recorder \in {"off", "done"}
    /\ sweeper \in {"off", "done"}

\* A plausible slip: the errgroup's error is dropped.
WaitDropsError(p) ==
    /\ pc[p] = "wait" /\ GroupIsDone
    /\ groupCancelled' = TRUE
    /\ pc' = [pc EXCEPT ![p] = "returned"]
    /\ result' = [result EXCEPT ![p] = "nil"]
    /\ UNCHANGED <<errG, parentDone, groupErr, onceBy, onceDone,
                   serviceVars, runVars, rest, args, ops, ready, checks>>

\* errG.Wait cancels the errgroup's context and returns its first error.
WaitReturns(p) ==
    /\ pc[p] = "wait" /\ GroupIsDone
    /\ groupCancelled' = TRUE
    /\ pc' = [pc EXCEPT ![p] = "returned"]
    /\ result' = [result EXCEPT ![p] = groupErr]
    /\ UNCHANGED <<errG, parentDone, groupErr, onceBy, onceDone,
                   serviceVars, runVars, rest, args, ops, ready, checks>>

(***************************************************************************)
(* Go, called by a client or by Start.                                     *)
(***************************************************************************)
Idle(p) == p \in Clients /\ pc[p] = "idle" /\ ops[p] < MaxOps

GoCall(p, cs) ==
    /\ Idle(p)
    /\ ops' = [ops EXCEPT ![p] = @ + 1]
    /\ args' = [args EXCEPT ![p] = cs]
    /\ IF errG THEN /\ rest' = [rest EXCEPT ![p] = cs]
                    /\ pc' = [pc EXCEPT ![p] = "addCheck"]
               ELSE UNCHANGED <<rest, pc>>
    /\ UNCHANGED <<groupVars, serviceVars, runVars, ready, result, checks>>

AddHealthChecker(c) == checks' = [checks EXCEPT ![Name[c]] = c]

AddCheck(p) ==
    /\ pc[p] = "addCheck" /\ rest[p] # <<>>
    /\ AddHealthChecker(Head(rest[p]))
    /\ pc' = [pc EXCEPT ![p] = "spawn"]
    /\ UNCHANGED <<groupVars, serviceVars, runVars, rest, args, ops, ready, result>>

\* errG.Go starts the goroutine; it has not registered its cancel function.
Spawn(p) ==
    /\ pc[p] = "spawn"
    /\ run' = [run EXCEPT ![<<Head(rest[p]), p, ops[p]>>] = "spawned"]
    /\ pc' = [pc EXCEPT ![p] = "ctxCheck"]
    /\ UNCHANGED <<groupVars, serviceVars, runCancelled, cancelFuncs,
                   rest, args, ops, ready, result, checks>>

\* Go returns ctx.Err(); a starter leaves once.Do with startErr set.
GoFails(p) ==
    /\ rest' = [rest EXCEPT ![p] = <<>>]
    /\ IF p \in Clients
         THEN /\ pc' = [pc EXCEPT ![p] = "idle"]
              /\ UNCHANGED <<result, onceDone>>
         ELSE /\ pc' = [pc EXCEPT ![p] = "ready"]
              /\ result' = [result EXCEPT ![p] = "startErr"]
              /\ onceDone' = TRUE

CtxCheck(p) ==
    /\ pc[p] = "ctxCheck"
    /\ IF CtxDone
         THEN GoFails(p)
         ELSE /\ rest' = [rest EXCEPT ![p] = Tail(@)]
              /\ pc' = [pc EXCEPT ![p] = "addCheck"]
              /\ UNCHANGED <<result, onceDone>>
    /\ UNCHANGED <<errG, parentDone, groupCancelled, groupErr, onceBy,
                   serviceVars, runVars, args, ops, ready, checks>>

GoReturns(p) ==
    /\ pc[p] = "addCheck" /\ rest[p] = <<>>
    /\ pc' = [pc EXCEPT ![p] = IF p \in Clients THEN "idle" ELSE "services"]
    /\ UNCHANGED <<groupVars, serviceVars, runVars, rest, args, ops, ready, result, checks>>

(***************************************************************************)
(* Cancel.  The lookup and the deletion are two critical sections.         *)
(***************************************************************************)
CancelCall(p, cs) ==
    /\ Idle(p) /\ cs # <<>>
    /\ ops' = [ops EXCEPT ![p] = @ + 1]
    /\ args' = [args EXCEPT ![p] = cs]
    /\ rest' = [rest EXCEPT ![p] = cs]
    /\ pc' = [pc EXCEPT ![p] = "lookup"]
    /\ UNCHANGED <<groupVars, serviceVars, runVars, ready, result, checks>>

CancelLookup(p) ==
    /\ pc[p] = "lookup"
    /\ LET r == cancelFuncs[Head(rest[p])] IN
         runCancelled' = IF r = None THEN runCancelled
                         ELSE [runCancelled EXCEPT ![r] = TRUE]
    /\ pc' = [pc EXCEPT ![p] = "delete"]
    /\ UNCHANGED <<groupVars, serviceVars, run, cancelFuncs,
                   rest, args, ops, ready, result, checks>>

CancelDelete(p) ==
    /\ pc[p] = "delete"
    /\ cancelFuncs' = [cancelFuncs EXCEPT ![Head(rest[p])] = None]
    /\ rest' = [rest EXCEPT ![p] = Tail(@)]
    /\ pc' = [pc EXCEPT ![p] = IF Tail(rest[p]) = <<>> THEN "removeChecks" ELSE "lookup"]
    /\ UNCHANGED <<groupVars, serviceVars, run, runCancelled,
                   args, ops, ready, result, checks>>

RemoveHealthChecker(names) ==
    checks' = [n \in Names |-> IF n \in names THEN None ELSE checks[n]]

CancelRemoveChecks(p) ==
    /\ pc[p] = "removeChecks"
    /\ RemoveHealthChecker({Name[c] : c \in Range(args[p])})
    /\ pc' = [pc EXCEPT ![p] = "idle"]
    /\ UNCHANGED <<groupVars, serviceVars, runVars, rest, args, ops, ready, result>>

(***************************************************************************)
(* The errgroup's goroutines.                                              *)
(***************************************************************************)
\* The run registers its cancel function and starts the controller.
RunRegister(r) ==
    /\ run[r] = "spawned"
    /\ run' = [run EXCEPT ![r] = "started"]
    /\ cancelFuncs' = [cancelFuncs EXCEPT ![r[1]] = r]
    /\ UNCHANGED <<groupVars, serviceVars, runCancelled, callVars, checks>>

\* The controller's Start returns.
RunReturn(r) ==
    /\ run[r] = "started"
    /\ r[1] \in Blocking => Cancelled(r)
    /\ run' = [run EXCEPT ![r] = "returned"]
    /\ UNCHANGED <<groupVars, serviceVars, runCancelled, cancelFuncs, callVars, checks>>

Serve ==
    /\ \/ server = "spawned" /\ server' = IF srvShutdown THEN "stopped" ELSE "serving"
       \/ server = "serving" /\ srvShutdown /\ server' = "stopped"
    /\ UNCHANGED <<groupVars, srvShutdown, broadcaster, recorder, sweeper,
                   runVars, callVars, checks>>

\* ListenAndServe fails: the errgroup keeps the error, cancels its context.
ServeFails ==
    /\ server \in {"spawned", "serving"} /\ ~srvShutdown
    /\ server' = "stopped"
    /\ groupErr' = "serveErr"
    /\ groupCancelled' = TRUE
    /\ UNCHANGED <<errG, parentDone, onceBy, onceDone, srvShutdown,
                   broadcaster, recorder, sweeper, runVars, callVars, checks>>

\* Recording cannot be started on a broadcaster that was shut down.
Record ==
    /\ recorder = "spawned"
    /\ recorder' = "done"
    /\ broadcaster' = IF broadcaster = "shutdown" THEN "shutdown" ELSE "recording"
    /\ UNCHANGED <<groupVars, server, srvShutdown, sweeper, runVars, callVars, checks>>

SweepBegin ==
    /\ sweeper = "waiting" /\ CtxDone
    /\ broadcaster' = "shutdown"
    /\ sweeper' = "sweeping"
    /\ UNCHANGED <<groupVars, server, srvShutdown, recorder, runVars, callVars, checks>>

Sweep ==
    /\ sweeper = "sweeping"
    /\ runCancelled' = [r \in Run |-> runCancelled[r] \/ cancelFuncs[r[1]] = r]
    /\ cancelFuncs' = [c \in Controllers |-> None]
    /\ sweeper' = "closing"
    /\ UNCHANGED <<groupVars, server, srvShutdown, broadcaster, recorder,
                   run, callVars, checks>>

\* A plausible slip: nobody shuts the server down.
SweepLeavesServer ==
    /\ sweeper = "closing"
    /\ sweeper' = "done"
    /\ UNCHANGED <<groupVars, server, srvShutdown, broadcaster, recorder,
                   runVars, callVars, checks>>

SweepCloseServer ==
    /\ sweeper = "closing"
    /\ srvShutdown' = TRUE
    /\ sweeper' = "done"
    /\ UNCHANGED <<groupVars, server, broadcaster, recorder, runVars, callVars, checks>>
------------------------------------------------------------------------------
CallStep(p) ==
    \/ OnceEnter(p) \/ StartServices(p) \/ CloseReady(p) \/ WaitReturns(p)
    \/ AddCheck(p) \/ Spawn(p) \/ CtxCheck(p) \/ GoReturns(p)
    \/ CancelLookup(p) \/ CancelDelete(p) \/ CancelRemoveChecks(p)

ServiceStep == Serve \/ Record \/ SweepBegin \/ Sweep \/ SweepCloseServer

Next ==
    \/ CancelParent
    \/ \E p \in Threads : StartCall(p) \/ CallStep(p)
    \/ \E p \in Clients, cs \in ClientArgs : GoCall(p, cs) \/ CancelCall(p, cs)
    \/ \E r \in Run : RunRegister(r) \/ RunReturn(r)
    \/ ServiceStep
    \/ ServeFails

(***************************************************************************)
(* A call that has begun goes on, and the errgroup's goroutines are        *)
(* scheduled; each makes finitely many steps, so fairness to all of them   *)
(* together is fairness to each.  A controller that runs until its context *)
(* is cancelled then returns.  Nobody has to call Start, Go or Cancel, or  *)
(* cancel the context.                                                     *)
(***************************************************************************)
Fairness ==
    /\ \A p \in Threads : WF_vars(CallStep(p))
    /\ WF_vars(\E r \in Run : RunRegister(r) \/ RunReturn(r))
    /\ WF_vars(ServiceStep)

Spec == Init /\ [][Next]_vars /\ Fairness

------------------------------------------------------------------------------
Live(r) == run[r] \in {"spawned", "started"}

(***************************************************************************)
(* When Start has returned, with an error or without, every controller     *)
(* goroutine that is still around, including one that a racing Go launches *)
(* later, has a context that is already cancelled: none runs on unstopped. *)
(***************************************************************************)
StopsControllers ==
    \A p \in Starters :
        pc[p] = "returned" /\ result[p] # "alreadyStarted"
            => \A r \in Run : Live(r) => Cancelled(r)

(***************************************************************************)
(* "It will only have an effect the first time it is called": of several   *)
(* Starts that all found errG nil, only one launches its controllers.      *)
(***************************************************************************)
OneStartTakesEffect ==
    \A p, q \in Starters : \A c, d \in Controllers :
        run[<<c, p, 0>>] # "unused" /\ run[<<d, q, 0>>] # "unused" => p = q

(***************************************************************************)
(* A closed readyc, also that of a Start that lost the race, means that    *)
(* the controllers of the Start that took effect are launched and the      *)
(* goroutine that will stop them is in place, unless it is over already.   *)
(***************************************************************************)
ReadyMeansLaunched ==
    \A p \in Starters : ready[p] =>
        \/ CtxDone
        \/ /\ sweeper # "off"
           /\ \A c \in Range(StartArgs[onceBy]) : run[<<c, onceBy, 0>>] # "unused"

(***************************************************************************)
(* A Start that waited for the errgroup returns the server's failure if    *)
(* there was one, and nil otherwise.                                       *)
(***************************************************************************)
ServerErrorIsReturned ==
    \A p \in Starters :
        pc[p] = "returned" /\ result[p] \in {"nil", "serveErr"} => result[p] = groupErr

Quiet ==
    /\ \A r \in Run : ~Live(r)
    /\ \A p \in Starters : pc[p] \in {"idle", "returned"}

(***************************************************************************)
(* When the context is cancelled, or the health / debug server fails, all  *)
(* controllers, the server and every call of Start return.                 *)
(***************************************************************************)
ShutdownCompletes == errG /\ (CtxDone \/ groupErr = "serveErr") ~> Quiet

(***************************************************************************)
(* "Cancel stops the controllers that are passed in": once a client is     *)
(* done with its calls and the last was a Cancel, the controllers it       *)
(* passed return.                                                          *)
(***************************************************************************)
CancelStopsControllers ==
    \A p \in Clients : \A c \in Controllers :
        pc[p] = "removeChecks" /\ ops[p] = MaxOps /\ c \in Range(args[p])
            ~> \A r \in Run : r[1] = c => ~Live(r)

(***************************************************************************)
(* "no need to wait, the wait from `Start` will wait for the new           *)
(* goroutines": no controller goroutine is left when Start's wait is over. *)
(* TLC refutes it; see the README.                                         *)
(***************************************************************************)
StartWaitsForControllers ==
    \A p \in Starters :
        pc[p] = "returned" /\ result[p] \in {"nil", "serveErr"}
            => \A r \in Run : ~Live(r)

(***************************************************************************)
(* "cancel the manager's context, which will clean up all controllers":    *)
(* once the goroutine that cleans up has run, the registry of cancel       *)
(* functions is empty and stays so.  TLC refutes it; see the README.       *)
(***************************************************************************)
RegistryIsCleared ==
    sweeper = "done" ~> [](\A c \in Controllers : cancelFuncs[c] = None)
==============================================================================
