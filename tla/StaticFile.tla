------------------------------ MODULE StaticFile ------------------------------
(***************************************************************************)
(* static/controller.go with its own fileinformer.Factory: the path of a   *)
(* change from the file to the cluster.                                    *)
(*                                                                         *)
(* Each call of Controller.Start adds a handler to the informer and starts *)
(* the factory; all handlers are handleStaticResource of the one           *)
(* controller (StaticController), which the goroutine of Run               *)
(* (FileInformer) calls under the informer's read lock: Run goes on when   *)
(* the handler has returned.  The stop channel is the Done channel of the  *)
(* context that the patches use.                                           *)
(***************************************************************************)
EXTENDS StaticController

CONSTANTS Calls,          \* calls of Controller.Start
          InitialFiles,   \* what may be there at first
          FileOps,        \* what users do: "write", "replace", "remove", "rename"
          MaxChanges,     \* changes of the file
          MaxTrouble      \* changes, faults and restarts together

ASSUME StaticFileAssumption ==
    /\ InitialFiles \subseteq Files \cup {NoFile}
    /\ FileOps \subseteq {"write", "replace", "remove", "rename"}
    /\ MaxChanges \in Nat /\ MaxTrouble \in Nat

VARIABLES named, watched, events, stopCh, startPc, launched, addPc, leaked, started,
          synced, handlers, runPc, toCall, readd, stale, initial, early, ops, changes

F == INSTANCE FileInformer WITH
        Handlers <- Calls, Starters <- Calls, Contents <- Files,
        pc <- runPc

\* The variables of the controller, and those of the informer, without the
\* file that both read.
controllerVars == <<used, lastStaticHash, hash, docs, pc, cluster, faults, restarts>>
informerVars ==
    <<named, watched, events, stopCh, startPc, launched, addPc, leaked, started, synced,
      handlers, runPc, toCall, readd, stale, initial, early, ops, changes>>
allVars == <<file, controllerVars, informerVars>>

FileInit == Init /\ F!Init

------------------------------------------------------------------------------
\* A step of the informer's or its callers' alone; Run takes one only when no
\* handler is at work.
Alone(step) == step /\ UNCHANGED controllerVars
RunAlone(step) == pc = "idle" /\ Alone(step)

\* A step of the controller's alone.
Inside(step) == step /\ UNCHANGED informerVars

Trouble == changes + faults + restarts < MaxTrouble

ChangeTheFile ==
    /\ Trouble
    /\ \E op \in FileOps, c \in Files \cup {NoFile} : ChangeFile(c) /\ F!ChangeFile(op, c)

\* Controller.Start: AddEventHandler, then Factory.Start.
StartController(s) ==
    \/ Alone(F!AddCheck(s))
    \/ Alone(F!AddAppend(s))
    \/ addPc[s] = "returned" /\ Alone(F!Start(s))

Cancel == Alone(F!CloseStopCh)

\* Run calls the handler of one of the calls of Start.
CallHandler == \E s \in Calls : F!CallHandler(s) /\ (Handle \/ (Trouble /\ ReadFails))

HandlerStep ==
    \/ Inside(Patch) \/ Inside(Store)
    \/ Inside(Undecodable)
    \/ Trouble /\ Inside(PatchFails)
    \/ stopCh /\ Inside(PatchAborts)

Run ==
    \/ RunAlone(F!RunBegins) \/ RunAlone(F!InitialRead) \/ RunAlone(F!CallsReturn)
    \/ RunAlone(F!SetSynced) \/ RunAlone(F!CloseWatcher)
    \/ RunAlone(F!Resync) \/ RunAlone(F!ReceiveEvent)
    \/ CallHandler \/ HandlerStep

ReceiveStop == RunAlone(F!ReceiveStop)

RestartAll == Trouble /\ Restart /\ F!Restart

FileNext ==
    \/ ChangeTheFile
    \/ \E s \in Calls : StartController(s)
    \/ Cancel
    \/ Run \/ ReceiveStop
    \/ RestartAll

(***************************************************************************)
(* The goroutine of Run is scheduled, and its timer fires again and again. *)
(* A select that finds several channels ready picks any of them at random: *)
(* the stop channel is not passed over forever.  Nothing makes a program   *)
(* call Start or cancel the context.                                       *)
(***************************************************************************)
FileSpec == FileInit /\ [][FileNext]_allVars /\ WF_allVars(Run) /\ SF_allVars(ReceiveStop)

------------------------------------------------------------------------------
(***************************************************************************)
(* fileinformer/file_informer.go, HasSynced: it reports true only when     *)
(* every handler that was there when Run set started has been called for   *)
(* its initial read.                                                       *)
(***************************************************************************)
SyncedAfterInitialRead == F!SyncedAfterInitialRead

(***************************************************************************)
(* fileinformer/file_informer.go, Run: a waiting informer with no event    *)
(* pending has a watch on a file that was only written or replaced, and    *)
(* has missed no write in place.                                           *)
(***************************************************************************)
NoMissedChange == F!NoMissedChange

(***************************************************************************)
(* When the context of Start is cancelled Run ends and the watcher is      *)
(* closed, whatever events keep arriving and however far the application   *)
(* of a file has come, unless a panicking caller has left the lock taken.  *)
(***************************************************************************)
StopIsFollowed == F!StopIsFollowed

(***************************************************************************)
(* static/controller.go: a started controller applies a file that stays in *)
(* place, and whose documents can all be decoded, in the end; also when    *)
(* the watch was lost with a removed or renamed file, when the file        *)
(* changed while another one was being applied, or when the server failed: *)
(* what an event does not bring about, the resync does.                    *)
(***************************************************************************)
FileIsApplied ==
    <>[](launched /\ named /\ Decodes(file) => leaked \/ stopCh \/ IsApplied(file))

\* fileinformer/file_informer.go:176: no handler is added after the informer has
\* started.
\* TLC refutes it; see the README.
NoLateHandlers == F!NoLateHandlers
==============================================================================
