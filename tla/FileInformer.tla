----------------------------- MODULE FileInformer -----------------------------
(***************************************************************************)
(* fileinformer/file_informer.go: a Factory with one informer, whose Run   *)
(* reads a file, then waits for file system events, a resync timer and the *)
(* stop channel, and calls the registered event handlers.                  *)
(*                                                                         *)
(* A handler reads the file when it is called.  RLock is held while Run    *)
(* calls the handlers, so a step that needs Lock waits for that.  That a   *)
(* waiting Lock delays a later RLock is left out: it removes behaviours    *)
(* only where a panic has left the lock taken.                             *)
(*                                                                         *)
(* The file system and fsnotify (external): a watch belongs to the file    *)
(* that is at the path when it is added; it reports changes of that file,  *)
(* and ends when the file is removed, replaced or renamed.                 *)
(*                                                                         *)
(* StaticFile composes these steps with a controller whose handlers they   *)
(* call, and states the fairness of Run.                                   *)
(***************************************************************************)
EXTENDS Naturals, Sequences, FiniteSets

CONSTANTS Handlers,       \* event handlers, each added by a caller of its own
          Starters,       \* callers of Factory.Start
          Contents,       \* what the file may contain
          NoFile,         \* there is no file
          InitialFiles,   \* what may be there at first
          FileOps,        \* what users do: "write", "replace", "remove", "rename"
          MaxChanges      \* changes of the file

VARIABLES
    named,       \* the informer's file name is not empty
    file,        \* the content of the file
    watched,     \* the watcher has a watch on the file
    events,      \* the watcher's events
    stopCh,      \* the stop channel is closed
    startPc,     \* where each caller of Start is
    launched,    \* Factory.startedInformers
    addPc,       \* where each caller of AddEventHandler is
    leaked,      \* a read lock that is never released
    started, synced, handlers,
    pc,          \* where Run is
    toCall,      \* handlers that Run has still to call, under RLock
    readd,       \* the watch is to be added again after the calls
    stale,       \* handlers that have not read the file as it is
    initial,     \* handlers called with isInInitialList
    early,       \* history: the handlers there were when started was set
    ops,         \* history: what has happened to the file; "absent": it was
                 \* not there at first
    changes

fileVars == <<file, watched, events, stale, ops, changes>>
callerVars == <<named, stopCh, startPc, launched, addPc>>
lockVars == <<leaked, started, synced, handlers>>
runVars == <<pc, toCall, readd, initial, early>>
vars == <<fileVars, callerVars, lockVars, runVars>>

PC == {"none", "begin", "read", "initial", "sync", "select", "calling", "stopping", "done"}

TypeOK ==
    /\ named \in BOOLEAN
    /\ file \in Contents \cup {NoFile}
    /\ watched \in BOOLEAN
    /\ watched => named /\ file # NoFile
    /\ events \in Seq({"write", "chmod", "remove", "rename"})
    /\ stopCh \in BOOLEAN /\ launched \in BOOLEAN
    /\ startPc \in [Starters -> {"call", "returned"}]
    /\ addPc \in [Handlers -> {"call", "append", "returned", "panicked"}]
    /\ leaked \in BOOLEAN /\ started \in BOOLEAN /\ synced \in BOOLEAN
    /\ handlers \subseteq Handlers
    /\ pc \in PC
    /\ started <=> pc \notin {"none", "begin"}
    /\ toCall \subseteq handlers
    /\ readd \in BOOLEAN
    /\ stale \subseteq Handlers
    /\ initial \subseteq Handlers
    /\ early \subseteq Handlers
    /\ ops \subseteq FileOps \cup {"absent"}
    /\ changes \in 0..MaxChanges

Init ==
    /\ named \in BOOLEAN
    /\ file \in InitialFiles
    /\ watched = FALSE
    /\ events = <<>>
    /\ stopCh = FALSE /\ launched = FALSE
    /\ startPc = [s \in Starters |-> "call"]
    /\ addPc = [h \in Handlers |-> "call"]
    /\ leaked = FALSE /\ started = FALSE /\ synced = FALSE
    /\ handlers = {}
    /\ pc = "none"
    /\ toCall = {}
    /\ readd = FALSE
    /\ stale = Handlers
    /\ initial = {}
    /\ early = {}
    /\ ops = IF file = NoFile THEN {"absent"} ELSE {}
    /\ changes = 0

(***************************************************************************)
(* The file system and the watcher.                                        *)
(***************************************************************************)
Report(new) == events' = IF watched THEN events \o new ELSE events

\* op "write" changes the file in place or creates it, "replace" puts another
\* file in its place, "remove" and "rename" take it away.  A file that loses
\* its last link is reported as changed in its attributes first.
ChangeFile(op, c) ==
    /\ changes < MaxChanges
    /\ changes' = changes + 1
    /\ op \in FileOps
    /\ ops' = ops \cup {op}
    /\ c # file
    /\ file' = c
    /\ stale' = Handlers
    /\ \/ /\ op = "write" /\ c # NoFile
          /\ Report(<<"write">>)
          /\ UNCHANGED watched
       \/ /\ op = "replace" /\ c # NoFile /\ file # NoFile
          /\ Report(<<"chmod", "remove">>)
          /\ watched' = FALSE
       \/ /\ op \in {"remove", "rename"} /\ c = NoFile
          /\ Report(IF op = "remove" THEN <<"chmod", "remove">> ELSE <<"rename">>)
          /\ watched' = FALSE
    /\ UNCHANGED <<callerVars, lockVars, runVars>>

AddWatch == watched' = (file # NoFile)

(***************************************************************************)
(* The locks: RLock is held during the calls of the handlers, and for good *)
(* by a caller that panicked.                                              *)
(***************************************************************************)
RLocked == leaked \/ pc \in {"initial", "calling"}
CanLock == ~RLocked

(***************************************************************************)
(* The factory's and the informer's callers.                               *)
(***************************************************************************)
\* Factory.Start
Start(s) ==
    /\ startPc[s] = "call"
    /\ startPc' = [startPc EXCEPT ![s] = "returned"]
    /\ launched' = TRUE
    /\ pc' = IF launched THEN pc ELSE "begin"
    /\ UNCHANGED <<fileVars, named, lockVars, stopCh, addPc, toCall, readd,
                   initial, early>>

CloseStopCh ==
    /\ ~stopCh
    /\ stopCh' = TRUE
    /\ UNCHANGED <<fileVars, named, startPc, launched, addPc, lockVars, runVars>>

\* AddEventHandlerWithOptions: the check, with RLock, and the append, with
\* Lock.  The panic leaves the read lock taken.
AddCheck(h) ==
    /\ addPc[h] = "call"
    /\ addPc' = [addPc EXCEPT ![h] = IF started THEN "panicked" ELSE "append"]
    /\ leaked' = (leaked \/ started)
    /\ UNCHANGED <<fileVars, named, stopCh, startPc, launched, started, synced,
                   handlers, runVars>>

AddAppend(h) ==
    /\ addPc[h] = "append"
    /\ CanLock
    /\ handlers' = handlers \cup {h}
    /\ addPc' = [addPc EXCEPT ![h] = "returned"]
    /\ UNCHANGED <<fileVars, named, stopCh, startPc, launched, leaked, started,
                   synced, runVars>>

(***************************************************************************)
(* FileSharedIndexInformer.Run.                                            *)
(***************************************************************************)
\* A plausible slip: the watch is added after the initial read.
RunBeginsUnwatched ==
    /\ pc = "begin"
    /\ CanLock
    /\ started' = TRUE
    /\ early' = handlers
    /\ pc' = IF named THEN "read" ELSE "done"
    /\ readd' = TRUE
    /\ UNCHANGED <<fileVars, callerVars, leaked, synced, handlers, toCall, initial>>

\* The watch is added, started is set; with an empty file name that is all.
RunBegins ==
    /\ pc = "begin"
    /\ CanLock
    /\ IF named THEN AddWatch ELSE UNCHANGED watched
    /\ started' = TRUE
    /\ early' = handlers
    /\ pc' = IF named THEN "read" ELSE "done"
    /\ UNCHANGED <<file, events, stale, ops, changes, callerVars, leaked, synced, handlers,
                   toCall, readd, initial>>

\* A plausible slip: the initial read is skipped.
InitialReadNone ==
    /\ pc = "read"
    /\ pc' = "initial"
    /\ UNCHANGED <<fileVars, callerVars, lockVars, toCall, readd, initial, early>>

InitialRead ==
    /\ pc = "read"
    /\ pc' = "initial"
    /\ toCall' = handlers
    /\ UNCHANGED <<fileVars, callerVars, lockVars, readd, initial, early>>

\* Run calls a handler: OnAdd in the initial read, later OnAdd, OnUpdate or
\* OnDelete.
CallHandler(h) ==
    /\ pc \in {"initial", "calling"}
    /\ h \in toCall
    /\ toCall' = toCall \ {h}
    /\ stale' = stale \ {h}
    /\ initial' = IF pc = "initial" THEN initial \cup {h} ELSE initial
    /\ UNCHANGED <<file, watched, events, ops, changes, callerVars, lockVars, pc, readd, early>>

\* All are called; after a removal the watch is added again, if it can be.
CallsReturn ==
    /\ pc \in {"initial", "calling"}
    /\ toCall = {}
    /\ pc' = IF pc = "initial" THEN "sync" ELSE "select"
    /\ IF readd THEN AddWatch ELSE UNCHANGED watched
    /\ readd' = FALSE
    /\ UNCHANGED <<file, events, ops, changes, callerVars, lockVars, toCall, stale, initial, early>>

SetSynced ==
    /\ pc = "sync"
    /\ CanLock
    /\ synced' = TRUE
    /\ pc' = "select"
    /\ UNCHANGED <<fileVars, callerVars, leaked, started, handlers, toCall, readd,
                   initial, early>>

BeginCalls ==
    /\ pc' = "calling"
    /\ toCall' = handlers

\* A plausible slip: there is no resync.
NoResync == FALSE /\ UNCHANGED vars

Resync ==
    /\ pc = "select"
    /\ BeginCalls
    /\ UNCHANGED <<fileVars, callerVars, lockVars, readd, initial, early>>

ReceiveEvent ==
    /\ pc = "select"
    /\ events # <<>>
    /\ events' = Tail(events)
    /\ BeginCalls
    /\ readd' = (Head(events) = "remove")
    /\ UNCHANGED <<file, watched, ops, changes, callerVars, lockVars, stale, initial, early>>

\* A plausible slip: the goroutine returns without its deferred function.
ReceiveStopOnly ==
    /\ pc = "select"
    /\ stopCh
    /\ pc' = "done"
    /\ UNCHANGED <<fileVars, callerVars, lockVars, toCall, readd, initial, early>>

ReceiveStop ==
    /\ pc = "select"
    /\ stopCh
    /\ pc' = "stopping"
    /\ UNCHANGED <<fileVars, callerVars, lockVars, toCall, readd, initial, early>>

\* The deferred function removes the watch and closes the watcher.
CloseWatcher ==
    /\ pc = "stopping"
    /\ CanLock
    /\ watched' = FALSE
    /\ events' = <<>>
    /\ pc' = "done"
    /\ UNCHANGED <<file, stale, ops, changes, callerVars, lockVars, toCall, readd, initial, early>>

\* A new process, with a new factory, finds the file as it is.
Restart ==
    /\ watched' = FALSE
    /\ events' = <<>>
    /\ stopCh' = FALSE /\ launched' = FALSE
    /\ startPc' = [s \in Starters |-> "call"]
    /\ addPc' = [h \in Handlers |-> "call"]
    /\ leaked' = FALSE /\ started' = FALSE /\ synced' = FALSE
    /\ handlers' = {}
    /\ pc' = "none"
    /\ toCall' = {}
    /\ readd' = FALSE
    /\ stale' = Handlers
    /\ initial' = {} /\ early' = {}
    /\ ops' = IF file = NoFile THEN {"absent"} ELSE {}
    /\ UNCHANGED <<named, file, changes>>

\* FileSharedIndexInformer.HasSynced
HasSynced == started /\ synced

------------------------------------------------------------------------------
(***************************************************************************)
(* HasSynced reports true only when every handler that was there when Run  *)
(* set started has been called for its initial read.                       *)
(***************************************************************************)
SyncedAfterInitialRead == HasSynced => early \subseteq initial

(***************************************************************************)
(* What an informer that waits with no event pending owes to its watch.  A *)
(* file that was there and has only been written or replaced is watched: a *)
(* watch that ends with a replacement is added again, on whatever file is  *)
(* there then.  And of a watched file that has only been written in place  *)
(* every handler of the initial read has seen the latest content: the      *)
(* watch is there before the first read, so nothing falls between the two. *)
(* Not so for a replaced file: what happens to it before the watch is      *)
(* added again waits for the resync.                                       *)
(***************************************************************************)
NoMissedChange ==
    pc = "select" /\ events = <<>> =>
        /\ ops \subseteq {"write", "replace"} => watched
        /\ ops \subseteq {"absent", "write"} /\ watched => initial \cap stale = {}

(***************************************************************************)
(* When the stop channel is closed the watcher is closed, whatever events  *)
(* keep arriving, unless a panicking caller has left the lock taken.       *)
(***************************************************************************)
StopIsFollowed ==
    stopCh /\ launched ~> leaked \/ ~launched \/ (pc = "done" /\ ~watched)

\* file_informer.go:176: no handler is added after the informer has started,
\* so that every handler gets the initial read.
\* TLC refutes it; see the README.
NoLateHandlers == HasSynced => handlers \subseteq initial
==============================================================================
