-------------------------- MODULE StaticFileProofs ---------------------------
(***************************************************************************)
(* Proofs about StaticFile, for any files, documents, calls of Start and   *)
(* bounds.                                                                 *)
(***************************************************************************)
EXTENDS StaticFile, TLAPS

(***************************************************************************)
(* The controller.  Files that the stored hash stands for have been in     *)
(* place and can be decoded (Stored).  While a file is being applied, what *)
(* is left to apply is the rest of a file that has been in place, and the  *)
(* cluster is as the documents before it say (Applying); the file that is  *)
(* in place now is not the one whose hash is stored (Unapplied).           *)
(***************************************************************************)
Stored == \A c \in Files : lastStaticHash = Sum64[c] => c \in used /\ Decodes(c)

\* docs is what follows the first n documents of d.
Rest(d, n) ==
    /\ Len(docs) = Len(Docs[d]) - n
    /\ \A k \in 1..Len(docs) : docs[k] = Docs[d][n + k]

\* The first n documents of d, all of which can be decoded, are applied.
Done(d, n) ==
    /\ \A i \in 1..n : Docs[d][i] # Bad
    /\ \A i \in 1..n :
         (\A j \in 1..n : j > i => Docs[d][j].obj # Docs[d][i].obj) =>
             cluster[Docs[d][i].obj] = Docs[d][i].spec

Applying ==
    pc = "apply" =>
        \E d \in Files : \E n \in 0..Len(Docs[d]) :
            d \in used /\ hash = Sum64[d] /\ Rest(d, n) /\ Done(d, n)

Unapplied == pc = "apply" /\ file # NoFile => lastStaticHash # Sum64[file]

CInv == TypeOK /\ Stored /\ Applying /\ Unapplied /\ SkipIsSafe

\* The controller begins with nothing stored and nothing to apply.
LEMMA ControllerInit == Init => CInv
<1> SUFFICES ASSUME Init PROVE CInv
  OBVIOUS
<1>1. TypeOK
  BY StaticAssumption DEF Init, TypeOK
<1>2. \A c \in Files : Sum64[c] # 0
  BY StaticAssumption, Zenon
<1> QED
  BY <1>1, <1>2, StaticAssumption, Zenon DEF Init, CInv, Stored, Applying, Unapplied, SkipIsSafe, TypeOK

\* What a content consists of.
LEMMA DocsType ==
    ASSUME NEW d \in Files
    PROVE  /\ Docs[d] \in Seq(Doc \cup {Bad}) /\ DOMAIN Docs[d] = 1..Len(Docs[d])
           /\ Len(Docs[d]) \in Nat
           /\ \A i \in 1..Len(Docs[d]) : Docs[d][i] # Bad => Docs[d][i] \in Doc
           /\ Sum64[d] \in Nat \ {0} /\ Sum64[d] \in Range(Sum64)
           /\ d # NoFile
<1>1. Docs[d] \in Seq(Doc \cup {Bad}) /\ Sum64 \in [Files -> Nat \ {0}]
  BY StaticAssumption, Zenon
<1>2. Sum64[d] \in Range(Sum64)
  BY <1>1, Zenon DEF Range
<1> QED
  BY <1>1, <1>2, StaticAssumption

\* A complete application: the file's documents can be decoded and applied.
LEMMA DoneIsApplied ==
    ASSUME NEW d \in Files, Done(d, Len(Docs[d]))
    PROVE  Decodes(d) /\ IsApplied(d)
  BY DocsType, Zenon DEF Done, Decodes, IsApplied, Range

\* A step that touches neither the file nor the stored hash nor the cluster,
\* or ends the application of a file in error.
LEMMA QuietStep ==
    ASSUME CInv, TypeOK', UNCHANGED <<file, used, lastStaticHash>>,
           \/ UNCHANGED <<pc, hash, docs, cluster>>
           \/ pc = "apply" /\ Return
    PROVE  CInv'
<1>1. Stored'
  BY Zenon DEF CInv, Stored, Decodes
<1>2. CASE UNCHANGED <<pc, hash, docs, cluster>>
  BY <1>1, <1>2, ZenonT(30) DEF CInv, Applying, Unapplied, SkipIsSafe, Rest, Done, Decodes, IsApplied
<1>3. CASE pc = "apply" /\ Return
  BY <1>1, <1>3, Zenon DEF CInv, Applying, Unapplied, SkipIsSafe, Return
<1> QED
  BY <1>2, <1>3, Zenon

\* A new file is one that the stored hash does not stand for.
LEMMA ChangeFilePreserves ==
    ASSUME CInv, ~Reverts, NEW c \in Files \cup {NoFile}, ChangeFile(c) PROVE CInv'
<1>1. /\ file' = c /\ c \notin used /\ used' = used \cup {c}
      /\ UNCHANGED <<lastStaticHash, hash, docs, pc, cluster, faults, restarts>>
  BY Zenon DEF ChangeFile
<1>2. TypeOK'
  BY <1>1, Zenon DEF CInv, TypeOK
<1>3. c # NoFile => lastStaticHash # Sum64[c]
  BY <1>1, Zenon DEF CInv, Stored
<1>4. Stored'
  BY <1>1, Zenon DEF CInv, Stored, Decodes
<1>5. Applying'
  BY <1>1, ZenonT(60) DEF CInv, Applying, Rest, Done
<1> QED
  BY <1>1, <1>2, <1>3, <1>4, <1>5, Zenon DEF CInv, Unapplied, SkipIsSafe

\* An application begins with all documents to apply.
LEMMA HandlePreserves == ASSUME CInv, Handle PROVE CInv'
<1>1. pc = "idle" /\ TypeOK /\ UNCHANGED <<file, used, cluster, faults, restarts>>
  BY Zenon DEF CInv, Handle
<1>2. CASE file = NoFile
  <2>1. lastStaticHash' = 0 /\ UNCHANGED <<hash, docs, pc>>
    BY <1>2, Zenon DEF Handle
  <2>2. TypeOK'
    BY <1>1, <2>1, Zenon DEF TypeOK
  <2>3. \A c \in Files : Sum64[c] # 0
    BY StaticAssumption, Zenon
  <2> QED
    BY <1>1, <1>2, <2>1, <2>2, <2>3, Zenon DEF CInv, Stored, Applying, Unapplied, SkipIsSafe
<1>3. CASE file # NoFile /\ lastStaticHash = Sum64[file]
  <2>1. UNCHANGED <<lastStaticHash, hash, docs, pc>>
    BY <1>3, Zenon DEF Handle
  <2>2. TypeOK'
    BY <1>1, <2>1, Zenon DEF TypeOK
  <2> QED
    BY <1>1, <2>1, <2>2, QuietStep, Zenon
<1>4. CASE file # NoFile /\ lastStaticHash # Sum64[file]
  <2>1. hash' = Sum64[file] /\ docs' = Docs[file] /\ pc' = "apply" /\ UNCHANGED lastStaticHash
    BY <1>4, Zenon DEF Handle
  <2>2. file \in Files /\ file \in used
    BY <1>1, <1>4, Zenon DEF TypeOK
  <2>3. TypeOK'
    BY <1>1, <1>4, <2>1, <2>2, DocsType, Zenon DEF TypeOK
  <2>4. Stored'
    BY <1>1, <2>1, Zenon DEF CInv, Stored, Decodes
  <2>5. Rest(file, 0)' /\ Done(file, 0)'
    BY <1>1, <2>1, <2>2, DocsType DEF Rest, Done
  <2>6. Applying'
    <3>1. 0 \in 0..Len(Docs[file])
      BY <2>2, DocsType
    <3> QED
      BY <1>1, <2>1, <2>2, <2>5, <3>1, Zenon DEF Applying, Rest, Done
  <2> QED
    BY <1>1, <1>4, <2>1, <2>3, <2>4, <2>6, Zenon DEF CInv, Unapplied, SkipIsSafe
<1> QED
  BY <1>2, <1>3, <1>4, Zenon

\* What the next document, if there is one, and the rest are.
LEMMA TailType ==
    ASSUME TypeOK, docs # <<>>
    PROVE  /\ Len(docs) \in Nat \ {0}
           /\ Head(docs) = docs[1] /\ (Head(docs) # Bad => Head(docs) \in Doc)
           /\ Tail(docs) \in Seq(Doc \cup {Bad}) /\ Len(Tail(docs)) = Len(docs) - 1
           /\ \A k \in 1..(Len(docs) - 1) : Tail(docs)[k] = docs[k + 1]
<1>1. docs \in Seq(Doc \cup {Bad})
  BY Zenon DEF TypeOK
<1> QED
  BY <1>1

\* One more document is applied.
LEMMA PatchPreserves == ASSUME CInv, Patch PROVE CInv'
<1>1. /\ pc = "apply" /\ docs # <<>> /\ Head(docs) # Bad /\ TypeOK
      /\ cluster' = [cluster EXCEPT ![Head(docs).obj] = Head(docs).spec]
      /\ docs' = Tail(docs)
      /\ UNCHANGED <<file, used, lastStaticHash, hash, pc, faults, restarts>>
  BY Zenon DEF CInv, Patch
<1>2. /\ Len(docs) \in Nat \ {0} /\ Head(docs) = docs[1] /\ Head(docs) \in Doc
      /\ docs' \in Seq(Doc \cup {Bad}) /\ Len(docs') = Len(docs) - 1
      /\ \A k \in 1..(Len(docs) - 1) : docs'[k] = docs[k + 1]
  BY <1>1, TailType, Zenon
<1>3. Head(docs).obj \in Objects /\ Head(docs).spec \in Specs
  BY <1>2, Zenon DEF Doc
<1>4. /\ cluster' \in [Objects -> Specs \cup {NoObject}]
      /\ \A o \in Objects : cluster'[o] = IF o = Head(docs).obj THEN Head(docs).spec ELSE cluster[o]
  BY <1>1, <1>3, Zenon DEF TypeOK
<1>5. TypeOK'
  BY <1>1, <1>2, <1>4, Zenon DEF TypeOK
<1>6. Applying'
  <2>1. PICK d \in Files : \E n \in 0..Len(Docs[d]) :
          d \in used /\ hash = Sum64[d] /\ Rest(d, n) /\ Done(d, n)
    BY <1>1, Zenon DEF CInv, Applying
  <2>n. PICK n \in 0..Len(Docs[d]) : Rest(d, n) /\ Done(d, n)
    BY <2>1, Zenon
  <2>2. Len(Docs[d]) \in Nat /\ n \in Nat
    BY DocsType
  <2>3. n + 1 \in 0..Len(Docs[d]) /\ Docs[d][n + 1] = Head(docs)
    BY <1>2, <2>n, <2>2, SMTT(60) DEF Rest
  <2>4. Len(docs') = Len(Docs[d]) - (n + 1)
    BY <1>2, <2>n, <2>2 DEF Rest
  <2>5. ASSUME NEW k \in 1..Len(docs') PROVE docs'[k] = Docs[d][(n + 1) + k]
    <3>1. k \in 1..(Len(docs) - 1) /\ k + 1 \in 1..Len(docs) /\ n + (k + 1) = (n + 1) + k
      BY <1>2, <2>2
    <3>2. docs'[k] = docs[k + 1] /\ docs[k + 1] = Docs[d][n + (k + 1)]
      BY <1>2, <2>n, <3>1, Zenon DEF Rest
    <3> QED
      BY <3>1, <3>2, Zenon
  <2>6. \A i \in 1..(n + 1) : i \in 1..n \/ i = n + 1
    BY <2>2
  <2>7. \A i \in 1..(n + 1) : Docs[d][i] # Bad
    BY <1>1, <2>n, <2>3, <2>6, Zenon DEF Done
  <2>8. ASSUME NEW i \in 1..(n + 1),
               \A j \in 1..(n + 1) : j > i => Docs[d][j].obj # Docs[d][i].obj
        PROVE  cluster'[Docs[d][i].obj] = Docs[d][i].spec
    <3>1. CASE i = n + 1
      BY <1>3, <1>4, <2>3, <3>1, Zenon
    <3>2. CASE i \in 1..n
      <4>1. Docs[d][i].obj # Head(docs).obj
        BY <2>2, <2>3, <2>8, <3>2
      <4>2. cluster[Docs[d][i].obj] = Docs[d][i].spec
        BY <2>n, <2>2, <2>8, <3>2 DEF Done
      <4>3. Docs[d][i] \in Doc
        BY <2>2, <2>3, <2>7, <3>2, DocsType
      <4> QED
        BY <1>4, <4>1, <4>2, <4>3, Zenon DEF Doc
    <3> QED
      BY <2>6, <3>1, <3>2, Zenon
  <2> QED
    BY <1>1, <2>1, <2>3, <2>4, <2>5, <2>7, <2>8, Zenon DEF Applying, Rest, Done
<1> QED
  BY <1>1, <1>5, <1>6, Zenon DEF CInv, Stored, Unapplied, SkipIsSafe, Decodes

\* An application that ends in error stores nothing.
LEMMA ErrorsPreserve ==
    ASSUME CInv, ReadFails \/ Undecodable \/ PatchFails \/ PatchAborts PROVE CInv'
<1>1. /\ TypeOK /\ UNCHANGED <<file, used, lastStaticHash, restarts>>
      /\ faults' \in 0..MaxFaults
      /\ \/ UNCHANGED <<pc, hash, docs, cluster>>
         \/ pc = "apply" /\ Return
  <2>1. TypeOK /\ UNCHANGED <<file, used, lastStaticHash, restarts>>
    BY Zenon DEF CInv, ReadFails, Undecodable, PatchFails, PatchAborts
  <2>2. \/ UNCHANGED <<pc, hash, docs, cluster>>
        \/ pc = "apply" /\ Return
    BY Zenon DEF ReadFails, Undecodable, PatchFails, PatchAborts
  <2>3. UNCHANGED faults \/ Fault
    BY Zenon DEF ReadFails, Undecodable, PatchFails, PatchAborts
  <2>4. faults' \in 0..MaxFaults
    BY <2>1, <2>3, StaticAssumption DEF TypeOK, Fault
  <2> QED
    BY <2>1, <2>2, <2>4, Zenon
<1>2. cluster' \in [Objects -> Specs \cup {NoObject}]
  <2>1. CASE UNCHANGED cluster
    BY <1>1, <2>1, Zenon DEF TypeOK
  <2>2. CASE /\ docs # <<>> /\ Head(docs) # Bad
             /\ cluster' = [cluster EXCEPT ![Head(docs).obj] = Head(docs).spec]
    <3>1. Head(docs) \in Doc
      BY <1>1, <2>2, TailType, Zenon
    <3> QED
      BY <1>1, <2>2, <3>1, Zenon DEF TypeOK, Doc
  <2> QED
    BY <2>1, <2>2, Zenon DEF ReadFails, Undecodable, PatchFails, PatchAborts
<1>3. TypeOK'
  <2>1. CASE UNCHANGED <<pc, hash, docs, cluster>>
    BY <1>1, <1>2, <2>1, Zenon DEF TypeOK
  <2>2. CASE pc' = "idle" /\ hash' = 0 /\ docs' = <<>>
    BY <1>1, <1>2, <2>2 DEF TypeOK
  <2> QED
    BY <1>1, <2>1, <2>2, Zenon DEF Return
<1> QED
  BY <1>1, <1>3, QuietStep, Zenon

\* What is stored is the hash of a file that is applied completely.
LEMMA StorePreserves == ASSUME CInv, Store PROVE CInv'
<1>1. /\ pc = "apply" /\ docs = <<>> /\ TypeOK /\ lastStaticHash' = hash
      /\ pc' = "idle" /\ hash' = 0 /\ docs' = <<>>
      /\ UNCHANGED <<file, used, cluster, faults, restarts>>
  BY Zenon DEF CInv, Store, Return
<1>2. TypeOK'
  BY <1>1, Zenon DEF TypeOK
<1>3. PICK d \in Files : \E n \in 0..Len(Docs[d]) :
        d \in used /\ hash = Sum64[d] /\ Rest(d, n) /\ Done(d, n)
  BY <1>1, Zenon DEF CInv, Applying
<1>n. PICK n \in 0..Len(Docs[d]) : Rest(d, n) /\ Done(d, n)
  BY <1>3, Zenon
<1>4. n = Len(Docs[d])
  BY <1>1, <1>n, DocsType DEF Rest
<1>5. Decodes(d) /\ IsApplied(d)
  BY <1>n, <1>4, DoneIsApplied, Zenon
<1>6. \A c \in Files : lastStaticHash' = Sum64[c] => c = d
  BY <1>1, <1>3, StaticAssumption, Zenon
<1>7. Stored'
  BY <1>1, <1>3, <1>5, <1>6, Zenon DEF Stored, Decodes
<1>8. SkipIsSafe'
  BY <1>1, <1>5, <1>6 DEF SkipIsSafe, Decodes, IsApplied, TypeOK
<1> QED
  BY <1>1, <1>2, <1>7, <1>8, Zenon DEF CInv, Applying, Unapplied

\* A new process has nothing stored.
LEMMA RestartPreserves == ASSUME CInv, Restart PROVE CInv'
<1>1. /\ TypeOK /\ lastStaticHash' = 0 /\ pc' = "idle" /\ hash' = 0 /\ docs' = <<>>
      /\ restarts' \in 0..MaxRestarts
      /\ UNCHANGED <<file, used, cluster, faults>>
  BY StaticAssumption DEF CInv, TypeOK, Restart, Return
<1>2. TypeOK'
  BY <1>1 DEF TypeOK
<1>3. \A c \in Files : Sum64[c] # 0
  BY StaticAssumption, Zenon
<1> QED
  BY <1>1, <1>2, <1>3, Zenon DEF CInv, Stored, Applying, Unapplied, SkipIsSafe, TypeOK

\* Every step of the controller preserves the invariant.
LEMMA ControllerNext == ASSUME ~Reverts PROVE CInv /\ [Next]_vars => CInv'
<1> SUFFICES ASSUME CInv, [Next]_vars PROVE CInv'
  OBVIOUS
<1>1. CASE UNCHANGED vars
  <2>1. UNCHANGED <<file, used, lastStaticHash, pc, hash, docs, cluster, faults, restarts>>
    BY <1>1, Zenon DEF vars
  <2>2. TypeOK'
    BY <2>1, Zenon DEF CInv, TypeOK
  <2> QED
    BY <2>1, <2>2, QuietStep, Zenon
<1> QED
  BY <1>1, ChangeFilePreserves, HandlePreserves, PatchPreserves, ErrorsPreserve,
     StorePreserves, RestartPreserves, Zenon DEF Next

------------------------------------------------------------------------------
(***************************************************************************)
(* The controller in the composition: every step of StaticFile is one of   *)
(* the controller's or leaves its variables alone.                         *)
(***************************************************************************)
\* Steps of the informer and its callers do not touch the file.
LEMMA CallerKeepsFile ==
    ASSUME NEW s \in Calls, F!AddCheck(s) \/ F!AddAppend(s) \/ F!Start(s) \/ F!CallHandler(s)
    PROVE  UNCHANGED file
  BY Zenon DEF F!AddCheck, F!AddAppend, F!Start, F!CallHandler, F!fileVars

\* Nor do those of Run and its stop channel.
LEMMA RunKeepsFile ==
    ASSUME \/ F!CloseStopCh \/ F!RunBegins \/ F!InitialRead \/ F!CallsReturn \/ F!SetSynced
           \/ F!CloseWatcher \/ F!Resync \/ F!ReceiveEvent \/ F!ReceiveStop
    PROVE  UNCHANGED file
  BY Zenon DEF F!CloseStopCh, F!RunBegins, F!InitialRead, F!CallsReturn, F!SetSynced, F!CloseWatcher,
         F!Resync, F!ReceiveEvent, F!ReceiveStop, F!fileVars

\* Every step of the composition is a step of the controller, or none.
LEMMA ControllerStep == [FileNext]_allVars => [Next]_vars
<1> SUFFICES ASSUME [FileNext]_allVars PROVE [Next]_vars
  OBVIOUS
<1>u. UNCHANGED file /\ UNCHANGED controllerVars => UNCHANGED vars
  BY Zenon DEF controllerVars, vars
<1>1. CASE UNCHANGED allVars
  BY <1>1, <1>u, Zenon DEF allVars
<1>2. CASE ChangeTheFile
  BY <1>2, Zenon DEF ChangeTheFile, Next
<1>3. ASSUME NEW s \in Calls, StartController(s) PROVE UNCHANGED vars
  BY <1>3, <1>u, CallerKeepsFile, Zenon DEF StartController, Alone
<1>4. CASE Cancel \/ ReceiveStop
  BY <1>4, <1>u, RunKeepsFile, Zenon DEF Cancel, ReceiveStop, RunAlone, Alone
<1>5. CASE Run
  <2>1. CASE CallHandler
    BY <2>1, Zenon DEF CallHandler, Next
  <2>2. CASE HandlerStep
    BY <2>2, Zenon DEF HandlerStep, Inside, Next
  <2>3. CASE \/ RunAlone(F!RunBegins) \/ RunAlone(F!InitialRead) \/ RunAlone(F!CallsReturn)
             \/ RunAlone(F!SetSynced) \/ RunAlone(F!CloseWatcher)
             \/ RunAlone(F!Resync) \/ RunAlone(F!ReceiveEvent)
    BY <2>3, <1>u, RunKeepsFile, Zenon DEF RunAlone, Alone
  <2> QED
    BY <1>5, <2>1, <2>2, <2>3, Zenon DEF Run
<1>6. CASE RestartAll
  BY <1>6, Zenon DEF RestartAll, Next
<1> QED
  BY <1>1, <1>2, <1>3, <1>4, <1>5, <1>6, Zenon DEF FileNext

(***************************************************************************)
(* The controller that the informer drives behaves as StaticController     *)
(* says: what is proved of the handler alone holds of the composition.     *)
(***************************************************************************)
THEOREM ImplementsController == FileSpec => Spec
<1>1. FileInit => Init
  BY Zenon DEF FileInit
<1> QED
  BY <1>1, ControllerStep, PTL DEF FileSpec, Spec

(***************************************************************************)
(* The handler skips a file only if the cluster is as the file says, in    *)
(* any schedule of the informer, if the file does not return to an earlier *)
(* content.                                                                *)
(***************************************************************************)
THEOREM SkippingIsSafe == ASSUME ~Reverts PROVE FileSpec => []SkipIsSafe
<1>1. CInv /\ [FileNext]_allVars => CInv'
  BY ControllerStep, ControllerNext, Zenon
<1>2. FileInit => CInv
  BY ControllerInit, Zenon DEF FileInit
<1>3. CInv => SkipIsSafe
  BY Zenon DEF CInv
<1> QED
  BY <1>1, <1>2, <1>3, PTL DEF FileSpec

------------------------------------------------------------------------------
(***************************************************************************)
(* The informer.  Reading: what Run has called the handlers for so far.    *)
(* Watching: as long as the file was only written or replaced it is there, *)
(* and Run watches it or has yet to handle the removal that ended the      *)
(* watch.  Seen: what a handler has not read of a watched file that was    *)
(* only written has an event pending, or a call.                           *)
(***************************************************************************)
Reading ==
    /\ launched <=> runPc # "none"
    /\ runPc \in {"none", "begin"} => ~synced /\ initial = {}
    /\ early \subseteq handlers /\ initial \subseteq handlers
    /\ runPc = "initial" => early \subseteq initial \cup toCall
    /\ runPc \in {"sync", "select", "calling", "stopping"} => early \subseteq initial
    /\ synced => early \subseteq initial

\* What has happened to the file.
OnlyReplaced == ops \subseteq {"write", "replace"}
OnlyWritten == ops \subseteq {"absent", "write"}

RemovalPending == \E i \in DOMAIN events : events[i] = "remove"

Watching ==
    /\ OnlyReplaced => file # NoFile
    /\ readd => runPc = "calling"
    /\ runPc \in {"read", "initial", "sync", "select", "calling"} /\ OnlyReplaced =>
         watched \/ readd \/ RemovalPending

Seen ==
    /\ readd \/ RemovalPending => ~OnlyWritten
    /\ OnlyWritten /\ watched /\ events = <<>> =>
         initial \cap stale \subseteq (IF runPc = "calling" THEN toCall ELSE {})

Event == {"write", "chmod", "remove", "rename"}

InformerInv ==
    events \in Seq(Event) /\ toCall \subseteq handlers /\ Reading /\ Watching /\ Seen

\* Before anything is started.
LEMMA InformerInit == F!Init => InformerInv
<1> SUFFICES ASSUME F!Init PROVE InformerInv
  OBVIOUS
<1>1. events \in Seq(Event) /\ toCall \subseteq handlers /\ events = <<>>
  BY DEF F!Init
<1>2. Reading
  BY Zenon DEF F!Init, Reading
<1>3. ~RemovalPending
  BY <1>1 DEF RemovalPending
<1>4. Watching
  BY <1>3, Zenon DEF F!Init, Watching, OnlyReplaced
<1>5. Seen
  BY <1>3, Zenon DEF F!Init, Seen
<1> QED
  BY <1>1, <1>2, <1>4, <1>5, Zenon DEF InformerInv

\* The events that a change adds.
LEMMA ReportEffect ==
    ASSUME events \in Seq(Event),
           NEW new \in Seq(Event), F!Report(new)
    PROVE  /\ events' \in Seq(Event)
           /\ RemovalPending => RemovalPending'
           /\ ~watched => events' = events
           /\ watched /\ new # <<>> => events' # <<>>
           /\ watched /\ (\E i \in DOMAIN new : new[i] = "remove") => RemovalPending'
           /\ RemovalPending' => RemovalPending \/ \E i \in DOMAIN new : new[i] = "remove"
<1>1. CASE ~watched
  BY <1>1, Zenon DEF F!Report, RemovalPending
<1>2. CASE watched
  <2>1. events' = events \o new
    BY <1>2, Zenon DEF F!Report
  <2>2. /\ events' \in Seq(Event)
        /\ Len(events) \in Nat /\ Len(new) \in Nat
        /\ Len(events') = Len(events) + Len(new)
        /\ \A i \in 1..Len(events) : events'[i] = events[i]
        /\ \A i \in 1..Len(new) : events'[Len(events) + i] = new[i]
        /\ DOMAIN events = 1..Len(events) /\ DOMAIN new = 1..Len(new)
        /\ DOMAIN events' = 1..(Len(events) + Len(new))
    BY <2>1
  <2>3. RemovalPending => RemovalPending'
    BY <2>2 DEF RemovalPending
  <2>4. (\E i \in DOMAIN new : new[i] = "remove") => RemovalPending'
    <3> SUFFICES ASSUME NEW i \in 1..Len(new), new[i] = "remove" PROVE RemovalPending'
      BY <2>2, Zenon
    <3>1. Len(events) + i \in DOMAIN events' /\ events'[Len(events) + i] = "remove"
      BY <2>2
    <3> QED
      BY <3>1, Zenon DEF RemovalPending
  <2>5. RemovalPending' => RemovalPending \/ \E i \in DOMAIN new : new[i] = "remove"
    <3> SUFFICES ASSUME NEW i \in 1..(Len(events) + Len(new)), events'[i] = "remove"
                 PROVE  RemovalPending \/ \E j \in DOMAIN new : new[j] = "remove"
      BY <2>2, Zenon DEF RemovalPending
    <3>1. CASE i \in 1..Len(events)
      BY <2>2, <3>1, Zenon DEF RemovalPending
    <3>2. CASE i \notin 1..Len(events)
      <4>1. i - Len(events) \in 1..Len(new) /\ i = Len(events) + (i - Len(events))
        BY <2>2, <3>2
      <4>2. new[i - Len(events)] = "remove"
        BY <2>2, <4>1, Zenon
      <4> QED
        BY <2>2, <4>1, <4>2, Zenon
    <3> QED
      BY <3>1, <3>2, Zenon
  <2>6. new # <<>> => events' # <<>>
    <3>1. new # <<>> => Len(new) # 0
      OBVIOUS
    <3> QED
      BY <2>2, <3>1
  <2> QED
    BY <1>2, <2>2, <2>3, <2>4, <2>5, <2>6, Zenon
<1> QED
  BY <1>1, <1>2, Zenon

\* A change of the file is reported to whoever watches it.
LEMMA FileChanges ==
    ASSUME InformerInv, NEW op \in FileOps, NEW c \in Files \cup {NoFile}, F!ChangeFile(op, c)
    PROVE  InformerInv'
<1>1. /\ events \in Seq(Event) /\ toCall \subseteq handlers /\ Reading /\ Watching /\ Seen
      /\ ops' = ops \cup {op}
      /\ file' = c /\ stale' = Calls
      /\ UNCHANGED <<named, stopCh, startPc, launched, addPc, leaked, started, synced, handlers,
                     runPc, toCall, readd, initial, early>>
  BY Zenon DEF InformerInv, F!ChangeFile, F!callerVars, F!lockVars, F!runVars
<1>2. PICK new \in {<<"write">>, <<"chmod", "remove">>, <<"rename">>} :
        /\ F!Report(new)
        /\ \/ op = "write" /\ c # NoFile /\ new = <<"write">> /\ UNCHANGED watched
           \/ op = "replace" /\ c # NoFile /\ file # NoFile /\ new = <<"chmod", "remove">> /\ watched' = FALSE
           \/ op = "remove" /\ c = NoFile /\ new = <<"chmod", "remove">> /\ watched' = FALSE
           \/ op = "rename" /\ c = NoFile /\ new = <<"rename">> /\ watched' = FALSE
  BY Zenon DEF F!ChangeFile
<1>3. /\ new \in Seq(Event) /\ new # <<>>
      /\ op \in {"write", "rename"} => ~\E i \in DOMAIN new : new[i] = "remove"
      /\ op \in {"replace", "remove"} => \E i \in DOMAIN new : new[i] = "remove"
  <2>1. CASE new = <<"write">> /\ op = "write"
    BY <2>1 DEF Event
  <2>2. CASE new = <<"chmod", "remove">> /\ op \in {"replace", "remove"}
    <3>1. 2 \in DOMAIN new /\ new[2] = "remove"
      BY <2>2
    <3> QED
      BY <2>2, <3>1 DEF Event
  <2>3. CASE new = <<"rename">> /\ op = "rename"
    BY <2>3 DEF Event
  <2> QED
    BY <1>2, <2>1, <2>2, <2>3, Zenon
<1>4. /\ events' \in Seq(Event)
      /\ RemovalPending => RemovalPending'
      /\ ~watched => events' = events
      /\ watched => events' # <<>>
      /\ watched /\ op \in {"replace", "remove"} => RemovalPending'
      /\ RemovalPending' => RemovalPending \/ op \in {"replace", "remove"}
  BY <1>1, <1>2, <1>3, ReportEffect, Zenon
<1>6. Reading'
  BY <1>1, Zenon DEF Reading
<1>5. /\ OnlyReplaced' => OnlyReplaced /\ op \in {"write", "replace"}
      /\ OnlyWritten' => OnlyWritten /\ op = "write"
  BY <1>1, <1>2, Zenon DEF OnlyReplaced, OnlyWritten
<1>7. Watching'
  BY <1>1, <1>2, <1>4, <1>5, SMTT(60) DEF Watching
<1>8. Seen'
  BY <1>1, <1>2, <1>4, <1>5 DEF Seen
<1> QED
  BY <1>1, <1>4, <1>6, <1>7, <1>8, Zenon DEF InformerInv

\* Steps that leave the events and the file alone.
LEMMA SameEvents ==
    ASSUME UNCHANGED <<events, ops>>
    PROVE  /\ RemovalPending' <=> RemovalPending
           /\ OnlyReplaced' <=> OnlyReplaced
           /\ OnlyWritten' <=> OnlyWritten
  BY Zenon DEF RemovalPending, OnlyReplaced, OnlyWritten

\* The callers of the factory and the informer.
LEMMA CallersPreserve ==
    ASSUME InformerInv, NEW s,
           F!AddCheck(s) \/ F!AddAppend(s) \/ F!Start(s) \/ F!CloseStopCh
    PROVE  InformerInv'
<1>1. /\ events \in Seq(Event) /\ toCall \subseteq handlers /\ Reading /\ Watching /\ Seen
      /\ UNCHANGED <<file, watched, events, stale, ops, synced, toCall, readd, initial, early>>
  BY Zenon DEF InformerInv, F!AddCheck, F!AddAppend, F!Start, F!CloseStopCh, F!fileVars, F!lockVars, F!runVars
<1>2. /\ handlers \subseteq handlers'
      /\ \/ UNCHANGED <<launched, runPc>>
         \/ launched' = TRUE /\ runPc' = IF launched THEN runPc ELSE "begin"
  BY Zenon DEF F!AddCheck, F!AddAppend, F!Start, F!CloseStopCh, F!lockVars, F!runVars
<1>3. launched <=> runPc # "none"
  BY <1>1, Zenon DEF Reading
<1>4. /\ launched' <=> runPc' # "none"
      /\ UNCHANGED runPc \/ (runPc = "none" /\ runPc' = "begin")
  <2>1. CASE UNCHANGED <<launched, runPc>>
    BY <1>3, <2>1, Zenon
  <2>2. CASE launched' = TRUE /\ launched /\ runPc' = runPc
    BY <1>3, <2>2, Zenon
  <2>3. CASE launched' = TRUE /\ ~launched /\ runPc' = "begin"
    BY <1>3, <2>3, Zenon
  <2> QED
    BY <1>2, <2>1, <2>2, <2>3, Zenon
<1>5. Reading'
  BY <1>1, <1>2, <1>4, Zenon DEF Reading
<1>6. Watching'
  BY <1>1, <1>4, SameEvents, Zenon DEF Watching
<1>7. Seen'
  BY <1>1, <1>4, SameEvents, Zenon DEF Seen
<1> QED
  BY <1>1, <1>2, <1>5, <1>6, <1>7, Zenon DEF InformerInv

\* Run adds the watch before it reads.
LEMMA RunBeginsPreserves == ASSUME InformerInv, F!RunBegins PROVE InformerInv'
<1>1. /\ events \in Seq(Event) /\ toCall \subseteq handlers /\ Reading /\ Watching /\ Seen
      /\ runPc = "begin" /\ early' = handlers
      /\ runPc' = IF named THEN "read" ELSE "done"
      /\ named => watched' = (file # NoFile)
      /\ UNCHANGED <<file, events, stale, ops, launched, synced, handlers, toCall, readd, initial>>
  BY Zenon DEF InformerInv, F!RunBegins, F!AddWatch, F!callerVars
<1>2. ~synced /\ initial = {} /\ ~readd
  BY <1>1, Zenon DEF Reading, Watching
<1>3. Reading'
  BY <1>1, <1>2, Zenon DEF Reading
<1>4. Watching'
  BY <1>1, <1>2, SameEvents, Zenon DEF Watching
<1>5. Seen'
  BY <1>1, <1>2, SameEvents, Zenon DEF Seen
<1> QED
  BY <1>1, <1>3, <1>4, <1>5, Zenon DEF InformerInv

\* The initial read is owed to every handler there is.
LEMMA InitialReadPreserves == ASSUME InformerInv, F!InitialRead PROVE InformerInv'
<1>1. /\ events \in Seq(Event) /\ toCall \subseteq handlers /\ Reading /\ Watching /\ Seen
      /\ runPc = "read" /\ runPc' = "initial" /\ toCall' = handlers
      /\ UNCHANGED <<file, watched, events, stale, ops, launched, synced, handlers, readd, initial, early>>
  BY Zenon DEF InformerInv, F!InitialRead, F!fileVars, F!callerVars, F!lockVars
<1>2. Reading'
  BY <1>1, Zenon DEF Reading
<1>3. Watching'
  BY <1>1, SameEvents, Zenon DEF Watching
<1>4. Seen'
  BY <1>1, SameEvents, Zenon DEF Seen
<1> QED
  BY <1>1, <1>2, <1>3, <1>4, Zenon DEF InformerInv

\* A handler that is called has read the file as it is.
LEMMA CallHandlerPreserves ==
    ASSUME InformerInv, NEW s \in Calls, F!CallHandler(s) PROVE InformerInv'
<1>1. /\ events \in Seq(Event) /\ toCall \subseteq handlers /\ Reading /\ Watching /\ Seen
      /\ runPc \in {"initial", "calling"} /\ s \in toCall
      /\ toCall' = toCall \ {s} /\ stale' = stale \ {s}
      /\ initial' = IF runPc = "initial" THEN initial \cup {s} ELSE initial
      /\ UNCHANGED <<file, watched, events, ops, launched, synced, handlers, runPc, readd, early>>
  BY Zenon DEF InformerInv, F!CallHandler, F!callerVars, F!lockVars
<1>2. /\ initial \subseteq initial' /\ initial' \subseteq handlers
      /\ initial \cup toCall = initial' \cup toCall' \/ runPc = "calling"
  BY <1>1, Zenon DEF Reading
<1>3. Reading'
  BY <1>1, <1>2, Zenon DEF Reading
<1>4. Watching'
  BY <1>1, SameEvents, Zenon DEF Watching
<1>5. Seen'
  <2> SUFFICES ASSUME OnlyWritten, watched, events = <<>>
               PROVE  initial' \cap stale' \subseteq (IF runPc = "calling" THEN toCall' ELSE {})
    BY <1>1, SameEvents, Zenon DEF Seen
  <2>1. initial \cap stale \subseteq (IF runPc = "calling" THEN toCall ELSE {})
    BY <1>1, Zenon DEF Seen
  <2> QED
    BY <1>1, <2>1, Zenon
<1> QED
  BY <1>1, <1>3, <1>4, <1>5, Zenon DEF InformerInv

\* After the calls the watch that was lost is added again.
LEMMA CallsReturnPreserves == ASSUME InformerInv, F!CallsReturn PROVE InformerInv'
<1>1. /\ events \in Seq(Event) /\ toCall \subseteq handlers /\ Reading /\ Watching /\ Seen
      /\ runPc \in {"initial", "calling"} /\ toCall = {} /\ readd' = FALSE
      /\ runPc' = IF runPc = "initial" THEN "sync" ELSE "select"
      /\ IF readd THEN watched' = (file # NoFile) ELSE watched' = watched
      /\ UNCHANGED <<file, events, ops, launched, synced, handlers, toCall, stale, initial, early>>
  BY Zenon DEF InformerInv, F!CallsReturn, F!AddWatch, F!callerVars, F!lockVars
<1>2. Reading'
  BY <1>1, Zenon DEF Reading
<1>3. Watching'
  BY <1>1, SameEvents, Zenon DEF Watching
<1>4. Seen'
  BY <1>1, SameEvents, Zenon DEF Seen
<1> QED
  BY <1>1, <1>2, <1>3, <1>4, Zenon DEF InformerInv

\* Run takes the lock, or ends.
LEMMA RunPreserves ==
    ASSUME InformerInv, F!SetSynced \/ F!ReceiveStop \/ F!CloseWatcher PROVE InformerInv'
<1>1. /\ events \in Seq(Event) /\ toCall \subseteq handlers /\ Reading /\ Watching /\ Seen
      /\ UNCHANGED <<file, stale, ops, launched, handlers, toCall, readd, initial, early>>
  BY Zenon DEF InformerInv, F!SetSynced, F!ReceiveStop, F!CloseWatcher, F!fileVars, F!callerVars, F!lockVars
<1>2. \/ runPc = "sync" /\ runPc' = "select" /\ UNCHANGED <<watched, events>>
      \/ runPc = "select" /\ runPc' = "stopping" /\ UNCHANGED <<watched, events, synced>>
      \/ /\ runPc = "stopping" /\ runPc' = "done" /\ UNCHANGED synced
         /\ watched' = FALSE /\ events' = <<>>
  BY Zenon DEF F!SetSynced, F!ReceiveStop, F!CloseWatcher, F!fileVars, F!lockVars
<1>3. Reading'
  BY <1>1, <1>2, Zenon DEF Reading
<1>4. CASE UNCHANGED <<watched, events>>
  BY <1>1, <1>2, <1>3, <1>4, SameEvents, Zenon DEF InformerInv, Watching, Seen
<1>5. CASE runPc' = "done" /\ runPc = "stopping" /\ watched' = FALSE /\ events' = <<>>
  <2>1. ~RemovalPending' /\ events' \in Seq(Event)
    BY <1>5 DEF RemovalPending
  <2>2. Watching' /\ Seen'
    BY <1>1, <1>5, <2>1, Zenon DEF Watching, Seen, OnlyReplaced, OnlyWritten
  <2> QED
    BY <1>1, <1>3, <2>1, <2>2, Zenon DEF InformerInv
<1> QED
  BY <1>2, <1>4, <1>5, Zenon

\* An event or the resync has every handler called again.
LEMMA BeginCallsPreserves ==
    ASSUME InformerInv, F!Resync \/ F!ReceiveEvent PROVE InformerInv'
<1>1. /\ events \in Seq(Event) /\ toCall \subseteq handlers /\ Reading /\ Watching /\ Seen
      /\ runPc = "select" /\ runPc' = "calling" /\ toCall' = handlers
      /\ UNCHANGED <<file, watched, stale, ops, launched, synced, handlers, initial, early>>
  BY Zenon DEF InformerInv, F!Resync, F!ReceiveEvent, F!BeginCalls, F!fileVars, F!callerVars, F!lockVars
<1>2. Reading'
  BY <1>1, Zenon DEF Reading
<1>3. ~readd /\ initial \subseteq handlers
  BY <1>1, Zenon DEF Watching, Reading
<1>4. CASE F!Resync
  <2>1. UNCHANGED <<events, readd>>
    BY <1>4, Zenon DEF F!Resync, F!fileVars
  <2>2. Watching' /\ Seen'
    BY <1>1, <1>3, <2>1, SameEvents, Zenon DEF Watching, Seen
  <2> QED
    BY <1>1, <1>2, <2>1, <2>2, Zenon DEF InformerInv
<1>5. CASE F!ReceiveEvent
  <2>1. events # <<>> /\ events' = Tail(events) /\ readd' = (Head(events) = "remove")
    BY <1>5, Zenon DEF F!ReceiveEvent
  <2>2. /\ events' \in Seq(Event) /\ Len(events) \in Nat \ {0}
        /\ DOMAIN events = 1..Len(events) /\ DOMAIN events' = 1..(Len(events) - 1)
        /\ \A i \in 1..(Len(events) - 1) : events'[i] = events[i + 1]
        /\ Head(events) = events[1]
    BY <1>1, <2>1
  <2>3. RemovalPending <=> RemovalPending' \/ readd'
    <3>1. ASSUME NEW i \in DOMAIN events, events[i] = "remove" PROVE RemovalPending' \/ readd'
      <4>1. CASE i = 1
        BY <2>1, <2>2, <3>1, <4>1, Zenon
      <4>2. CASE i # 1
        <5>1. i - 1 \in 1..(Len(events) - 1) /\ (i - 1) + 1 = i
          BY <2>2, <4>2
        <5>2. events'[i - 1] = "remove" /\ i - 1 \in DOMAIN events'
          BY <2>2, <3>1, <5>1, Zenon
        <5> QED
          BY <5>2, Zenon DEF RemovalPending
      <4> QED
        BY <4>1, <4>2, Zenon
    <3>2. readd' => RemovalPending
      <4>1. 1 \in DOMAIN events
        BY <2>2
      <4> QED
        BY <2>1, <2>2, <4>1, Zenon DEF RemovalPending
    <3>3. ASSUME NEW i \in DOMAIN events', events'[i] = "remove" PROVE RemovalPending
      <4>1. i + 1 \in DOMAIN events /\ events[i + 1] = "remove"
        BY <2>2, <3>3
      <4> QED
        BY <4>1, Zenon DEF RemovalPending
    <3> QED
      BY <3>1, <3>2, <3>3, Zenon DEF RemovalPending
  <2>4. (OnlyReplaced' <=> OnlyReplaced) /\ (OnlyWritten' <=> OnlyWritten)
    BY <1>1, Zenon DEF OnlyReplaced, OnlyWritten
  <2>5. Watching'
    BY <1>1, <1>3, <2>3, <2>4, Zenon DEF Watching
  <2>6. Seen'
    BY <1>1, <1>3, <2>3, <2>4, Zenon DEF Seen
  <2> QED
    BY <1>1, <1>2, <2>2, <2>5, <2>6, Zenon DEF InformerInv
<1> QED
  BY <1>4, <1>5, Zenon

\* A new process begins as the first one did.
LEMMA InformerRestarts == ASSUME InformerInv, F!Restart PROVE InformerInv'
<1>1. /\ events' = <<>> /\ events' \in Seq(Event) /\ toCall' = {} /\ handlers' = {}
      /\ watched' = FALSE /\ launched' = FALSE /\ synced' = FALSE /\ readd' = FALSE
      /\ runPc' = "none" /\ initial' = {} /\ early' = {} /\ UNCHANGED file
      /\ ops' = IF file = NoFile THEN {"absent"} ELSE {}
  BY DEF F!Restart
<1>2. ~RemovalPending'
  BY <1>1 DEF RemovalPending
<1>3. Reading'
  BY <1>1, Zenon DEF Reading
<1>4. Watching'
  BY <1>1, <1>2, Zenon DEF Watching, OnlyReplaced
<1>5. Seen'
  BY <1>1, <1>2, Zenon DEF Seen
<1> QED
  BY <1>1, <1>3, <1>4, <1>5, Zenon DEF InformerInv

\* Steps that leave the informer alone.
LEMMA InformerRests ==
    ASSUME InformerInv, UNCHANGED file, UNCHANGED informerVars PROVE InformerInv'
<1>1. UNCHANGED <<file, watched, events, launched, synced, handlers, runPc, toCall, readd,
                  stale, initial, early, ops>>
  BY Zenon DEF informerVars
<1> QED
  BY <1>1, SameEvents, Zenon DEF InformerInv, Reading, Watching, Seen

\* Every step of the composition preserves the informer's invariant.
LEMMA InformerNext == InformerInv /\ [FileNext]_allVars => InformerInv'
<1> SUFFICES ASSUME InformerInv, [FileNext]_allVars PROVE InformerInv'
  OBVIOUS
<1>1. CASE UNCHANGED allVars
  BY <1>1, InformerRests, Zenon DEF allVars
<1>2. CASE ChangeTheFile
  BY <1>2, FileChanges, Zenon DEF ChangeTheFile
<1>3. ASSUME NEW s \in Calls, StartController(s) PROVE InformerInv'
  BY <1>3, CallersPreserve, Zenon DEF StartController, Alone
<1>4. CASE Cancel
  BY <1>4, CallersPreserve, Zenon DEF Cancel, Alone
<1>5. CASE ReceiveStop
  BY <1>5, RunPreserves, Zenon DEF ReceiveStop, RunAlone, Alone
<1>6. CASE Run
  <2>1. CASE CallHandler
    BY <2>1, CallHandlerPreserves, Zenon DEF CallHandler
  <2>2. CASE HandlerStep
    <3>1. UNCHANGED informerVars /\ UNCHANGED file
      BY <2>2, Zenon DEF HandlerStep, Inside, Patch, Store, Undecodable, PatchFails, PatchAborts
    <3> QED
      BY <3>1, InformerRests, Zenon
  <2>3. CASE \/ RunAlone(F!RunBegins) \/ RunAlone(F!InitialRead) \/ RunAlone(F!CallsReturn)
             \/ RunAlone(F!SetSynced) \/ RunAlone(F!CloseWatcher)
             \/ RunAlone(F!Resync) \/ RunAlone(F!ReceiveEvent)
    BY <2>3, RunBeginsPreserves, InitialReadPreserves, CallsReturnPreserves, RunPreserves,
       BeginCallsPreserves, Zenon DEF RunAlone, Alone
  <2> QED
    BY <1>6, <2>1, <2>2, <2>3, Zenon DEF Run
<1>7. CASE RestartAll
  BY <1>7, InformerRestarts, Zenon DEF RestartAll
<1> QED
  BY <1>1, <1>2, <1>3, <1>4, <1>5, <1>6, <1>7, Zenon DEF FileNext

\* The invariant of the informer in every state of the composition.
THEOREM InformerInvariance == FileSpec => []InformerInv
<1>1. FileInit => InformerInv
  BY InformerInit, Zenon DEF FileInit
<1> QED
  BY <1>1, InformerNext, PTL DEF FileSpec

(***************************************************************************)
(* HasSynced reports true only when every handler that was there when Run  *)
(* set started has been called for its initial read.                       *)
(***************************************************************************)
THEOREM SyncedMeansRead == FileSpec => []SyncedAfterInitialRead
<1>1. InformerInv => SyncedAfterInitialRead
  BY Zenon DEF InformerInv, Reading, SyncedAfterInitialRead, F!SyncedAfterInitialRead, F!HasSynced
<1> QED
  BY <1>1, InformerInvariance, PTL

(***************************************************************************)
(* A waiting informer with no event pending has missed no change that its  *)
(* watch has to report.                                                    *)
(***************************************************************************)
THEOREM NothingIsMissed == FileSpec => []NoMissedChange
<1>1. InformerInv => NoMissedChange
  <2> SUFFICES ASSUME InformerInv, runPc = "select", events = <<>>
               PROVE  /\ OnlyReplaced => watched
                      /\ OnlyWritten /\ watched => initial \cap stale = {}
    BY Zenon DEF NoMissedChange, F!NoMissedChange, OnlyReplaced, OnlyWritten
  <2>1. ~RemovalPending
    BY DEF RemovalPending
  <2> QED
    BY <2>1, Zenon DEF InformerInv, Watching, Seen
<1> QED
  BY <1>1, InformerInvariance, PTL

------------------------------------------------------------------------------
(***************************************************************************)
(* The part of FileIsApplied that needs no fairness, across the two        *)
(* components: when Run waits with no event pending, nothing has failed    *)
(* and the watched file was only ever written in place, the cluster is as  *)
(* the file says.  A change that was made while Run read the file, called  *)
(* the handlers or applied an earlier content is not left to the resync.   *)
(***************************************************************************)
WaitingIsApplied ==
    (/\ runPc = "select" /\ pc = "idle" /\ events = <<>> /\ watched /\ ~stopCh
     /\ OnlyWritten /\ initial # {} /\ faults = 0 /\ Decodes(file))
    => IsApplied(file)

\* What a handler was called for, as the file is now, is applied or under way.
ReadIsApplied ==
    faults = 0 /\ ~stopCh /\ stale # Calls /\ Decodes(file) =>
        /\ pc = "idle" => lastStaticHash = Sum64[file]
        /\ pc = "apply" => hash = Sum64[file] /\ \A k \in 1..Len(docs) : docs[k] # Bad

AppliedInv == ReadIsApplied /\ initial \subseteq Calls

\* A step of the informer or of its callers in which no handler is called.
LEMMA AppliedStays ==
    ASSUME AppliedInv, UNCHANGED <<file, lastStaticHash, hash, docs, pc, faults, stale, initial>>,
           ~stopCh' => ~stopCh
    PROVE  AppliedInv'
  BY Zenon DEF AppliedInv, ReadIsApplied, Decodes

\* Steps of the callers and of Run.
LEMMA CallersKeepApplied ==
    ASSUME AppliedInv, UNCHANGED file, UNCHANGED controllerVars,
           \/ UNCHANGED informerVars \/ F!CloseStopCh
           \/ \E s \in Calls : F!AddCheck(s) \/ F!AddAppend(s) \/ F!Start(s)
           \/ F!RunBegins \/ F!InitialRead \/ F!CallsReturn \/ F!SetSynced
           \/ F!CloseWatcher \/ F!Resync \/ F!ReceiveEvent \/ F!ReceiveStop
    PROVE  AppliedInv'
<1>1. UNCHANGED <<lastStaticHash, hash, docs, pc, faults>>
  BY Zenon DEF controllerVars
<1>2. UNCHANGED <<stale, initial>> /\ (stopCh' = stopCh \/ stopCh' = TRUE)
  <2>1. CASE UNCHANGED informerVars
    BY <2>1, Zenon DEF informerVars
  <2>2. CASE F!CloseStopCh \/ \E s \in Calls : F!AddCheck(s) \/ F!AddAppend(s) \/ F!Start(s)
    BY <2>2, Zenon DEF F!CloseStopCh, F!AddCheck, F!AddAppend, F!Start, F!fileVars, F!runVars
  <2>3. CASE F!RunBegins \/ F!InitialRead \/ F!CallsReturn \/ F!SetSynced
    BY <2>3, Zenon DEF F!RunBegins, F!InitialRead, F!CallsReturn, F!SetSynced, F!fileVars, F!callerVars
  <2>4. CASE F!CloseWatcher \/ F!Resync \/ F!ReceiveEvent \/ F!ReceiveStop
    BY <2>4, Zenon DEF F!CloseWatcher, F!Resync, F!ReceiveEvent, F!ReceiveStop, F!fileVars, F!callerVars
  <2> QED
    BY <2>1, <2>2, <2>3, <2>4, Zenon
<1>3. ~stopCh' => ~stopCh
  BY <1>2
<1> QED
  BY <1>1, <1>2, <1>3, AppliedStays, Zenon

\* A handler is called: it finds the file's hash stored, or begins to apply it.
LEMMA CallApplies ==
    ASSUME TypeOK, AppliedInv, CallHandler
    PROVE  AppliedInv'
<1>1. initial' \subseteq Calls
  BY Zenon DEF CallHandler, F!CallHandler, AppliedInv
<1>2. CASE ReadFails
  <2>1. faults' # 0
    BY <1>2 DEF ReadFails, Fault, TypeOK
  <2> QED
    BY <1>1, <2>1, Zenon DEF AppliedInv, ReadIsApplied
<1>3. CASE Handle
  <2> SUFFICES ASSUME Decodes(file')
               PROVE  /\ pc' = "idle" => lastStaticHash' = Sum64[file']
                      /\ pc' = "apply" => hash' = Sum64[file'] /\ \A k \in 1..Len(docs') : docs'[k] # Bad
    BY <1>1, Zenon DEF AppliedInv, ReadIsApplied, Decodes
  <2>1. file' = file /\ file # NoFile /\ Bad \notin Range(Docs[file]) /\ pc = "idle" /\ file \in Files
    BY <1>3, Zenon DEF Handle, Decodes, TypeOK
  <2>2. CASE lastStaticHash = Sum64[file]
    <3>1. lastStaticHash' = lastStaticHash /\ pc' = "idle"
      BY <1>3, <2>1, <2>2, Zenon DEF Handle
    <3> QED
      BY <2>1, <2>2, <3>1
  <2>3. CASE lastStaticHash # Sum64[file]
    <3>1. hash' = Sum64[file] /\ docs' = Docs[file] /\ pc' = "apply"
      BY <1>3, <2>1, <2>3, Zenon DEF Handle
    <3>2. \A k \in 1..Len(Docs[file]) : Docs[file][k] # Bad
      BY <2>1, DocsType, Zenon DEF Range
    <3> QED
      BY <2>1, <3>1, <3>2
  <2> QED
    BY <2>2, <2>3, Zenon
<1> QED
  BY <1>2, <1>3, Zenon DEF CallHandler

\* The handler goes on.
LEMMA HandlerApplies ==
    ASSUME TypeOK, AppliedInv, HandlerStep
    PROVE  AppliedInv'
<1>1. pc = "apply" /\ UNCHANGED <<file, stopCh, stale, initial>>
  BY Zenon DEF HandlerStep, Inside, Patch, Store, Undecodable, PatchFails, PatchAborts, informerVars
<1>2. initial' \subseteq Calls
  BY <1>1, Zenon DEF AppliedInv
<1>3. CASE PatchFails
  <2>1. faults' # 0
    BY <1>3 DEF PatchFails, Fault, TypeOK
  <2> QED
    BY <1>2, <2>1, Zenon DEF AppliedInv, ReadIsApplied
<1>4. CASE stopCh
  BY <1>1, <1>2, <1>4, Zenon DEF AppliedInv, ReadIsApplied
<1>5. CASE Patch \/ Store \/ Undecodable
  <2> SUFFICES ASSUME faults' = 0, ~stopCh', stale' # Calls, Decodes(file')
               PROVE  /\ pc' = "idle" => lastStaticHash' = Sum64[file']
                      /\ pc' = "apply" => hash' = Sum64[file'] /\ \A k \in 1..Len(docs') : docs'[k] # Bad
    BY <1>2, Zenon DEF AppliedInv, ReadIsApplied, Decodes
  <2>1. hash = Sum64[file] /\ \A k \in 1..Len(docs) : docs[k] # Bad
    <3>1. faults = 0 /\ Decodes(file)
      BY <1>1, <1>5, Zenon DEF Patch, Store, Undecodable
    <3> QED
      BY <1>1, <3>1, Zenon DEF AppliedInv, ReadIsApplied
  <2>2. CASE Patch
    <3>1. docs # <<>> /\ docs' = Tail(docs) /\ pc' = "apply" /\ hash' = hash
      BY <2>2, Zenon DEF Patch
    <3>2. ASSUME NEW k \in 1..Len(docs') PROVE docs'[k] # Bad
      <4>1. Len(docs') = Len(docs) - 1 /\ Len(docs) \in Nat \ {0}
        BY <3>1, TailType, Zenon
      <4>2. k \in 1..(Len(docs) - 1) /\ k + 1 \in 1..Len(docs)
        BY <4>1
      <4> QED
        BY <2>1, <3>1, <4>2, TailType, Zenon
    <3> QED
      BY <1>1, <2>1, <3>1, <3>2
  <2>3. CASE Store
    <3>1. lastStaticHash' = hash /\ pc' = "idle"
      BY <2>3, Zenon DEF Store, Return
    <3> QED
      BY <1>1, <2>1, <3>1
  <2>4. CASE Undecodable
    <3>1. docs # <<>> /\ Head(docs) = Bad
      BY <2>4, Zenon DEF Undecodable
    <3>2. 1 \in 1..Len(docs) /\ docs[1] = Bad
      BY <3>1, TailType
    <3> QED
      BY <2>1, <3>2, Zenon
  <2> QED
    BY <1>5, <2>2, <2>3, <2>4, Zenon
<1> QED
  BY <1>3, <1>4, <1>5, Zenon DEF HandlerStep, Inside

\* Every step of the composition.
LEMMA AppliedNext == TypeOK /\ AppliedInv /\ [FileNext]_allVars => AppliedInv'
<1> SUFFICES ASSUME TypeOK, AppliedInv, [FileNext]_allVars PROVE AppliedInv'
  OBVIOUS
<1>1. CASE UNCHANGED allVars
  BY <1>1, CallersKeepApplied, Zenon DEF allVars
<1>2. CASE ChangeTheFile \/ RestartAll
  <2>1. stale' = Calls /\ (initial' = initial \/ initial' = {})
    BY <1>2, Zenon DEF ChangeTheFile, RestartAll, F!ChangeFile, F!Restart, F!runVars
  <2> QED
    BY <2>1, Zenon DEF AppliedInv, ReadIsApplied
<1>3. ASSUME NEW s \in Calls, StartController(s) PROVE AppliedInv'
  BY <1>3, CallerKeepsFile, CallersKeepApplied, Zenon DEF StartController, Alone
<1>4. CASE Cancel \/ ReceiveStop
  BY <1>4, RunKeepsFile, CallersKeepApplied, Zenon DEF Cancel, ReceiveStop, RunAlone, Alone
<1>5. CASE Run
  <2>1. CASE CallHandler \/ HandlerStep
    BY <2>1, CallApplies, HandlerApplies, Zenon
  <2>2. CASE \/ RunAlone(F!RunBegins) \/ RunAlone(F!InitialRead) \/ RunAlone(F!CallsReturn)
             \/ RunAlone(F!SetSynced) \/ RunAlone(F!CloseWatcher)
             \/ RunAlone(F!Resync) \/ RunAlone(F!ReceiveEvent)
    BY <2>2, RunKeepsFile, CallersKeepApplied, Zenon DEF RunAlone, Alone
  <2> QED
    BY <1>5, <2>1, <2>2, Zenon DEF Run
<1> QED
  BY <1>1, <1>2, <1>3, <1>4, <1>5, Zenon DEF FileNext

(***************************************************************************)
(* A file that was only written in place is applied whenever Run waits     *)
(* with nothing to do, if nothing failed: from the informer's NothingIs-   *)
(* Missed, the handler's SkippingIsSafe and ReadIsApplied between them.    *)
(***************************************************************************)
THEOREM WaitingMeansApplied == ASSUME ~Reverts PROVE FileSpec => []WaitingIsApplied
<1>1. FileInit => CInv /\ AppliedInv
  BY ControllerInit, Zenon DEF FileInit, F!Init, AppliedInv, ReadIsApplied
<1>2. CInv /\ [FileNext]_allVars => CInv'
  BY ControllerStep, ControllerNext, Zenon
<1>3. CInv /\ AppliedInv /\ [FileNext]_allVars => AppliedInv'
  BY AppliedNext, Zenon DEF CInv
<1>4. CInv /\ AppliedInv /\ NoMissedChange => WaitingIsApplied
  <2> SUFFICES ASSUME CInv, AppliedInv, NoMissedChange,
                      runPc = "select", pc = "idle", events = <<>>, watched, ~stopCh,
                      OnlyWritten, initial # {}, faults = 0, Decodes(file)
               PROVE  IsApplied(file)
    BY Zenon DEF WaitingIsApplied
  <2>1. initial \cap stale = {}
    BY Zenon DEF NoMissedChange, F!NoMissedChange, OnlyWritten
  <2>2. stale # Calls
    BY <2>1, Zenon DEF AppliedInv
  <2>3. lastStaticHash = Sum64[file]
    BY <2>2, Zenon DEF AppliedInv, ReadIsApplied
  <2> QED
    BY <2>3, Zenon DEF CInv, SkipIsSafe, Decodes
<1> QED
  BY <1>1, <1>2, <1>3, <1>4, NothingIsMissed, PTL DEF FileSpec
==============================================================================
