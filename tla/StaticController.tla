--------------------------- MODULE StaticController ---------------------------
(***************************************************************************)
(* static/controller.go and bootstrap/resource.go: whenever the file       *)
(* informer calls the controller's handler, the documents of the file are  *)
(* applied to the cluster one after the other, unless the file's hash is   *)
(* the one stored after the last complete application.                     *)
(*                                                                         *)
(* The informer calls the handler from one goroutine: its calls never      *)
(* overlap.  When it calls is left open here; StaticFile composes this     *)
(* module with the informer.                                               *)
(***************************************************************************)
EXTENDS Naturals, Sequences, Functions

CONSTANTS Objects,       \* the names of the objects
          Specs,         \* what an object may be
          Files,         \* contents of the file
          NoFile, NoObject,
          Docs,          \* the documents of each content
          Bad,           \* a document that is not an object
          Sum64,         \* the hash of each content
          Reverts,       \* the file may return to an earlier content
          MaxFaults, MaxRestarts

Doc == [obj : Objects, spec : Specs]

\* Two contents of a run have different hashes, none of them the 0 that
\* stands for "nothing applied yet".
ASSUME StaticAssumption ==
    /\ NoFile \notin Files /\ NoObject \notin Specs /\ Bad \notin Doc
    /\ Docs \in [Files -> Seq(Doc \cup {Bad})]
    /\ Sum64 \in [Files -> Nat \ {0}]
    /\ \A c, d \in Files : Sum64[c] = Sum64[d] => c = d
    /\ Reverts \in BOOLEAN
    /\ MaxFaults \in Nat /\ MaxRestarts \in Nat

VARIABLES file,             \* the file
          used,             \* history: contents the file has had
          lastStaticHash,   \* Controller.lastStaticHash
          hash, docs,       \* ResourceFromFile: the hash, the documents left
          pc,
          cluster,          \* the objects in the cluster
          faults, restarts

vars == <<file, used, lastStaticHash, hash, docs, pc, cluster, faults, restarts>>

TypeOK ==
    /\ file \in Files \cup {NoFile}
    /\ used \subseteq Files \cup {NoFile} /\ file \in used
    /\ lastStaticHash \in {0} \cup Range(Sum64)
    /\ hash \in {0} \cup Range(Sum64)
    /\ docs \in Seq(Doc \cup {Bad})
    /\ pc \in {"idle", "apply"}
    /\ pc = "idle" => docs = <<>> /\ hash = 0
    /\ pc = "apply" => hash # lastStaticHash
    /\ cluster \in [Objects -> Specs \cup {NoObject}]
    /\ faults \in 0..MaxFaults
    /\ restarts \in 0..MaxRestarts

Init ==
    /\ file \in Files \cup {NoFile}
    /\ used = {file}
    /\ lastStaticHash = 0
    /\ hash = 0
    /\ docs = <<>>
    /\ pc = "idle"
    /\ cluster = [o \in Objects |-> NoObject]
    /\ faults = 0
    /\ restarts = 0

------------------------------------------------------------------------------
\* Users put a new file in place, or take it away.
ChangeFile(c) ==
    /\ c # file
    /\ Reverts \/ c \notin used
    /\ file' = c
    /\ used' = used \cup {c}
    /\ UNCHANGED <<lastStaticHash, hash, docs, pc, cluster, faults, restarts>>

Return == pc' = "idle" /\ hash' = 0 /\ docs' = <<>>

Fault == faults < MaxFaults /\ faults' = faults + 1

\* handleStaticResource up to the comparison of the hashes.  Without a file
\* the hash 0 is stored.
Handle ==
    /\ pc = "idle"
    /\ IF file = NoFile
       THEN /\ lastStaticHash' = 0
            /\ UNCHANGED <<hash, docs, pc>>
       ELSE IF lastStaticHash = Sum64[file]
       THEN UNCHANGED <<lastStaticHash, hash, docs, pc>>
       ELSE /\ hash' = Sum64[file]
            /\ docs' = Docs[file]
            /\ pc' = "apply"
            /\ UNCHANGED lastStaticHash
    /\ UNCHANGED <<file, used, cluster, faults, restarts>>

\* The file cannot be opened or read: an error, nothing is stored.
ReadFails ==
    /\ pc = "idle"
    /\ file # NoFile
    /\ Fault
    /\ UNCHANGED <<file, used, lastStaticHash, hash, docs, pc, cluster, restarts>>

\* The next document is applied.
Patch ==
    /\ pc = "apply"
    /\ docs # <<>>
    /\ Head(docs) # Bad
    /\ cluster' = [cluster EXCEPT ![Head(docs).obj] = Head(docs).spec]
    /\ docs' = Tail(docs)
    /\ UNCHANGED <<file, used, lastStaticHash, hash, pc, faults, restarts>>

\* A plausible slip: the hash is stored although there was an error.
UndecodableStores ==
    /\ pc = "apply"
    /\ docs # <<>>
    /\ Head(docs) = Bad
    /\ lastStaticHash' = hash
    /\ Return
    /\ UNCHANGED <<file, used, cluster, faults, restarts>>

\* The next document cannot be decoded: an error, nothing is stored.
Undecodable ==
    /\ pc = "apply"
    /\ docs # <<>>
    /\ Head(docs) = Bad
    /\ Return
    /\ UNCHANGED <<file, used, lastStaticHash, cluster, faults, restarts>>

\* The server does not answer the patch, which it may have applied.
PatchFails ==
    /\ pc = "apply"
    /\ docs # <<>>
    /\ Head(docs) # Bad
    /\ Fault
    /\ \/ UNCHANGED cluster
       \/ cluster' = [cluster EXCEPT ![Head(docs).obj] = Head(docs).spec]
    /\ Return
    /\ UNCHANGED <<file, used, lastStaticHash, restarts>>

\* The context given to Start is cancelled: the next patch is not sent.
PatchAborts ==
    /\ pc = "apply"
    /\ docs # <<>>
    /\ Head(docs) # Bad
    /\ Return
    /\ UNCHANGED <<file, used, lastStaticHash, cluster, faults, restarts>>

\* All documents are applied: the hash is stored.
Store ==
    /\ pc = "apply"
    /\ docs = <<>>
    /\ lastStaticHash' = hash
    /\ Return
    /\ UNCHANGED <<file, used, cluster, faults, restarts>>

\* The process is restarted, at any point.
Restart ==
    /\ restarts < MaxRestarts
    /\ restarts' = restarts + 1
    /\ lastStaticHash' = 0
    /\ Return
    /\ UNCHANGED <<file, used, cluster, faults>>

Next ==
    \/ \E c \in Files \cup {NoFile} : ChangeFile(c)
    \/ Handle \/ ReadFails \/ Patch \/ Undecodable \/ PatchFails \/ PatchAborts \/ Store
    \/ Restart

Spec == Init /\ [][Next]_vars

------------------------------------------------------------------------------
Decodes(c) == c # NoFile /\ Bad \notin Range(Docs[c])

\* The cluster is as a content says: of several documents for an object the
\* last one counts.
IsApplied(c) ==
    \A i \in DOMAIN Docs[c] :
        (\A j \in DOMAIN Docs[c] : j > i => Docs[c][j].obj # Docs[c][i].obj) =>
            cluster[Docs[c][i].obj] = Docs[c][i].spec

(***************************************************************************)
(* bootstrap/resource.go:66: when the hash stored is that of the file      *)
(* there are "no changes since last apply": the cluster is as the file     *)
(* says, and the handler may skip it.  It is so as long as the file does   *)
(* not return to an earlier content, whatever fails and whenever the       *)
(* process restarts.                                                       *)
(***************************************************************************)
SkipIsSafe ==
    pc = "idle" /\ file # NoFile =>
        (lastStaticHash = Sum64[file] => Decodes(file) /\ IsApplied(file))
==============================================================================
