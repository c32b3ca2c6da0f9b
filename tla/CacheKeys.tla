------------------------------ MODULE CacheKeys ------------------------------
(***************************************************************************)
(* The keys of caches and work queues (cachekeys/keys.go).  A key is the   *)
(* standard namespace/name of an object annotated with the GVR (the group, *)
(* version and resource) of its type.  Names stands for namespace/name     *)
(* pairs; NoGVR marks a key without the "gvr::" prefix.                    *)
(***************************************************************************)
CONSTANTS GVRs, Names, NoGVR

ASSUME NoGVRAssumption == NoGVR \notin GVRs

Key == [gvr : GVRs \cup {NoGVR}, name : Names]

(***************************************************************************)
(* What an informer's event handler is given: an object, or the tombstone  *)
(* (cache.DeletedFinalStateUnknown) that replaces it when the watch missed *)
(* the deletion.  A tombstone carries the key of the informer's own store, *)
(* which is namespace/name.                                                *)
(***************************************************************************)
Notification == [gvr : GVRs, name : Names, tombstone : BOOLEAN]

GVRMetaNamespaceKeyer(gvr, name) == [gvr |-> gvr, name |-> name]

GVRMetaNamespaceKeyFunc(obj) ==
    IF obj.tombstone THEN [gvr |-> NoGVR, name |-> obj.name]
                     ELSE GVRMetaNamespaceKeyer(obj.gvr, obj.name)

\* SplitGVRMetaNamespaceKey returns no error: the key has its "gvr::" prefix.
SplitGVRMetaNamespaceKey(key) == key.gvr # NoGVR

\* The key under which the object behind a notification is reconciled.
ObjectKey(obj) == GVRMetaNamespaceKeyer(obj.gvr, obj.name)
==============================================================================
