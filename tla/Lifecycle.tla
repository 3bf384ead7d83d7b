----------------------------- MODULE Lifecycle -----------------------------
(***************************************************************************)
(* Who ends the storages of one component type, and in which order:        *)
(* singleton, storage<Type, true>, manager and timemory_finalize.          *)
(*                                                                         *)
(* The main thread built the master storage before any other thread could  *)
(* use it (singleton::initialize, from a static initialiser).  A worker's  *)
(* first measurement constructs its own, registers it with its manager,    *)
(* with the main manager's synchronisation callbacks and with the master   *)
(* storage.  A thread that ends destroys its storage through its manager   *)
(* unless the settings say finalized; finalization by the main thread      *)
(* merges the children, prints and deletes the master storage, and only    *)
(* then sets that flag.  The deleter of the singleton does nothing, so its *)
(* pointer to the master storage dangles from then on.                     *)
(*                                                                         *)
(* A merge is one step here and a record one element (CallGraph has the    *)
(* steps of a merge and what happens to the nodes).                        *)
(***************************************************************************)
EXTENDS Naturals

CONSTANTS
  Leader,      \* the main thread
  Followers,   \* the other threads
  NoThread,
  MaxRecords   \* bound: measurements a thread makes

ASSUME LifecycleAssumption ==
  /\ Leader \notin Followers /\ NoThread \notin Followers \cup {Leader}
  /\ MaxRecords \in Nat

Storers == Followers \cup {Leader}

VARIABLES
  stage,        \* stage[t]: where t is in a measurement, its end or finalization
  storage,      \* storage[t]: "none", "live" or "deleted"
  held,         \* held[t]: the records in t's graph, as <<thread, number>>
  pushed,       \* pushed[t]: measurements t made
  registered,   \* the threads whose manager has their storage as a finalizer
  callbacks,    \* m_synchronize of the main manager: whose storage is called
  children,     \* m_children of the master storage
  unmerged,     \* the children the master storage has still to merge
  merging,      \* owner of the singleton's mutex
  enabled,      \* trait::runtime_enabled
  finalizing,   \* master_is_finalizing()
  finalized,    \* settings: finalized
  printed,      \* the records in the output
  early,        \* history: records that existed when finalization began
  overlapping,  \* history: workers that were in a measurement or an end, or
                \* began one, while the main thread finalized
  misused       \* history: threads that used the deleted master storage, or
                \* the main thread when it used a deleted child

flags == <<enabled, finalizing, finalized>>
ends == <<early, overlapping, misused>>
lifeVars == <<stage, storage, held, pushed, registered, callbacks, children, unmerged,
              merging, flags, printed, ends>>

LifeInit ==
  /\ stage = [t \in Storers |-> "running"]
  /\ storage = [t \in Storers |-> IF t = Leader THEN "live" ELSE "none"]
  /\ held = [t \in Storers |-> {}]
  /\ pushed = [t \in Storers |-> 0]
  /\ registered = {Leader}
  /\ callbacks = {} /\ children = {} /\ unmerged = {}
  /\ merging = NoThread
  /\ enabled = TRUE /\ finalizing = FALSE /\ finalized = FALSE
  /\ printed = {} /\ early = {} /\ overlapping = {} /\ misused = {}

Goes(t, from, to) == stage[t] = from /\ stage' = [stage EXCEPT ![t] = to]

\* merge() holds the mutex of the master storage over its whole loop.
MasterUnlocked == stage[Leader] \notin {"walking", "merging child"}

InWindow == stage[Leader] \notin {"running", "over"}

\* t is about to rely on a flag it has just read.
Relies(t) ==
  overlapping' = IF InWindow THEN overlapping \cup {t} ELSE overlapping

\* t follows a pointer to s's storage.
Uses(t, s) ==
  misused' = IF storage[s] = "deleted" THEN misused \cup {t} ELSE misused

(***************************************************************************)
(* A measurement.                                                          *)
(***************************************************************************)

\* runtime_enabled is tested once, before the storage is looked for.
Enter(t) ==
  /\ enabled /\ pushed[t] < MaxRecords
  /\ Goes(t, "running", "entering")
  /\ Relies(t)
  /\ UNCHANGED <<storage, held, pushed, registered, callbacks, children, unmerged,
                 merging, flags, printed, early, misused>>

\* The constructor of a worker's storage copies the names the master knows and
\* registers itself, but not while the master finalizes.
Construct(t) ==
  /\ storage[t] = "none"
  /\ Goes(t, "entering", "joining")
  /\ storage' = [storage EXCEPT ![t] = "live"]
  /\ IF finalizing THEN UNCHANGED <<registered, callbacks>>
                   ELSE /\ registered' = registered \cup {t}
                        /\ callbacks' = callbacks \cup {t}
  /\ Uses(t, Leader)
  /\ UNCHANGED <<held, pushed, children, unmerged, merging, flags, printed, early,
                 overlapping>>

\* It ends with add_child, under the mutex of the master storage.
AddChild(t) ==
  /\ MasterUnlocked
  /\ Goes(t, "joining", "entering")
  /\ children' = children \cup {t}
  /\ Uses(t, Leader)
  /\ UNCHANGED <<storage, held, pushed, registered, callbacks, unmerged, merging, flags,
                 printed, early, overlapping>>

\* The record; a worker at sea level looks at the master's graph for a bookmark.
Measure(t) ==
  /\ storage[t] = "live"
  /\ Goes(t, "entering", "running")
  /\ pushed' = [pushed EXCEPT ![t] = @ + 1]
  /\ held' = [held EXCEPT ![t] = @ \cup {<<t, pushed'[t]>>}]
  /\ Uses(t, Leader)
  /\ UNCHANGED <<storage, registered, callbacks, children, unmerged, merging, flags,
                 printed, early, overlapping>>

(***************************************************************************)
(* The end of a worker: the destructor in manager::instance, then the      *)
(* manager's own.                                                          *)
(***************************************************************************)

\* Mutant: the flag is not looked at.
RetireUnchecked(t) ==
  /\ Goes(t, "running", IF t \in registered THEN "ending" ELSE "gone")
  /\ Relies(t)
  /\ UNCHANGED <<storage, held, pushed, registered, callbacks, children, unmerged,
                 merging, flags, printed, early, misused>>

\* Once the settings are finalized the manager goes without its finalizers: the
\* storage stays where it is.
Retire(t) ==
  /\ Goes(t, "running", IF t \in registered /\ ~finalized THEN "ending" ELSE "gone")
  /\ Relies(t)
  /\ UNCHANGED <<storage, held, pushed, registered, callbacks, children, unmerged,
                 merging, flags, printed, early, misused>>

\* Mutant: the callback stays with the main manager.
DestroyKeepingCallback(t) ==
  /\ Goes(t, "ending", "waiting")
  /\ UNCHANGED <<storage, held, pushed, registered, callbacks, children, unmerged,
                 merging, flags, printed, ends>>

\* Mutant: the child leaves its parent before its records are merged.
DestroyLeavingFirst(t) ==
  /\ MasterUnlocked
  /\ Goes(t, "ending", "waiting")
  /\ callbacks' = callbacks \ {t}
  /\ children' = children \ {t}
  /\ UNCHANGED <<storage, held, pushed, registered, unmerged, merging, flags,
                 printed, ends>>

\* destroy(): first the synchronisation callback is removed ...
Destroy(t) ==
  /\ Goes(t, "ending", "waiting")
  /\ callbacks' = callbacks \ {t}
  /\ UNCHANGED <<storage, held, pushed, registered, children, unmerged, merging,
                 flags, printed, ends>>

Acquire(t, from, to) ==
  /\ merging = NoThread
  /\ Goes(t, from, to)
  /\ merging' = t
  /\ UNCHANGED <<storage, held, pushed, registered, callbacks, children, unmerged,
                 flags, printed, ends>>

\* The records of s go to the master's graph.
Absorbed(s) == [held EXCEPT ![Leader] = @ \cup held[s], ![s] = {}]

\* Mutant: the return for an empty graph keeps the mutex.
MergeOwnKeepingLock(t) ==
  /\ Goes(t, "merging", "leaving")
  /\ held' = Absorbed(t)
  /\ IF held[t] = {} THEN UNCHANGED <<merging, misused>>
                     ELSE merging' = NoThread /\ Uses(t, Leader)
  /\ UNCHANGED <<storage, pushed, registered, callbacks, children, unmerged, flags,
                 printed, early, overlapping>>

\* ... then its records are merged into the master, which is not looked at when
\* there are none.
MergeOwn(t) ==
  /\ Goes(t, "merging", "leaving")
  /\ merging' = NoThread
  /\ held' = Absorbed(t)
  /\ IF held[t] = {} THEN UNCHANGED misused ELSE Uses(t, Leader)
  /\ UNCHANGED <<storage, pushed, registered, callbacks, children, unmerged, flags,
                 printed, early, overlapping>>

\* The manager deletes the storage: the destructor finds nothing more to merge,
\* leaves the master storage (under its mutex) and frees the graph.
Leave(t) ==
  /\ MasterUnlocked
  /\ Goes(t, "leaving", "gone")
  /\ children' = children \ {t}
  /\ Uses(t, Leader)
  /\ storage' = [storage EXCEPT ![t] = "deleted"]
  /\ registered' = registered \ {t}
  /\ UNCHANGED <<held, pushed, callbacks, unmerged, merging, flags, printed, early,
                 overlapping>>

(***************************************************************************)
(* Finalization by the main thread, by call or at its end.                 *)
(***************************************************************************)

\* timemory_finalize, manager::finalize: the master storage is destroyed.
BeginFinalize ==
  /\ Goes(Leader, "running", "finalizing")
  /\ early' = UNION {held[t] : t \in Storers}
  /\ overlapping' = {t \in Followers : stage[t] \notin {"running", "gone"}}
  /\ UNCHANGED <<storage, held, pushed, registered, callbacks, children, unmerged,
                 merging, flags, printed, misused>>

\* merge(): the children are copied and merged one by one, in any order (a set
\* of pointers).
BeginWalk ==
  /\ Goes(Leader, "finalizing", "walking")
  /\ unmerged' = children
  /\ UNCHANGED <<storage, held, pushed, registered, callbacks, children, merging,
                 flags, printed, ends>>

MergeChild == \E s \in unmerged :
  /\ Goes(Leader, "merging child", "walking")
  /\ unmerged' = unmerged \ {s}
  /\ merging' = NoThread
  /\ held' = Absorbed(s)
  /\ Uses(Leader, s)
  /\ UNCHANGED <<storage, pushed, registered, callbacks, children, flags, printed,
                 early, overlapping>>

\* storage::finalize.
EndWalk ==
  /\ unmerged = {}
  /\ Goes(Leader, "walking", "printing")
  /\ finalizing' = TRUE
  /\ UNCHANGED <<storage, held, pushed, registered, callbacks, children, unmerged,
                 merging, enabled, finalized, printed, ends>>

Output ==
  /\ Goes(Leader, "printing", "disabling")
  /\ printed' = held[Leader]
  /\ UNCHANGED <<storage, held, pushed, registered, callbacks, children, unmerged,
                 merging, flags, ends>>

Disable ==
  /\ Goes(Leader, "disabling", "deleting")
  /\ enabled' = FALSE
  /\ UNCHANGED <<storage, held, pushed, registered, callbacks, children, unmerged,
                 merging, finalizing, finalized, printed, ends>>

DeleteMaster ==
  /\ Goes(Leader, "deleting", "returning")
  /\ storage' = [storage EXCEPT ![Leader] = "deleted"]
  /\ held' = [held EXCEPT ![Leader] = {}]
  /\ registered' = registered \ {Leader}
  /\ UNCHANGED <<pushed, callbacks, children, unmerged, merging, flags, printed, ends>>

SetFinalized ==
  /\ Goes(Leader, "returning", "over")
  /\ finalized' = TRUE
  /\ UNCHANGED <<storage, held, pushed, registered, callbacks, children, unmerged,
                 merging, enabled, finalizing, printed, ends>>
-----------------------------------------------------------------------------
MeasureStep(t) ==
  \/ Enter(t) \/ Measure(t)
  \/ t # Leader /\ (Construct(t) \/ AddChild(t))

EndStep(t) == Destroy(t) \/ Acquire(t, "waiting", "merging") \/ MergeOwn(t) \/ Leave(t)

FinalizeStep ==
  \/ BeginWalk
  \/ unmerged # {} /\ Acquire(Leader, "walking", "merging child")
  \/ MergeChild \/ EndWalk \/ Output \/ Disable \/ DeleteMaster \/ SetFinalized

LifeNext ==
  \/ \E t \in Storers : MeasureStep(t)
  \/ \E t \in Followers : Retire(t) \/ EndStep(t)
  \/ BeginFinalize \/ FinalizeStep

\* A thread that has begun to end, or to finalize, goes on with it.
LifeFairness == WF_lifeVars(FinalizeStep) /\ \A t \in Followers : WF_lifeVars(EndStep(t))

LifeSpec == LifeInit /\ [][LifeNext]_lifeVars /\ LifeFairness
-----------------------------------------------------------------------------
(* Properties.                                                             *)

\* Every record that existed when finalization began is in the output, even when
\* workers end meanwhile: a child leaves only after its merge, and the walk over
\* the children keeps it from leaving.  (internal_print, destroy, ~storage)
EarlierArePrinted ==
  stage[Leader] \in {"disabling", "deleting", "returning", "over"} => early \subseteq printed

\* Only a worker that was inside a measurement or its end at some moment of the
\* finalization can follow the singleton's dangling pointer, and the main thread
\* never merges a deleted child.  A worker that measures or ends later is turned
\* away by runtime_enabled or by the finalized flag.
OnlyOverlappingMisuse == misused \subseteq overlapping

\* A callback of manager::synchronize belongs to a storage that still exists,
\* whatever threads have ended.
CallbacksLive == \A t \in callbacks : storage[t] = "live"

\* Every end of a thread, and the finalization, is completed: the mutex of the
\* master storage and that of the singleton are never waited for in a circle.
InEnd(t) == stage[t] \notin {"running", "entering", "joining", "gone", "over"}
EndsComplete == (\E t \in Storers : InEnd(t)) ~> (\A t \in Storers : ~InEnd(t))
=============================================================================
