---------------------------- MODULE CompileLoop ----------------------------
(* The controller's compilation loop (portus-controller/src/compiler.rs) and *)
(* how reconcilers wake it (store.rs: insert_and_notify, remove_and_notify,  *)
(* notify_change, take_dirty).  Reconcilers write the store's maps one key   *)
(* at a time and from many threads; the loop sleeps on a Notify that keeps   *)
(* at most one permit, takes the dirty flag, and reads the maps while        *)
(* writers go on.  Nothing but a notification ever wakes it.                 *)
EXTENDS Naturals

CONSTANTS
  Keys,       \* store entries, each written by its own reconciler
  Values,     \* what an entry may hold
  Absent,     \* the entry does not exist
  MaxWrites,  \* bound: store writes
  MaxPanics   \* bound: compilations that panic

ASSUME CompileAssumption == MaxWrites \in Nat /\ MaxPanics \in Nat

VARIABLES
  store,      \* the ConfigStore's maps
  dirty,      \* ConfigStore::dirty
  permit,     \* the permit stored in change_notify
  writer,     \* writer[k]: where the reconciler of k is
  loop,       \* where the compilation loop is
  read,       \* keys compile_config has read in this iteration
  view,       \* what it has read
  published,  \* content of the watch channel
  version,    \* generation of the published config; 0: none yet
  lost,       \* history: the last compilation panicked
  writes, panics

loopVars == <<store, dirty, permit, writer, loop, read, view, published, version, writes, panics, lost>>

Entry == Values \cup {Absent}

LoopTypeOK ==
  /\ store \in [Keys -> Entry]
  /\ dirty \in BOOLEAN /\ permit \in BOOLEAN
  /\ writer \in [Keys -> {"idle", "written", "marked"}]
  /\ loop \in {"waiting", "awake", "compiling"}
  /\ read \in SUBSET Keys
  /\ view \in [Keys -> Entry]
  /\ published \in [Keys -> Entry]
  /\ lost \in BOOLEAN
  /\ version \in Nat /\ writes \in Nat /\ panics \in Nat

\* The flag starts up without a permit: the first compilation is the first
\* write's.
LoopInit ==
  /\ store = [k \in Keys |-> Absent]
  /\ dirty = TRUE /\ permit = FALSE
  /\ writer = [k \in Keys |-> "idle"]
  /\ loop = "waiting"
  /\ read = {}
  /\ view = [k \in Keys |-> Absent]
  /\ published = [k \in Keys |-> Absent]
  /\ lost = FALSE
  /\ version = 0 /\ writes = 0 /\ panics = 0

----------------------------------------------------------------------------
(* Reconcilers *)

\* insert_and_notify / remove_and_notify: an unchanged value stops here.
Write(k, v) ==
  /\ writer[k] = "idle" /\ writes < MaxWrites
  /\ store[k] # v
  /\ store' = [store EXCEPT ![k] = v]
  /\ writer' = [writer EXCEPT ![k] = "written"]
  /\ writes' = writes + 1
  /\ UNCHANGED <<dirty, permit, loop, read, view, published, version, panics, lost>>

\* Mutant: the flag's store left out.
MarkNothing(k) ==
  /\ writer[k] = "written"
  /\ writer' = [writer EXCEPT ![k] = "marked"]
  /\ UNCHANGED <<store, dirty, permit, loop, read, view, published, version, writes, panics, lost>>

\* notify_change: the flag ...
MarkDirty(k) ==
  /\ writer[k] = "written"
  /\ dirty' = TRUE
  /\ writer' = [writer EXCEPT ![k] = "marked"]
  /\ UNCHANGED <<store, permit, loop, read, view, published, version, writes, panics, lost>>

\* ... then notify_one, which leaves a permit when the loop is not waiting
\* and lets it go on when it is.
NotifyOne(k) ==
  /\ writer[k] = "marked"
  /\ permit' = TRUE
  /\ writer' = [writer EXCEPT ![k] = "idle"]
  /\ UNCHANGED <<store, dirty, loop, read, view, published, version, writes, panics, lost>>

----------------------------------------------------------------------------
(* The loop *)

\* notified().await, at the top and in the debounce: consume the permit.
Notified ==
  /\ loop \in {"waiting", "awake"} /\ permit
  /\ permit' = FALSE
  /\ loop' = "awake"
  /\ UNCHANGED <<store, dirty, writer, read, view, published, version, writes, panics, lost>>

\* Quiet for COMPILE_QUIET, or COMPILE_DEBOUNCE over: take_dirty.
TakeDirty ==
  /\ loop = "awake"
  /\ dirty' = FALSE
  /\ loop' = IF dirty THEN "compiling" ELSE "waiting"
  /\ lost' = (lost /\ ~dirty)
  /\ read' = {}
  /\ UNCHANGED <<store, permit, writer, view, published, version, writes, panics>>

\* compile_config reads one entry.
ReadEntry(k) ==
  /\ loop = "compiling" /\ k \notin read
  /\ view' = [view EXCEPT ![k] = store[k]]
  /\ read' = read \cup {k}
  /\ UNCHANGED <<store, dirty, permit, writer, loop, published, version, writes, panics, lost>>

\* Mutant: a compilation overtaken by a change waits for the flag to go down,
\* which nobody but the loop itself takes down.
PublishClean ==
  /\ loop = "compiling" /\ read = Keys /\ ~dirty
  /\ published' = view
  /\ version' = version + 1
  /\ loop' = "waiting"
  /\ UNCHANGED <<store, dirty, permit, writer, read, view, writes, panics, lost>>

\* The compiled config goes out, unless it is the one that is out already.
PublishCompiled ==
  /\ loop = "compiling" /\ read = Keys
  /\ IF view = published /\ version > 0
     THEN UNCHANGED <<published, version>>
     ELSE published' = view /\ version' = version + 1
  /\ loop' = "waiting"
  /\ UNCHANGED <<store, dirty, permit, writer, read, view, writes, panics, lost>>

\* compile_config panics: the last good config stays out, the flag is spent.
Panic ==
  /\ loop = "compiling" /\ panics < MaxPanics
  /\ panics' = panics + 1
  /\ lost' = TRUE
  /\ loop' = "waiting"
  /\ UNCHANGED <<store, dirty, permit, writer, read, view, published, version, writes>>

Finish(k) == MarkDirty(k) \/ NotifyOne(k)
Iterate == Notified \/ TakeDirty \/ PublishCompiled \/ \E k \in Keys : ReadEntry(k)

LoopNext ==
  \/ \E k \in Keys : Finish(k) \/ \E v \in Entry : Write(k, v)
  \/ Iterate
  \/ Panic

\* A reconciler finishes the call it is in and the loop is polled; nobody has
\* to write.
LoopFairness == WF_loopVars(Iterate) /\ \A k \in Keys : WF_loopVars(Finish(k))

LoopSpec == LoopInit /\ [][LoopNext]_loopVars /\ LoopFairness

----------------------------------------------------------------------------
(* Properties *)

\* A change to k that is not out yet is on its way: its writer is about to
\* raise the flag, the flag is up and the loop will look at it, or the
\* compilation under way has read it or still will.
OnItsWay(k) ==
  \/ writer[k] = "written"
  \/ dirty /\ (permit \/ loop = "awake" \/ \E j \in Keys : writer[j] = "marked")
  \/ loop = "compiling" /\ (k \notin read \/ view[k] = store[k])

\* No wakeup is lost: between a writer's three steps and the loop's, in any
\* order, no change is left that nothing will publish.  A compilation that
\* panics spends the flag; the next write makes up for all it missed.
NoLostChange == ~lost => \A k \in Keys : store[k] # published[k] => OnItsWay(k)

\* When writes stop, the published config becomes and stays the store's
\* content, torn reads included, unless the last compilation panicked.
CatchesUp == <>[](lost \/ published = store)
=============================================================================
