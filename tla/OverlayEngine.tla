---------------------------- MODULE OverlayEngine ----------------------------
(***************************************************************************)
(* The caches of src/src/engine/overlay.rs: ensure_base_image, which       *)
(* downloads and unpacks a base image in place, and ensure_overlay, which  *)
(* installs packages in a sandbox and moves the result into place.  Both   *)
(* use the same protocol, a map from the key to a tokio Notify, to let one *)
(* caller build what the others wait for.                                  *)
(*                                                                         *)
(* A Notify is named by the caller that created it.  A caller makes one    *)
(* call.  The two lock maps are one, their keys being disjoint.            *)
(***************************************************************************)
EXTENDS Naturals

CONSTANTS
  Callers,  \* tasks of spawn_replica
  Bases,    \* base image names
  Layers,   \* overlay hashes
  Faults,   \* the steps of a build that may fail
  None      \* no Notify, no key

Keys == Bases \cup Layers

ASSUME OverlayAssumption ==
  /\ None \notin Callers
  /\ None \notin Keys
  /\ Bases \cap Layers = {}

VARIABLES
  pc,     \* Callers -> where the call is
  key,    \* Callers -> what the call is for
  joined, \* Callers -> the Notify the caller cloned from the map
  locks,  \* Keys -> the Notify in the map, or None
  store   \* Keys -> what is on disk under the key

vars == <<pc, key, joined, locks, store>>

\* A directory that does not exist, is empty, holds the manifest of BaseList and
\* nothing else, is being filled, is complete, or is a complete one with a
\* second copy inside; "remains" is a half filled one nobody fills any more:
\* left by a daemon that was killed, a removal or a copy that failed.
Content == {"missing", "empty", "listed", "partial", "complete", "nested", "remains"}

\* What the first check takes for cached, and what a woken waiter accepts: for
\* a layer both ask whether it exists, for an image the first one also asks
\* that it not be empty.
Cached(k) == store[k] \notin {"missing", "empty"}
Exists(k) == store[k] # "missing"

BuildPC == {"build", "fetch", "extract", "extracting", "persist", "copying"}
HolderPC == BuildPC \cup {"built", "broken"}
PC == HolderPC \cup {"idle", "lookup", "lock", "holding", "waiting", "woken",
                     "ok", "failed"}

Goto(c, from, to) == pc[c] = from /\ pc' = [pc EXCEPT ![c] = to]
SetStore(k, s) == store' = [store EXCEPT ![k] = s]
MayFail(step) == step \in Faults

\* What a daemon finds on disk, its predecessor having been killed at any point.
Found(k) ==
  {"missing", "complete"} \cup
  IF ~MayFail("crash") THEN {}
  ELSE IF k \in Bases THEN {"empty", "listed", "remains"}
  ELSE {"nested"} \cup (IF MayFail("rename") THEN {"remains"} ELSE {})

Init ==
  /\ pc = [c \in Callers |-> "idle"]
  /\ key = [c \in Callers |-> None]
  /\ joined = [c \in Callers |-> None]
  /\ locks = [k \in Keys |-> None]
  /\ store \in [Keys -> Content]
  /\ \A k \in Keys : store[k] \in Found(k)

-----------------------------------------------------------------------------
(* The protocol around a build. *)

Call(c, k) ==
  /\ Goto(c, "idle", "lookup")
  /\ key' = [key EXCEPT ![c] = k]
  /\ UNCHANGED <<joined, locks, store>>

\* The first check, made without the lock and never repeated.
Lookup(c) ==
  /\ pc[c] = "lookup"
  /\ pc' = [pc EXCEPT ![c] = IF Cached(key[c]) THEN "ok" ELSE "lock"]
  /\ UNCHANGED <<key, joined, locks, store>>

\* Variant: the map is not asked.
AcquireAnyway(c) ==
  /\ Goto(c, "lock", "build")
  /\ locks' = [locks EXCEPT ![key[c]] = c]
  /\ UNCHANGED <<key, joined, store>>

Acquire(c) ==
  /\ Goto(c, "lock", "build")
  /\ locks[key[c]] = None
  /\ locks' = [locks EXCEPT ![key[c]] = c]
  /\ UNCHANGED <<key, joined, store>>

\* The lock on the map is released with the Notify cloned ...
Join(c) ==
  /\ Goto(c, "lock", "holding")
  /\ locks[key[c]] # None
  /\ joined' = [joined EXCEPT ![c] = locks[key[c]]]
  /\ UNCHANGED <<key, locks, store>>

\* ... and only then is its notified() future created: notify_waiters wakes
\* the futures that exist, and stores no permit.
Await(c) ==
  /\ Goto(c, "holding", "waiting")
  /\ UNCHANGED <<key, joined, locks, store>>

\* The builder takes its Notify out of the map and wakes those who wait on it,
\* whether the build succeeded or not.
Release(c) ==
  /\ pc[c] \in {"built", "broken"}
  /\ pc' = [d \in Callers |->
              IF d = c THEN IF pc[c] = "built" THEN "ok" ELSE "failed"
              ELSE IF pc[d] = "waiting" /\ joined[d] = locks[key[c]]
                   THEN "woken" ELSE pc[d]]
  /\ locks' = [locks EXCEPT ![key[c]] = None]
  /\ UNCHANGED <<key, joined, store>>

\* Variant: a waiter that finds nothing tries again.
RecheckAndRetry(c) ==
  /\ pc[c] = "woken"
  /\ pc' = [pc EXCEPT ![c] = IF Exists(key[c]) THEN "ok" ELSE "retry"]
  /\ UNCHANGED <<key, joined, locks, store>>

\* A woken waiter only asks whether the directory exists.
Recheck(c) ==
  /\ pc[c] = "woken"
  /\ pc' = [pc EXCEPT ![c] = IF Exists(key[c]) THEN "ok" ELSE "failed"]
  /\ UNCHANGED <<key, joined, locks, store>>

-----------------------------------------------------------------------------
(* The blocking part of ensure_base_image. *)

\* What a removal that failed half-way has left, or BaseList has added to
\* meanwhile.
Leftovers(k) ==
  {"empty", "listed"} \cup
  IF store[k] \in {"empty", "listed"} THEN {}
  ELSE {"remains"} \cup ({store[k]} \ {"partial"})

\* remove_dir_all, whose failure is ignored.
RemoveImage(k) ==
  \/ SetStore(k, "missing")
  \/ MayFail("remove") /\ \E s \in Leftovers(k) : SetStore(k, s)

CreateImageDir(c) ==
  LET k == key[c]
  IN /\ Goto(c, "build", "fetch")
     /\ k \in Bases
     /\ SetStore(k, IF store[k] = "missing" THEN "empty" ELSE store[k])
     /\ UNCHANGED <<key, joined, locks>>

\* curl: a bad exit removes the directory; an unsupported image or a curl that
\* cannot be spawned leaves it as it is.
Fetch(c) ==
  LET k == key[c]
  IN /\ \/ Goto(c, "fetch", "extract") /\ UNCHANGED store
        \/ MayFail("curl") /\ Goto(c, "fetch", "broken") /\ RemoveImage(k)
        \/ MayFail("spawn") /\ Goto(c, "fetch", "broken") /\ UNCHANGED store
     /\ UNCHANGED <<key, joined, locks>>

\* tar unpacks into the directory callers look at; a tar that cannot be spawned
\* leaves it as it is.
StartExtract(c) ==
  LET k == key[c]
  IN /\ \/ Goto(c, "extract", "extracting") /\ SetStore(k, "partial")
        \/ MayFail("spawn") /\ Goto(c, "extract", "broken") /\ UNCHANGED store
     /\ UNCHANGED <<key, joined, locks>>

\* Variant: the directory is only removed when curl fails.
FinishExtractKeeps(c) ==
  LET k == key[c]
  IN /\ \/ Goto(c, "extracting", "built") /\ SetStore(k, "complete")
        \/ MayFail("tar") /\ Goto(c, "extracting", "broken") /\ UNCHANGED store
     /\ UNCHANGED <<key, joined, locks>>

FinishExtract(c) ==
  LET k == key[c]
  IN /\ \/ Goto(c, "extracting", "built") /\ SetStore(k, "complete")
        \/ MayFail("tar") /\ Goto(c, "extracting", "broken") /\ RemoveImage(k)
     /\ UNCHANGED <<key, joined, locks>>

\* BaseList and BaseInspect of the daemon write base_manifest.json into every
\* image directory without one, whoever is filling it.
BaseList(k) ==
  /\ k \in Bases
  /\ store[k] = "empty"
  /\ SetStore(k, "listed")
  /\ UNCHANGED <<pc, key, joined, locks>>

-----------------------------------------------------------------------------
(* build_ephemeral_sandbox. *)

\* Variant: a failing build returns at once, with its Notify in the map.
InstallReturns(c) ==
  /\ key[c] \in Layers
  /\ \/ Goto(c, "build", "persist")
     \/ MayFail("install") /\ Goto(c, "build", "failed")
  /\ UNCHANGED <<key, joined, locks, store>>

\* Everything up to the end of the package manager happens in a build root.
Install(c) ==
  /\ key[c] \in Layers
  /\ \/ Goto(c, "build", "persist")
     \/ MayFail("install") /\ Goto(c, "build", "broken")
  /\ UNCHANGED <<key, joined, locks, store>>

\* Variant: the layer is always copied into place.
RenameByCopy(c) ==
  LET k == key[c]
  IN /\ Goto(c, "persist", "copying")
     /\ store[k] = "missing"
     /\ SetStore(k, "partial")
     /\ UNCHANGED <<key, joined, locks>>

\* rename onto nothing is atomic; onto a layer that is there it fails.
Rename(c) ==
  LET k == key[c]
  IN /\ Goto(c, "persist", "built")
     /\ store[k] = "missing"
     /\ SetStore(k, "complete")
     /\ UNCHANGED <<key, joined, locks>>

\* Variant: the fall-back removes what is there before it copies.
ReplaceByCopy(c) ==
  LET k == key[c]
  IN /\ Goto(c, "persist", "copying")
     /\ store[k] # "missing" \/ MayFail("rename")
     /\ SetStore(k, "partial")
     /\ UNCHANGED <<key, joined, locks>>

\* The fall-back, cp -a: into a layer that exists it copies a second one.
StartCopy(c) ==
  LET k == key[c]
  IN /\ Goto(c, "persist", "copying")
     /\ store[k] # "missing" \/ MayFail("rename")
     /\ SetStore(k, CASE store[k] = "missing" -> "partial"
                      [] store[k] = "complete" -> "nested"
                      [] OTHER -> store[k])
     /\ UNCHANGED <<key, joined, locks>>

\* A copy that fails leaves what it has copied.
FinishCopy(c) ==
  LET k == key[c]
      Ends(s) == SetStore(k, IF store[k] = "partial" THEN s ELSE store[k])
  IN /\ \/ Goto(c, "copying", "built") /\ Ends("complete")
        \/ MayFail("cp") /\ Goto(c, "copying", "broken") /\ Ends("remains")
     /\ UNCHANGED <<key, joined, locks>>

-----------------------------------------------------------------------------
Step(c) ==
  \/ Lookup(c)
  \/ Acquire(c)
  \/ Join(c)
  \/ Await(c)
  \/ Release(c)
  \/ Recheck(c)
  \/ CreateImageDir(c)
  \/ Fetch(c)
  \/ StartExtract(c)
  \/ FinishExtract(c)
  \/ Install(c)
  \/ Rename(c)
  \/ StartCopy(c)
  \/ FinishCopy(c)

Next ==
  \/ \E c \in Callers : Step(c) \/ \E k \in Keys : Call(c, k)
  \/ \E k \in Keys : BaseList(k)

\* A task is polled as long as it can go on; curl, tar, cp and the package
\* manager end.
Fairness == \A c \in Callers : WF_vars(Step(c))

Spec == Init /\ [][Next]_vars
FairSpec == Spec /\ Fairness

-----------------------------------------------------------------------------
TypeOK ==
  /\ pc \in [Callers -> PC]
  /\ key \in [Callers -> Keys \cup {None}]
  /\ joined \in [Callers -> Callers \cup {None}]
  /\ locks \in [Keys -> Callers \cup {None}]
  /\ store \in [Keys -> Content]

\* Two callers never build the same image or layer at the same time: no two
\* curl, tar or package managers work in one directory (overlay.rs:71-86).
OneBuilder ==
  \A c, d \in Callers :
    pc[c] \in BuildPC /\ pc[d] \in BuildPC /\ key[c] = key[d] => c = d

\* No failing build leaves an image half unpacked when it is over, which every
\* later call would take for cached, for good: what is left half there is what
\* a daemon killed during tar has left, or a removal that failed
\* (overlay.rs:101-137).
ImageIsNotLeftHalf ==
  \A k \in Bases :
    (\A c \in Callers : pc[c] \in BuildPC => key[c] # k) =>
      /\ store[k] # "partial"
      /\ store[k] = "remains" => MayFail("crash") \/ MayFail("remove")

\* A call for a layer that returns Ok returns a whole layer, provided rename
\* works across the two cache directories (overlay.rs:518-534).
LayerReady ==
  \A c \in Callers : pc[c] = "ok" /\ key[c] \in Layers =>
    store[key[c]] \in {"complete", "nested"}

\* A whole layer is never lost again, not even to a second build of it by a
\* caller that looked before the first one was finished and came to the lock
\* after: containers are running on it (overlay.rs:199-239, 518-534).
LayerStays ==
  [][\A k \in Layers : store[k] \in {"complete", "nested"} =>
       store'[k] \in {"complete", "nested"}]_vars

\* A waiter that waits on the Notify in the map is woken and answers.
WaiterReturns ==
  \A c \in Callers :
    (pc[c] = "waiting" /\ joined[c] = locks[key[c]]) ~> pc[c] \in {"ok", "failed"}

\* "Base image '...' already cached" (overlay.rs:61-67): a call that returns Ok
\* returns a whole image.
ImageReady ==
  \A c \in Callers : pc[c] = "ok" /\ key[c] \in Bases =>
    store[key[c]] = "complete"

\* "The other 9 replicas ... instantly resume boot once the single SHA256 cache
\* is ready" (src/README.md:32): every call answers.
EveryCallReturns ==
  \A c \in Callers : pc[c] = "lookup" ~> pc[c] \in {"ok", "failed"}
=============================================================================
