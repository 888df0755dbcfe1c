------------------------ MODULE OverlayEngineProofs ------------------------
(***************************************************************************)
(* Proofs about OverlayEngine, for any number of callers, images, layers   *)
(* and failures: type correctness, that an image or a layer has one        *)
(* builder at a time, and that no image is left half unpacked.             *)
(***************************************************************************)
EXTENDS OverlayEngine, TLAPS

\* A call knows what it is for, and a caller that has joined a flight holds a
\* Notify.
CallInv ==
  \A c \in Callers : pc[c] # "idle" => key[c] \in Keys

TypeInv == TypeOK /\ CallInv

\* Every variable has its type in every reachable state.
LEMMA TypeInit == Init => TypeInv
  BY OverlayAssumption DEF Init, TypeInv, TypeOK, CallInv, PC, HolderPC, BuildPC, Content

LEMMA TypeStep == TypeInv /\ [Next]_vars => TypeInv'
<1> USE DEF TypeInv, TypeOK, CallInv, PC, HolderPC, BuildPC, Content
<1> SUFFICES ASSUME TypeInv, [Next]_vars
             PROVE  TypeInv'
  OBVIOUS
<1>1. ASSUME NEW c \in Callers, NEW k \in Keys, Call(c, k)
      PROVE  TypeInv'
  BY <1>1 DEF Call, Goto
<1>2. ASSUME NEW c \in Callers, Lookup(c) \/ Await(c) \/ Recheck(c)
      PROVE  TypeInv'
  BY <1>2 DEF Lookup, Await, Recheck, Goto
<1>3. ASSUME NEW c \in Callers, Acquire(c) \/ Join(c)
      PROVE  TypeInv'
  BY <1>3 DEF Acquire, Join, Goto
<1>4. ASSUME NEW c \in Callers, Release(c)
      PROVE  TypeInv'
  BY <1>4 DEF Release
<1>5. ASSUME NEW c \in Callers,
             CreateImageDir(c) \/ Fetch(c) \/ StartExtract(c) \/ FinishExtract(c)
      PROVE  TypeInv'
  BY <1>5 DEF CreateImageDir, Fetch, StartExtract, FinishExtract, Goto, SetStore,
              RemoveImage, Leftovers
<1>6. ASSUME NEW c \in Callers,
             Install(c) \/ Rename(c) \/ StartCopy(c) \/ FinishCopy(c)
      PROVE  TypeInv'
  BY <1>6 DEF Install, Rename, StartCopy, FinishCopy, Goto, SetStore
<1>7. ASSUME NEW k \in Keys, BaseList(k)
      PROVE  TypeInv'
  BY <1>7 DEF BaseList, SetStore
<1>8. CASE UNCHANGED vars
  BY <1>8 DEF vars
<1> QED
  BY <1>1, <1>2, <1>3, <1>4, <1>5, <1>6, <1>7, <1>8 DEF Next, Step

\* Type correctness: the calls, the lock map and the directories.
THEOREM TypeCorrect == Spec => []TypeOK
<1>1. TypeInv => TypeOK
  BY DEF TypeInv
<1> QED
  BY <1>1, TypeInit, TypeStep, PTL DEF Spec

-----------------------------------------------------------------------------
\* The strengthening of OneBuilder: whoever builds, or is about to release the
\* key, is the caller whose Notify is in the map under that key.
HolderInv ==
  \A c \in Callers : pc[c] \in HolderPC => locks[key[c]] = c

LEMMA HolderInit == Init => HolderInv
  BY DEF Init, HolderInv, HolderPC, BuildPC

LEMMA HolderStep == TypeInv /\ HolderInv /\ [Next]_vars => HolderInv'
<1> USE DEF TypeInv, TypeOK, CallInv, HolderInv, HolderPC, BuildPC
<1> SUFFICES ASSUME TypeInv, HolderInv, [Next]_vars
             PROVE  HolderInv'
  OBVIOUS
<1>1. ASSUME NEW c \in Callers, NEW k \in Keys, Call(c, k)
      PROVE  HolderInv'
  BY <1>1 DEF Call, Goto
<1>2. ASSUME NEW c \in Callers, Lookup(c) \/ Join(c) \/ Await(c) \/ Recheck(c)
      PROVE  HolderInv'
  BY <1>2 DEF Lookup, Join, Await, Recheck, Goto
<1>3. ASSUME NEW c \in Callers, Acquire(c)
      PROVE  HolderInv'
  \* The key was not in the map, so it has no other holder.
  BY <1>3, OverlayAssumption DEF Acquire, Goto
<1>4. ASSUME NEW c \in Callers, Release(c)
      PROVE  HolderInv'
  \* The other holders hold other keys, whose entries stay in the map.
  BY <1>4 DEF Release
<1>5. ASSUME NEW c \in Callers,
             CreateImageDir(c) \/ Fetch(c) \/ StartExtract(c) \/ FinishExtract(c)
      PROVE  HolderInv'
  BY <1>5 DEF CreateImageDir, Fetch, StartExtract, FinishExtract, Goto
<1>6. ASSUME NEW c \in Callers,
             Install(c) \/ Rename(c) \/ StartCopy(c) \/ FinishCopy(c)
      PROVE  HolderInv'
  BY <1>6 DEF Install, Rename, StartCopy, FinishCopy, Goto
<1>7. ASSUME NEW k \in Keys, BaseList(k)
      PROVE  HolderInv'
  BY <1>7 DEF BaseList
<1>8. CASE UNCHANGED vars
  BY <1>8 DEF vars
<1> QED
  BY <1>1, <1>2, <1>3, <1>4, <1>5, <1>6, <1>7, <1>8 DEF Next, Step

\* Mutual exclusion of builders, whatever fails and whoever wakes late.
THEOREM MutualExclusion == Spec => []OneBuilder
<1>1. TypeInv /\ HolderInv => OneBuilder
  BY DEF TypeInv, CallInv, HolderInv, OneBuilder, HolderPC
<1> QED
  BY <1>1, TypeInit, TypeStep, HolderInit, HolderStep, PTL DEF Spec

-----------------------------------------------------------------------------
\* Images are unpacked and layers persisted, never the other way round.
KindInv ==
  \A c \in Callers :
    /\ pc[c] \in {"fetch", "extract", "extracting"} => key[c] \in Bases
    /\ pc[c] \in {"persist", "copying"} => key[c] \in Layers

\* The strengthening of ImageIsNotLeftHalf: a half unpacked image is one that a
\* tar is at work on.
UnpackInv ==
  \A k \in Bases : store[k] = "partial" =>
    \E c \in Callers : pc[c] = "extracting" /\ key[c] = k

\* What is left half unpacked is what a killed daemon or a removal has left.
RemainsInv ==
  \A k \in Bases : store[k] = "remains" => MayFail("crash") \/ MayFail("remove")

HalfInv == KindInv /\ UnpackInv /\ RemainsInv

LEMMA HalfInit == Init => HalfInv
<1> SUFFICES ASSUME Init
             PROVE  HalfInv
  OBVIOUS
<1>1. KindInv
  BY DEF Init, KindInv
<1>2. UnpackInv /\ RemainsInv
  BY DEF Init, Found, UnpackInv, RemainsInv, Keys
<1> QED
  BY <1>1, <1>2 DEF HalfInv

\* Whatever leaves the store of the images and those at work on them alone.
LEMMA HalfKept ==
  ASSUME UnpackInv,
         \A k \in Bases : store'[k] = "partial" => store[k] = "partial",
         \A c \in Callers :
           pc[c] = "extracting" => pc'[c] = "extracting" /\ key'[c] = key[c]
  PROVE  UnpackInv'
  BY DEF UnpackInv

LEMMA HalfStep == TypeInv /\ HalfInv /\ [Next]_vars => HalfInv'
<1> USE DEF TypeInv, TypeOK, CallInv, HalfInv
<1> SUFFICES ASSUME TypeInv, HalfInv, [Next]_vars
             PROVE  HalfInv'
  OBVIOUS
<1>1. KindInv'
  <2> USE DEF KindInv
  <2>1. ASSUME NEW c \in Callers, NEW k \in Keys, Call(c, k)
        PROVE  KindInv'
    BY <2>1 DEF Call, Goto
  <2>2. ASSUME NEW c \in Callers,
               Lookup(c) \/ Acquire(c) \/ Join(c) \/ Await(c) \/ Recheck(c)
        PROVE  KindInv'
    BY <2>2 DEF Lookup, Acquire, Join, Await, Recheck, Goto
  <2>3. ASSUME NEW c \in Callers, Release(c)
        PROVE  KindInv'
    BY <2>3 DEF Release
  <2>4. ASSUME NEW c \in Callers,
               CreateImageDir(c) \/ Fetch(c) \/ StartExtract(c) \/ FinishExtract(c)
        PROVE  KindInv'
    BY <2>4 DEF CreateImageDir, Fetch, StartExtract, FinishExtract, Goto
  <2>5. ASSUME NEW c \in Callers,
               Install(c) \/ Rename(c) \/ StartCopy(c) \/ FinishCopy(c)
        PROVE  KindInv'
    BY <2>5 DEF Install, Rename, StartCopy, FinishCopy, Goto
  <2>6. CASE UNCHANGED vars \/ \E k \in Keys : BaseList(k)
    BY <2>6 DEF vars, BaseList
  <2> QED
    BY <2>1, <2>2, <2>3, <2>4, <2>5, <2>6 DEF Next, Step
<1>2. UnpackInv'
  <2> USE DEF Keys
  <2>1. ASSUME NEW c \in Callers, NEW k \in Keys, Call(c, k)
        PROVE  UnpackInv'
    BY <2>1, HalfKept DEF Call, Goto
  <2>2. ASSUME NEW c \in Callers,
               Lookup(c) \/ Acquire(c) \/ Join(c) \/ Await(c) \/ Recheck(c)
        PROVE  UnpackInv'
    BY <2>2, HalfKept DEF Lookup, Acquire, Join, Await, Recheck, Goto
  <2>3. ASSUME NEW c \in Callers, Release(c)
        PROVE  UnpackInv'
    BY <2>3, HalfKept DEF Release
  <2>4. ASSUME NEW c \in Callers, CreateImageDir(c) \/ Fetch(c)
        PROVE  UnpackInv'
    BY <2>4, HalfKept DEF CreateImageDir, Fetch, Goto, SetStore, RemoveImage, Leftovers
  <2>5. ASSUME NEW c \in Callers, StartExtract(c)
        PROVE  UnpackInv'
    \* The caller is the one at work on the image.
    <3>1. CASE pc'[c] = "extracting" /\ SetStore(key[c], "partial")
      <4> SUFFICES ASSUME NEW k \in Bases, store'[k] = "partial"
                   PROVE  \E d \in Callers : pc'[d] = "extracting" /\ key'[d] = k
        BY DEF UnpackInv
      <4>1. CASE k = key[c]
        BY <4>1, <3>1, <2>5 DEF StartExtract
      <4>2. CASE k # key[c]
        <5>1. store[k] = "partial"
          BY <4>2, <3>1, <2>5 DEF SetStore
        <5>2. PICK d \in Callers : pc[d] = "extracting" /\ key[d] = k
          BY <5>1 DEF UnpackInv
        <5> QED
          BY <5>2, <2>5 DEF StartExtract, Goto
      <4> QED
        BY <4>1, <4>2
    <3>2. CASE UNCHANGED store
      BY <3>2, <2>5, HalfKept DEF StartExtract, Goto
    <3> QED
      BY <3>1, <3>2, <2>5 DEF StartExtract, Goto
  <2>6. ASSUME NEW c \in Callers, FinishExtract(c)
        PROVE  UnpackInv'
    \* Success or failure, the image of the caller is not half unpacked.
    <3> SUFFICES ASSUME NEW k \in Bases, store'[k] = "partial"
                 PROVE  \E d \in Callers : pc'[d] = "extracting" /\ key'[d] = k
      BY DEF UnpackInv
    <3>1. k # key[c] /\ store[k] = "partial"
      BY <2>6 DEF FinishExtract, SetStore, RemoveImage, Leftovers
    <3>2. PICK d \in Callers : pc[d] = "extracting" /\ key[d] = k
      BY <3>1 DEF UnpackInv
    <3> QED
      BY <3>1, <3>2, <2>6 DEF FinishExtract, Goto
  <2>7. ASSUME NEW c \in Callers,
               Install(c) \/ Rename(c) \/ StartCopy(c) \/ FinishCopy(c)
        PROVE  UnpackInv'
    \* What is persisted is a layer, no image.
    <3>1. \A k \in Bases : store'[k] = store[k]
      BY <2>7, OverlayAssumption
         DEF KindInv, Install, Rename, StartCopy, FinishCopy, Goto, SetStore
    <3> QED
      BY <3>1, <2>7, HalfKept DEF Install, Rename, StartCopy, FinishCopy, Goto
  <2>8. ASSUME NEW k \in Keys, BaseList(k)
        PROVE  UnpackInv'
    BY <2>8, HalfKept DEF BaseList, SetStore
  <2>9. CASE UNCHANGED vars
    BY <2>9, HalfKept DEF vars
  <2> QED
    BY <2>1, <2>2, <2>3, <2>4, <2>5, <2>6, <2>7, <2>8, <2>9 DEF Next, Step
<1>3. RemainsInv'
  <2> USE DEF RemainsInv, Keys
  <2>1. ASSUME NEW c \in Callers, CreateImageDir(c) \/ StartExtract(c) \/ FinishExtract(c)
        PROVE  RemainsInv'
    BY <2>1 DEF CreateImageDir, StartExtract, FinishExtract, SetStore, RemoveImage,
                Leftovers
  <2>2. ASSUME NEW c \in Callers, Fetch(c)
        PROVE  RemainsInv'
    BY <2>2 DEF Fetch, SetStore, RemoveImage, Leftovers
  <2>3. ASSUME NEW c \in Callers, Rename(c) \/ StartCopy(c) \/ FinishCopy(c)
        PROVE  RemainsInv'
    <3>1. \A k \in Bases : store'[k] = store[k]
      BY <2>3, OverlayAssumption DEF KindInv, Rename, StartCopy, FinishCopy, Goto, SetStore
    <3> QED
      BY <3>1
  <2>4. ASSUME NEW k \in Keys, BaseList(k)
        PROVE  RemainsInv'
    BY <2>4 DEF BaseList, SetStore
  <2>5. CASE UNCHANGED store
    BY <2>5
  <2> QED
    BY <2>1, <2>2, <2>3, <2>4, <2>5
       DEF Next, Step, Call, Lookup, Acquire, Join, Await, Release, Recheck, Install, vars
<1> QED
  BY <1>1, <1>2, <1>3

\* No build leaves an image half unpacked when it is over, for any callers,
\* images and failures: what is half there is what a daemon killed during tar or
\* a failed removal has left (overlay.rs:101-137).
THEOREM NoImageIsLeftHalf == Spec => []ImageIsNotLeftHalf
<1>1. HalfInv => ImageIsNotLeftHalf
  BY DEF HalfInv, UnpackInv, RemainsInv, ImageIsNotLeftHalf, BuildPC
<1> QED
  BY <1>1, TypeInit, TypeStep, HalfInit, HalfStep, PTL DEF Spec

-----------------------------------------------------------------------------
\* A whole layer is never lost: onto a layer that is there a rename fails, and
\* a copy goes into it.
THEOREM WholeLayersStay == Spec => LayerStays
<1> DEFINE Whole(k) == store[k] \in {"complete", "nested"}
<1>1. TypeInv /\ KindInv /\ [Next]_vars =>
        [\A k \in Layers : Whole(k) => Whole(k)']_vars
  <2> USE DEF TypeInv, TypeOK, CallInv, KindInv, Keys
  <2> SUFFICES ASSUME TypeInv, KindInv, Next, NEW k \in Layers, Whole(k)
               PROVE  Whole(k)'
    OBVIOUS
  <2>1. k \in Keys /\ k \notin Bases
    BY OverlayAssumption
  <2>2. CASE UNCHANGED store
    BY <2>2
  <2>3. ASSUME NEW c \in Callers,
               CreateImageDir(c) \/ Fetch(c) \/ StartExtract(c) \/ FinishExtract(c)
        PROVE  Whole(k)'
    \* These are about the image directory.
    <3>1. key[c] \in Bases
      BY <2>3 DEF CreateImageDir, Fetch, StartExtract, FinishExtract, Goto
    <3>2. store'[k] = store[k]
      BY <2>1, <2>3, <3>1
         DEF CreateImageDir, Fetch, StartExtract, FinishExtract, SetStore, RemoveImage
    <3> QED
      BY <3>2
  <2>4. ASSUME NEW c \in Callers, Rename(c)
        PROVE  Whole(k)'
    BY <2>1, <2>4 DEF Rename, SetStore
  <2>5. ASSUME NEW c \in Callers, StartCopy(c)
        PROVE  Whole(k)'
    <3>1. store[key[c]] = "complete" => store'[key[c]] = "nested"
      BY <2>5 DEF StartCopy, SetStore, Goto
    <3>2. store[key[c]] = "nested" => store'[key[c]] = "nested"
      BY <2>5 DEF StartCopy, SetStore, Goto
    <3>3. key[c] # k => store'[k] = store[k]
      BY <2>1, <2>5 DEF StartCopy, SetStore
    <3> QED
      BY <3>1, <3>2, <3>3
  <2>6. ASSUME NEW c \in Callers, FinishCopy(c)
        PROVE  Whole(k)'
    BY <2>1, <2>6 DEF FinishCopy, SetStore
  <2>7. ASSUME NEW l \in Keys, BaseList(l)
        PROVE  Whole(k)'
    BY <2>1, <2>7 DEF BaseList, SetStore
  <2> QED
    BY <2>2, <2>3, <2>4, <2>5, <2>6, <2>7
       DEF Next, Step, Call, Lookup, Acquire, Join, Await, Release, Recheck, Install
<1>2. [\A k \in Layers : Whole(k) => Whole(k)']_vars
        => [\A k \in Layers : store[k] \in {"complete", "nested"} =>
              store'[k] \in {"complete", "nested"}]_vars
  OBVIOUS
<1>3. HalfInv => KindInv
  BY DEF HalfInv
<1> QED
  BY <1>1, <1>2, <1>3, TypeInit, TypeStep, HalfInit, HalfStep, PTL DEF Spec, LayerStays

-----------------------------------------------------------------------------
\* The strengthening of LayerReady: with a rename that works no layer is ever
\* half there, and whoever has been told so far that a layer is there finds it.
ReadyInv ==
  /\ \A k \in Layers : store[k] \in {"missing", "complete", "nested"}
  /\ \A c \in Callers :
       pc[c] \in {"copying", "built", "ok"} /\ key[c] \in Layers =>
         store[key[c]] # "missing"

LEMMA ReadyInit ==
  ASSUME "rename" \notin Faults
  PROVE  Init => ReadyInv
  BY OverlayAssumption DEF Init, Found, MayFail, ReadyInv, Keys

LEMMA ReadyStep ==
  ASSUME "rename" \notin Faults, TypeInv, KindInv, ReadyInv, [Next]_vars
  PROVE  ReadyInv'
<1> USE DEF TypeInv, TypeOK, CallInv, ReadyInv, Keys
<1>1. ASSUME NEW c \in Callers, NEW k \in Keys, Call(c, k)
      PROVE  ReadyInv'
  BY <1>1 DEF Call, Goto
<1>2. ASSUME NEW c \in Callers, Lookup(c) \/ Recheck(c)
      PROVE  ReadyInv'
  BY <1>2 DEF Lookup, Recheck, Cached, Exists
<1>3. ASSUME NEW c \in Callers, Acquire(c) \/ Join(c) \/ Await(c)
      PROVE  ReadyInv'
  BY <1>3 DEF Acquire, Join, Await, Goto
<1>4. ASSUME NEW c \in Callers, Release(c)
      PROVE  ReadyInv'
  \* The caller's layer is built; those it wakes have yet to look.
  BY <1>4 DEF Release
<1>5. ASSUME NEW c \in Callers,
             CreateImageDir(c) \/ Fetch(c) \/ StartExtract(c) \/ FinishExtract(c)
      PROVE  ReadyInv'
  <2>1. key[c] \notin Layers /\ \A k \in Layers : store'[k] = store[k]
    BY <1>5, OverlayAssumption
       DEF KindInv, CreateImageDir, Fetch, StartExtract, FinishExtract, Goto, SetStore,
           RemoveImage
  <2> QED
    BY <1>5, <2>1 DEF CreateImageDir, Fetch, StartExtract, FinishExtract, Goto
<1>6. ASSUME NEW c \in Callers, Install(c)
      PROVE  ReadyInv'
  BY <1>6 DEF Install, Goto
<1>7. ASSUME NEW c \in Callers, Rename(c)
      PROVE  ReadyInv'
  BY <1>7 DEF Rename, Goto, SetStore
<1>8. ASSUME NEW c \in Callers, StartCopy(c)
      PROVE  ReadyInv'
  <2>1. key[c] \in Layers /\ store[key[c]] \in {"complete", "nested"}
    BY <1>8 DEF StartCopy, MayFail, KindInv, Goto
  <2>2. store[key[c]] = "complete" => store' = [store EXCEPT ![key[c]] = "nested"]
    BY <1>8 DEF StartCopy, SetStore
  <2>3. store[key[c]] = "nested" => store' = [store EXCEPT ![key[c]] = "nested"]
    BY <1>8 DEF StartCopy, SetStore
  <2>4. store' = [store EXCEPT ![key[c]] = "nested"]
    BY <2>1, <2>2, <2>3
  <2>5. /\ pc' = [pc EXCEPT ![c] = "copying"]
        /\ key' = key
    BY <1>8 DEF StartCopy, Goto
  <2> QED
    BY <2>1, <2>4, <2>5
<1>9. ASSUME NEW c \in Callers, FinishCopy(c)
      PROVE  ReadyInv'
  <2>1. key[c] \in Layers /\ store[key[c]] \in {"complete", "nested"}
    BY <1>9 DEF FinishCopy, KindInv, Goto
  <2>2. store' = store
    BY <1>9, <2>1 DEF FinishCopy, SetStore
  <2> QED
    BY <1>9, <2>1, <2>2 DEF FinishCopy, Goto
<1>10. ASSUME NEW k \in Keys, BaseList(k)
       PROVE  ReadyInv'
  BY <1>10, OverlayAssumption DEF BaseList, SetStore
<1>11. CASE UNCHANGED vars
  BY <1>11 DEF vars
<1> QED
  BY <1>1, <1>2, <1>3, <1>4, <1>5, <1>6, <1>7, <1>8, <1>9, <1>10, <1>11 DEF Next, Step

\* A layer that was returned is whole, whatever else fails, if layers can be
\* renamed into place.
THEOREM LayersAreWhole ==
  ASSUME "rename" \notin Faults
  PROVE  Spec => []LayerReady
<1>1. ReadyInv => LayerReady
  BY DEF ReadyInv, LayerReady
<1>2. TypeInv /\ HalfInv /\ ReadyInv /\ [Next]_vars => ReadyInv'
  BY ReadyStep DEF HalfInv
<1> QED
  BY <1>1, <1>2, TypeInit, TypeStep, HalfInit, HalfStep, ReadyInit, PTL DEF Spec
=============================================================================
