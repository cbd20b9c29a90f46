------------------------ MODULE InferenceRunProofs ------------------------
(***************************************************************************)
(* What InferenceRun promises about the settings file, the conditioning of *)
(* a result and whose video a call delivers, for any number of handlers    *)
(* and calls.                                                              *)
(***************************************************************************)
EXTENDS InferenceRun, TLAPS, SequenceTheorems

Busy(h) == upd[h] # "idle"

(* SettingsKept is not inductive: it says nothing of the update that is in *)
(* progress.  While no two overlap, the busy handler is the only one, the  *)
(* object it will write is the confirmed one with its patch merged, the    *)
(* file is empty while it is truncated and else holds what was confirmed.  *)
OneBusy == \A g, h \in Handlers : Busy(g) /\ Busy(h) => g = h

PatchMerged ==
    \A h \in Handlers : Busy(h) => merged[h] = Merge(answered, patched[h])

FileHolds ==
    IF \E h \in Handlers : upd[h] = "truncated"
    THEN file = "empty"
    ELSE file = "parsed" /\ stored = answered

StoreInv ==
    /\ upd \in [Handlers -> {"idle", "loaded", "truncated"}]
    /\ merged = [h \in Handlers |-> merged[h]]
    /\ patched = [h \in Handlers |-> patched[h]]
    /\ calm => OneBusy /\ PatchMerged /\ FileHolds

LEMMA StoreInvInit == Init => StoreInv
  BY DEF Init, StoreInit, StoreInv, OneBusy, PatchMerged, FileHolds, Busy

LEMMA StoreInvUnchanged ==
  ASSUME StoreInv, UNCHANGED storeVars
  PROVE  StoreInv'
  BY DEF storeVars, StoreInv, OneBusy, PatchMerged, FileHolds, Busy, Merge

LEMMA StoreInvUpdate ==
  ASSUME StoreInv, NEW h \in Handlers, NEW patch, Update(h, patch)
  PROVE  StoreInv'
  <1>1. /\ upd' = [upd EXCEPT ![h] = "loaded"]
        /\ merged' = [merged EXCEPT ![h] = Merge(Load, patch)]
        /\ patched' = [patched EXCEPT ![h] = patch]
        /\ UNCHANGED <<file, stored, answered>>
    BY DEF Update
  <1>2. calm' => calm /\ \A g \in Handlers : upd[g] = "idle"
    BY ZenonT(20) DEF Update
  <1>3. /\ upd' \in [Handlers -> {"idle", "loaded", "truncated"}]
        /\ merged' = [g \in Handlers |-> merged'[g]]
        /\ patched' = [g \in Handlers |-> patched'[g]]
    BY <1>1 DEF StoreInv
  <1>4. ASSUME calm'
        PROVE  OneBusy' /\ PatchMerged' /\ FileHolds'
    <2>1. file = "parsed" /\ stored = answered
      BY <1>2, <1>4 DEF StoreInv, FileHolds
    <2>2. \A g \in Handlers \ {h} : upd'[g] = "idle"
      BY <1>1, <1>2, <1>4 DEF StoreInv
    <2>3. /\ upd'[h] = "loaded" /\ patched'[h] = patch
          /\ merged'[h] = Merge(answered, patch)
      BY <1>1, <2>1 DEF StoreInv, Load
    <2>4. OneBusy' /\ FileHolds'
      BY <1>1, <2>1, <2>2, <2>3 DEF OneBusy, FileHolds, Busy
    <2>5. PatchMerged'
      BY <1>1, <2>2, <2>3 DEF PatchMerged, Busy, Merge
    <2> QED
      BY <2>4, <2>5
  <1> QED
    BY <1>3, <1>4 DEF StoreInv

LEMMA StoreInvTruncate ==
  ASSUME StoreInv, NEW h \in Handlers, Truncate(h)
  PROVE  StoreInv'
  <1>1. /\ upd[h] = "loaded" /\ upd' = [upd EXCEPT ![h] = "truncated"]
        /\ file' = "empty"
        /\ UNCHANGED <<stored, merged, patched, answered, calm>>
    BY DEF Truncate
  <1>2. upd' \in [Handlers -> {"idle", "loaded", "truncated"}]
    BY <1>1 DEF StoreInv
  <1>3. upd'[h] = "truncated" /\ \A g \in Handlers \ {h} : upd'[g] = upd[g]
    BY <1>1 DEF StoreInv
  <1>4. OneBusy => OneBusy'
    BY <1>1, <1>3 DEF OneBusy, Busy
  <1>5. PatchMerged => PatchMerged'
    BY <1>1, <1>3 DEF PatchMerged, Busy, Merge
  <1>6. FileHolds'
    BY <1>1, <1>3 DEF FileHolds
  <1> QED
    BY <1>1, <1>2, <1>4, <1>5, <1>6 DEF StoreInv

LEMMA StoreInvWrite ==
  ASSUME StoreInv, NEW h \in Handlers, Write(h)
  PROVE  StoreInv'
  <1>1. /\ upd[h] = "truncated" /\ upd' = [upd EXCEPT ![h] = "idle"]
        /\ file = "empty" => file' = "parsed"
        /\ stored' = merged[h]
        /\ answered' = [k \in Keys |-> IF patched[h][k] # None THEN patched[h][k]
                                       ELSE answered[k]]
        /\ merged' = [merged EXCEPT ![h] = Nothing]
        /\ patched' = [patched EXCEPT ![h] = Nothing]
        /\ calm' = calm
    BY DEF Write
  <1>2. /\ upd' \in [Handlers -> {"idle", "loaded", "truncated"}]
        /\ merged' = [g \in Handlers |-> merged'[g]]
        /\ patched' = [g \in Handlers |-> patched'[g]]
    BY <1>1 DEF StoreInv
  <1>3. ASSUME calm
        PROVE  OneBusy' /\ PatchMerged' /\ FileHolds'
    <2>1. OneBusy /\ PatchMerged /\ file = "empty"
      BY <1>1, <1>3 DEF StoreInv, FileHolds
    <2>2. \A g \in Handlers : upd'[g] = "idle"
      BY <1>1, <2>1 DEF StoreInv, OneBusy, Busy
    <2>3. stored' = Merge(answered, patched[h])
      BY <1>1, <2>1 DEF PatchMerged, Busy
    <2>4. Merge(answered, patched[h]) = answered'
      BY <1>1 DEF Merge
    <2> QED
      BY <1>1, <2>1, <2>2, <2>3, <2>4 DEF OneBusy, PatchMerged, FileHolds, Busy
  <1> QED
    BY <1>1, <1>2, <1>3 DEF StoreInv

LEMMA StoreInvCrash ==
  ASSUME StoreInv, StoreCrash
  PROVE  StoreInv'
  <1>1. /\ upd' = [h \in Handlers |-> "idle"]
        /\ merged' = [h \in Handlers |-> Nothing]
        /\ patched' = [h \in Handlers |-> Nothing]
        /\ UNCHANGED <<file, stored, answered>>
    BY DEF StoreCrash
  <1>2. calm' => calm /\ \A g \in Handlers : upd[g] = "idle"
    BY ZenonT(20) DEF StoreCrash
  <1>3. calm' => OneBusy' /\ PatchMerged' /\ FileHolds'
    BY <1>1, <1>2 DEF StoreInv, OneBusy, PatchMerged, FileHolds, Busy
  <1> QED
    BY <1>1, <1>3 DEF StoreInv

LEMMA StoreInvStep == StoreInv /\ [Next]_runVars => StoreInv'
  <1> SUFFICES ASSUME StoreInv, [Next]_runVars
               PROVE  StoreInv'
    OBVIOUS
  <1>1. CASE UNCHANGED storeVars
    BY <1>1, StoreInvUnchanged
  <1>2. ASSUME NEW h \in Handlers, PostSettings(h) \/ SwitchEngine(h)
        PROVE  StoreInv'
    BY <1>2, StoreInvUpdate DEF PostSettings, SwitchEngine
  <1>3. ASSUME NEW h \in Handlers, Truncate(h)
        PROVE  StoreInv'
    BY <1>3, StoreInvTruncate
  <1>4. ASSUME NEW h \in Handlers, Write(h)
        PROVE  StoreInv'
    BY <1>4, StoreInvWrite
  <1>5. CASE Crash
    BY <1>5, StoreInvCrash DEF Crash
  <1> QED
    BY <1>1, <1>2, <1>3, <1>4, <1>5 DEF Next, StoreStep, runVars

(* As long as no two updates overlapped and no crash cut one off, whatever *)
(* the last answers of POST /system/settings and /engine/switch confirmed  *)
(* is what settings_store._load() finds.                                   *)
THEOREM SettingsCorrect == Spec => []SettingsKept
  <1>1. StoreInv => SettingsKept
    BY DEF StoreInv, SettingsKept, FileHolds, Load
  <1> QED
    BY <1>1, StoreInvInit, StoreInvStep, PTL DEF Spec

-----------------------------------------------------------------------------
(* What is left of a directory when the file at i is gone. *)
LEMMA RemoveAtIs ==
  ASSUME NEW S, NEW g \in Seq(S), NEW i \in 1 .. Len(g)
  PROVE  /\ RemoveAt(g, i) \in Seq(S)
         /\ Len(RemoveAt(g, i)) = Len(g) - 1
         /\ \A j \in 1 .. Len(g) - 1 : RemoveAt(g, i)[j] = g[IF j < i THEN j ELSE j + 1]
  <1> DEFINE a == SubSeq(g, 1, i - 1)
             b == SubSeq(g, i + 1, Len(g))
  <1>0. Len(g) \in Nat /\ i \in Nat /\ 1 <= i /\ i <= Len(g)
    OBVIOUS
  <1>1. a \in Seq(S) /\ Len(a) = i - 1 /\ \A j \in 1 .. i - 1 : a[j] = g[j]
    BY <1>0
  <1>2. b \in Seq(S) /\ Len(b) = Len(g) - i /\ \A j \in 1 .. Len(g) - i : b[j] = g[i + j]
    BY <1>0
  <1>3. RemoveAt(g, i) = a \o b
    BY DEF RemoveAt
  <1> HIDE DEF a, b
  <1>4. a \o b \in Seq(S) /\ Len(a \o b) = Len(g) - 1
    <2>1. a \o b \in Seq(S) /\ Len(a \o b) = Len(a) + Len(b)
      BY <1>1, <1>2, ConcatProperties
    <2>2. Len(a) + Len(b) = Len(g) - 1
      <3>1. \A n, k \in Int : (k - 1) + (n - k) = n - 1
        OBVIOUS
      <3> QED
        BY <1>0, <1>1, <1>2, <3>1
    <2> QED
      BY <2>1, <2>2
  <1>5. ASSUME NEW j \in 1 .. Len(g) - 1
        PROVE  (a \o b)[j] = g[IF j < i THEN j ELSE j + 1]
    <2>1. CASE j < i
      BY <2>1, <1>0, <1>1, <1>2
    <2>2. CASE ~(j < i)
      <3>1. (a \o b)[j] = b[j - (i - 1)]
        BY <2>2, <1>0, <1>1, <1>2
      <3>2. j - (i - 1) \in 1 .. Len(g) - i /\ i + (j - (i - 1)) = j + 1
        BY <2>2, <1>0
      <3> QED
        BY <2>2, <3>1, <3>2, <1>2
    <2> QED
      BY <2>1, <2>2
  <1> QED
    BY <1>3, <1>4, <1>5

OneName(g) == \A i, j \in DOMAIN g : Name(g[i]) = Name(g[j]) => i = j

(* Without drops the one file of that name and keeps the others in order.  *)
LEMMA WithoutIs ==
  ASSUME generated \in Seq(File), OneName(generated), NEW name
  PROVE  /\ Without(name) \in Seq(File)
         /\ OneName(Without(name))
         /\ \A i \in DOMAIN Without(name) :
               /\ Name(Without(name)[i]) # name
               /\ \E j \in DOMAIN generated : Without(name)[i] = generated[j]
         /\ (generated # <<>> /\ Name(Newest) # name)
               => /\ Without(name) # <<>>
                  /\ Without(name)[Len(Without(name))] = Newest
  <1> DEFINE at == {i \in DOMAIN generated : Name(generated[i]) = name}
             w  == Without(name)
  <1>1. CASE at = {}
    <2>1. w = generated
      BY <1>1 DEF Without
    <2>2. \A i \in DOMAIN generated : Name(generated[i]) # name
      BY <1>1
    <2> QED
      BY <2>1, <2>2 DEF Newest
  <1>2. CASE at # {}
    <2>1. PICK k : k = CHOOSE i \in at : TRUE
      OBVIOUS
    <2>2. k \in DOMAIN generated /\ Name(generated[k]) = name
      BY <1>2, <2>1
    <2>3. w = RemoveAt(generated, k)
      BY <1>2, <2>1 DEF Without
    <2>4. k \in 1 .. Len(generated) /\ Len(generated) \in Nat /\ DOMAIN generated = 1 .. Len(generated)
      BY <2>2
    <2> HIDE DEF at, w
    <2>5. /\ w \in Seq(File) /\ Len(w) = Len(generated) - 1
          /\ \A j \in 1 .. Len(generated) - 1 : w[j] = generated[IF j < k THEN j ELSE j + 1]
      BY <2>3, <2>4, RemoveAtIs
    <2>6. DOMAIN w = 1 .. Len(generated) - 1
      BY <2>5
    <2> DEFINE from(j) == IF j < k THEN j ELSE j + 1
    <2>7. \A j \in DOMAIN w : from(j) \in DOMAIN generated /\ from(j) # k /\ w[j] = generated[from(j)]
      BY <2>4, <2>5, <2>6
    <2>8. \A i, j \in DOMAIN w : from(i) = from(j) => i = j
      BY <2>4, <2>6
    <2> HIDE DEF from
    <2>9. OneName(w)
      BY <2>7, <2>8 DEF OneName
    <2>10. \A i \in DOMAIN w : Name(w[i]) # name
      BY <2>2, <2>7 DEF OneName
    <2>11. ASSUME generated # <<>>, Name(Newest) # name
           PROVE  w # <<>> /\ w[Len(w)] = Newest
      <3>1. k # Len(generated)
        BY <2>2, <2>11 DEF Newest
      <3>2. /\ Len(generated) - 1 \in 1 .. Len(generated) - 1
            /\ k <= Len(generated) - 1
            /\ Len(generated) - 1 + 1 = Len(generated)
        <4>1. \A n \in Nat : \A m \in 1 .. n :
                 m # n => /\ n - 1 \in 1 .. n - 1 /\ m <= n - 1 /\ n - 1 + 1 = n
          OBVIOUS
        <4> QED
          BY <2>4, <3>1, <4>1
      <3>3. w # <<>> /\ Len(w) \in DOMAIN w
        BY <2>5, <2>6, <3>2
      <3>4. from(Len(w)) = Len(generated)
        <4>1. Len(w) = Len(generated) - 1 /\ ~(Len(generated) - 1 < k)
          BY <2>4, <2>5, <3>2
        <4> QED
          BY <3>2, <4>1 DEF from
      <3> QED
        BY <2>7, <3>3, <3>4 DEF Newest
    <2> QED
      BY <2>5, <2>7, <2>9, <2>10, <2>11 DEF w
  <1> QED
    BY <1>1, <1>2

LEMMA AppendIs ==
  ASSUME NEW g \in Seq(File), NEW f \in File
  PROVE  /\ Append(g, f) \in Seq(File)
         /\ Append(g, f) # <<>>
         /\ Append(g, f)[Len(Append(g, f))] = f
         /\ \A i \in DOMAIN Append(g, f) :
               (i \in DOMAIN g /\ Append(g, f)[i] = g[i]) \/ (i = Len(g) + 1 /\ Append(g, f)[i] = f)
         /\ (OneName(g) /\ \A i \in DOMAIN g : Name(g[i]) # Name(f)) => OneName(Append(g, f))
  <1>1. /\ Append(g, f) \in Seq(File)
        /\ Append(g, f) # <<>>
        /\ Append(g, f)[Len(Append(g, f))] = f
        /\ DOMAIN g = 1 .. Len(g) /\ Len(g) \in Nat
        /\ DOMAIN Append(g, f) = 1 .. Len(g) + 1
    OBVIOUS
  <1>2. \A i \in 1 .. Len(g) + 1 :
             (i \in 1 .. Len(g) /\ Append(g, f)[i] = g[i]) \/ (i = Len(g) + 1 /\ Append(g, f)[i] = f)
    BY <1>1
  <1>3. (OneName(g) /\ \A i \in DOMAIN g : Name(g[i]) # Name(f)) => OneName(Append(g, f))
    BY <1>1, <1>2 DEF OneName
  <1> QED
    BY <1>1, <1>2, <1>3

-----------------------------------------------------------------------------
(* Types.                                                                  *)

LEMMA Contents ==
  /\ Nothing \in Content
  /\ \A data, patch \in Content : Merge(data, patch) \in Content
  /\ \A name \in Engines : [Nothing EXCEPT !["inference_backend"] = name] \in Content
  /\ Posted["inference_backend"] \cup {None} \subseteq Value
  <1>1. None \in Value /\ Engines \subseteq Value
    BY DEF Value
  <1>2. Posted["inference_backend"] \subseteq Value
    BY SettingsAssumption DEF Value
  <1>3. \A data, patch \in Content : Merge(data, patch) \in Content
    BY DEF Content, Merge
  <1>4. Nothing \in Content
    BY <1>1 DEF Content, Nothing
  <1>5. \A name \in Engines : [Nothing EXCEPT !["inference_backend"] = name] \in Content
    BY <1>1, <1>4 DEF Content
  <1> QED
    BY <1>1, <1>2, <1>3, <1>4, <1>5

LEMMA StoreTypeInit == StoreInit => StoreTypeOK
  <1> SUFFICES ASSUME StoreInit PROVE StoreTypeOK
    OBVIOUS
  <1>1. env \in Value
    BY Contents DEF StoreInit
  <1> QED
    BY <1>1, Contents, SettingsAssumption DEF StoreInit, StoreTypeOK

LEMMA StoreTypeUpdate ==
  ASSUME StoreTypeOK, NEW h \in Handlers, NEW patch \in Content, Update(h, patch)
  PROVE  StoreTypeOK'
  <1>1. Load \in Content
    BY Contents DEF Load, StoreTypeOK
  <1>2. PICK m \in Content : m = Merge(Load, patch)
    BY <1>1, Contents
  <1>3. /\ UNCHANGED <<env, file, stored, answered>>
        /\ upd' = [upd EXCEPT ![h] = "loaded"] /\ merged' = [merged EXCEPT ![h] = m]
        /\ patched' = [patched EXCEPT ![h] = patch]
        /\ updates < MaxUpdates /\ updates' = updates + 1
    BY <1>2 DEF Update
  <1>4. calm' \in BOOLEAN
    BY ZenonT(20) DEF Update
  <1>5. updates' \in 0 .. MaxUpdates
    BY <1>3, SettingsAssumption DEF StoreTypeOK
  <1> QED
    BY <1>3, <1>4, <1>5 DEF StoreTypeOK

LEMMA StoreTypeWrite ==
  ASSUME StoreTypeOK, NEW h \in Handlers, Write(h)
  PROVE  StoreTypeOK'
  <1>1. answered' = Merge(answered, patched[h])
    BY DEF Write, Merge
  <1>2. answered' \in Content
    BY <1>1, Contents DEF StoreTypeOK
  <1> QED
    BY <1>2, Contents DEF Write, StoreTypeOK

LEMMA StoreTypeStep ==
  ASSUME StoreTypeOK, StoreStep \/ StoreCrash \/ UNCHANGED storeVars
  PROVE  StoreTypeOK'
  <1>1. ASSUME NEW h \in Handlers, PostSettings(h)
        PROVE  StoreTypeOK'
    BY <1>1, StoreTypeUpdate DEF PostSettings
  <1>2. ASSUME NEW h \in Handlers, SwitchEngine(h)
        PROVE  StoreTypeOK'
    BY <1>2, StoreTypeUpdate, Contents DEF SwitchEngine
  <1>3. ASSUME NEW h \in Handlers, Truncate(h)
        PROVE  StoreTypeOK'
    BY <1>3 DEF Truncate, StoreTypeOK
  <1>4. ASSUME StoreCrash
        PROVE  StoreTypeOK'
    <2>1. calm' \in BOOLEAN
      BY <1>4, ZenonT(20) DEF StoreCrash
    <2> QED
      BY <1>4, <2>1, Contents DEF StoreCrash, StoreTypeOK
  <1>5. CASE UNCHANGED storeVars
    BY <1>5 DEF storeVars, StoreTypeOK
  <1> QED
    BY <1>1, <1>2, <1>3, <1>4, <1>5, StoreTypeWrite DEF StoreStep

(* The directory has the video of a call since SaveVideo, its copy since   *)
(* Copy, and each once.                                                    *)
HasSaved == {"saving", "check", "collect", "copy", "fetched", "moved", "failed", "done"}
HasCopy  == {"fetched", "moved", "failed", "done"}

Fits(f, p) ==
    \A c \in Calls : /\ Name(f) = <<"saved", c>> => p[c] \in HasSaved
                     /\ Name(f) = <<"copy", c>> => p[c] \in HasCopy

FilesFit(g, p) == \A i \in DOMAIN g : Fits(g[i], p)

TypeInv == TypeOK /\ OneName(generated) /\ FilesFit(generated, pc)

LEMMA TypeInvInit == Init => TypeInv
  <1> SUFFICES ASSUME Init PROVE TypeInv
    OBVIOUS
  <1>1. StoreTypeOK
    BY StoreTypeInit DEF Init
  <1>2. generated \in Seq(File) /\ OneName(generated) /\ FilesFit(generated, pc)
    BY DEF Init, OneName, FilesFit
  <1>3. NoVideo \in Video
    BY DEF NoVideo, Video
  <1>4. /\ pc \in [Calls -> Active \cup {"new", "failed", "done"}]
        /\ shown \in [Calls -> SUBSET UNION InputSets]
        /\ \A c \in Calls : shown[c] \subseteq given[c]
    BY DEF Init
  <1> QED
    BY <1>1, <1>2, <1>3, <1>4 DEF Init, TypeInv, TypeOK

LEMMA Engine == ActiveEngine \in Engines
  BY SettingsAssumption DEF ActiveEngine

LEMMA SharedIs ==
  ASSUME NEW c \in Calls, EnterKernel(c)
  PROVE  shared' \in [Calls -> BOOLEAN]
  BY ZenonT(20) DEF EnterKernel

(* A call never goes back. *)
Later(p, q) ==
    \A c \in Calls : /\ p[c] \in HasSaved => q[c] \in HasSaved
                     /\ p[c] \in HasCopy => q[c] \in HasCopy

LEMMA FitsLater ==
  ASSUME NEW g, NEW p, NEW q, FilesFit(g, p), Later(p, q)
  PROVE  FilesFit(g, q)
  BY DEF FilesFit, Fits, Later

LEMMA FitsAppended ==
  ASSUME NEW g \in Seq(File), NEW f \in File, NEW p, FilesFit(g, p), Fits(f, p)
  PROVE  FilesFit(Append(g, f), p)
  BY AppendIs DEF FilesFit

LEMMA FitsWithout ==
  ASSUME TypeInv, NEW p, FilesFit(generated, p), NEW name
  PROVE  FilesFit(Without(name), p)
  BY WithoutIs DEF TypeInv, TypeOK, FilesFit

Places == Active \cup {"new", "failed", "done"}

LEMMA Onward ==
  ASSUME TypeInv, NEW c \in Calls, Call(c)
  PROVE  /\ pc' \in [Calls -> Places]
         /\ \A d \in Calls \ {c} : pc'[d] = pc[d]
         /\ Later(pc, pc')
  <1> USE DEF TypeInv, TypeOK, Active, InKernel, Places, Go
  <1>1. ASSUME NEW place \in Places, pc' = [pc EXCEPT ![c] = place],
               pc[c] \in HasSaved => place \in HasSaved,
               pc[c] \in HasCopy => place \in HasCopy
        PROVE  /\ pc' \in [Calls -> Places]
               /\ \A d \in Calls \ {c} : pc'[d] = pc[d]
               /\ Later(pc, pc')
    BY <1>1 DEF Later
  <1>2. CASE Start(c)
    BY <1>1, <1>2 DEF Start, FirstPlace, HasSaved, HasCopy
  <1>3. CASE GiveUp(c)
    BY <1>3 DEF GiveUp, Later
  <1>4. CASE LoadKernel(c) \/ SaveVideo(c) \/ ExecuteSucceeds(c) \/ ExecuteFails(c)
    BY <1>1, <1>4 DEF LoadKernel, SaveVideo, ExecuteSucceeds, ExecuteFails, HasSaved, HasCopy
  <1>5. CASE Check(c) \/ Collect(c)
    BY <1>1, <1>5 DEF Check, Collect, HasSaved, HasCopy
  <1>6. CASE Copy(c) \/ Answer(c) \/ PipeRejects(c) \/ PipeRetry(c) \/ Move(c) \/ Record(c)
    BY <1>1, <1>6 DEF Copy, Answer, PipeRejects, PipeRetry, Move, Record, HasSaved, HasCopy
  <1>7. ASSUME NEW places, Fails(c, places)
        PROVE  /\ pc' \in [Calls -> Places]
               /\ \A d \in Calls \ {c} : pc'[d] = pc[d]
               /\ Later(pc, pc')
    BY <1>1, <1>7 DEF Fails, HasSaved, HasCopy
  <1> QED
    BY <1>2, <1>3, <1>4, <1>5, <1>6, <1>7
    DEF Call, KernelMissing, WorkflowRejected, RemoteFails, ServiceFails, PipeFails, CopyFails,
           MoveFails, RecordFails

LEMMA FilesAre ==
  ASSUME NEW g \in Seq(File)
  PROVE  \A i \in DOMAIN g : g[i] \in File /\ g[i].video \in Video
  <1>1. \A i \in DOMAIN g : g[i] \in File
    OBVIOUS
  <1>2. \A f \in File : f.video \in Video
    BY DEF File
  <1> QED
    BY <1>1, <1>2

(* The directory after each step of a call. *)
LEMMA DirectoryStep ==
  ASSUME TypeInv, NEW c \in Calls, Call(c)
  PROVE  /\ generated' \in Seq(File)
         /\ OneName(generated')
         /\ FilesFit(generated', pc')
  <1>0. /\ generated \in Seq(File) /\ OneName(generated) /\ FilesFit(generated, pc')
        /\ pc \in [Calls -> Places]
    BY Onward, FitsLater DEF TypeInv, TypeOK, Places
  <1>1. ASSUME UNCHANGED generated
        PROVE  generated' \in Seq(File) /\ OneName(generated') /\ FilesFit(generated', pc')
    BY <1>0, <1>1
  <1>2. ASSUME NEW g \in Seq(File), OneName(g), FilesFit(g, pc'), NEW f \in File,
               \A i \in DOMAIN g : Name(g[i]) # Name(f), Fits(f, pc'), generated' = Append(g, f)
        PROVE  generated' \in Seq(File) /\ OneName(generated') /\ FilesFit(generated', pc')
    BY <1>2, AppendIs, FitsAppended
  <1>3. ASSUME NEW v \in Video
        PROVE  /\ [kind |-> "saved", by |-> c, video |-> v] \in File
               /\ [kind |-> "copy", by |-> c, video |-> v] \in File
               /\ Name([kind |-> "saved", by |-> c, video |-> v]) = <<"saved", c>>
               /\ Name([kind |-> "copy", by |-> c, video |-> v]) = <<"copy", c>>
               /\ pc'[c] \in HasSaved => Fits([kind |-> "saved", by |-> c, video |-> v], pc')
               /\ pc'[c] \in HasCopy => Fits([kind |-> "copy", by |-> c, video |-> v], pc')
    BY DEF File, Name, Fits
  <1>4. /\ [of |-> c, whole |-> FALSE] \in Video
        /\ [of |-> c, whole |-> TRUE] \in Video
    BY DEF Video
  <1>5. CASE SaveVideo(c)
    <2>1. pc[c] = "executing" /\ pc' = [pc EXCEPT ![c] = "saving"]
      BY <1>5 DEF SaveVideo, Go
    <2>2. pc'[c] \in HasSaved
      BY <1>0, <2>1 DEF HasSaved
    <2>3. \A i \in DOMAIN generated : Name(generated[i]) # <<"saved", c>>
      BY <2>1 DEF TypeInv, FilesFit, Fits, HasSaved
    <2>4. PICK f : f = [kind |-> "saved", by |-> c, video |-> [of |-> c, whole |-> FALSE]]
      OBVIOUS
    <2>5. f \in File /\ Name(f) = <<"saved", c>> /\ Fits(f, pc')
      BY <1>3, <1>4, <2>2, <2>4
    <2>6. generated' = Append(generated, f)
      BY <1>5, <2>4 DEF SaveVideo
    <2> QED
      BY <1>0, <1>2, <2>3, <2>5, <2>6
  <1>6. CASE ExecuteSucceeds(c)
    <2>1. pc[c] = "saving" /\ pc' = [pc EXCEPT ![c] = "check"]
      BY <1>6 DEF ExecuteSucceeds, Go
    <2>2. pc'[c] \in HasSaved
      BY <1>0, <2>1 DEF HasSaved
    <2>3. PICK g : g = Without(<<"saved", c>>)
      OBVIOUS
    <2>4. g \in Seq(File) /\ OneName(g) /\ \A i \in DOMAIN g : Name(g[i]) # <<"saved", c>>
      BY <1>0, <2>3, WithoutIs
    <2>5. FilesFit(g, pc')
      <3>1. PICK q : q = pc'
        OBVIOUS
      <3> QED
        BY <1>0, <2>3, <3>1, FitsWithout
    <2>6. PICK f : f = [kind |-> "saved", by |-> c, video |-> [of |-> c, whole |-> TRUE]]
      OBVIOUS
    <2>7. f \in File /\ Name(f) = <<"saved", c>> /\ Fits(f, pc')
      BY <1>3, <1>4, <2>2, <2>6
    <2>8. generated' = Append(g, f)
      BY <1>6, <2>3, <2>6 DEF ExecuteSucceeds
    <2> QED
      BY <1>2, <2>4, <2>5, <2>7, <2>8
  <1>7. CASE Copy(c)
    <2>1. pc[c] = "copy" /\ pc' = [pc EXCEPT ![c] = "fetched"]
      BY <1>7 DEF Copy, Go
    <2>2. pc'[c] \in HasCopy
      BY <1>0, <2>1 DEF HasCopy
    <2>3. \A i \in DOMAIN generated : Name(generated[i]) # <<"copy", c>>
      BY <2>1 DEF TypeInv, FilesFit, Fits, HasCopy
    <2>4. PICK v \in Video : generated' = Append(generated, [kind |-> "copy", by |-> c, video |-> v])
      <3>1. \A i \in DOMAIN generated : generated[i].video \in Video
        BY <1>0, FilesAre
      <3> QED
        BY <1>7, <3>1 DEF Copy
    <2>5. PICK f : f = [kind |-> "copy", by |-> c, video |-> v]
      OBVIOUS
    <2>6. f \in File /\ Name(f) = <<"copy", c>> /\ Fits(f, pc') /\ generated' = Append(generated, f)
      BY <1>3, <2>2, <2>4, <2>5
    <2> QED
      BY <1>0, <1>2, <2>3, <2>6
  <1>8. CASE Answer(c)
    <2>1. pc[c] \in {"remote", "post", "pipe"} /\ pc' = [pc EXCEPT ![c] = "fetched"]
      BY <1>8 DEF Answer, Go
    <2>2. pc'[c] \in HasCopy
      BY <1>0, <2>1 DEF HasCopy
    <2>3. \A i \in DOMAIN generated : Name(generated[i]) # <<"copy", c>>
      BY <2>1 DEF TypeInv, FilesFit, Fits, HasCopy
    <2>4. PICK f : f = [kind |-> "copy", by |-> c, video |-> [of |-> c, whole |-> TRUE]]
      OBVIOUS
    <2>5. f \in File /\ Name(f) = <<"copy", c>> /\ Fits(f, pc')
      BY <1>3, <1>4, <2>2, <2>4
    <2>6. UNCHANGED generated \/ generated' = Append(generated, f)
      BY <1>8, <2>4 DEF Answer
    <2> QED
      BY <1>0, <1>1, <1>2, <2>3, <2>5, <2>6
  <1>9. CASE Move(c)
    <2>1. PICK g : g = Without(<<"copy", c>>)
      OBVIOUS
    <2>2. g \in Seq(File) /\ OneName(g)
      BY <1>0, <2>1, WithoutIs
    <2>3. FilesFit(g, pc')
      <3>1. PICK q : q = pc'
        OBVIOUS
      <3> QED
        BY <1>0, <2>1, <3>1, FitsWithout
    <2> QED
      BY <1>9, <2>1, <2>2, <2>3 DEF Move
  <1> QED
    BY <1>1, <1>5, <1>6, <1>7, <1>8, <1>9
    DEF Call, Record, Start, GiveUp, LoadKernel, ExecuteFails, Check, Collect, PipeRejects, PipeRetry,
        Fails, KernelMissing, WorkflowRejected, RemoteFails, ServiceFails, PipeFails, CopyFails,
           MoveFails, RecordFails

LEMMA PassedOnIs == \A e, in : PassedOn(e, in) \subseteq in
  BY DEF PassedOn, ComfyTakes, VllmTakes, DiffusersTakes

LEMMA TypeCall ==
  ASSUME TypeInv, NEW c \in Calls, Call(c), UNCHANGED storeVars
  PROVE  TypeOK'
  <1>1. StoreTypeOK'
    BY StoreTypeStep DEF TypeInv, TypeOK
  <1>2. pc' \in [Calls -> Active \cup {"new", "failed", "done"}] /\ generated' \in Seq(File)
    BY Onward, DirectoryStep DEF Places
  <1>3. comfyUrl' \in BOOLEAN /\ given' = given
    BY DEF TypeInv, TypeOK, Call, Start, GiveUp, LoadKernel, SaveVideo, ExecuteSucceeds,
           ExecuteFails, Check, Collect, Copy, Answer, PipeRejects, PipeRetry, Move, Record, Fails,
           KernelMissing, WorkflowRejected, RemoteFails, ServiceFails, PipeFails, CopyFails,
           MoveFails, RecordFails
  <1>4. attended' \in Calls \cup {None}
    BY DEF TypeInv, TypeOK, Call, Start, GiveUp, LoadKernel, SaveVideo, ExecuteSucceeds,
           ExecuteFails, Check, Collect, Copy, Answer, PipeRejects, PipeRetry, Move, Record, Fails,
           KernelMissing, WorkflowRejected, RemoteFails, ServiceFails, PipeFails, CopyFails,
           MoveFails, RecordFails, Detach
  <1>5. eng' \in [Calls -> Engines \cup {None}] /\ kernel' \in Calls \cup {None}
    BY Engine DEF TypeInv, TypeOK, Call, Start, GiveUp, LoadKernel, SaveVideo, ExecuteSucceeds,
           ExecuteFails, Check, Collect, Copy, Answer, PipeRejects, PipeRetry, Move, Record, Fails,
           KernelMissing, WorkflowRejected, RemoteFails, ServiceFails, PipeFails, CopyFails,
           MoveFails, RecordFails
  <1>6. holder' \in [Calls -> Calls \cup {None}]
    BY DEF TypeInv, TypeOK, Call, Start, GiveUp, LoadKernel, SaveVideo, ExecuteSucceeds,
           ExecuteFails, Check, Collect, Copy, Answer, PipeRejects, PipeRetry, Move, Record, Fails,
           KernelMissing, WorkflowRejected, RemoteFails, ServiceFails, PipeFails, CopyFails,
           MoveFails, RecordFails
  <1>12. success' \in [Calls -> BOOLEAN]
    BY DEF TypeInv, TypeOK, Call, Start, GiveUp, LoadKernel, SaveVideo, ExecuteSucceeds,
           ExecuteFails, Check, Collect, Copy, Answer, PipeRejects, PipeRetry, Move, Record, Fails,
           KernelMissing, WorkflowRejected, RemoteFails, ServiceFails, PipeFails, CopyFails,
           MoveFails, RecordFails
  <1>7. shown' \in [Calls -> SUBSET UNION InputSets] /\ \A d \in Calls : shown'[d] \subseteq given'[d]
    <2>1. shown' = shown \/ \E in \in SUBSET given[c] : shown' = [shown EXCEPT ![c] = in]
      BY PassedOnIs DEF Call, Start, GiveUp, LoadKernel, SaveVideo, ExecuteSucceeds,
           ExecuteFails, Check, Collect, Copy, Answer, PipeRejects, PipeRetry, Move, Record, Fails,
           KernelMissing, WorkflowRejected, RemoteFails, ServiceFails, PipeFails, CopyFails,
           MoveFails, RecordFails,
           AfterAliasing
    <2>2. given[c] \in InputSets
      BY DEF TypeInv, TypeOK
    <2> QED
      BY <1>3, <2>1, <2>2 DEF TypeInv, TypeOK
  <1>8. src' \in [Calls -> ({"saved", "copy"} \X Calls) \cup {None}]
    <2>1. generated # <<>> => Name(Newest) \in {"saved", "copy"} \X Calls
      <3>1. ASSUME generated # <<>> PROVE Newest \in File
        BY <3>1 DEF TypeInv, TypeOK, Newest
      <3> QED
        BY <3>1 DEF Name, File
    <2> QED
      BY <2>1 DEF TypeInv, TypeOK, Call, Start, GiveUp, LoadKernel, SaveVideo, ExecuteSucceeds,
           ExecuteFails, Check, Collect, Copy, Answer, PipeRejects, PipeRetry, Move, Record, Fails,
           KernelMissing, WorkflowRejected, RemoteFails, ServiceFails, PipeFails, CopyFails,
           MoveFails, RecordFails
  <1>9. carried' \in [Calls -> Video] /\ asset' \in [Calls -> Video]
    <2>1. [of |-> c, whole |-> TRUE] \in Video
      BY DEF Video
    <2>2. \A i \in DOMAIN generated : generated[i].video \in Video
      BY FilesAre DEF TypeInv, TypeOK
    <2>3. carried[c] \in Video
      BY DEF TypeInv, TypeOK
    <2> QED
      BY <2>1, <2>2, <2>3 DEF TypeInv, TypeOK, Call, Start, GiveUp, LoadKernel, SaveVideo,
           ExecuteSucceeds, ExecuteFails, Check, Collect, Copy, Answer, PipeRejects, PipeRetry,
           Move, Record, Fails, KernelMissing, WorkflowRejected, RemoteFails, ServiceFails,
           PipeFails, CopyFails,
           MoveFails, RecordFails
  <1>10. mark' \in [Calls -> {None, "attached", "unmarked"}]
    BY DEF TypeInv, TypeOK, Call, Start, GiveUp, LoadKernel, SaveVideo, ExecuteSucceeds,
           ExecuteFails, Check, Collect, Copy, Answer, PipeRejects, PipeRetry, Move, Record, Fails,
           KernelMissing, WorkflowRejected, RemoteFails, ServiceFails, PipeFails, CopyFails,
           MoveFails, RecordFails,
           Provenance
  <1>11. shared' \in [Calls -> BOOLEAN]
    BY SharedIs DEF TypeInv, TypeOK, Call, Start, GiveUp, LoadKernel, SaveVideo, ExecuteSucceeds,
           ExecuteFails, Check, Collect, Copy, Answer, PipeRejects, PipeRetry, Move, Record, Fails,
           KernelMissing, WorkflowRejected, RemoteFails, ServiceFails, PipeFails, CopyFails,
           MoveFails, RecordFails
  <1> QED
    BY <1>1, <1>2, <1>3, <1>4, <1>5, <1>6, <1>7, <1>8, <1>9, <1>10, <1>11, <1>12 DEF TypeInv, TypeOK

LEMMA TypeInvStep == TypeInv /\ [Next]_runVars => TypeInv'
  <1> SUFFICES ASSUME TypeInv, [Next]_runVars PROVE TypeInv'
    OBVIOUS
  <1>1. CASE (StoreStep \/ UNCHANGED storeVars) /\ UNCHANGED callVars
    <2>1. StoreTypeOK'
      BY <1>1, StoreTypeStep DEF TypeInv, TypeOK
    <2> QED
      BY <1>1, <2>1 DEF callVars, TypeInv, TypeOK
  <1>2. ASSUME NEW c \in Calls, Call(c), UNCHANGED storeVars
        PROVE  TypeInv'
    BY <1>2, TypeCall, DirectoryStep DEF TypeInv
  <1>3. CASE Crash
    <2>1. StoreTypeOK'
      BY <1>3, StoreTypeStep DEF Crash, TypeInv, TypeOK
    <2>2. pc' \in [Calls -> Active \cup {"new", "failed", "done"}] /\ Later(pc, pc')
      BY <1>3 DEF Crash, TypeInv, TypeOK, Later, HasSaved, HasCopy
    <2>3. FilesFit(generated', pc')
      BY <1>3, <2>2, FitsLater DEF Crash, TypeInv
    <2> QED
      BY <1>3, <2>1, <2>2, <2>3 DEF Crash, TypeInv, TypeOK
  <1> QED
    BY <1>1, <1>2, <1>3 DEF Next, runVars

(* Every variable of every reachable state has the values that the model   *)
(* lists for it, whatever calls, handlers and keys there are.              *)
THEOREM RunTypeCorrect == Spec => []TypeOK
  <1>1. TypeInv => TypeOK
    BY DEF TypeInv
  <1> QED
    BY <1>1, TypeInvInit, TypeInvStep, PTL DEF Spec

-----------------------------------------------------------------------------
(* The first frame.                                                        *)

LEMMA AliasPlaces ==
  /\ AliasOf("first_image") = 1
  /\ \A in \in InputSets : \A k \in in : AliasOf(k) \in 1 .. 6
  <1>1. /\ DOMAIN Aliases = 1 .. 6
        /\ Aliases[1][1] = "first_image"
        /\ \A i \in 2 .. 6 : Aliases[i][1] # "first_image"
    BY DEF Aliases
  <1>2. \A in \in InputSets : \A k \in in : \E i \in 1 .. 6 : Aliases[i][1] = k
    BY <1>1, InferenceAssumption
  <1>3. \A in \in InputSets : \A k \in in : AliasOf(k) \in 1 .. 6
    BY <1>1, <1>2 DEF AliasOf
  <1>4. AliasOf("first_image") \in 1 .. 6 /\ Aliases[AliasOf("first_image")][1] = "first_image"
    BY <1>1 DEF AliasOf
  <1> QED
    BY <1>1, <1>3, <1>4

Alias(k) == Aliases[AliasOf(k)][2]

(* Every input that reaches the model, or loses its place to one that does *)
(* and has the same alias.                                                 *)
Represented(in, kept) == \A k \in in \ kept : \E j \in kept : Alias(j) = Alias(k)

(* Of the arguments with one alias the earliest is kept, and no argument   *)
(* is earlier than the first frame.                                        *)
LEMMA AliasingKeeps ==
  ASSUME NEW in \in InputSets
  PROVE  /\ "first_image" \in in => "first_image" \in AfterAliasing(in)
         /\ Represented(in, AfterAliasing(in))
  <1>1. "first_image" \in in => "first_image" \in AfterAliasing(in)
    BY AliasPlaces DEF AfterAliasing
  <1>2. ASSUME NEW k \in in
        PROVE  \E j \in AfterAliasing(in) : Alias(j) = Alias(k)
    <2> DEFINE Same == {AliasOf(j) : j \in {i \in in : Alias(i) = Alias(k)}}
    <2>1. Same \subseteq 1 .. 6 /\ AliasOf(k) \in Same
      BY <1>2, AliasPlaces
    <2>2. \E m \in Same : \A n \in Same : m <= n
      <3> HIDE DEF Same
      <3>1. \A n \in Same : n \in {1, 2, 3, 4, 5, 6}
        BY <2>1
      <3>2. Same # {}
        BY <2>1
      <3>3. CASE 1 \in Same
        BY <3>1, <3>3
      <3>4. CASE 1 \notin Same /\ 2 \in Same
        BY <3>1, <3>4
      <3>5. CASE 1 \notin Same /\ 2 \notin Same /\ 3 \in Same
        BY <3>1, <3>5
      <3>6. CASE 1 \notin Same /\ 2 \notin Same /\ 3 \notin Same /\ 4 \in Same
        BY <3>1, <3>6
      <3>7. CASE 1 \notin Same /\ 2 \notin Same /\ 3 \notin Same /\ 4 \notin Same
        BY <3>1, <3>2, <3>7
      <3> QED
        BY <3>3, <3>4, <3>5, <3>6, <3>7
    <2>3. PICK j \in in : Alias(j) = Alias(k) /\ \A n \in Same : AliasOf(j) <= n
      BY <2>2
    <2>4. \A i \in in : Alias(i) = Alias(j) => AliasOf(j) <= AliasOf(i)
      BY <2>3
    <2>5. j \in AfterAliasing(in)
      BY <2>4 DEF AfterAliasing, Alias
    <2> QED
      BY <2>3, <2>5
  <1> QED
    BY <1>1, <1>2 DEF Represented

Conditioned(c) ==
    /\ "first_image" \in given[c] => "first_image" \in shown[c]
    /\ eng[c] # "diffusers" => shown[c] = given[c]
    /\ Represented(given[c], shown[c])

(* A retry is on the way only with diffusers. *)
FrameInv == \A c \in Calls :
    /\ pc[c] \in {"pipe", "retry"} => eng[c] = "diffusers"
    /\ pc[c] # "new" /\ eng[c] # "comfy" => Conditioned(c)

(* Where a call that neither starts nor retries goes. *)
LEMMA FrameOnward ==
  ASSUME TypeInv, NEW c \in Calls, Call(c), ~Start(c), ~PipeRetry(c)
  PROVE  /\ UNCHANGED <<eng, shown>>
         /\ pc'[c] # "new" => pc[c] # "new"
         /\ pc'[c] \in {"pipe", "retry"} => pc[c] \in {"pipe", "retry"}
  <1> USE DEF TypeInv, TypeOK, Go
  <1>1. ASSUME NEW places, Fails(c, places), "new" \notin places
        PROVE  UNCHANGED <<eng, shown>> /\ pc[c] # "new" /\ pc'[c] = "failed"
    BY <1>1 DEF Fails
  <1>2. CASE KernelMissing(c) \/ WorkflowRejected(c) \/ RemoteFails(c) \/ ServiceFails(c)
               \/ PipeFails(c) \/ CopyFails(c) \/ MoveFails(c) \/ RecordFails(c)
    BY <1>1, <1>2 DEF KernelMissing, WorkflowRejected, RemoteFails, ServiceFails, PipeFails,
                      CopyFails, MoveFails, RecordFails
  <1>3. CASE GiveUp(c) \/ LoadKernel(c) \/ SaveVideo(c) \/ ExecuteSucceeds(c) \/ ExecuteFails(c)
    BY <1>3 DEF GiveUp, LoadKernel, SaveVideo, ExecuteSucceeds, ExecuteFails
  <1>4. CASE Check(c) \/ Collect(c) \/ Copy(c) \/ Answer(c) \/ PipeRejects(c) \/ Move(c) \/ Record(c)
    BY <1>4 DEF Check, Collect, Copy, Answer, PipeRejects, Move, Record
  <1> QED
    BY <1>2, <1>3, <1>4 DEF Call

LEMMA FrameInvStep == TypeInv /\ FrameInv /\ [Next]_runVars => FrameInv'
  <1> SUFFICES ASSUME TypeInv, FrameInv, [Next]_runVars PROVE FrameInv'
    OBVIOUS
  <1>1. CASE UNCHANGED callVars
    BY <1>1 DEF callVars, FrameInv, Conditioned
  <1>2. ASSUME NEW c \in Calls, Call(c)
        PROVE  FrameInv'
    <2>1. /\ UNCHANGED given /\ \A d \in Calls \ {c} : pc'[d] = pc[d]
          /\ given[c] \in InputSets
      <3>1. UNCHANGED given
        BY <1>2 DEF Call, Start, GiveUp, LoadKernel, SaveVideo, ExecuteSucceeds,
           ExecuteFails, Check, Collect, Copy, Answer, PipeRejects, PipeRetry, Move, Record,
           Fails, KernelMissing, WorkflowRejected, RemoteFails, ServiceFails, PipeFails,
           CopyFails, MoveFails, RecordFails
      <3> QED
        BY <1>2, <3>1, Onward DEF TypeInv, TypeOK
    <2>2. CASE Start(c)
      <3>1. /\ eng' = [eng EXCEPT ![c] = ActiveEngine]
            /\ shown' = [shown EXCEPT ![c] = PassedOn(ActiveEngine, given[c])]
            /\ pc' = [pc EXCEPT ![c] = FirstPlace(ActiveEngine)]
        BY <2>2 DEF Start, Go
      <3>2. ActiveEngine # "comfy" => PassedOn(ActiveEngine, given[c]) = given[c]
        BY DEF PassedOn, VllmTakes, DiffusersTakes
      <3>3. FirstPlace(ActiveEngine) \in {"pipe", "retry"} => ActiveEngine = "diffusers"
        BY Engine, InferenceAssumption DEF FirstPlace
      <3>4. Represented(given[c], given[c])
        BY DEF Represented
      <3>5. /\ pc'[c] = FirstPlace(ActiveEngine) /\ eng'[c] = ActiveEngine
            /\ shown'[c] = PassedOn(ActiveEngine, given[c])
            /\ \A d \in Calls \ {c} : eng'[d] = eng[d] /\ shown'[d] = shown[d]
        BY <3>1 DEF TypeInv, TypeOK
      <3> QED
        BY <2>1, <3>2, <3>3, <3>4, <3>5 DEF FrameInv, Conditioned
    <2>3. CASE PipeRetry(c)
      <3>1. /\ UNCHANGED eng /\ pc[c] = "retry" /\ pc'[c] = "fetched"
            /\ shown'[c] = AfterAliasing(given[c])
            /\ \A d \in Calls \ {c} : shown'[d] = shown[d]
        BY <2>3 DEF PipeRetry, Go, TypeInv, TypeOK
      <3> QED
        BY <2>1, <3>1, AliasingKeeps DEF FrameInv, Conditioned
    <2>4. CASE ~Start(c) /\ ~PipeRetry(c)
      BY <1>2, <2>1, <2>4, FrameOnward DEF FrameInv, Conditioned
    <2> QED
      BY <2>2, <2>3, <2>4
  <1>3. CASE Crash
    <2>1. /\ UNCHANGED <<eng, given, shown>>
          /\ \A c \in Calls : /\ pc[c] = "new" => pc'[c] = "new"
                              /\ pc'[c] \notin {"pipe", "retry"}
      BY <1>3 DEF Crash, Active, InKernel, TypeInv, TypeOK
    <2> QED
      BY <2>1 DEF FrameInv, Conditioned
  <1> QED
    BY <1>1, <1>2, <1>3 DEF Next, runVars

(* A result of vllm-omni was conditioned on everything its task carried,   *)
(* and one of diffusers on the first frame and on every input that shares  *)
(* its alias with no other, whatever else the task carries and whether the *)
(* pipeline took the call at once or under aliases.                        *)
THEOREM FirstFrameCorrect == Spec => []FirstFrameKept
  <1>1. Init => FrameInv
    BY DEF Init, FrameInv
  <1>2. TypeInv /\ FrameInv => FirstFrameKept
    <2>1. ASSUME TypeInv, FrameInv, NEW c \in Calls, pc[c] = "done", eng[c] # "comfy"
          PROVE  /\ "first_image" \in given[c] => "first_image" \in shown[c]
                 /\ \A k \in given[c] \ shown[c] :
                       /\ eng[c] = "diffusers"
                       /\ \E j \in shown[c] : Aliases[AliasOf(j)][2] = Aliases[AliasOf(k)][2]
      BY <2>1 DEF FrameInv, Conditioned, Represented, Alias
    <2> QED
      BY <2>1 DEF FirstFrameKept
  <1> QED
    BY <1>1, <1>2, TypeInvInit, TypeInvStep, FrameInvStep, PTL DEF Spec

-----------------------------------------------------------------------------
(* Whose video a call delivers.  OwnVideo only speaks of the end; on the   *)
(* way there, a call that nobody joined in the kernel is alone in it, so   *)
(* executor.success is its own answer and, until it has copied it, its own *)
(* closed file is the newest of the directory.                             *)
Own(c) == [of |-> c, whole |-> TRUE]

SavedIsOwn(g, c) == \A i \in DOMAIN g : Name(g[i]) = <<"saved", c>> => g[i].video = Own(c)
NewestIsOwn(g, c) == g # <<>> /\ Name(g[Len(g)]) = <<"saved", c>>

(* An external ComfyUI and the kernel are never used by one process.       *)
OneComfy ==
    \A c \in Calls : /\ pc[c] \in InKernel \cup {"loading"} => ~comfyUrl
                     /\ pc[c] = "remote" => comfyUrl

Holding == \A c \in Calls : pc[c] \in InKernel => holder[c] \in Calls

Joined == \A c, d \in Calls :
              c # d /\ pc[c] \in InKernel /\ pc[d] \in InKernel => shared[c]

Result(c) ==
    /\ (pc[c] = "check" /\ Succeeded(c)) \/ pc[c] = "collect"
         => SavedIsOwn(generated, c) /\ NewestIsOwn(generated, c)
    /\ pc[c] = "copy" => src[c] = <<"saved", c>> /\ SavedIsOwn(generated, c)
    /\ pc[c] \in {"fetched", "moved"} => carried[c] = Own(c)
    /\ pc[c] = "done" => asset[c] = Own(c)

ResultIsOwn == \A c \in Calls : ~shared[c] => Result(c)

OwnInv == OneComfy /\ Holding /\ Joined /\ ResultIsOwn

LEMMA OwnInvInit == Init => OwnInv
  BY DEF Init, OwnInv, OneComfy, Holding, Joined, ResultIsOwn, Result, InKernel

LEMMA Entering ==
  ASSUME NEW c \in Calls, EnterKernel(c)
  PROVE  /\ \A d \in Calls : shared[d] => shared'[d]
         /\ \A d \in Calls \ {c} : pc[d] \in InKernel => shared'[d] /\ shared'[c]
  <1>1. \A d \in Calls : shared'[d] = (\/ shared[d]
                                       \/ Meets(c) # {} /\ d \in Meets(c) \cup {c})
    BY ZenonT(20) DEF EnterKernel
  <1>2. \A d \in Calls \ {c} : pc[d] \in InKernel => d \in Meets(c) /\ Meets(c) # {}
    BY DEF Meets
  <1>3. c \in Calls
    OBVIOUS
  <1>4. \A d \in Calls : shared[d] => shared'[d]
    BY <1>1, ZenonT(20)
  <1>5. \A d \in Calls \ {c} : pc[d] \in InKernel => shared'[d]
    BY <1>1, <1>2, ZenonT(20)
  <1>6. \A d \in Calls \ {c} : pc[d] \in InKernel => shared'[c]
    BY <1>1, <1>2, ZenonT(20)
  <1> QED
    BY <1>4, <1>5, <1>6

LEMMA SharedKept ==
  ASSUME NEW c \in Calls, Call(c)
  PROVE  \A d \in Calls : shared[d] => shared'[d]
  <1>1. UNCHANGED shared \/ EnterKernel(c)
    BY DEF Call, Start, GiveUp, LoadKernel, SaveVideo, ExecuteSucceeds,
           ExecuteFails, Check, Collect, Copy, Answer, PipeRejects, PipeRetry, Move, Record, Fails,
           KernelMissing, WorkflowRejected, RemoteFails, ServiceFails, PipeFails, CopyFails,
           MoveFails, RecordFails
  <1> QED
    BY <1>1, Entering

LEMMA EntersOrWasIn ==
  ASSUME TypeInv, NEW c \in Calls, Call(c), pc'[c] \in InKernel
  PROVE  pc[c] \in InKernel \/ EnterKernel(c)
  <1> USE DEF TypeInv, TypeOK, InKernel, Go
  <1>1. CASE Start(c)
    BY <1>1 DEF Start, FirstPlace
  <1>2. CASE LoadKernel(c)
    BY <1>2 DEF LoadKernel
  <1>3. CASE GiveUp(c) \/ SaveVideo(c) \/ ExecuteSucceeds(c) \/ ExecuteFails(c) \/ Check(c)
             \/ Collect(c)
    BY <1>3 DEF GiveUp, SaveVideo, ExecuteSucceeds, ExecuteFails, Check, Collect
  <1>4. CASE Copy(c) \/ Answer(c) \/ PipeRejects(c) \/ PipeRetry(c) \/ Move(c) \/ Record(c)
    BY <1>4 DEF Copy, Answer, PipeRejects, PipeRetry, Move, Record
  <1>5. ASSUME NEW places, Fails(c, places)
        PROVE  FALSE
    BY <1>5 DEF Fails
  <1> QED
    BY <1>1, <1>2, <1>3, <1>4, <1>5
    DEF Call, KernelMissing, WorkflowRejected, RemoteFails, ServiceFails, PipeFails, CopyFails,
           MoveFails, RecordFails

LEMMA JoinedStep ==
  ASSUME TypeInv, Joined, NEW c \in Calls, Call(c)
  PROVE  Joined'
  <1>1. \A d \in Calls \ {c} : pc'[d] = pc[d]
    BY Onward
  <1>2. \A d \in Calls : shared[d] => shared'[d]
    BY SharedKept
  <1>3. ASSUME NEW d \in Calls \ {c}, pc'[c] \in InKernel, pc[d] \in InKernel
        PROVE  shared'[c] /\ shared'[d]
    BY <1>2, <1>3, EntersOrWasIn, Entering DEF Joined
  <1> QED
    BY <1>1, <1>2, <1>3 DEF Joined

(* What a step of one call leaves alone.                                   *)
LEMMA OthersKept ==
  ASSUME TypeInv, NEW c \in Calls, Call(c), NEW d \in Calls \ {c}
  PROVE  /\ pc'[d] = pc[d] /\ holder'[d] = holder[d] /\ src'[d] = src[d]
         /\ carried'[d] = carried[d] /\ asset'[d] = asset[d]
  <1>1. pc'[d] = pc[d]
    BY Onward
  <1>2. holder'[d] = holder[d]
    BY DEF TypeInv, TypeOK, Call, Start, GiveUp, LoadKernel, SaveVideo, ExecuteSucceeds,
           ExecuteFails, Check, Collect, Copy, Answer, PipeRejects, PipeRetry, Move, Record, Fails,
           KernelMissing, WorkflowRejected, RemoteFails, ServiceFails, PipeFails, CopyFails,
           MoveFails, RecordFails
  <1>3. src'[d] = src[d]
    BY DEF TypeInv, TypeOK, Call, Start, GiveUp, LoadKernel, SaveVideo, ExecuteSucceeds,
           ExecuteFails, Check, Collect, Copy, Answer, PipeRejects, PipeRetry, Move, Record, Fails,
           KernelMissing, WorkflowRejected, RemoteFails, ServiceFails, PipeFails, CopyFails,
           MoveFails, RecordFails
  <1>4. carried'[d] = carried[d]
    BY DEF TypeInv, TypeOK, Call, Start, GiveUp, LoadKernel, SaveVideo, ExecuteSucceeds,
           ExecuteFails, Check, Collect, Copy, Answer, PipeRejects, PipeRetry, Move, Record, Fails,
           KernelMissing, WorkflowRejected, RemoteFails, ServiceFails, PipeFails, CopyFails,
           MoveFails, RecordFails
  <1>5. asset'[d] = asset[d]
    BY DEF TypeInv, TypeOK, Call, Start, GiveUp, LoadKernel, SaveVideo, ExecuteSucceeds,
           ExecuteFails, Check, Collect, Copy, Answer, PipeRejects, PipeRetry, Move, Record, Fails,
           KernelMissing, WorkflowRejected, RemoteFails, ServiceFails, PipeFails, CopyFails,
           MoveFails, RecordFails
  <1> QED
    BY <1>1, <1>2, <1>3, <1>4, <1>5

LEMMA OutsideKernel ==
  ASSUME NEW c \in Calls, Call(c), pc[c] \notin InKernel, pc[c] # "remote"
  PROVE  /\ UNCHANGED success
         /\ generated' = generated \/ generated' = Without(<<"copy", c>>)
  BY DEF InKernel, Call, Start, GiveUp, LoadKernel, SaveVideo, ExecuteSucceeds,
           ExecuteFails, Check, Collect, Copy, Answer, PipeRejects, PipeRetry, Move, Record, Fails,
           KernelMissing, WorkflowRejected, RemoteFails, ServiceFails, PipeFails, CopyFails,
           MoveFails, RecordFails

LEMMA HoldingStep ==
  ASSUME TypeInv, Holding, OneComfy, NEW c \in Calls, Call(c)
  PROVE  Holding' /\ OneComfy'
  <1>1. \A d \in Calls \ {c} : pc'[d] = pc[d] /\ holder'[d] = holder[d]
    BY OthersKept
  <1>2. UNCHANGED comfyUrl
    BY DEF Call, Start, GiveUp, LoadKernel, SaveVideo, ExecuteSucceeds,
           ExecuteFails, Check, Collect, Copy, Answer, PipeRejects, PipeRetry, Move, Record, Fails,
           KernelMissing, WorkflowRejected, RemoteFails, ServiceFails, PipeFails, CopyFails,
           MoveFails, RecordFails
  <1>3. /\ pc'[c] \in InKernel => holder'[c] \in Calls
        /\ pc'[c] \in InKernel \cup {"loading"} => ~comfyUrl
        /\ pc'[c] = "remote" => comfyUrl
    <2> USE DEF TypeInv, TypeOK, InKernel, Go
    <2>1. CASE Start(c)
      BY <2>1, InferenceAssumption DEF Start, FirstPlace
    <2>2. CASE LoadKernel(c)
      BY <2>2 DEF LoadKernel, OneComfy
    <2>3. CASE GiveUp(c) \/ SaveVideo(c) \/ ExecuteSucceeds(c) \/ ExecuteFails(c) \/ Check(c)
               \/ Collect(c)
      BY <2>3 DEF GiveUp, SaveVideo, ExecuteSucceeds, ExecuteFails, Check, Collect, Holding, OneComfy
    <2>4. CASE Copy(c) \/ Answer(c) \/ PipeRejects(c) \/ PipeRetry(c) \/ Move(c) \/ Record(c)
      BY <2>4 DEF Copy, Answer, PipeRejects, PipeRetry, Move, Record
    <2>5. ASSUME NEW places, Fails(c, places)
          PROVE  pc'[c] = "failed"
      BY <2>5 DEF Fails
    <2> QED
      BY <2>1, <2>2, <2>3, <2>4, <2>5
      DEF Call, KernelMissing, WorkflowRejected, RemoteFails, ServiceFails, PipeFails, CopyFails,
           MoveFails, RecordFails
  <1> QED
    BY <1>1, <1>2, <1>3 DEF Holding, OneComfy

(* The result of a call stays its own while the others step.               *)
LEMMA OthersResult ==
  ASSUME TypeInv, OwnInv, NEW c \in Calls, Call(c), NEW d \in Calls \ {c}, ~shared[d]
  PROVE  Result(d)'
  <1>1. Result(d)
    BY DEF OwnInv, ResultIsOwn
  <1>2. /\ pc'[d] = pc[d] /\ holder'[d] = holder[d] /\ src'[d] = src[d]
        /\ carried'[d] = carried[d] /\ asset'[d] = asset[d]
    BY OthersKept
  <1>3. CASE pc[d] \notin InKernel
    BY <1>1, <1>2, <1>3 DEF Result, InKernel
  <1>4. CASE pc[d] \in InKernel
    <2>1. pc[c] \notin InKernel /\ pc[c] # "remote"
      BY <1>4 DEF OwnInv, Joined, OneComfy
    <2>2. UNCHANGED success /\ (generated' = generated \/ generated' = Without(<<"copy", c>>))
      BY <2>1, OutsideKernel
    <2>3. PICK g : g = generated'
      OBVIOUS
    <2>4. SavedIsOwn(generated, d) => SavedIsOwn(g, d)
      <3>1. \A i \in DOMAIN g : \E j \in DOMAIN generated : g[i] = generated[j]
        BY <2>2, <2>3, WithoutIs DEF TypeInv, TypeOK
      <3> QED
        BY <3>1 DEF SavedIsOwn
    <2>5. NewestIsOwn(generated, d) => NewestIsOwn(g, d)
      <3>1. CASE g = generated
        BY <3>1
      <3>2. CASE g = Without(<<"copy", c>>)
        <4>1. ASSUME NewestIsOwn(generated, d)
              PROVE  generated # <<>> /\ Name(Newest) # <<"copy", c>>
          BY <4>1 DEF NewestIsOwn, Newest
        <4> QED
          BY <3>2, <4>1, WithoutIs DEF TypeInv, TypeOK, NewestIsOwn, Newest
      <3> QED
        BY <2>2, <2>3, <3>1, <3>2
    <2>6. Succeeded(d)' = Succeeded(d)
      BY <1>2, <2>2 DEF Succeeded
    <2>7. SavedIsOwn(generated, d)' = SavedIsOwn(g, d) /\ NewestIsOwn(generated, d)' = NewestIsOwn(g, d)
      BY <2>3
    <2> QED
      BY <1>1, <1>2, <2>4, <2>5, <2>6, <2>7 DEF Result
  <1> QED
    BY <1>3, <1>4

(* The result of the call that steps.                                      *)
LEMMA OwnResult ==
  ASSUME TypeInv, OwnInv, NEW c \in Calls, Call(c), ~shared[c]
  PROVE  Result(c)'
  <1>0. Result(c) /\ generated \in Seq(File) /\ OneName(generated) /\ pc'[c] \in Places
    BY Onward DEF OwnInv, ResultIsOwn, TypeInv, TypeOK
  <1> USE DEF Go
  <1>1. CASE Start(c) \/ LoadKernel(c) \/ SaveVideo(c) \/ PipeRejects(c)
    <2>1. pc'[c] \in {"post", "pipe", "remote", "loading", "executing", "saving", "retry"}
      BY <1>1 DEF Start, FirstPlace, LoadKernel, SaveVideo, PipeRejects, TypeInv, TypeOK
    <2> QED
      BY <2>1 DEF Result
  <1>2. CASE GiveUp(c)
    <2>1. UNCHANGED <<pc, holder, success, generated, src, carried, asset>>
      BY <1>2 DEF GiveUp
    <2> QED
      BY <1>0, <2>1 DEF Result, Succeeded
  <1>3. CASE ExecuteSucceeds(c)
    <2>1. PICK g, f : g = Without(<<"saved", c>>) /\ f = [kind |-> "saved", by |-> c, video |-> Own(c)]
      OBVIOUS
    <2>2. /\ g \in Seq(File)
          /\ \A i \in DOMAIN g : Name(g[i]) # <<"saved", c>>
      BY <1>0, <2>1, WithoutIs
    <2>3. f \in File /\ Name(f) = <<"saved", c>> /\ f.video = Own(c)
      BY <2>1 DEF File, Video, Own, Name
    <2>4. SavedIsOwn(Append(g, f), c) /\ NewestIsOwn(Append(g, f), c)
      BY <2>2, <2>3, AppendIs DEF SavedIsOwn, NewestIsOwn
    <2>5. generated' = Append(g, f) /\ pc'[c] = "check"
      BY <1>3, <2>1 DEF ExecuteSucceeds, Own, TypeInv, TypeOK
    <2> QED
      BY <2>4, <2>5 DEF Result
  <1>4. CASE ExecuteFails(c)
    <2>1. /\ pc[c] \in InKernel /\ pc'[c] = "check" /\ UNCHANGED holder
          /\ success' = [success EXCEPT ![holder[c]] = FALSE]
      BY <1>4 DEF ExecuteFails, InKernel, TypeInv, TypeOK
    <2>2. ~success'[holder[c]]
      BY <2>1 DEF OwnInv, Holding, TypeInv, TypeOK
    <2> QED
      BY <2>1, <2>2 DEF Result, Succeeded
  <1>5. CASE Check(c)
    <2>1. /\ pc[c] = "check" /\ UNCHANGED <<generated, src, carried, asset>>
          /\ pc'[c] = IF Succeeded(c) THEN "collect" ELSE "failed"
      BY <1>5 DEF Check, TypeInv, TypeOK
    <2> QED
      BY <1>0, <2>1 DEF Result
  <1>6. CASE Collect(c)
    <2>1. pc[c] = "collect" /\ UNCHANGED <<generated, success, holder, carried, asset>>
      BY <1>6 DEF Collect
    <2>2. generated # <<>> /\ Name(Newest) = <<"saved", c>> /\ SavedIsOwn(generated, c)
      BY <1>0, <2>1 DEF Result, NewestIsOwn, Newest
    <2>3. pc'[c] = "copy" /\ src'[c] = <<"saved", c>>
      BY <1>6, <2>2 DEF Collect, TypeInv, TypeOK
    <2> QED
      BY <2>1, <2>2, <2>3 DEF Result
  <1>7. CASE Copy(c)
    <2>1. /\ pc[c] = "copy" /\ pc'[c] = "fetched"
          /\ \E i \in DOMAIN generated :
                Name(generated[i]) = src[c] /\ carried'[c] = generated[i].video
      BY <1>7 DEF Copy, TypeInv, TypeOK
    <2> QED
      BY <1>0, <2>1 DEF Result, SavedIsOwn
  <1>8. CASE Answer(c) \/ PipeRetry(c)
    <2>1. pc'[c] = "fetched" /\ carried'[c] = Own(c)
      BY <1>8 DEF Answer, PipeRetry, Own, TypeInv, TypeOK
    <2> QED
      BY <2>1 DEF Result
  <1>9. CASE Record(c)
    <2>1. pc[c] = "moved" /\ pc'[c] = "done" /\ asset'[c] = carried[c]
      BY <1>9 DEF Record, TypeInv, TypeOK
    <2> QED
      BY <1>0, <2>1 DEF Result
  <1>11. CASE Move(c)
    <2>1. pc[c] = "fetched" /\ pc'[c] = "moved" /\ carried'[c] = carried[c]
      BY <1>11 DEF Move, TypeInv, TypeOK
    <2> QED
      BY <1>0, <2>1 DEF Result
  <1>10. ASSUME NEW places, Fails(c, places)
         PROVE  Result(c)'
    <2>1. pc'[c] = "failed"
      BY <1>10 DEF Fails, TypeInv, TypeOK
    <2> QED
      BY <2>1 DEF Result
  <1> QED
    BY <1>1, <1>2, <1>3, <1>4, <1>5, <1>6, <1>7, <1>8, <1>9, <1>10, <1>11
    DEF Call, KernelMissing, WorkflowRejected, RemoteFails, ServiceFails, PipeFails, CopyFails,
           MoveFails, RecordFails

LEMMA OwnInvStep == TypeInv /\ OwnInv /\ [Next]_runVars => OwnInv'
  <1> SUFFICES ASSUME TypeInv, OwnInv, [Next]_runVars PROVE OwnInv'
    OBVIOUS
  <1>1. CASE UNCHANGED callVars
    BY <1>1 DEF callVars, OwnInv, OneComfy, Holding, Joined, ResultIsOwn, Result, SavedIsOwn,
                NewestIsOwn, Succeeded
  <1>2. ASSUME NEW c \in Calls, Call(c)
        PROVE  OwnInv'
    <2>1. Joined' /\ Holding' /\ OneComfy'
      BY <1>2, JoinedStep, HoldingStep DEF OwnInv
    <2>2. ASSUME NEW d \in Calls, ~shared'[d]
          PROVE  Result(d)'
      <3>1. ~shared[d]
        BY <1>2, <2>2, SharedKept
      <3> QED
        BY <1>2, <3>1, OwnResult, OthersResult
    <2> QED
      BY <2>1, <2>2 DEF OwnInv, ResultIsOwn
  <1>3. CASE Crash
    <2>1. /\ UNCHANGED <<comfyUrl, generated, src, carried, asset, shared>>
          /\ \A c \in Calls : /\ pc'[c] \notin InKernel \cup {"loading", "remote", "fetched", "moved"}
                              /\ pc'[c] = "done" => pc[c] = "done"
      BY <1>3 DEF Crash, Active, InKernel, TypeInv, TypeOK
    <2> QED
      BY <2>1 DEF OwnInv, OneComfy, Holding, Joined, ResultIsOwn, Result, InKernel
  <1> QED
    BY <1>1, <1>2, <1>3 DEF Next, runVars

(* A call whose run in the kernel nobody joined delivers its own whole     *)
(* video, for any number of calls before, beside and after it, of any      *)
(* engine, that fail, are given up at the timeout or die with the process  *)
(* and leave their files behind.                                           *)
THEOREM OwnVideoCorrect == Spec => []OwnVideo
  <1>1. OwnInv => OwnVideo
    BY DEF OwnInv, ResultIsOwn, Result, Own, OwnVideo
  <1> QED
    BY <1>1, TypeInvInit, TypeInvStep, OwnInvInit, OwnInvStep, PTL DEF Spec
=============================================================================
