------------------------ MODULE PatchExchangeProofs -------------------------
(***************************************************************************)
(* Saves and loads of PatchExchange, for any number of slots, edits and     *)
(* requests and any capacity of the queue: what holds of saves is proved     *)
(* for a user who asks for none while one is under way, what holds of loads  *)
(* likewise, and what needs both for one who does neither.                   *)
(***************************************************************************)
EXTENDS PatchExchange, TLAPS

-----------------------------------------------------------------------------
(* A command on its way: in the queue, or being applied.                     *)

Holds(s, c) == \E i \in 1 .. Len(s) : s[i] = c
HoldsOnce(s, c) == \A i, j \in 1 .. Len(s) : s[i] = c /\ s[j] = c => i = j

Queued(c) == Holds(q, c)

Applying(c) ==
  \/ apc = "apply" /\ popResult = c
  \/ apc = "snapshot2" /\ c = "Snapshot"
  \/ apc = "load2" /\ c = "LoadPatch"

(* There is at most one of it, queue and callback taken together.            *)
Single(c) == HoldsOnce(q, c) /\ (Applying(c) => ~Queued(c))

(* A request names a slot, and is kept until it has been taken up.           *)
Asked ==
  /\ request.type # "None" => request.slot \in Slots
  /\ pc \in {"clearDone", "pushSnapshot", "read1", "read2", "pushLoad"} => request.type # "None"

Typed == TypeOK /\ Asked

-----------------------------------------------------------------------------
(* Loads: the one buffer is not touched from the request to the install, and *)
(* holds what the slot held.                                                 *)
LoadInv ==
  /\ Single("LoadPatch")
  /\ Queued("LoadPatch") \/ Applying("LoadPatch") => loading
  /\ request.type = "LoadPattern" => ~loading
  /\ pc \in {"read1", "read2", "pushLoad"} => request.type = "LoadPattern"
  /\ pc = "read2" => loaded.lo = flash[request.slot].lo
  /\ pc = "pushLoad" => loaded = flash[request.slot]
  /\ loading => loaded = wanted
  /\ apc = "load2" => patch.lo = loaded.lo

(* Saves: between the clearing of the flag and the write there is one        *)
(* snapshot, the flag is its answer, and it is of a patch no older than the  *)
(* request.                                                                  *)
SaveInv ==
  /\ Single("Snapshot")
  /\ Queued("Snapshot") \/ Applying("Snapshot") => pending # NoSlot /\ ~snapshotDone
  /\ request.type = "SavePattern" => pending = NoSlot
  /\ pc \in {"clearDone", "pushSnapshot"} => request.type = "SavePattern"
  /\ pc = "pushSnapshot" => ~snapshotDone
  /\ pc \in {"write1", "write2"} => pending # NoSlot /\ snapshotDone
  /\ pc = "write2" => flash[pending].lo = staging.lo
  /\ apc = "snapshot2" => staging.lo = patch.lo
  /\ (pc = "pushSnapshot" \/ pending # NoSlot) /\ apc # "load2" =>
       patch.lo \in since /\ patch.hi \in since
  /\ pending # NoSlot /\ snapshotDone => staging.lo \in since /\ staging.hi \in since

(* Every patch anyone may look at is whole.                                  *)
WholeInv ==
  /\ apc # "load2" => Coherent(patch)
  /\ loading => Coherent(loaded)
  /\ snapshotDone => Coherent(staging)
  /\ \A s \in Slots : Coherent(flash[s]) \/ (pc = "write2" /\ s = pending)

-----------------------------------------------------------------------------
(* What the two ends of the queue do to the commands in it.                  *)

LEMMA AppendHolds ==
  ASSUME NEW S, NEW s \in Seq(S), NEW c \in S
  PROVE  /\ Append(s, c) \in Seq(S)
         /\ Len(Append(s, c)) = Len(s) + 1
         /\ \A d : d # c => (Holds(Append(s, c), d) <=> Holds(s, d))
         /\ \A d : d # c /\ HoldsOnce(s, d) => HoldsOnce(Append(s, c), d)
         /\ ~Holds(s, c) => HoldsOnce(Append(s, c), c)
<1> DEFINE t == Append(s, c)
<1>1. t \in Seq(S) /\ Len(t) = Len(s) + 1 /\ Len(s) \in Nat
  OBVIOUS
<1>2. t[Len(s) + 1] = c /\ \A i \in 1 .. Len(s) : t[i] = s[i]
  OBVIOUS
<1> HIDE DEF t
<1>3. 1 .. Len(t) = 1 .. Len(s) \cup {Len(s) + 1}
  BY <1>1
<1>4. ASSUME NEW d, d # c PROVE Holds(t, d) <=> Holds(s, d)
  BY <1>2, <1>3, <1>4 DEF Holds
<1>5. ASSUME NEW d, d # c, HoldsOnce(s, d) PROVE HoldsOnce(t, d)
  BY <1>2, <1>3, <1>5 DEF HoldsOnce
<1>6. ASSUME ~Holds(s, c) PROVE HoldsOnce(t, c)
  BY <1>2, <1>3, <1>6 DEF Holds, HoldsOnce
<1>7. /\ \A d : d # c => (Holds(t, d) <=> Holds(s, d))
      /\ \A d : d # c /\ HoldsOnce(s, d) => HoldsOnce(t, d)
  BY <1>4, <1>5
<1> QED
  BY <1>1, <1>6, <1>7 DEF t

LEMMA TailHolds ==
  ASSUME NEW S, NEW s \in Seq(S), s # <<>>
  PROVE  /\ Tail(s) \in Seq(S)
         /\ Head(s) \in S
         /\ Len(Tail(s)) = Len(s) - 1
         /\ Holds(s, Head(s))
         /\ \A d : Holds(Tail(s), d) => Holds(s, d)
         /\ \A d : HoldsOnce(s, d) => HoldsOnce(Tail(s), d)
         /\ \A d : d = Head(s) /\ HoldsOnce(s, d) => ~Holds(Tail(s), d)
<1> DEFINE t == Tail(s)
<1>1. /\ t \in Seq(S) /\ Len(t) = Len(s) - 1 /\ Len(s) \in Nat /\ Len(s) > 0
      /\ Head(s) = s[1] /\ Head(s) \in S
  OBVIOUS
<1>2. \A i \in 1 .. Len(t) : i + 1 \in 1 .. Len(s) /\ t[i] = s[i + 1]
  OBVIOUS
<1> HIDE DEF t
<1>3. Holds(s, Head(s))
  BY <1>1 DEF Holds
<1>4. ASSUME NEW d, Holds(t, d) PROVE Holds(s, d)
  BY <1>2, <1>4 DEF Holds
<1>5. ASSUME NEW d, HoldsOnce(s, d) PROVE HoldsOnce(t, d)
  <2> SUFFICES ASSUME NEW i \in 1 .. Len(t), NEW j \in 1 .. Len(t), t[i] = d, t[j] = d
               PROVE  i = j
    BY DEF HoldsOnce
  <2>1. i + 1 = j + 1
    BY <1>2, <1>5 DEF HoldsOnce
  <2> QED
    BY <1>1, <2>1
<1>6. ASSUME NEW d, d = Head(s), HoldsOnce(s, d) PROVE ~Holds(t, d)
  <2> SUFFICES ASSUME NEW i \in 1 .. Len(t), t[i] = d PROVE FALSE
    BY DEF Holds
  <2>1. 1 \in 1 .. Len(s) /\ i + 1 \in 1 .. Len(s) /\ s[1] = d /\ s[i + 1] = d
    BY <1>1, <1>2, <1>6
  <2>2. 1 = i + 1
    BY <2>1, <1>6 DEF HoldsOnce
  <2> QED
    BY <1>1, <2>2
<1> QED
  BY <1>1, <1>3, <1>4, <1>5, <1>6 DEF t

(* A push of c: whatever is on its way stays so, and of c there is one more  *)
(* at most.                                                                  *)
LEMMA PushOne ==
  ASSUME q \in Seq(Commands), Len(q) <= Capacity, NEW c \in Commands, Push(c)
  PROVE  /\ q' \in Seq(Commands) /\ Len(q') <= Capacity
         /\ pushResult' \in {"accepted", "refused"}
         /\ popResult' = popResult
         /\ \A d : d # c => (Holds(q', d) <=> Holds(q, d))
         /\ \A d : d # c /\ HoldsOnce(q, d) => HoldsOnce(q', d)
         /\ ~Holds(q, c) => HoldsOnce(q', c)
<1>1. CASE Queue!Accept(c)
  BY <1>1, AppendHolds, PatchExchangeAssumption DEF Queue!Accept, Queue!Room
<1>2. CASE Queue!Refuse
  BY <1>2 DEF Queue!Refuse, HoldsOnce, Holds
<1> QED
  BY <1>1, <1>2 DEF Push

(* A pop: what it takes was on its way, and is no longer if it was alone.    *)
LEMMA PopOne ==
  ASSUME q \in Seq(Commands), Len(q) <= Capacity, Queue!Take
  PROVE  /\ q' \in Seq(Commands) /\ Len(q') <= Capacity
         /\ pushResult' = pushResult
         /\ popResult' \in Commands
         /\ Holds(q, popResult')
         /\ \A d : Holds(q', d) => Holds(q, d)
         /\ \A d : HoldsOnce(q, d) => HoldsOnce(q', d)
         /\ HoldsOnce(q, popResult') => ~Holds(q', popResult')
BY TailHolds, PatchExchangeAssumption DEF Queue!Take

-----------------------------------------------------------------------------
(* Types. *)

LEMMA TypedInit == Init => Typed
<1> SUFFICES ASSUME Init PROVE Typed
  OBVIOUS
<1>1. flash \in [Slots -> HalfPatch]
  BY DEF Init, Whole, HalfPatch
<1>2. q \in Seq(Commands) /\ Len(q) <= Capacity
  BY PatchExchangeAssumption DEF Init, Queue!Init
<1>3. Fresh \in HalfPatch /\ Blank \in HalfPatch
  BY DEF Fresh, Blank, Whole, HalfPatch
<1>4. /\ request \in [type : {"None", "SavePattern", "LoadPattern"}, slot : Slots \cup {NoSlot}]
      /\ Asked
  BY DEF Init, Asked, Nothing
<1>5. edits \in 0 .. MaxEdits /\ requests \in 0 .. MaxRequests /\ nextEdit \in Nat \ {0}
  BY PatchExchangeAssumption DEF Init
<1> QED
  BY <1>1, <1>2, <1>3, <1>4, <1>5 DEF Init, Queue!Init, Typed, TypeOK

(* Half a copy of a patch is as good a patch as any. *)
LEMMA HalvesTyped ==
  ASSUME NEW a \in HalfPatch, NEW b \in HalfPatch
  PROVE  /\ a.lo \in Int /\ a.hi \in Int
         /\ [a EXCEPT !.lo = b.lo] \in HalfPatch
         /\ [a EXCEPT !.hi = b.hi] \in HalfPatch
         /\ [lo |-> a.lo, hi |-> -1] \in HalfPatch
BY DEF HalfPatch

LEMMA TypedStep == Typed /\ [Next]_vars => Typed'
<1> SUFFICES ASSUME Typed, [Next]_vars PROVE Typed'
  OBVIOUS
<1> USE PatchExchangeAssumption DEF Typed, TypeOK, Asked, Commands
<1>1. CASE PressEdit
  BY <1>1, PushOne DEF PressEdit, audioVars, historyVars
<1>2. CASE \E type \in {"SavePattern", "LoadPattern"}, s \in Slots : PressStorage(type, s)
  BY <1>2 DEF PressStorage, queueVars, audioVars, historyVars
<1>3. CASE EndKeys
  <2>1. /\ pc' \in {"clearDone", "pushSnapshot", "read1", "poll"}
        /\ pc' # "poll" => request.type # "None"
    BY <1>3 DEF EndKeys, RequestSnapshot
  <2> QED
    BY <1>3, <2>1 DEF EndKeys, queueVars, audioVars, historyVars
<1>4. CASE ClearDone
  <2>1. pc' = "pushSnapshot" /\ pc = "clearDone" /\ snapshotDone' \in BOOLEAN
    BY <1>4 DEF ClearDone, Cleared, AfterStep, RequestSnapshot
  <2>2. since' \subseteq Int
    BY <1>4, HalvesTyped DEF ClearDone
  <2> QED
    BY <1>4, <2>1, <2>2 DEF ClearDone, queueVars, audioVars
<1>5. CASE PushSnapshot
  <2>1. /\ pc' = "poll" /\ pending' \in Slots
        /\ request' \in [type : {"None", "SavePattern", "LoadPattern"}, slot : Slots \cup {NoSlot}]
    BY <1>5 DEF PushSnapshot, Nothing, AfterStep, RequestSnapshot
  <2>2. request'.type = "None"
    BY <1>5 DEF PushSnapshot, Nothing
  <2> QED
    BY <1>5, <2>1, <2>2, PushOne DEF PushSnapshot, audioVars, historyVars
<1>6. CASE ReadFirst
  <2>1. /\ request \in [type : {"None", "SavePattern", "LoadPattern"}, slot : Slots \cup {NoSlot}]
        /\ request.type # "None" /\ request.slot \in Slots
    BY <1>6 DEF ReadFirst
  <2>2. loaded \in HalfPatch /\ flash \in [Slots -> HalfPatch]
    OBVIOUS
  <2>3. UNCHANGED <<queueVars, snapshotDone, loadDone, staging, pending, flash, edits,
                    requests, audioVars, historyVars>>
    BY <1>6 DEF ReadFirst
  <2> HIDE DEF Typed, TypeOK, Asked
  <2>4. \/ pc' = "poll" /\ request' = Nothing /\ loaded' = loaded
        \/ /\ pc' = "read2" /\ request' = request
           /\ loaded' = [loaded EXCEPT !.lo = flash[request.slot].lo]
    BY <1>6 DEF ReadFirst, AfterHalf
  <2>5. loaded' \in HalfPatch
    <3>1. flash[request.slot] \in HalfPatch
      BY <2>1, <2>2
    <3>2. [loaded EXCEPT !.lo = flash[request.slot].lo] \in HalfPatch
      BY <2>2, <3>1, HalvesTyped
    <3> QED
      BY <2>2, <2>4, <3>2
  <2>6. /\ request' \in [type : {"None", "SavePattern", "LoadPattern"}, slot : Slots \cup {NoSlot}]
        /\ request'.type # "None" => request'.slot \in Slots
        /\ pc' = "poll" \/ (pc' = "read2" /\ request'.type # "None")
    BY <2>1, <2>4 DEF Nothing
  <2> QED
    BY <2>3, <2>5, <2>6 DEF Typed, TypeOK, Asked, queueVars, audioVars, historyVars
<1>7. CASE ReadSecond
  <2>1. loaded' \in HalfPatch
    BY <1>7, HalvesTyped DEF ReadSecond
  <2> QED
    BY <1>7, <2>1 DEF ReadSecond, queueVars, audioVars, historyVars
<1>8. CASE PushLoad
  BY <1>8, PushOne DEF PushLoad, Nothing, audioVars
<1>9. CASE Poll
  BY <1>9 DEF Poll, queueVars, audioVars, historyVars, MayWrite
<1>10. CASE WriteFirst
  <2>1. flash' \in [Slots -> HalfPatch]
    BY <1>10, HalvesTyped DEF WriteFirst
  <2> QED
    BY <1>10, <2>1 DEF WriteFirst, queueVars, audioVars, historyVars
<1>11. CASE WriteSecond
  <2>1. flash' \in [Slots -> HalfPatch]
    BY <1>11, HalvesTyped DEF WriteSecond
  <2> QED
    BY <1>11, <2>1 DEF WriteSecond, queueVars, audioVars, historyVars
<1>12. CASE Pop
  BY <1>12, PopOne DEF Pop, mainVars, historyVars
<1>13. CASE ApplyEdit
  BY <1>13 DEF ApplyEdit, queueVars, mainVars, Whole, HalfPatch
<1>14. CASE SnapshotFirst
  <2>1. staging' \in HalfPatch
    BY <1>14, HalvesTyped DEF SnapshotFirst
  <2> QED
    BY <1>14, <2>1 DEF SnapshotFirst, queueVars, mainVars, historyVars
<1>15. CASE SnapshotSecond
  <2>1. staging' \in HalfPatch
    BY <1>15, HalvesTyped DEF SnapshotSecond
  <2> QED
    BY <1>15, <2>1 DEF SnapshotSecond, queueVars, mainVars, historyVars
<1>16. CASE LoadFirst
  <2>1. patch' \in HalfPatch
    BY <1>16, HalvesTyped DEF LoadFirst
  <2> QED
    BY <1>16, <2>1 DEF LoadFirst, queueVars, mainVars, historyVars
<1>17. CASE LoadSecond
  <2>1. patch' \in HalfPatch
    BY <1>17, HalvesTyped DEF LoadSecond
  <2> QED
    BY <1>17, <2>1, HalvesTyped DEF LoadSecond, queueVars, mainVars
<1>18. CASE UNCHANGED vars
  BY <1>18 DEF vars, queueVars, mainVars, audioVars, historyVars
<1> QED
  BY <1>1, <1>2, <1>3, <1>4, <1>5, <1>6, <1>7, <1>8, <1>9, <1>10, <1>11, <1>12, <1>13, <1>14, <1>15, <1>16, <1>17, <1>18
     DEF Next, MainStep, AudioStep

LEMMA TypedAlways == Spec => []Typed
BY TypedInit, TypedStep, PTL DEF Spec

(* Every variable of the exchange keeps its type: the queue holds no more    *)
(* than its capacity, and a request that names a kind names a slot.          *)
THEOREM TypeCorrect == Spec => []TypeOK
<1>1. Typed => TypeOK
  BY DEF Typed
<1> QED
  BY <1>1, TypedAlways, PTL

-----------------------------------------------------------------------------
(* Loads. *)

LEMMA LoadInit == Init => LoadInv
BY DEF Init, Queue!Init, LoadInv, Single, Applying, Queued, Holds, HoldsOnce, Nothing

LEMMA LoadStep ==
  ASSUME "load" \notin Overlaps, Typed, LoadInv, [Next]_vars
  PROVE  LoadInv'
<1> USE PatchExchangeAssumption
    DEF Typed, TypeOK, Asked, HalfPatch, Commands, LoadInv, Single, Applying, Queued
<1>1. CASE PressEdit
  BY <1>1, PushOne DEF PressEdit, audioVars, historyVars
<1>2. CASE \E type \in {"SavePattern", "LoadPattern"}, s \in Slots : PressStorage(type, s)
  BY <1>2 DEF PressStorage, queueVars, audioVars, historyVars, MayAsk
<1>3. CASE EndKeys
  BY <1>3 DEF EndKeys, queueVars, audioVars, historyVars, RequestSnapshot
<1>4. CASE ClearDone
  BY <1>4 DEF ClearDone, queueVars, audioVars, Cleared, AfterStep, RequestSnapshot
<1>5. CASE PushSnapshot
  BY <1>5, PushOne DEF PushSnapshot, Nothing, audioVars, historyVars, AfterStep, RequestSnapshot
<1>6. CASE ReadFirst
  BY <1>6 DEF ReadFirst, Nothing, queueVars, audioVars, historyVars, AfterHalf
<1>7. CASE ReadSecond
  BY <1>7 DEF ReadSecond, queueVars, audioVars, historyVars
<1>8. CASE PushLoad
  BY <1>8, PushOne DEF PushLoad, Nothing, audioVars
<1>9. CASE Poll
  BY <1>9 DEF Poll, queueVars, audioVars, historyVars, MayWrite
<1>10. CASE WriteFirst
  BY <1>10 DEF WriteFirst, queueVars, audioVars, historyVars
<1>11. CASE WriteSecond
  BY <1>11 DEF WriteSecond, queueVars, audioVars, historyVars
<1>12. CASE Pop
  BY <1>12, PopOne DEF Pop, mainVars, historyVars
<1>13. CASE ApplyEdit
  BY <1>13 DEF ApplyEdit, queueVars, mainVars, Whole
<1>14. CASE SnapshotFirst
  BY <1>14 DEF SnapshotFirst, queueVars, mainVars, historyVars
<1>15. CASE SnapshotSecond
  BY <1>15 DEF SnapshotSecond, queueVars, mainVars, historyVars
<1>16. CASE LoadFirst
  BY <1>16 DEF LoadFirst, queueVars, mainVars, historyVars
<1>17. CASE LoadSecond
  BY <1>17 DEF LoadSecond, queueVars, mainVars
<1>18. CASE UNCHANGED vars
  BY <1>18 DEF vars, queueVars, mainVars, audioVars, historyVars
<1> QED
  BY <1>1, <1>2, <1>3, <1>4, <1>5, <1>6, <1>7, <1>8, <1>9, <1>10, <1>11, <1>12, <1>13, <1>14, <1>15, <1>16, <1>17, <1>18
     DEF Next, MainStep, AudioStep

LEMMA LoadAlways ==
  ASSUME "load" \notin Overlaps
  PROVE  Spec => []LoadInv
<1>1. Typed /\ LoadInv /\ [Next]_vars => LoadInv'
  BY LoadStep
<1> QED
  BY <1>1, LoadInit, TypedAlways, PTL DEF Spec

(* A load installs what its slot held when it was asked for, all of it,      *)
(* whatever saves go on around it: nothing touches the one buffer between    *)
(* the request and the install, and one load is under way at a time.         *)
THEOREM LoadsAreExact ==
  ASSUME "load" \notin Overlaps
  PROVE  Spec => LoadedExactly
<1>1. Typed /\ LoadInv /\ [Next]_vars => (apc = "load2" /\ apc' = "drain" => patch' = wanted)
  <2> SUFFICES ASSUME Typed, LoadInv, [Next]_vars, apc = "load2", apc' = "drain"
               PROVE  patch' = wanted
    OBVIOUS
  <2>1. LoadSecond
    BY DEF Next, MainStep, AudioStep, PressEdit, PressStorage, EndKeys, ClearDone, PushSnapshot,
           ReadFirst, ReadSecond, PushLoad, Poll, WriteFirst, WriteSecond, Pop, ApplyEdit,
           SnapshotFirst, SnapshotSecond, LoadFirst, vars, audioVars
  <2>2. loaded = wanted /\ patch.lo = loaded.lo
    BY DEF LoadInv, Applying
  <2> QED
    BY <2>1, <2>2 DEF LoadSecond, Typed, TypeOK, HalfPatch
<1>2. Typed /\ LoadInv /\ [Next]_vars
        => [apc = "load2" /\ apc' = "drain" => patch' = wanted]_vars
  BY <1>1
<1> QED
  BY <1>2, TypedAlways, LoadAlways, PTL DEF Spec, LoadedExactly

-----------------------------------------------------------------------------
(* Saves. *)

LEMMA SaveInit == Init => SaveInv
BY DEF Init, Queue!Init, SaveInv, Single, Applying, Queued, Holds, HoldsOnce, Nothing

LEMMA SaveStep ==
  ASSUME "save" \notin Overlaps, Typed, SaveInv, [Next]_vars
  PROVE  SaveInv'
<1> USE PatchExchangeAssumption
    DEF Typed, TypeOK, Asked, HalfPatch, Commands, SaveInv, Single, Applying, Queued
<1>1. CASE PressEdit
  BY <1>1, PushOne DEF PressEdit, audioVars, historyVars
<1>2. CASE \E type \in {"SavePattern", "LoadPattern"}, s \in Slots : PressStorage(type, s)
  BY <1>2 DEF PressStorage, queueVars, audioVars, historyVars, MayAsk
<1>3. CASE EndKeys
  BY <1>3 DEF EndKeys, queueVars, audioVars, historyVars, RequestSnapshot
<1>4. CASE ClearDone
  BY <1>4 DEF ClearDone, queueVars, audioVars, Cleared, AfterStep, RequestSnapshot
<1>5. CASE PushSnapshot
  BY <1>5, PushOne DEF PushSnapshot, Nothing, audioVars, historyVars, AfterStep, RequestSnapshot
<1>6. CASE ReadFirst
  BY <1>6, SMTT(30) DEF ReadFirst, Nothing, queueVars, audioVars, historyVars, AfterHalf
<1>7. CASE ReadSecond
  BY <1>7 DEF ReadSecond, queueVars, audioVars, historyVars
<1>8. CASE PushLoad
  BY <1>8, PushOne DEF PushLoad, Nothing, audioVars
<1>9. CASE Poll
  BY <1>9 DEF Poll, queueVars, audioVars, historyVars, MayWrite
<1>10. CASE WriteFirst
  BY <1>10 DEF WriteFirst, queueVars, audioVars, historyVars
<1>11. CASE WriteSecond
  BY <1>11 DEF WriteSecond, queueVars, audioVars, historyVars
<1>12. CASE Pop
  BY <1>12, PopOne DEF Pop, mainVars, historyVars
<1>13. CASE ApplyEdit
  BY <1>13 DEF ApplyEdit, queueVars, mainVars, Whole
<1>14. CASE SnapshotFirst
  BY <1>14 DEF SnapshotFirst, queueVars, mainVars, historyVars
<1>15. CASE SnapshotSecond
  BY <1>15 DEF SnapshotSecond, queueVars, mainVars, historyVars
<1>16. CASE LoadFirst
  BY <1>16 DEF LoadFirst, queueVars, mainVars, historyVars
<1>17. CASE LoadSecond
  BY <1>17 DEF LoadSecond, queueVars, mainVars
<1>18. CASE UNCHANGED vars
  BY <1>18 DEF vars, queueVars, mainVars, audioVars, historyVars
<1> QED
  BY <1>1, <1>2, <1>3, <1>4, <1>5, <1>6, <1>7, <1>8, <1>9, <1>10, <1>11, <1>12, <1>13, <1>14, <1>15, <1>16, <1>17, <1>18
     DEF Next, MainStep, AudioStep

LEMMA SaveAlways ==
  ASSUME "save" \notin Overlaps
  PROVE  Spec => []SaveInv
<1>1. Typed /\ SaveInv /\ [Next]_vars => SaveInv'
  BY SaveStep
<1> QED
  BY <1>1, SaveInit, TypedAlways, PTL DEF Spec

(* A save writes the patch as it was at some moment after it was asked for,  *)
(* never what an earlier snapshot left in the staging buffer, whatever loads *)
(* go on around it.                                                          *)
THEOREM SavesAreCurrent ==
  ASSUME "save" \notin Overlaps
  PROVE  Spec => SavedIsCurrent
<1> DEFINE A == pc = "write2" /\ pc' # "write2" =>
                  flash'[pending].lo \in since /\ flash'[pending].hi \in since
<1>1. Typed /\ SaveInv /\ [Next]_vars => A
  <2> SUFFICES ASSUME Typed, SaveInv, [Next]_vars, pc = "write2", pc' # "write2"
               PROVE  flash'[pending].lo \in since /\ flash'[pending].hi \in since
    OBVIOUS
  <2>1. WriteSecond
    BY DEF Next, MainStep, AudioStep, PressEdit, PressStorage, EndKeys, ClearDone, PushSnapshot,
           ReadFirst, ReadSecond, PushLoad, Poll, WriteFirst, Pop, ApplyEdit,
           SnapshotFirst, SnapshotSecond, LoadFirst, LoadSecond, vars, mainVars
  <2>2. /\ pending \in Slots
        /\ flash[pending].lo = staging.lo
        /\ staging.lo \in since /\ staging.hi \in since
    BY DEF SaveInv, Typed, TypeOK
  <2> QED
    BY <2>1, <2>2 DEF WriteSecond, Typed, TypeOK, HalfPatch
<1>2. Typed /\ SaveInv /\ [Next]_vars => [A]_vars
  BY <1>1
<1> QED
  BY <1>2, TypedAlways, SaveAlways, PTL DEF Spec, SavedIsCurrent

-----------------------------------------------------------------------------
(* Saves and loads together. *)

LEMMA WholeInit == Init => WholeInv
BY DEF Init, WholeInv, Coherent, Fresh, Whole

LEMMA WholeStep ==
  ASSUME Overlaps = {}, Typed, LoadInv, SaveInv, WholeInv, [Next]_vars
  PROVE  WholeInv'
<1> USE PatchExchangeAssumption
    DEF Typed, TypeOK, Asked, HalfPatch, Commands, LoadInv, SaveInv, Applying, WholeInv, Coherent
<1>1. CASE PressEdit
  BY <1>1, PushOne DEF PressEdit, audioVars, historyVars
<1>2. CASE \E type \in {"SavePattern", "LoadPattern"}, s \in Slots : PressStorage(type, s)
  BY <1>2 DEF PressStorage, queueVars, audioVars, historyVars, MayAsk
<1>3. CASE EndKeys
  BY <1>3 DEF EndKeys, queueVars, audioVars, historyVars, RequestSnapshot
<1>4. CASE ClearDone
  BY <1>4 DEF ClearDone, queueVars, audioVars, Cleared, AfterStep, RequestSnapshot
<1>5. CASE PushSnapshot
  BY <1>5, PushOne DEF PushSnapshot, Nothing, audioVars, historyVars, AfterStep, RequestSnapshot
<1>6. CASE ReadFirst
  BY <1>6 DEF ReadFirst, Nothing, queueVars, audioVars, historyVars, AfterHalf
<1>7. CASE ReadSecond
  BY <1>7 DEF ReadSecond, queueVars, audioVars, historyVars
<1>8. CASE PushLoad
  BY <1>8, PushOne DEF PushLoad, Nothing, audioVars
<1>9. CASE Poll
  BY <1>9 DEF Poll, queueVars, audioVars, historyVars, MayWrite
<1>10. CASE WriteFirst
  BY <1>10 DEF WriteFirst, queueVars, audioVars, historyVars
<1>11. CASE WriteSecond
  BY <1>11 DEF WriteSecond, queueVars, audioVars, historyVars
<1>12. CASE Pop
  BY <1>12, PopOne DEF Pop, mainVars, historyVars
<1>13. CASE ApplyEdit
  BY <1>13 DEF ApplyEdit, queueVars, mainVars, Whole
<1>14. CASE SnapshotFirst
  BY <1>14 DEF SnapshotFirst, queueVars, mainVars, historyVars
<1>15. CASE SnapshotSecond
  BY <1>15 DEF SnapshotSecond, queueVars, mainVars, historyVars
<1>16. CASE LoadFirst
  BY <1>16 DEF LoadFirst, queueVars, mainVars, historyVars
<1>17. CASE LoadSecond
  BY <1>17 DEF LoadSecond, queueVars, mainVars
<1>18. CASE UNCHANGED vars
  BY <1>18 DEF vars, queueVars, mainVars, audioVars, historyVars
<1> QED
  BY <1>1, <1>2, <1>3, <1>4, <1>5, <1>6, <1>7, <1>8, <1>9, <1>10, <1>11, <1>12, <1>13, <1>14, <1>15, <1>16, <1>17, <1>18
     DEF Next, MainStep, AudioStep

LEMMA WholeAlways ==
  ASSUME Overlaps = {}
  PROVE  Spec => []WholeInv
<1>1. Typed /\ LoadInv /\ SaveInv /\ WholeInv /\ [Next]_vars => WholeInv'
  BY WholeStep
<1>2. "load" \notin Overlaps /\ "save" \notin Overlaps
  OBVIOUS
<1> QED
  BY <1>1, <1>2, WholeInit, TypedAlways, LoadAlways, SaveAlways, PTL DEF Spec

(* No save is torn: what a slot holds once it is written is one state of the *)
(* patch, for any number of slots and any capacity of the queue.             *)
THEOREM SavesAreCoherent ==
  ASSUME Overlaps = {}
  PROVE  Spec => []SavedCoherent
<1>1. WholeInv => SavedCoherent
  BY DEF WholeInv, SavedCoherent
<1> QED
  BY <1>1, WholeAlways, PTL
=============================================================================
