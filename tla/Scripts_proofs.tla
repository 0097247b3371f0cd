---------------------------- MODULE Scripts_proofs ----------------------------
(***************************************************************************)
(* Proofs about the scripts beside a node: the native build, for any set   *)
(* of inputs, the bot's profile, for any bots, fields and overlapping      *)
(* runs, the mirror, for any bundles, sizes and overlapping runs, and the  *)
(* environment file, for any names, renamings and lines.                   *)
(***************************************************************************)
EXTENDS Operations, PackageStore_proofs, Deployment_proofs, Sums, SequenceTheorems

-----------------------------------------------------------------------------
(* The native build *)

\* What was compiled since this make began is still the library when it ends.
BuiltHere ==
    make \in {"record", "made"} => library # {} /\ library \subseteq since

\* since holds the inputs there are now.
SinceHoldsNow == make \in {"check", "clean", "compile", "record"} => inputs \in since

NativeInv == NativeTypeOK /\ BuiltHere /\ SinceHoldsNow

\* A recorded build also describes its artifact, so it is never the expected one.
LEMMA RecordedDiffers ==
    ASSUME NEW i, NEW j, NEW b
    PROVE  Recorded(i, b) # Expected(j)
<1>1. "artifact" \in DOMAIN Recorded(i, b)
  BY DEF Recorded
<1>2. "artifact" \notin DOMAIN Expected(j)
  BY DEF Expected
<1> QED
  BY <1>1, <1>2

LEMMA NeverAccepted == NativeTypeOK => ~CheckNativeBuild
<1> SUFFICES ASSUME NativeTypeOK, metadata = {Expected(inputs)}
             PROVE  FALSE
  BY DEF CheckNativeBuild
<1>1. PICK i \in Inputs, b \in Inputs : Expected(inputs) = Recorded(i, b)
  BY DEF NativeTypeOK
<1> QED
  BY <1>1, RecordedDiffers

LEMMA NativeInvInit == NativeInit => NativeInv
BY DEF NativeInit, NativeInv, NativeTypeOK, BuiltHere, SinceHoldsNow

LEMMA NativeInvNext == NativeInv /\ [NativeNext]_nativeVars => NativeInv'
<1> SUFFICES ASSUME NativeInv, [NativeNext]_nativeVars
             PROVE  NativeInv'
  OBVIOUS
<1> USE DEF NativeInv, NativeTypeOK, BuiltHere, SinceHoldsNow
<1>1. CASE ChangeInputs
  BY <1>1 DEF ChangeInputs
<1>2. CASE BeginMake
  BY <1>2 DEF BeginMake
<1>3. CASE Check
  BY <1>3, NeverAccepted DEF Check
<1>4. CASE Clean
  BY <1>4 DEF Clean
<1>5. CASE Compile
  BY <1>5 DEF Compile
<1>6. CASE RecordNativeBuild
  BY <1>6 DEF RecordNativeBuild
<1>7. CASE StopMake
  BY <1>7 DEF StopMake
<1>8. CASE UNCHANGED nativeVars
  BY <1>8 DEF nativeVars
<1> QED
  BY <1>1, <1>2, <1>3, <1>4, <1>5, <1>6, <1>7, <1>8 DEF NativeNext

(* Whatever changes while make runs, and wherever it stops, a make that     *)
(* ends leaves a library of inputs there were while it ran.                 *)
THEOREM NativeStaysFresh == NativeSpec => []NativeFresh
<1>1. NativeInv => NativeFresh
  BY DEF NativeInv, BuiltHere, NativeFresh
<1> QED
  BY <1>1, NativeInvInit, NativeInvNext, PTL DEF NativeSpec

-----------------------------------------------------------------------------
(* The bot's profile *)

\* Only a run with the token of the expected bot reads, writes and reports.
LumiAlone ==
    \A r \in BotRuns :
        configuring[r].step \notin {"wait", "identity"} => configuring[r].bot = Lumi

\* A field that a run has compared, and found as wanted, is so until it is edited.
Compared(r) ==
    \A f \in Fields : f \in configured[Lumi] \/ f \in configuring[r].edited
        \/ CASE configuring[r].step = "read" -> f \in configuring[r].todo \cup configuring[r].differ
             [] configuring[r].step = "verify" -> f \in configuring[r].todo
             [] configuring[r].step = "verified" -> FALSE
             [] OTHER -> TRUE

BotInv ==
    /\ BotTypeOK
    /\ LumiAlone
    /\ OtherBotsUntouched
    /\ \A r \in BotRuns : Compared(r)

LEMMA WaitingTyped == Waiting \in BotRun
BY BotProfileAssumption DEF Waiting, BotRun, BotSteps

LEMMA BotInvInit == BotInit => BotInv
BY BotProfileAssumption, WaitingTyped
   DEF BotInit, BotInv, BotTypeOK, LumiAlone, OtherBotsUntouched, Compared, Waiting, BotRun

LEMMA BotStepKeeps ==
    ASSUME BotInv, NEW r \in BotRuns, BotStep(r)
    PROVE  BotInv'
<1> USE BotProfileAssumption DEF BotInv, BotTypeOK
<1>1. CASE BeginConfigure(r)
  <2>1. BotTypeOK'
    <3>1. ASSUME NEW b \in Bots, NEW a \in BOOLEAN
          PROVE  [Waiting EXCEPT !.step = "identity", !.bot = b, !.apply = a] \in BotRun
      BY WaitingTyped DEF BotRun, BotSteps
    <3> QED
      BY <1>1, <3>1 DEF BeginConfigure
  <2>2. LumiAlone'
    BY <1>1 DEF BeginConfigure, Waiting, LumiAlone, BotRun, BotSteps
  <2>3. OtherBotsUntouched'
    BY <1>1 DEF BeginConfigure, Waiting, LumiAlone, OtherBotsUntouched, BotRun, BotSteps
  <2>4. ASSUME NEW q \in BotRuns PROVE Compared(q)'
    <3>1. CASE q = r
      BY <1>1, <3>1 DEF BeginConfigure, Waiting, LumiAlone, Compared, BotRun, BotSteps
    <3>2. CASE q # r
      BY <1>1, <3>2 DEF BeginConfigure, Waiting, LumiAlone, Compared, BotRun, BotSteps
    <3> QED
      BY <3>1, <3>2
  <2> QED
    BY <2>1, <2>2, <2>3, <2>4
<1>2. CASE Identity(r)
  <2>1. BotTypeOK'
    BY <1>2, WaitingTyped DEF Identity, Exit, BotRun, BotSteps
  <2>2. LumiAlone'
    BY <1>2 DEF Identity, Exit, Waiting, LumiAlone, BotRun, BotSteps
  <2>3. OtherBotsUntouched'
    BY <1>2 DEF Identity, Exit, Waiting, LumiAlone, OtherBotsUntouched, BotRun, BotSteps
  <2>4. ASSUME NEW q \in BotRuns PROVE Compared(q)'
    <3>1. CASE q = r
      BY <1>2, <3>1 DEF Identity, Exit, Waiting, LumiAlone, Compared, BotRun, BotSteps
    <3>2. CASE q # r
      BY <1>2, <3>2 DEF Identity, Exit, Waiting, LumiAlone, Compared, BotRun, BotSteps
    <3> QED
      BY <3>1, <3>2
  <2> QED
    BY <2>1, <2>2, <2>3, <2>4
<1>3. CASE ReadField(r)
  <2>1. BotTypeOK'
    <3>1. ASSUME NEW T \in SUBSET Fields, NEW D \in SUBSET Fields
          PROVE  [configuring[r] EXCEPT !.todo = T, !.differ = D] \in BotRun
      BY DEF BotRun
    <3>2. configuring[r].todo \in SUBSET Fields /\ configuring[r].differ \in SUBSET Fields
      BY DEF BotRun
    <3>3. PICK f \in configuring[r].todo :
             configuring' = [configuring EXCEPT
                 ![r].todo = @ \ {f},
                 ![r].differ = @ \cup ({f} \ configured[configuring[r].bot])]
      BY <1>3 DEF ReadField
    <3>4. configuring' = [configuring EXCEPT
              ![r] = [configuring[r] EXCEPT
                         !.todo = configuring[r].todo \ {f},
                         !.differ = configuring[r].differ
                                      \cup ({f} \ configured[configuring[r].bot])]]
      BY <3>3
    <3> QED
      BY <1>3, <3>1, <3>2, <3>4 DEF ReadField
  <2>2. LumiAlone'
    BY <1>3 DEF ReadField, LumiAlone, BotRun, BotSteps
  <2>3. OtherBotsUntouched'
    BY <1>3 DEF ReadField, LumiAlone, OtherBotsUntouched, BotRun, BotSteps
  <2>4. ASSUME NEW q \in BotRuns PROVE Compared(q)'
    <3>1. CASE q = r
      BY <1>3, <3>1 DEF ReadField, LumiAlone, Compared, BotRun, BotSteps
    <3>2. CASE q # r
      BY <1>3, <3>2 DEF ReadField, LumiAlone, Compared, BotRun, BotSteps
    <3> QED
      BY <3>1, <3>2
  <2> QED
    BY <2>1, <2>2, <2>3, <2>4
<1>4. CASE ReadAll(r)
  <2>1. BotTypeOK'
    BY <1>4, WaitingTyped DEF ReadAll, Exit, BotRun, BotSteps
  <2>2. LumiAlone'
    BY <1>4 DEF ReadAll, Exit, Waiting, LumiAlone, BotRun, BotSteps
  <2>3. OtherBotsUntouched'
    BY <1>4 DEF ReadAll, Exit, Waiting, LumiAlone, OtherBotsUntouched, BotRun, BotSteps
  <2>4. ASSUME NEW q \in BotRuns PROVE Compared(q)'
    <3>1. CASE q = r
      BY <1>4, <3>1 DEF ReadAll, Exit, Waiting, LumiAlone, Compared, BotRun, BotSteps
    <3>2. CASE q # r
      BY <1>4, <3>2 DEF ReadAll, Exit, Waiting, LumiAlone, Compared, BotRun, BotSteps
    <3> QED
      BY <3>1, <3>2
  <2> QED
    BY <2>1, <2>2, <2>3, <2>4
<1>5. CASE WriteField(r)
  <2>1. BotTypeOK'
    BY <1>5 DEF WriteField, SetField, BotRun, BotSteps
  <2>2. LumiAlone'
    BY <1>5 DEF WriteField, SetField, LumiAlone, BotRun, BotSteps
  <2>3. OtherBotsUntouched'
    BY <1>5 DEF WriteField, SetField, LumiAlone, OtherBotsUntouched, BotRun, BotSteps
  <2>4. ASSUME NEW q \in BotRuns PROVE Compared(q)'
    <3>1. CASE q = r
      BY <1>5, <3>1 DEF WriteField, SetField, LumiAlone, Compared, BotRun, BotSteps
    <3>2. CASE q # r
      BY <1>5, <3>2 DEF WriteField, SetField, LumiAlone, Compared, BotRun, BotSteps
    <3> QED
      BY <3>1, <3>2
  <2> QED
    BY <2>1, <2>2, <2>3, <2>4
<1>6. CASE WriteUnanswered(r)
  <2>1. BotTypeOK'
    BY <1>6, WaitingTyped DEF WriteUnanswered, SetField, Exit, BotRun, BotSteps
  <2>2. LumiAlone'
    BY <1>6 DEF WriteUnanswered, SetField, Exit, Waiting, LumiAlone, BotRun, BotSteps
  <2>3. OtherBotsUntouched'
    BY <1>6 DEF WriteUnanswered, SetField, Exit, Waiting, LumiAlone, OtherBotsUntouched, BotRun, BotSteps
  <2>4. ASSUME NEW q \in BotRuns PROVE Compared(q)'
    <3>1. CASE q = r
      BY <1>6, <3>1 DEF WriteUnanswered, SetField, Exit, Waiting, LumiAlone, Compared, BotRun, BotSteps
    <3>2. CASE q # r
      BY <1>6, <3>2 DEF WriteUnanswered, SetField, Exit, Waiting, LumiAlone, Compared, BotRun, BotSteps
    <3> QED
      BY <3>1, <3>2
  <2> QED
    BY <2>1, <2>2, <2>3, <2>4
<1>7. CASE WroteAll(r)
  <2>1. BotTypeOK'
    <3>1. [configuring[r] EXCEPT !.step = "verify", !.todo = Fields, !.edited = {}] \in BotRun
      BY DEF BotRun, BotSteps
    <3> QED
      BY <1>7, <3>1 DEF WroteAll
  <2>2. LumiAlone'
    BY <1>7 DEF WroteAll, LumiAlone, BotRun, BotSteps
  <2>3. OtherBotsUntouched'
    BY <1>7 DEF WroteAll, LumiAlone, OtherBotsUntouched, BotRun, BotSteps
  <2>4. ASSUME NEW q \in BotRuns PROVE Compared(q)'
    <3>1. CASE q = r
      BY <1>7, <3>1 DEF WroteAll, LumiAlone, Compared, BotRun, BotSteps
    <3>2. CASE q # r
      BY <1>7, <3>2 DEF WroteAll, LumiAlone, Compared, BotRun, BotSteps
    <3> QED
      BY <3>1, <3>2
  <2> QED
    BY <2>1, <2>2, <2>3, <2>4
<1>8. CASE VerifyField(r)
  <2>1. BotTypeOK'
    BY <1>8, WaitingTyped DEF VerifyField, Exit, BotRun, BotSteps
  <2>2. LumiAlone'
    BY <1>8 DEF VerifyField, Exit, Waiting, LumiAlone, BotRun, BotSteps
  <2>3. OtherBotsUntouched'
    BY <1>8 DEF VerifyField, Exit, Waiting, LumiAlone, OtherBotsUntouched, BotRun, BotSteps
  <2>4. ASSUME NEW q \in BotRuns PROVE Compared(q)'
    <3>1. CASE q = r
      BY <1>8, <3>1 DEF VerifyField, Exit, Waiting, LumiAlone, Compared, BotRun, BotSteps
    <3>2. CASE q # r
      BY <1>8, <3>2 DEF VerifyField, Exit, Waiting, LumiAlone, Compared, BotRun, BotSteps
    <3> QED
      BY <3>1, <3>2
  <2> QED
    BY <2>1, <2>2, <2>3, <2>4
<1>9. CASE VerifiedAll(r)
  <2>1. BotTypeOK'
    BY <1>9 DEF VerifiedAll, BotRun, BotSteps
  <2>2. LumiAlone'
    BY <1>9 DEF VerifiedAll, LumiAlone, BotRun, BotSteps
  <2>3. OtherBotsUntouched'
    BY <1>9 DEF VerifiedAll, LumiAlone, OtherBotsUntouched, BotRun, BotSteps
  <2>4. ASSUME NEW q \in BotRuns PROVE Compared(q)'
    <3>1. CASE q = r
      BY <1>9, <3>1 DEF VerifiedAll, LumiAlone, Compared, BotRun, BotSteps
    <3>2. CASE q # r
      BY <1>9, <3>2 DEF VerifiedAll, LumiAlone, Compared, BotRun, BotSteps
    <3> QED
      BY <3>1, <3>2
  <2> QED
    BY <2>1, <2>2, <2>3, <2>4
<1>10. CASE ExitEarly(r)
  <2>1. BotTypeOK'
    BY <1>10, WaitingTyped DEF ExitEarly, Exit, BotRun, BotSteps
  <2>2. LumiAlone'
    BY <1>10 DEF ExitEarly, Exit, Waiting, LumiAlone, BotRun, BotSteps
  <2>3. OtherBotsUntouched'
    BY <1>10 DEF ExitEarly, Exit, Waiting, LumiAlone, OtherBotsUntouched, BotRun, BotSteps
  <2>4. ASSUME NEW q \in BotRuns PROVE Compared(q)'
    <3>1. CASE q = r
      BY <1>10, <3>1 DEF ExitEarly, Exit, Waiting, LumiAlone, Compared, BotRun, BotSteps
    <3>2. CASE q # r
      BY <1>10, <3>2 DEF ExitEarly, Exit, Waiting, LumiAlone, Compared, BotRun, BotSteps
    <3> QED
      BY <3>1, <3>2
  <2> QED
    BY <2>1, <2>2, <2>3, <2>4
<1> QED
  BY <1>1, <1>2, <1>3, <1>4, <1>5, <1>6, <1>7, <1>8, <1>9, <1>10 DEF BotStep

LEMMA BotInvNext == BotInv /\ [BotNext]_botVars => BotInv'
<1> SUFFICES ASSUME BotInv, [BotNext]_botVars
             PROVE  BotInv'
  OBVIOUS
<1> USE BotProfileAssumption
    DEF BotInv, BotTypeOK, LumiAlone, OtherBotsUntouched, Compared
<1>1. CASE EditField
  BY <1>1 DEF EditField, BotRun
<1>2. CASE \E r \in BotRuns : BotStep(r)
  BY <1>2, BotStepKeeps
<1>3. CASE UNCHANGED botVars
  BY <1>3 DEF botVars
<1> QED
  BY <1>1, <1>2, <1>3 DEF BotNext

LEMMA BotInvHolds == BotSpec => []BotInv
BY BotInvInit, BotInvNext, PTL DEF BotSpec

(* Whatever runs overlap, however many answers are lost and whoever edits,  *)
(* a run that says verified is right about every field nobody else edited   *)
(* since it began to compare.                                               *)
THEOREM VerdictsHold == BotSpec => []VerdictHolds
<1>1. BotInv => VerdictHolds
  BY DEF BotInv, Compared, VerdictHolds
<1> QED
  BY <1>1, BotInvHolds, PTL

(* No run changes a bot other than the expected one.                        *)
THEOREM OtherBotsStayUntouched == BotSpec => []OtherBotsUntouched
<1>1. BotInv => OtherBotsUntouched
  BY DEF BotInv
<1> QED
  BY <1>1, BotInvHolds, PTL

-----------------------------------------------------------------------------
(* The mirror *)

\* A run works on the bucket under its lock, which keeps what it read current.
HoldsBucket(m) ==
    /\ mirror[m].step \in {"read", "reserve", "upload"} => holder = {m}
    /\ mirror[m].step = "reserve" /\ ~mirror[m].misread => mirror[m].previous = inventory
    /\ mirror[m].step = "upload" => mirror[m].upload \subseteq inventory

MirrorInv ==
    /\ MirrorTypeOK
    /\ SpaceCounted
    /\ \A m \in Mirrors : HoldsBucket(m)

LEMMA RestingTyped == Resting \in MirrorRun
BY DEF Resting, MirrorRun, MirrorSteps

\* No bundles take no space, so an empty inventory is within the budget.
LEMMA NothingFits == Fits({})
<1>1. Bytes({}) = SumFunctionOnSet(Size, {})
  BY DEF Bytes, MapThenSumSet, SumFunctionOnSet, FoldFunctionOnSet
<1>2. Bytes({}) = 0
  BY <1>1, SumNone
<1> QED
  BY <1>2, PackageMirrorAssumption DEF Fits

LEMMA MirrorInvInit == MirrorInit => MirrorInv
BY RestingTyped, NothingFits
   DEF MirrorInit, MirrorInv, MirrorTypeOK, SpaceCounted, HoldsBucket, Resting

\* Every action of a run changes that run alone, within its type.
LEMMA MirrorStepTyped ==
    ASSUME MirrorTypeOK, NEW m \in Mirrors, MirrorStep(m)
    PROVE  MirrorTypeOK'
<1> USE RestingTyped DEF MirrorTypeOK
<1>1. CASE BeginRun(m)
  <2>1. AppsOf(stored) \subseteq AppsOf(Objects)
    BY DEF AppsOf
  <2>2. [mirror[m] EXCEPT !.step = "collect", !.apps = AppsOf(stored)] \in MirrorRun
    BY <2>1 DEF MirrorRun, MirrorSteps
  <2> QED
    BY <1>1, <2>2 DEF BeginRun
<1>2. CASE CollectApp(m)
  <2>1. PICK a \in mirror[m].apps :
          LET files == {o \in stored : o[1] = a}
          IN  \/ Rest(m)
              \/ /\ mirror' = [mirror EXCEPT ![m].apps = @ \ {a}, ![m].found = @ \cup files]
                 /\ UNCHANGED holder
    BY <1>2 DEF CollectApp
  <2>2. CASE Rest(m)
    BY <1>2, <2>2 DEF CollectApp, Rest
  <2>3. CASE ~Rest(m)
    <3> DEFINE files == {o \in stored : o[1] = a}
    <3>1. [mirror[m] EXCEPT !.apps = mirror[m].apps \ {a},
                            !.found = mirror[m].found \cup files] \in MirrorRun
      BY DEF MirrorRun
    <3> QED
      BY <1>2, <2>1, <2>3, <3>1 DEF CollectApp
  <2> QED
    BY <2>2, <2>3
<1>3. CASE Collected(m)
  BY <1>3 DEF Collected, Rest, MirrorRun, MirrorSteps
<1>4. CASE Lock(m)
  BY <1>4 DEF Lock, MirrorRun, MirrorSteps
<1>5. CASE ReadInventory(m)
  BY <1>5 DEF ReadInventory, MirrorRun, MirrorSteps
<1>6. CASE Reserve(m)
  BY <1>6 DEF Reserve, Replace, Reserved, Rest, MirrorRun, MirrorSteps
<1>7. CASE ReserveUnanswered(m)
  BY <1>7 DEF ReserveUnanswered, Replace, Reserved, Rest, MirrorRun
<1>8. CASE Upload(m)
  BY <1>8 DEF Upload, Rest, MirrorRun
<1>9. CASE UploadUnanswered(m)
  BY <1>9 DEF UploadUnanswered, Rest, MirrorRun
<1>10. CASE Uploaded(m)
  BY <1>10 DEF Uploaded, Rest
<1>11. CASE Abandon(m)
  BY <1>11 DEF Abandon, Rest
<1>12. CASE MisreadInventory(m)
  BY <1>12 DEF MisreadInventory, MirrorRun, MirrorSteps
<1> QED
  BY <1>1, <1>2, <1>3, <1>4, <1>5, <1>6, <1>7, <1>8, <1>9, <1>10, <1>11, <1>12 DEF MirrorStep

\* A new inventory counts what the last one counted, or notes it as forgotten.
LEMMA ReplacedCounts ==
    ASSUME MirrorInv, NEW m \in Mirrors, mirror[m].step = "reserve",
           NEW objects, objects = Reserved(mirror[m].previous, mirror[m].found),
           Fits(objects), Replace(m, objects), UNCHANGED bucket
    PROVE  SpaceCounted'
<1>1. ~mirror[m].misread => inventory \subseteq objects
  BY DEF MirrorInv, HoldsBucket, Reserved
<1>2. bucket \subseteq inventory \cup forgotten
  BY DEF MirrorInv, SpaceCounted
<1>3. bucket \subseteq objects \cup forgotten'
  BY <1>1, <1>2 DEF Replace
<1> QED
  BY <1>3 DEF Replace, SpaceCounted, Fits

LEMMA MirrorStepKeeps ==
    ASSUME MirrorInv, NEW m \in Mirrors, MirrorStep(m)
    PROVE  MirrorInv'
<1>1. MirrorTypeOK'
  BY MirrorStepTyped DEF MirrorInv
<1>2. SpaceCounted' /\ \A n \in Mirrors : HoldsBucket(n)'
  <2> USE DEF MirrorInv, MirrorTypeOK, MirrorRun, SpaceCounted, HoldsBucket
  <2>1. CASE BeginRun(m)
    BY <2>1 DEF BeginRun
  <2>2. CASE CollectApp(m)
    BY <2>2 DEF CollectApp, Rest, Resting
  <2>3. CASE Collected(m)
    BY <2>3 DEF Collected, Rest, Resting
  <2>4. CASE Lock(m)
    BY <2>4 DEF Lock
  <2>5. CASE ReadInventory(m)
    BY <2>5 DEF ReadInventory
  <2>6. CASE Reserve(m)
    <3> DEFINE objects == Reserved(mirror[m].previous, mirror[m].found)
    <3>1. mirror[m].found \subseteq objects /\ holder = {m}
      BY <2>6 DEF Reserve, Reserved
    <3>2. CASE Fits(objects)
      <4>1. mirror' = [mirror EXCEPT ![m].step = "upload", ![m].misread = FALSE,
                                     ![m].upload = mirror[m].found]
            /\ inventory' = objects /\ UNCHANGED <<holder, bucket>>
        BY <2>6, <3>2 DEF Reserve, Replace
      <4>2. SpaceCounted'
        <5>1. Replace(m, objects) /\ mirror[m].step = "reserve" /\ UNCHANGED bucket
          BY <2>6, <3>2 DEF Reserve
        <5> HIDE DEF SpaceCounted
        <5> QED
          BY <3>2, <5>1, ReplacedCounts
      <4>3. \A n \in Mirrors : HoldsBucket(n)'
        <5> HIDE DEF objects, SpaceCounted
        <5> QED
          BY SMTT(30), <3>1, <4>1
      <4> QED
        BY <4>2, <4>3
    <3>3. CASE ~Fits(objects)
      BY <2>6, <3>3 DEF Reserve, Rest, Resting
    <3> QED
      BY <3>2, <3>3
  <2>7. CASE ReserveUnanswered(m)
    <3> DEFINE objects == Reserved(mirror[m].previous, mirror[m].found)
    <3>1. mirror[m].step = "reserve" /\ Fits(objects) /\ Replace(m, objects) /\ Rest(m)
          /\ UNCHANGED bucket
      BY <2>7 DEF ReserveUnanswered
    <3>2. SpaceCounted'
      <4> HIDE DEF SpaceCounted
      <4> QED
        BY <3>1, ReplacedCounts
    <3>3. \A n \in Mirrors : HoldsBucket(n)'
      <4> HIDE DEF SpaceCounted
      <4> QED
        BY <3>1 DEF Rest, Resting
    <3> QED
      BY <3>2, <3>3
  <2>8. CASE Upload(m)
    BY <2>8 DEF Upload, Rest, Resting
  <2>9. CASE UploadUnanswered(m)
    BY <2>9 DEF UploadUnanswered, Rest, Resting
  <2>10. CASE Uploaded(m)
    BY <2>10 DEF Uploaded, Rest, Resting
  <2>11. CASE Abandon(m)
    BY <2>11 DEF Abandon, Rest, Resting
  <2>12. CASE MisreadInventory(m)
    BY <2>12 DEF MisreadInventory
  <2> QED
    BY <2>1, <2>2, <2>3, <2>4, <2>5, <2>6, <2>7, <2>8, <2>9, <2>10, <2>11, <2>12 DEF MirrorStep
<1> QED
  BY <1>1, <1>2 DEF MirrorInv

LEMMA MirrorInvNext == MirrorInv /\ [MirrorNext]_mirrorVars => MirrorInv'
<1> SUFFICES ASSUME MirrorInv, [MirrorNext]_mirrorVars
             PROVE  MirrorInv'
  OBVIOUS
<1>1. CASE Republish
  BY <1>1 DEF Republish, MirrorInv, MirrorTypeOK, SpaceCounted, HoldsBucket
<1>2. CASE \E m \in Mirrors : MirrorStep(m)
  BY <1>2, MirrorStepKeeps
<1>3. CASE UNCHANGED mirrorVars
  BY <1>3 DEF mirrorVars, MirrorInv, MirrorTypeOK, SpaceCounted, HoldsBucket
<1> QED
  BY <1>1, <1>2, <1>3 DEF MirrorNext

(* Whatever overlaps, stops or is not answered, every bundle in the bucket  *)
(* is counted by an inventory that fits the budget, or was counted by one   *)
(* that a run misread.                                                      *)
THEOREM SpaceStaysCounted == MirrorSpec => []SpaceCounted
<1>1. MirrorInv => SpaceCounted
  BY DEF MirrorInv
<1> QED
  BY <1>1, MirrorInvInit, MirrorInvNext, PTL DEF MirrorSpec

-----------------------------------------------------------------------------
(* The environment file *)

\* Every finite set of numbers has a greatest member.
LEMMA Greatest ==
    ASSUME NEW S, S \subseteq Nat, IsFiniteSet(S), S # {}
    PROVE  \E m \in S : \A x \in S : x <= m
<1> DEFINE Fine == {s \in SUBSET S : s # {} => \E m \in s : \A x \in s : x <= m}
<1>1. ASSUME NEW s \in SUBSET S, \A x \in s : s \ {x} \in Fine
      PROVE  s \in Fine
  <2> SUFFICES ASSUME NEW x \in s
               PROVE  \E m \in s : \A y \in s : y <= m
    OBVIOUS
  <2>1. CASE s \ {x} = {}
    <3>1. \A y \in s : y <= x
      BY <2>1
    <3> QED
      BY <3>1
  <2>2. CASE s \ {x} # {}
    <3>1. PICK m \in s \ {x} : \A y \in s \ {x} : y <= m
      BY <1>1, <2>2
    <3>2. CASE x <= m
      BY <3>1, <3>2
    <3>3. CASE ~(x <= m)
      <4>1. \A y \in s : y <= x
        BY <3>1, <3>3
      <4> QED
        BY <4>1
    <3> QED
      BY <3>2, <3>3
  <2> QED
    BY <2>1, <2>2
<1> HIDE DEF Fine
<1>2. S \in Fine
  BY <1>1, SetsByInduction
<1> QED
  BY <1>2 DEF Fine

\* f enumerates S in ascending order.
Ascends(f, S) ==
    /\ f \in [1..Cardinality(S) -> S]
    /\ \A i, j \in DOMAIN f : i < j => f[i] < f[j]

LEMMA SomeAscends ==
    ASSUME NEW S, S \subseteq Nat, IsFiniteSet(S)
    PROVE  \E f : Ascends(f, S)
<1> DEFINE Fine == {s \in SUBSET S : \E f : Ascends(f, s)}
<1>1. ASSUME NEW s \in SUBSET S, \A x \in s : s \ {x} \in Fine
      PROVE  s \in Fine
  <2>0. IsFiniteSet(s) /\ Cardinality(s) \in Nat
    BY FS_Subset, FS_CardinalityType
  <2>1. CASE s = {}
    <3>1. Cardinality(s) = 0
      BY <2>1, FS_EmptySet
    <3>2. Ascends([i \in 1..0 |-> 0], s)
      BY <3>1 DEF Ascends
    <3> QED
      BY <3>2
  <2>2. CASE s # {}
    <3>1. PICK m \in s : \A x \in s : x <= m
      BY <2>0, <2>2, Greatest
    <3> DEFINE n == Cardinality(s)
    <3>2. Cardinality(s \ {m}) = n - 1 /\ n \in Nat /\ n - 1 \in Nat
      <4>1. IsFiniteSet(s \ {m}) /\ Cardinality(s \ {m}) = Cardinality(s) - 1
        BY <2>0, <3>1, FS_RemoveElement
      <4>2. Cardinality(s \ {m}) \in Nat
        BY <4>1, FS_CardinalityType
      <4> QED
        BY <2>0, <4>1, <4>2
    <3>3. PICK f : Ascends(f, s \ {m})
      BY <1>1
    <3> HIDE DEF n
    <3> DEFINE g == [i \in 1..n |-> IF i = n THEN m ELSE f[i]]
    <3>4. f \in [1..n-1 -> s \ {m}] /\ \A i, j \in 1..n-1 : i < j => f[i] < f[j]
      BY <3>2, <3>3 DEF Ascends
    <3>5. \A i \in 1..n : i # n => i \in 1..n-1
      BY <3>2
    <3>6. \A i \in 1..n-1 : f[i] \in s /\ f[i] < m
      <4>1. \A x \in s \ {m} : x < m
        BY <3>1
      <4> QED
        BY <3>4, <4>1
    <3>7. g \in [1..n -> s]
      BY <3>4, <3>5
    <3>8. ASSUME NEW i \in 1..n, NEW j \in 1..n, i < j
          PROVE  g[i] < g[j]
      <4>1. i \in 1..n-1
        BY <3>2, <3>8
      <4>2. CASE j = n
        BY <3>2, <3>6, <3>8, <4>1, <4>2
      <4>3. CASE j # n
        BY <3>2, <3>4, <3>5, <3>8, <4>1, <4>3
      <4> QED
        BY <4>2, <4>3
    <3>9. Ascends(g, s)
      BY <3>7, <3>8 DEF Ascends, n
    <3> QED
      BY <3>9
  <2> QED
    BY <2>1, <2>2
<1> HIDE DEF Fine
<1>2. S \in Fine
  BY <1>1, SetsByInduction
<1> QED
  BY <1>2 DEF Fine

\* A set of places, in order: each occurs, and once.
LEMMA PlacesInOrder ==
    ASSUME NEW S, S \subseteq Nat, IsFiniteSet(S)
    PROVE  /\ Cardinality(S) \in Nat
           /\ Ascends(InOrder(S), S)
           /\ \A x \in S : \E i \in 1..Cardinality(S) : InOrder(S)[i] = x
<1> DEFINE f == InOrder(S)
<1>1. Ascends(f, S)
  <2>1. PICK g : Ascends(g, S)
    BY SomeAscends
  <2> QED
    BY <2>1 DEF InOrder, Ascends
<1>2. Cardinality(S) \in Nat /\ IsFiniteSet(1..Cardinality(S))
      /\ Cardinality(1..Cardinality(S)) = Cardinality(S)
  BY FS_CardinalityType, FS_Interval
<1> HIDE DEF f
<1>3. f \in Injection(1..Cardinality(S), S)
  <2>1. ASSUME NEW i \in 1..Cardinality(S), NEW j \in 1..Cardinality(S), f[i] = f[j]
        PROVE  i = j
    <3>1. /\ f[i] \in Nat /\ f[j] \in Nat
          /\ i < j => f[i] < f[j]
          /\ j < i => f[j] < f[i]
      BY <1>1 DEF Ascends
    <3> QED
      BY <1>2, <2>1, <3>1
  <2>2. f \in [1..Cardinality(S) -> S]
    BY <1>1 DEF Ascends
  <2> QED
    BY <2>1, <2>2 DEF Injection, IsInjective
<1>4. f \in Surjection(1..Cardinality(S), S)
  BY <1>2, <1>3, FS_Injection
<1> QED
  BY <1>1, <1>2, <1>4 DEF Surjection, f

\* The places of a sequence in order are the places.
LEMMA AllInOrder ==
    ASSUME NEW n \in Nat
    PROVE  Cardinality(1..n) = n /\ InOrder(1..n) = [i \in 1..n |-> i]
<1> DEFINE f == InOrder(1..n)
<1>1. IsFiniteSet(1..n) /\ Cardinality(1..n) = n
  BY FS_Interval
<1>2. Ascends(f, 1..n) /\ \A x \in 1..n : \E i \in 1..n : f[i] = x
  <2>1. 1..n \subseteq Nat
    OBVIOUS
  <2> QED
    BY <1>1, <2>1, PlacesInOrder
<1>3. f \in [1..n -> 1..n] /\ \A i, j \in 1..n : i < j => f[i] < f[j]
  BY <1>1, <1>2 DEF Ascends
<1> HIDE DEF f
<1> DEFINE Fine == {m \in Nat : \A i \in 1..n : i <= m => f[i] = i}
<1>4. 0 \in Fine
  OBVIOUS
<1>5. ASSUME NEW m \in Nat, m \in Fine
      PROVE  m + 1 \in Fine
  <2> SUFFICES ASSUME m + 1 \in 1..n PROVE f[m + 1] = m + 1
    BY <1>5
  <2>1. PICK i \in 1..n : f[i] = m + 1
    BY <1>2
  <2>2. CASE i <= m
    BY <1>5, <2>1, <2>2
  <2>3. CASE i = m + 1
    BY <2>1, <2>3
  <2>4. CASE i > m + 1
    <3>1. f[m + 1] < m + 1
      BY <1>3, <2>1, <2>4
    <3>2. f[m + 1] \in 1..n /\ f[m + 1] <= m
      BY <1>3, <3>1
    <3>3. f[f[m + 1]] = f[m + 1]
      BY <1>5, <3>2
    <3>4. f[f[m + 1]] < f[m + 1]
      BY <1>3, <3>1, <3>2
    <3> QED
      BY <3>2, <3>3, <3>4
  <2> QED
    BY <2>2, <2>3, <2>4
<1> HIDE DEF Fine
<1>6. Nat \subseteq Fine
  BY <1>4, <1>5, NumbersByInduction
<1>7. \A i \in 1..n : f[i] = i
  BY <1>6 DEF Fine
<1>8. f = [i \in 1..n |-> i]
  BY <1>3, <1>7
<1> QED
  BY <1>1, <1>8 DEF f

\* Place i is the last that sets name n.
LastOf(lines, n, i) ==
    /\ i \in DOMAIN lines /\ lines[i].name = n
    /\ \A j \in DOMAIN lines : lines[j].name = n => j <= i

\* The last line of a name counts.
LEMMA EffectiveIsLast ==
    ASSUME NEW lines \in Seq(Line), NEW n \in NamesOf(lines)
    PROVE  \E i : LastOf(lines, n, i) /\ Effective(lines, n) = lines[i].value
<1> DEFINE I == {i \in 1..Len(lines) : lines[i].name = n}
<1>1. Len(lines) \in Nat /\ DOMAIN lines = 1..Len(lines)
  OBVIOUS
<1>2. I # {} /\ I \subseteq Nat
  BY <1>1 DEF NamesOf
<1>3. IsFiniteSet(I)
  <2>1. IsFiniteSet(1..Len(lines)) /\ I \subseteq 1..Len(lines)
    BY <1>1, FS_Interval
  <2> QED
    BY <2>1, FS_Subset
<1>4. Effective(lines, n) = lines[Max(I)].value
  BY <1>2 DEF Effective, SelectLastInSeq
<1> HIDE DEF I
<1>5. Max(I) \in I /\ \A x \in I : x <= Max(I)
  <2>1. PICK m \in I : \A x \in I : x <= m
    BY <1>2, <1>3, Greatest
  <2>2. \A x \in I : m >= x
    BY <1>2, <2>1
  <2>3. Max(I) \in I /\ \A x \in I : Max(I) >= x
    BY <2>1, <2>2 DEF Max
  <2> QED
    BY <1>2, <2>3
<1>6. LastOf(lines, n, Max(I))
  BY <1>1, <1>5 DEF LastOf, I
<1> QED
  BY <1>4, <1>6

LEMMA LastCounts ==
    ASSUME NEW lines \in Seq(Line), NEW n, NEW i, LastOf(lines, n, i)
    PROVE  n \in NamesOf(lines) /\ Effective(lines, n) = lines[i].value
<1>1. n \in NamesOf(lines)
  BY DEF NamesOf, LastOf
<1>2. PICK j : LastOf(lines, n, j) /\ Effective(lines, n) = lines[j].value
  BY <1>1, EffectiveIsLast
<1>3. i = j
  BY <1>2 DEF LastOf
<1> QED
  BY <1>1, <1>2, <1>3

LEMMA NamesTyped ==
    ASSUME NEW lines \in Seq(Line)
    PROVE  /\ NamesOf(lines) \subseteq Names /\ IsFiniteSet(NamesOf(lines))
           /\ \A n \in NamesOf(lines) : Effective(lines, n) \in Values
<1>1. DOMAIN lines = 1..Len(lines) /\ Len(lines) \in Nat
      /\ \A i \in DOMAIN lines : lines[i] \in Line
  OBVIOUS
<1>2. NamesOf(lines) \subseteq Names
  BY <1>1 DEF NamesOf, Line
<1>3. IsFiniteSet(NamesOf(lines))
  <2> DEFINE f == [i \in DOMAIN lines |-> lines[i].name]
  <2>1. f \in Surjection(DOMAIN lines, NamesOf(lines))
    BY DEF Surjection, NamesOf
  <2>2. IsFiniteSet(DOMAIN lines)
    BY <1>1, FS_Interval
  <2> QED
    BY <2>1, <2>2, FS_Surjection
<1>4. ASSUME NEW n \in NamesOf(lines)
      PROVE  Effective(lines, n) \in Values
  <2>1. PICK i : LastOf(lines, n, i) /\ Effective(lines, n) = lines[i].value
    BY EffectiveIsLast
  <2> QED
    BY <1>1, <2>1 DEF LastOf, Line
<1> QED
  BY <1>2, <1>3, <1>4

\* What the migration's table of names does to one.
LEMMA Replacements ==
    /\ \A n \in Names : Replacement(n) \in Names \ Legacy
    /\ \A n : n \notin Legacy => Replacement(n) = n
    /\ \A n : n \notin Settings => n \notin Legacy
    /\ \A n \in DOMAIN Ksync :
          /\ Ksync[n] \in Settings /\ n \notin DOMAIN Renamed
          /\ Replacement(n) = IF Ksync[n] \in DOMAIN Renamed THEN Renamed[Ksync[n]] ELSE Ksync[n]
    /\ \A n \in DOMAIN Renamed : Replacement(n) = Renamed[n]
BY NodeEnvironmentAssumption DEF Replacement, Legacy

\* Settings under further names, each the only one that is renamed so.
LEMMA WithNamesIs ==
    ASSUME NEW settings, NEW renaming, IsInjective(renaming),
           \A n \in DOMAIN renaming \cap DOMAIN settings :
               Agree(settings, n, renaming[n])
    PROVE  LET named == WithNames(settings, renaming)
           IN  /\ DOMAIN named = DOMAIN settings
                      \cup {renaming[n] : n \in DOMAIN renaming \cap DOMAIN settings}
               /\ \A n \in DOMAIN settings : named[n] = settings[n]
               /\ \A n \in DOMAIN renaming \cap DOMAIN settings :
                     named[renaming[n]] = settings[n]
<1> DEFINE old == DOMAIN renaming \cap DOMAIN settings
           named == WithNames(settings, renaming)
<1>1. /\ DOMAIN named = DOMAIN settings \cup {renaming[k] : k \in old}
      /\ \A n \in DOMAIN settings : named[n] = settings[n]
  BY DEF WithNames
<1>2. ASSUME NEW n \in old
      PROVE  named[renaming[n]] = settings[n]
  <2>1. CASE renaming[n] \in DOMAIN settings
    BY <1>1, <2>1 DEF Agree
  <2>2. CASE renaming[n] \notin DOMAIN settings
    <3>1. (CHOOSE k \in old : renaming[k] = renaming[n]) = n
      BY DEF IsInjective
    <3> QED
      BY <2>2, <3>1 DEF WithNames
  <2> QED
    BY <2>1, <2>2
<1> QED
  BY <1>1, <1>2

\* A finite set has finitely many names.
LEMMA FewNames ==
    ASSUME NEW S, IsFiniteSet(S), NEW f, NEW T, \A t \in T : \E n \in S : t = f[n]
    PROVE  IsFiniteSet(T)
<1> DEFINE old == {n \in S : f[n] \in T}
           g == [n \in old |-> f[n]]
<1>1. IsFiniteSet(old)
  BY FS_Subset
<1>2. g \in Surjection(old, T)
  BY DEF Surjection
<1> QED
  BY <1>1, <1>2, FS_Surjection

\* What a migration that is not refused computes: each setting's value under its
\* new name, and nothing else that is not some setting's value.
LEMMA CanonicalIs ==
    ASSUME NEW lines \in Seq(Line), ~Conflicting(lines)
    PROVE  LET c == Canonical(lines)
               given == NamesOf(lines) \cap Settings
           IN  /\ given \subseteq DOMAIN c /\ DOMAIN c \subseteq Names
               /\ IsFiniteSet(DOMAIN c)
               /\ \A n \in given : c[n] = Effective(lines, n)
               /\ \A n \in DOMAIN c :
                     Replacement(n) \in DOMAIN c /\ c[Replacement(n)] = c[n]
               /\ \A n \in DOMAIN c \ given : \E k \in given :
                     k \in Legacy /\ c[n] = c[k] /\ Replacement(k) = Replacement(n)
<1> DEFINE s == Recognised(lines)
           w == WithNames(s, Ksync)
           c == Canonical(lines)
           given == NamesOf(lines) \cap Settings
<1>1. DOMAIN s = given /\ \A n \in given : s[n] = Effective(lines, n)
  BY DEF Recognised
<1>2. \A n \in DOMAIN Ksync \cap DOMAIN s : Agree(s, n, Ksync[n])
  BY DEF Conflicting
<1>3. \A n \in DOMAIN Renamed \cap DOMAIN w : Agree(w, n, Renamed[n])
  BY DEF Conflicting
<1>4. IsInjective(Ksync) /\ IsInjective(Renamed)
  BY NodeEnvironmentAssumption
<1>5. c = WithNames(w, Renamed)
  BY DEF Canonical
<1> HIDE DEF s, c
<1>6. /\ DOMAIN w = DOMAIN s \cup {Ksync[n] : n \in DOMAIN Ksync \cap DOMAIN s}
      /\ \A n \in DOMAIN s : w[n] = s[n]
      /\ \A n \in DOMAIN Ksync \cap DOMAIN s : w[Ksync[n]] = s[n]
  BY ZenonT(60), <1>2, <1>4, WithNamesIs
<1> HIDE DEF w
<1>7. /\ DOMAIN c = DOMAIN w \cup {Renamed[n] : n \in DOMAIN Renamed \cap DOMAIN w}
      /\ \A n \in DOMAIN w : c[n] = w[n]
      /\ \A n \in DOMAIN Renamed \cap DOMAIN w : c[Renamed[n]] = w[n]
  <2> DEFINE v == WithNames(w, Renamed)
  <2>1. /\ DOMAIN v = DOMAIN w \cup {Renamed[n] : n \in DOMAIN Renamed \cap DOMAIN w}
        /\ \A n \in DOMAIN w : v[n] = w[n]
        /\ \A n \in DOMAIN Renamed \cap DOMAIN w : v[Renamed[n]] = w[n]
    BY <1>3, <1>4, WithNamesIs
  <2> QED
    BY <1>5, <2>1
<1>8. /\ given \subseteq DOMAIN c
      /\ \A n \in given : c[n] = Effective(lines, n)
  BY <1>1, <1>6, <1>7
<1>9. DOMAIN c \subseteq Names
  BY <1>1, <1>6, <1>7, NamesTyped, NodeEnvironmentAssumption
<1>14. IsFiniteSet(DOMAIN c)
  <2>1. IsFiniteSet(DOMAIN s)
    <3>1. IsFiniteSet(NamesOf(lines)) /\ given \subseteq NamesOf(lines)
      BY NamesTyped
    <3> QED
      BY <1>1, <3>1, FS_Subset
  <2>2. IsFiniteSet(DOMAIN w)
    <3>1. \A t \in DOMAIN w \ DOMAIN s : \E n \in DOMAIN s : t = Ksync[n]
      BY <1>6
    <3>2. IsFiniteSet(DOMAIN w \ DOMAIN s)
      BY <2>1, <3>1, FewNames
    <3>3. DOMAIN w = DOMAIN s \cup (DOMAIN w \ DOMAIN s)
      BY <1>6
    <3> QED
      BY <2>1, <3>2, <3>3, FS_Union
  <2>3. \A t \in DOMAIN c \ DOMAIN w : \E n \in DOMAIN w : t = Renamed[n]
    BY <1>7
  <2>4. IsFiniteSet(DOMAIN c \ DOMAIN w)
    BY <2>2, <2>3, FewNames
  <2>5. DOMAIN c = DOMAIN w \cup (DOMAIN c \ DOMAIN w)
    BY <1>7
  <2> QED
    BY <2>2, <2>4, <2>5, FS_Union
\* From a name of DOMAIN w the replacement is reached by Renamed alone.
<1>10. ASSUME NEW n \in DOMAIN w, n \notin DOMAIN Ksync
       PROVE  Replacement(n) \in DOMAIN c /\ c[Replacement(n)] = c[n]
  <2>1. CASE n \in DOMAIN Renamed
    BY <1>7, <2>1, Replacements
  <2>2. CASE n \notin DOMAIN Renamed
    BY <1>7, <1>10, <2>2, Replacements DEF Legacy
  <2> QED
    BY <2>1, <2>2
<1>11. ASSUME NEW n \in DOMAIN c
       PROVE  Replacement(n) \in DOMAIN c /\ c[Replacement(n)] = c[n]
  <2>1. CASE n \in DOMAIN w /\ n \notin DOMAIN Ksync
    BY <1>10, <2>1
  <2>2. CASE n \in DOMAIN w /\ n \in DOMAIN Ksync
    <3>1. n \in DOMAIN s
      BY <1>6, <2>2, NodeEnvironmentAssumption
    <3>2. /\ Ksync[n] \in DOMAIN w /\ Ksync[n] \notin DOMAIN Ksync
          /\ w[Ksync[n]] = w[n]
      BY <1>6, <2>2, <3>1, NodeEnvironmentAssumption
    <3>3. Replacement(Ksync[n]) = Replacement(n)
      BY <2>2, <3>2 DEF Replacement
    <3>4. Replacement(Ksync[n]) \in DOMAIN c /\ c[Replacement(Ksync[n])] = c[Ksync[n]]
      BY <1>10, <3>2
    <3> QED
      BY <1>7, <2>2, <3>2, <3>3, <3>4
  <2>3. CASE n \notin DOMAIN w
    <3>1. n \notin Legacy
      BY <1>7, <2>3, NodeEnvironmentAssumption
    <3> QED
      BY <3>1, Replacements
  <2> QED
    BY <2>1, <2>2, <2>3
<1>12. ASSUME NEW n \in DOMAIN w \ DOMAIN s
       PROVE  \E k \in DOMAIN s : k \in Legacy /\ w[n] = w[k] /\ Replacement(k) = Replacement(n)
  <2>1. PICK k \in DOMAIN Ksync \cap DOMAIN s : n = Ksync[k]
    BY <1>6
  <2>2. n \notin DOMAIN Ksync
    BY <2>1, NodeEnvironmentAssumption
  <2> QED
    BY <1>6, <2>1, <2>2 DEF Replacement, Legacy
<1>13. ASSUME NEW n \in DOMAIN c \ given
       PROVE  \E k \in given : k \in Legacy /\ c[n] = c[k] /\ Replacement(k) = Replacement(n)
  <2>1. CASE n \in DOMAIN w
    BY <1>1, <1>6, <1>7, <1>12, <1>13, <2>1
  <2>2. CASE n \notin DOMAIN w
    <3>1. PICK m \in DOMAIN Renamed \cap DOMAIN w : n = Renamed[m]
      BY <1>7, <2>2
    <3>2. c[n] = w[m] /\ Replacement(m) = n /\ Replacement(n) = n /\ m \in Legacy
      <4>1. n \notin Legacy
        BY <3>1, NodeEnvironmentAssumption
      <4> QED
        BY <1>7, <3>1, <4>1, Replacements DEF Legacy
    <3>3. CASE m \in DOMAIN s
      BY <1>1, <1>7, <3>1, <3>2, <3>3
    <3>4. CASE m \notin DOMAIN s
      <4>1. PICK k \in DOMAIN s : k \in Legacy /\ w[m] = w[k] /\ Replacement(k) = Replacement(m)
        BY <1>12, <3>1, <3>4
      <4> QED
        BY <1>1, <1>6, <1>7, <3>2, <4>1
    <3> QED
      BY <3>3, <3>4
  <2> QED
    BY <2>1, <2>2
<1> QED
  BY <1>8, <1>9, <1>11, <1>13, <1>14 DEF c

\* A finite set as a sequence: each member occurs, and once.
LEMMA Listed ==
    ASSUME NEW S, IsFiniteSet(S)
    PROVE  /\ Cardinality(S) \in Nat
           /\ SetToSeq(S) \in [1..Cardinality(S) -> S]
           /\ \A i, j \in 1..Cardinality(S) : SetToSeq(S)[i] = SetToSeq(S)[j] => i = j
           /\ \A x \in S : \E i \in 1..Cardinality(S) : SetToSeq(S)[i] = x
<1> DEFINE f == SetToSeq(S)
<1>1. PICK n \in Nat : ExistsBijection(1..n, S)
  BY FS_NatBijection
<1>2. Cardinality(S) = n
  BY <1>1, FS_CountingElements
<1>3. PICK g : g \in [1..n -> S] /\ IsInjective(g)
  BY <1>1 DEF ExistsBijection, Bijection, Injection
<1>4. f \in [1..n -> S] /\ IsInjective(f)
  BY <1>2, <1>3 DEF SetToSeq
<1> HIDE DEF f
<1>5. IsFiniteSet(1..n) /\ Cardinality(1..n) = n
  BY FS_Interval
<1>6. f \in Injection(1..n, S)
  BY <1>4 DEF Injection
<1>7. f \in Surjection(1..n, S)
  BY <1>2, <1>5, <1>6, FS_Injection
<1> QED
  BY <1>2, <1>4, <1>7 DEF IsInjective, Surjection, f

\* The lines that set the names of S, each to its value in c.
Sets(tail, S, c) ==
    /\ tail \in [1..Cardinality(S) -> Line]
    /\ \A i \in 1..Cardinality(S) :
          tail[i].name = SetToSeq(S)[i] /\ tail[i].value = c[SetToSeq(S)[i]]

\* After others, they are those that count.
LEMMA AddedLines ==
    ASSUME NEW lines \in Seq(Line), NEW S, IsFiniteSet(S), NEW c, NEW tail,
           Sets(tail, S, c)
    PROVE  /\ lines \o tail \in Seq(Line)
           /\ NamesOf(lines \o tail) = NamesOf(lines) \cup S
           /\ \A n \in S : Effective(lines \o tail, n) = c[n]
           /\ \A n \in NamesOf(lines) \ S :
                 Effective(lines \o tail, n) = Effective(lines, n)
<1> DEFINE added == SetToSeq(S)
           k == Cardinality(S)
           e == lines \o tail
           l == Len(lines)
<1>1. /\ k \in Nat /\ added \in [1..k -> S]
      /\ \A i, j \in 1..k : added[i] = added[j] => i = j
      /\ \A n \in S : \E i \in 1..k : added[i] = n
  BY Listed
<1>2. /\ tail \in Seq(Line) /\ Len(tail) = k
      /\ \A i \in 1..k : tail[i].name = added[i] /\ tail[i].value = c[added[i]]
  BY <1>1 DEF Sets
<1> HIDE DEF k, added
<1>3. /\ e \in Seq(Line) /\ l \in Nat
      /\ DOMAIN lines = 1..l /\ DOMAIN e = 1..l + k
      /\ \A i \in 1..l : e[i] = lines[i]
      /\ \A i \in 1..k : l + i \in 1..l + k /\ e[l + i] = tail[i]
      /\ \A i \in 1..l + k : i \in 1..l \/ \E j \in 1..k : i = l + j
  <2>1. l \in Nat /\ e \in Seq(Line) /\ Len(e) = l + k
        /\ \A i \in 1..l + k : e[i] = IF i <= l THEN lines[i] ELSE tail[i - l]
    <3>1. /\ e \in Seq(Line) /\ Len(e) = Len(lines) + Len(tail)
          /\ \A i \in 1..Len(lines) + Len(tail) :
                e[i] = IF i <= Len(lines) THEN lines[i] ELSE tail[i - Len(lines)]
      BY <1>2, ConcatProperties
    <3> QED
      BY <1>2, <3>1
  <2>3. \A i \in 1..k : l + i \in 1..l + k /\ ~(l + i <= l) /\ (l + i) - l = i
    BY <1>1, <2>1
  <2>4. ASSUME NEW i \in 1..l + k, i \notin 1..l
        PROVE  \E j \in 1..k : i = l + j
    <3>1. i - l \in 1..k /\ i = l + (i - l)
      BY <1>1, <2>1, <2>4
    <3> QED
      BY <3>1
  <2>5. DOMAIN lines = 1..l /\ DOMAIN e = 1..l + k
    BY <2>1
  <2>6. \A i \in 1..l : i \in 1..l + k /\ i <= l
    BY <1>1, <2>1
  <2> QED
    BY <2>1, <2>3, <2>4, <2>5, <2>6
<1> HIDE DEF e, l
<1>4. NamesOf(e) = NamesOf(lines) \cup S
  <2>1. ASSUME NEW i \in 1..l + k
        PROVE  e[i].name \in NamesOf(lines) \cup S
    <3>1. CASE i \in 1..l
      BY <1>3, <3>1 DEF NamesOf
    <3>2. CASE i \notin 1..l
      <4>1. PICK h \in 1..k : i = l + h
        BY <1>3, <3>2
      <4>2. e[i].name = added[h]
        BY <1>2, <1>3, <4>1
      <4> QED
        BY <1>1, <4>2
    <3> QED
      BY <3>1, <3>2
  <2>2. \A i \in 1..l : i \in DOMAIN e /\ e[i].name = lines[i].name
    BY <1>1, <1>3
  <2>3. ASSUME NEW n \in S
        PROVE  \E i \in DOMAIN e : e[i].name = n
    <3>1. PICK h \in 1..k : added[h] = n
      BY <1>1
    <3>2. e[l + h].name = n /\ l + h \in DOMAIN e
      BY <1>2, <1>3, <3>1
    <3> QED
      BY <3>2
  <2> QED
    BY <1>3, <2>1, <2>2, <2>3 DEF NamesOf
<1>5. ASSUME NEW n \in S
      PROVE  Effective(e, n) = c[n]
  <2>1. PICK i \in 1..k : added[i] = n
    BY <1>1
  <2>2. e[l + i].name = n /\ e[l + i].value = c[n] /\ l + i \in DOMAIN e
    BY <1>2, <1>3, <2>1
  <2>3. ASSUME NEW j \in DOMAIN e, e[j].name = n
        PROVE  j <= l + i
    <3>1. CASE j \in 1..l
      BY <1>3, <2>1, <3>1
    <3>2. CASE j \notin 1..l
      <4>1. PICK h \in 1..k : j = l + h
        BY <1>3, <3>2
      <4>2. added[h] = n
        BY <1>2, <1>3, <2>3, <4>1
      <4>3. h = i
        BY <1>1, <2>1, <4>2
      <4> QED
        BY <1>3, <4>1, <4>3
    <3> QED
      BY <3>1, <3>2
  <2>4. LastOf(e, n, l + i)
    BY <2>2, <2>3 DEF LastOf
  <2>5. Effective(e, n) = e[l + i].value
    <3>1. e \in Seq(Line)
      BY <1>3
    <3> QED
      BY <2>4, <3>1, LastCounts
  <2> QED
    BY <2>2, <2>5
<1>6. ASSUME NEW n \in NamesOf(lines) \ S
      PROVE  Effective(e, n) = Effective(lines, n)
  <2>1. PICK i : LastOf(lines, n, i) /\ Effective(lines, n) = lines[i].value
    BY EffectiveIsLast
  <2>2. i \in 1..l /\ i \in DOMAIN e /\ e[i] = lines[i]
    BY <1>1, <1>3, <2>1 DEF LastOf
  <2>3. ASSUME NEW j \in DOMAIN e, e[j].name = n
        PROVE  j <= i
    <3>1. CASE j \in 1..l
      BY <1>3, <2>1, <2>3, <3>1 DEF LastOf
    <3>2. CASE j \notin 1..l
      <4>1. PICK h \in 1..k : j = l + h
        BY <1>3, <3>2
      <4>2. added[h] = n
        BY <1>2, <1>3, <2>3, <4>1
      <4> QED
        BY <1>1, <1>6, <4>2
    <3> QED
      BY <3>1, <3>2
  <2>4. LastOf(e, n, i)
    BY <2>1, <2>2, <2>3 DEF LastOf
  <2>5. Effective(e, n) = e[i].value
    <3>1. e \in Seq(Line)
      BY <1>3
    <3> QED
      BY <2>4, <3>1, LastCounts
  <2> QED
    BY <2>1, <2>2, <2>5
<1> QED
  BY <1>3, <1>4, <1>5, <1>6 DEF e

\* Migration by hand: every name has its value under its new name.
LEMMA ExtendedKeeps ==
    ASSUME NEW lines \in Seq(Line), ~Conflicting(lines)
    PROVE  LET e == Extended(lines)
           IN  e \in Seq(Line) /\ \A n \in NamesOf(lines) : Preserved(lines, e, n)
<1> DEFINE e == Extended(lines)
           c == Canonical(lines)
           given == NamesOf(lines) \cap Settings
           new == DOMAIN c \ given
<1>1. /\ given \subseteq DOMAIN c /\ DOMAIN c \subseteq Names /\ IsFiniteSet(DOMAIN c)
      /\ \A n \in given : c[n] = Effective(lines, n)
      /\ \A n \in DOMAIN c :
            Replacement(n) \in DOMAIN c /\ c[Replacement(n)] = c[n]
      /\ \A n \in DOMAIN c \ given : \E k \in given :
            k \in Legacy /\ c[n] = c[k] /\ Replacement(k) = Replacement(n)
  BY CanonicalIs
<1>2. DOMAIN Recognised(lines) = given
  BY DEF Recognised
<1> HIDE DEF c
<1>3. IsFiniteSet(new) /\ new \in SUBSET Names
  BY <1>1, FS_Subset
<1>4. \A n \in new : c[n] \in Values
  BY <1>1, NamesTyped
<1>5. /\ e \in Seq(Line) /\ NamesOf(e) = NamesOf(lines) \cup new
      /\ \A n \in new : Effective(e, n) = c[n]
      /\ \A n \in NamesOf(lines) \ new : Effective(e, n) = Effective(lines, n)
  <2> DEFINE added == SetToSeq(new)
             k == Cardinality(new)
             tail == [i \in DOMAIN added |-> [name |-> added[i], value |-> c[added[i]]]]
  <2>1. e = lines \o tail
    BY <1>2 DEF Extended, c
  <2> HIDE DEF new, e
  <2>2. k \in Nat /\ added \in [1..k -> new]
    BY <1>3, Listed
  <2>3. Sets(tail, new, c)
    BY <1>3, <1>4, <2>2 DEF Line, Sets
  <2> HIDE DEF tail
  <2>4. IsFiniteSet(new)
    BY <1>3
  <2>5. /\ lines \o tail \in Seq(Line) /\ NamesOf(lines \o tail) = NamesOf(lines) \cup new
        /\ \A n \in new : Effective(lines \o tail, n) = c[n]
        /\ \A n \in NamesOf(lines) \ new : Effective(lines \o tail, n) = Effective(lines, n)
    BY <2>3, <2>4, AddedLines
  <2> QED
    BY <2>1, <2>5
<1> HIDE DEF e
<1>6. \A n \in DOMAIN c : n \in NamesOf(e) /\ Effective(e, n) = c[n]
  BY <1>1, <1>5
<1>7. ASSUME NEW n \in NamesOf(lines)
      PROVE  Preserved(lines, e, n)
  <2>1. CASE n \in Settings
    <3>1. Replacement(n) \in NamesOf(e) /\ Effective(e, Replacement(n)) = Effective(lines, n)
      BY <1>1, <1>6, <2>1
    <3> QED
      BY <3>1 DEF Preserved
  <2>2. CASE n \notin Settings
    <3>1. Replacement(n) = n
      BY <2>2, Replacements
    <3>2. CASE n \in new
      <4>1. PICK k \in given : k \in Legacy /\ c[n] = c[k] /\ Replacement(k) = n
        BY <1>1, <3>1, <3>2
      <4>2. Effective(lines, n) = Effective(lines, k) \/ SetTwice(lines, n)
        BY <2>2, <4>1 DEF SetTwice
      <4>3. k \in NamesOf(lines) /\ n \in NamesOf(e) /\ Effective(e, n) = Effective(lines, k)
        BY <1>1, <1>5, <3>2, <4>1
      <4> QED
        BY <3>1, <4>1, <4>2, <4>3 DEF Preserved
    <3>3. CASE n \notin new
      <4>1. n \in NamesOf(e) /\ Effective(e, n) = Effective(lines, n)
        BY <1>5, <3>3
      <4> QED
        BY <3>1, <4>1 DEF Preserved
    <3> QED
      BY <3>2, <3>3
  <2> QED
    BY <2>1, <2>2
<1> QED
  BY <1>5, <1>7 DEF e

\* Every set of places has a first.
LEMMA FirstPlace ==
    ASSUME NEW S, S \subseteq Nat, IsFiniteSet(S), S # {}
    PROVE  \E m \in S : \A x \in S : m <= x
<1> DEFINE f == InOrder(S)
           k == Cardinality(S)
<1>1. /\ k \in Nat /\ Ascends(f, S)
      /\ \A x \in S : \E i \in 1..k : f[i] = x
  BY PlacesInOrder
<1>2. f \in [1..k -> S] /\ \A i, j \in 1..k : i < j => f[i] < f[j]
  BY <1>1 DEF Ascends
<1> HIDE DEF f, k
<1>3. 1 \in 1..k
  <2>1. PICK x \in S : TRUE
    OBVIOUS
  <2>2. PICK i \in 1..k : f[i] = x
    BY <1>1
  <2> QED
    BY <1>1, <2>2
<1>4. ASSUME NEW x \in S
      PROVE  f[1] <= x
  <2>1. PICK i \in 1..k : f[i] = x
    BY <1>1
  <2>2. i = 1 \/ 1 < i
    BY <1>1
  <2>3. f[1] \in Nat /\ x \in Nat
    BY <1>2, <1>3
  <2> QED
    BY <1>2, <1>3, <2>1, <2>2, <2>3
<1> QED
  BY <1>2, <1>3, <1>4

\* Some place of lines whose name n is, in e's place i.
Places(lines) ==
    LET kept == InOrder(Remaining(lines))
        k == Cardinality(Remaining(lines))
        e == CanonicalOnly(lines)
    IN  /\ k \in Nat /\ k <= Len(lines)
        /\ kept \in [1..k -> DOMAIN lines] /\ e \in [1..k -> Line]
        /\ \A i, j \in 1..k : i < j => kept[i] < kept[j]
        /\ \A i \in 1..k : kept[i] \in Remaining(lines)
        /\ \A p \in Remaining(lines) : \E i \in 1..k : kept[i] = p
        /\ \A i \in 1..k :
              /\ e[i].name = Replacement(lines[kept[i]].name)
              /\ e[i].value = IF lines[kept[i]].name \in Settings
                              THEN Effective(lines, lines[kept[i]].name)
                              ELSE lines[kept[i]].value

\* Where the lines of a deployment's migration come from.
LEMMA WherePlaced ==
    ASSUME NEW lines \in Seq(Line), ~Conflicting(lines)
    PROVE  Places(lines)
<1> DEFINE R == Remaining(lines)
           kept == InOrder(R)
           k == Cardinality(R)
           e == CanonicalOnly(lines)
           given == NamesOf(lines) \cap Settings
<1>1. /\ Len(lines) \in Nat /\ DOMAIN lines = 1..Len(lines)
      /\ \A i \in DOMAIN lines : lines[i] \in Line
  OBVIOUS
<1>2. R \subseteq 1..Len(lines) /\ R \subseteq Nat
  BY <1>1 DEF Remaining
<1>3. IsFiniteSet(R) /\ k <= Len(lines)
  <2>1. IsFiniteSet(1..Len(lines)) /\ Cardinality(1..Len(lines)) = Len(lines)
    BY <1>1, FS_Interval
  <2> QED
    BY <1>2, <2>1, FS_Subset
<1>4. /\ k \in Nat /\ Ascends(kept, R)
      /\ \A p \in R : \E i \in 1..k : kept[i] = p
  BY <1>2, <1>3, PlacesInOrder
<1>5. /\ kept \in [1..k -> R]
      /\ \A i, j \in 1..k : i < j => kept[i] < kept[j]
  BY <1>4 DEF Ascends
<1>6. e = [i \in 1..k |-> Rewritten(lines, kept[i])]
  BY <1>5 DEF CanonicalOnly
<1>7. ASSUME NEW p \in DOMAIN lines
      PROVE  /\ Rewritten(lines, p) \in Line
             /\ Rewritten(lines, p).name = Replacement(lines[p].name)
             /\ Rewritten(lines, p).value = IF lines[p].name \in Settings
                                            THEN Effective(lines, lines[p].name)
                                            ELSE lines[p].value
  <2> DEFINE n == lines[p].name
  <2>1. n \in Names /\ n \in NamesOf(lines) /\ lines[p].value \in Values
    BY <1>1 DEF NamesOf, Line
  <2>2. CASE n \in Settings
    <3>1. /\ Replacement(n) \in Names
          /\ Canonical(lines)[Replacement(n)] = Effective(lines, n)
      BY <2>1, <2>2, CanonicalIs, Replacements
    <3>2. Effective(lines, n) \in Values
      BY <2>1, NamesTyped
    <3> QED
      BY <2>2, <3>1, <3>2 DEF Rewritten, Line
  <2>3. CASE n \notin Settings
    <3>1. Replacement(n) = n
      BY <2>3, Replacements
    <3> QED
      BY <1>1, <2>3, <3>1 DEF Rewritten
  <2> QED
    BY <2>2, <2>3
<1> HIDE DEF R, kept, k, e
<1>8. kept \in [1..k -> DOMAIN lines] /\ \A i \in 1..k : kept[i] \in R
  BY <1>1, <1>2, <1>5
<1>9. e \in [1..k -> Line]
  BY <1>6, <1>7, <1>8
<1>10. \A i \in 1..k :
              /\ e[i].name = Replacement(lines[kept[i]].name)
              /\ e[i].value = IF lines[kept[i]].name \in Settings
                              THEN Effective(lines, lines[kept[i]].name)
                              ELSE lines[kept[i]].value
  BY <1>6, <1>7, <1>8
<1> QED
  BY <1>3, <1>4, <1>5, <1>8, <1>9, <1>10 DEF Places, R, kept, k, e

\* A deployment's migration keeps the first setting of each new name.
LEMMA FirstKept ==
    ASSUME NEW lines \in Seq(Line), NEW n \in NamesOf(lines) \cap Settings
    PROVE  \E p \in Remaining(lines) :
              lines[p].name \in Settings /\ Replacement(lines[p].name) = Replacement(n)
<1> DEFINE S == {p \in DOMAIN lines : /\ lines[p].name \in Settings
                                      /\ Replacement(lines[p].name) = Replacement(n)}
<1>1. DOMAIN lines = 1..Len(lines) /\ Len(lines) \in Nat
  OBVIOUS
<1>2. S # {} /\ S \subseteq Nat /\ S \subseteq 1..Len(lines)
  <2>1. PICK q \in DOMAIN lines : lines[q].name = n
    BY DEF NamesOf
  <2> QED
    BY <1>1, <2>1
<1>3. IsFiniteSet(S)
  <2>1. IsFiniteSet(1..Len(lines))
    BY <1>1, FS_Interval
  <2> QED
    BY <1>2, <2>1, FS_Subset
<1>4. PICK p \in S : \A x \in S : p <= x
  <2> HIDE DEF S
  <2> QED
    BY <1>2, <1>3, FirstPlace
<1>5. ASSUME NEW j \in 1..p-1
      PROVE  j \in DOMAIN lines /\ j \notin S
  BY <1>1, <1>2, <1>4, <1>5
<1>6. p \in Remaining(lines)
  BY <1>4, <1>5 DEF Remaining
<1> QED
  BY <1>4, <1>6

\* A deployment's migration keeps a place for each new name.
LEMMA EachPlaced ==
    ASSUME NEW lines \in Seq(Line), ~Conflicting(lines), NEW n \in NamesOf(lines)
    PROVE  Replacement(n) \in NamesOf(CanonicalOnly(lines))
<1> DEFINE R == Remaining(lines)
           kept == InOrder(R)
           k == Cardinality(R)
           e == CanonicalOnly(lines)
<1>1. Places(lines)
  BY WherePlaced
<1>2. /\ e \in [1..k -> Line]
      /\ \A p \in R : \E i \in 1..k : kept[i] = p
      /\ \A i \in 1..k : e[i].name = Replacement(lines[kept[i]].name)
  BY <1>1 DEF Places
<1>4. \E p \in R : Replacement(lines[p].name) = Replacement(n)
  <2>1. PICK q \in DOMAIN lines : lines[q].name = n
    BY DEF NamesOf
  <2>2. CASE n \notin Settings
    <3>1. q \in R
      BY <2>1, <2>2 DEF Remaining
    <3> QED
      BY <2>1, <3>1
  <2>3. CASE n \in Settings
    <3>1. \E p \in Remaining(lines) :
              lines[p].name \in Settings /\ Replacement(lines[p].name) = Replacement(n)
      BY <2>3, FirstKept
    <3> QED
      BY <3>1
  <2> QED
    BY <2>2, <2>3
<1> HIDE DEF R, kept, k, e
<1>5. PICK i \in 1..k : e[i].name = Replacement(n)
  BY <1>2, <1>4
<1>6. i \in DOMAIN e
  BY <1>2
<1>7. Replacement(n) \in NamesOf(e)
  BY <1>5, <1>6 DEF NamesOf
<1> QED
  BY <1>7 DEF e

(* Of the settings that a deployment's migration computes, each is under    *)
(* its new name in a line that was kept: the loop of migrate() that appends *)
(* what no line has given finds nothing, and CanonicalOnly leaves it out.   *)
THEOREM NothingAppended ==
    ASSUME NEW lines \in Seq(Line), ~Conflicting(lines), NEW n \in DOMAIN Canonical(lines)
    PROVE  \E p \in Remaining(lines) :
              lines[p].name \in Settings /\ Replacement(lines[p].name) = Replacement(n)
<1>1. PICK k \in NamesOf(lines) \cap Settings : Replacement(k) = Replacement(n)
  <2>1. CASE n \in NamesOf(lines) \cap Settings
    BY <2>1
  <2>2. CASE n \notin NamesOf(lines) \cap Settings
    <3>1. \A m \in DOMAIN Canonical(lines) \ (NamesOf(lines) \cap Settings) :
             \E k \in NamesOf(lines) \cap Settings : Replacement(k) = Replacement(m)
      BY CanonicalIs
    <3> QED
      BY <2>2, <3>1
  <2> QED
    BY <2>1, <2>2
<1>2. \E p \in Remaining(lines) :
         lines[p].name \in Settings /\ Replacement(lines[p].name) = Replacement(k)
  BY FirstKept
<1> QED
  BY <1>1, <1>2

\* A deployment's migration: every name has its value under its new name, and no
\* name of before is left.
LEMMA CanonicalOnlyKeeps ==
    ASSUME NEW lines \in Seq(Line), ~Conflicting(lines)
    PROVE  LET e == CanonicalOnly(lines)
           IN  /\ e \in Seq(Line) /\ Len(e) <= Len(lines)
               /\ NamesOf(e) \cap Legacy = {}
               /\ \A n \in NamesOf(lines) : Preserved(lines, e, n)
<1> DEFINE R == Remaining(lines)
           kept == InOrder(R)
           k == Cardinality(R)
           e == CanonicalOnly(lines)
<1>1. Places(lines)
  BY WherePlaced
<1>2. /\ k \in Nat /\ k <= Len(lines)
      /\ kept \in [1..k -> DOMAIN lines] /\ e \in [1..k -> Line]
      /\ \A i, j \in 1..k : i < j => kept[i] < kept[j]
      /\ \A i \in 1..k : kept[i] \in R
      /\ \A p \in R : \E i \in 1..k : kept[i] = p
      /\ \A i \in 1..k :
            /\ e[i].name = Replacement(lines[kept[i]].name)
            /\ e[i].value = IF lines[kept[i]].name \in Settings
                            THEN Effective(lines, lines[kept[i]].name)
                            ELSE lines[kept[i]].value
  BY <1>1 DEF Places
<1>9. \A i, j \in 1..k : i < j => kept[i] < kept[j]
  BY <1>2
<1>3. \A n \in NamesOf(lines) : Replacement(n) \in NamesOf(e)
  BY EachPlaced
<1>4. \A p \in DOMAIN lines : lines[p].name \notin Settings => p \in R
  BY DEF Remaining
<1> HIDE DEF R, kept, k, e
<1>5. e \in Seq(Line) /\ Len(e) = k /\ DOMAIN e = 1..k
  BY <1>2
<1>6. DOMAIN lines = 1..Len(lines) /\ Len(lines) \in Nat
      /\ \A p \in DOMAIN lines : lines[p].name \in Names /\ lines[p].name \in NamesOf(lines)
  <2>1. DOMAIN lines = 1..Len(lines) /\ Len(lines) \in Nat
        /\ \A p \in DOMAIN lines : lines[p] \in Line
    OBVIOUS
  <2>2. \A p \in DOMAIN lines : lines[p].name \in Names
    BY <2>1 DEF Line
  <2> QED
    BY <2>1, <2>2 DEF NamesOf
<1>7. NamesOf(e) \cap Legacy = {}
  <2>1. ASSUME NEW i \in 1..k
        PROVE  e[i].name \notin Legacy
    <3>1. kept[i] \in DOMAIN lines /\ e[i].name = Replacement(lines[kept[i]].name)
      BY <1>2
    <3>2. lines[kept[i]].name \in Names
      BY <1>6, <3>1
    <3> QED
      BY <3>1, <3>2, Replacements
  <2> QED
    BY <1>5, <2>1 DEF NamesOf
<1>8. ASSUME NEW n \in NamesOf(lines)
      PROVE  Preserved(lines, e, n)
  <2> DEFINE m == Replacement(n)
  <2>7. m \in NamesOf(e)
    BY <1>3
  <2>8. ASSUME NEW x \in NamesOf(lines), Replacement(x) = m, Effective(e, m) = Effective(lines, x),
               Effective(lines, x) = Effective(lines, n) \/ SetTwice(lines, m)
        PROVE  Preserved(lines, e, n)
    BY <2>7, <2>8 DEF Preserved
  <2>9. Effective(e, m) = Effective(lines, n) => Preserved(lines, e, n)
    BY <2>8
  <2>1. PICK p : LastOf(e, m, p) /\ Effective(e, m) = e[p].value
    <3>1. m \in NamesOf(e)
      BY <1>3
    <3> QED
      BY <1>5, <3>1, EffectiveIsLast
  <2> DEFINE q == kept[p]
             o == lines[q].name
  <2>2. /\ p \in 1..k /\ q \in DOMAIN lines /\ Replacement(o) = m
        /\ o \in NamesOf(lines)
    BY <1>2, <1>5, <1>6, <2>1 DEF LastOf
  <2>3. n \notin Settings => m = n
    BY Replacements
  <2>4. o \notin Settings => m = o
    BY <2>2, Replacements
  <2>5. CASE o \in Settings
    <3>1. Effective(e, m) = Effective(lines, o)
      BY <1>2, <2>1, <2>2, <2>5
    <3>2. CASE n \in Settings
      <4>1. \A x \in NamesOf(lines) \cap Settings :
               Canonical(lines)[Replacement(x)] = Effective(lines, x)
        BY CanonicalIs
      <4>2. Canonical(lines)[m] = Effective(lines, n)
        BY <3>2, <4>1
      <4>3. Canonical(lines)[Replacement(o)] = Effective(lines, o)
        BY <2>2, <2>5, <4>1
      <4> QED
        BY <2>2, <2>9, <3>1, <4>2, <4>3
    <3>3. CASE n \notin Settings
      <4>1. o \in Legacy
        BY <2>2, <2>3, <2>5, <3>3, Replacements
      <4>2. Effective(lines, o) = Effective(lines, n) \/ SetTwice(lines, m)
        BY <2>2, <2>3, <3>3, <4>1 DEF SetTwice
      <4> QED
        BY <2>2, <2>8, <3>1, <4>2
    <3> QED
      BY <3>2, <3>3
  <2>6. CASE o \notin Settings
    <3>1. ASSUME NEW j \in DOMAIN lines, lines[j].name = m
          PROVE  j <= q
      <4>1. PICK i \in 1..k : kept[i] = j
        BY <1>2, <1>4, <2>4, <2>6, <3>1
      <4>2. e[i].name = m
        <5>1. Replacement(m) = m
          BY <2>4, <2>6, Replacements
        <5> QED
          BY <1>2, <3>1, <4>1, <5>1
      <4>3. i <= p /\ i \in Nat /\ p \in Nat
        BY <1>2, <1>5, <2>1, <2>2, <4>2 DEF LastOf
      <4>4. i = p \/ i < p
        BY <4>3
      <4>5. j \in Nat /\ q \in Nat
        BY <1>6, <2>2
      <4>6. kept[p] = q /\ kept[i] = j
        BY <4>1
      <4> HIDE DEF q
      <4>7. i < p => j < q
        BY <1>9, <2>2, <4>6
      <4> QED
        BY <4>4, <4>5, <4>6, <4>7
    <3>2. LastOf(lines, m, q)
      BY <2>2, <2>4, <2>6, <3>1 DEF LastOf
    <3>3. m \in NamesOf(lines) /\ Effective(lines, m) = lines[q].value
      BY <3>2, LastCounts
    <3>4. Effective(e, m) = Effective(lines, m)
      BY <1>2, <2>1, <2>2, <2>6, <3>3
    <3>5. CASE m = n
      BY <2>9, <3>4, <3>5
    <3>6. CASE m # n
      <4>1. n \in Legacy /\ m \notin Settings
        BY <2>4, <2>6, <3>6, Replacements
      <4>2. Effective(lines, m) = Effective(lines, n) \/ SetTwice(lines, m)
        BY <3>3, <4>1 DEF SetTwice
      <4>3. Replacement(m) = m
        BY <2>4, <2>6, Replacements
      <4> QED
        BY <2>8, <3>3, <3>4, <4>2, <4>3
    <3> QED
      BY <3>5, <3>6
  <2> QED
    BY <2>5, <2>6
<1> QED
  BY <1>2, <1>3, <1>5, <1>7, <1>8 DEF e

\* What it has migrated it does not change again.
LEMMA CanonicalOnlyOnce ==
    ASSUME NEW lines \in Seq(Line), ~Conflicting(lines)
    PROVE  CanonicalOnly(CanonicalOnly(lines)) = CanonicalOnly(lines)
<1> DEFINE R == Remaining(lines)
           kept == InOrder(R)
           k == Cardinality(R)
           e == CanonicalOnly(lines)
<1>1. Places(lines)
  BY WherePlaced
<1>2. /\ k \in Nat
      /\ kept \in [1..k -> DOMAIN lines] /\ e \in [1..k -> Line]
      /\ \A i, j \in 1..k : i < j => kept[i] < kept[j]
      /\ \A i \in 1..k : kept[i] \in R
      /\ \A i \in 1..k : e[i].name = Replacement(lines[kept[i]].name)
  BY <1>1 DEF Places
<1>3. \A q \in R : lines[q].name \in Settings =>
        \A j \in 1..q-1 : lines[j].name \in Settings =>
            Replacement(lines[j].name) # Replacement(lines[q].name)
  BY DEF Remaining
<1>4. NamesOf(e) \cap Legacy = {}
  BY CanonicalOnlyKeeps
<1> HIDE DEF R, kept, k, e
<1>5. e \in Seq(Line) /\ Len(e) = k /\ DOMAIN e = 1..k
  BY <1>2
<1>6. \A i \in 1..k : e[i].name \in NamesOf(e) /\ Replacement(e[i].name) = e[i].name
  BY <1>4, <1>5, Replacements DEF NamesOf
<1>7. ASSUME NEW i \in 1..k, NEW j \in 1..k, j < i, e[i].name \in Settings
      PROVE  e[j].name # e[i].name
  <2> SUFFICES ASSUME e[j].name = e[i].name PROVE FALSE
    OBVIOUS
  <2>1. \A h \in 1..k : e[h].name \in Settings => lines[kept[h]].name \in Settings
    BY <1>2, Replacements
  <2>2. lines[kept[i]].name \in Settings /\ lines[kept[j]].name \in Settings
    BY <1>7, <2>1
  <2>3. kept[j] \in 1..Len(lines) /\ kept[i] \in 1..Len(lines) /\ kept[j] < kept[i]
    BY <1>2, <1>7
  <2>4. kept[j] \in 1..kept[i]-1
    BY <2>3
  <2> QED
    BY <1>2, <1>3, <1>7, <2>2, <2>4
<1>8. Remaining(e) = 1..k
  <2>1. ASSUME NEW i \in 1..k, e[i].name \in Settings, NEW j \in 1..i-1
        PROVE  Replacement(e[j].name) # Replacement(e[i].name)
    <3>1. j \in 1..k /\ j < i
      BY <1>2
    <3> QED
      BY <1>6, <1>7, <2>1, <3>1
  <2> QED
    BY <1>5, <2>1 DEF Remaining
<1>9. Cardinality(1..k) = k /\ InOrder(1..k) = [i \in 1..k |-> i]
  BY <1>2, AllInOrder
<1>10. CanonicalOnly(e) = [i \in 1..k |-> Rewritten(e, i)]
  BY <1>8, <1>9 DEF CanonicalOnly
<1>11. \A n \in NamesOf(e) \cap Settings : Canonical(e)[n] = Effective(e, n)
  <2> DEFINE s == Recognised(e)
             w == WithNames(s, Ksync)
             v == WithNames(w, Renamed)
  <2>1. DOMAIN s = NamesOf(e) \cap Settings /\ \A n \in DOMAIN s : s[n] = Effective(e, n)
    BY DEF Recognised
  <2>2. DOMAIN s \cap DOMAIN Ksync = {} /\ DOMAIN s \cap DOMAIN Renamed = {}
    BY <1>4, <2>1 DEF Legacy
  <2> HIDE DEF s
  <2>3. DOMAIN w = DOMAIN s /\ \A n \in DOMAIN s : w[n] = s[n]
    BY <2>2 DEF WithNames
  <2> HIDE DEF w
  <2>4. \A n \in DOMAIN s : v[n] = s[n]
    BY <2>2, <2>3 DEF WithNames
  <2> QED
    BY <2>1, <2>4 DEF Canonical, s, w
<1>12. ASSUME NEW i \in 1..k
       PROVE  Rewritten(e, i) = e[i]
  <2>1. CASE e[i].name \notin Settings
    BY <2>1 DEF Rewritten
  <2>2. CASE e[i].name \in Settings
    <3>1. ASSUME NEW j \in 1..k, e[j].name = e[i].name
          PROVE  j <= i
      <4>1. ~(i < j)
        BY <1>7, <2>2, <3>1
      <4> QED
        BY <1>2, <4>1
    <3>2. LastOf(e, e[i].name, i)
      BY <1>5, <3>1 DEF LastOf
    <3>3. Effective(e, e[i].name) = e[i].value
      BY <1>5, <3>2, LastCounts
    <3>4. Rewritten(e, i) = [name |-> e[i].name, value |-> e[i].value]
      BY <1>6, <1>11, <2>2, <3>3 DEF Rewritten
    <3>5. e[i] \in Line
      BY <1>2
    <3> QED
      BY <3>4, <3>5 DEF Line
  <2> QED
    BY <2>1, <2>2
<1>13. CanonicalOnly(e) = e
  BY <1>2, <1>10, <1>12
<1> QED
  BY <1>13 DEF e

LEMMA ReplacedTyped ==
    ASSUME NEW lines \in Seq(Line)
    PROVE  Replaced(lines, Deployed) \in Seq(Line)
<1> DEFINE R == {i \in DOMAIN lines : lines[i].name \notin DOMAIN Deployed}
           kept == InOrder(R)
           head == [i \in DOMAIN kept |-> lines[kept[i]]]
           S == DOMAIN Deployed
           added == SetToSeq(S)
           tail == [i \in DOMAIN added |-> [name |-> added[i], value |-> Deployed[added[i]]]]
<1>1. IsFiniteSet(S) /\ S \subseteq Names /\ \A n \in S : Deployed[n] \in Values
  BY NodeEnvironmentAssumption
<1>2. Sets(tail, S, Deployed)
  <2>1. added \in [1..Cardinality(S) -> S]
    BY <1>1, Listed
  <2> QED
    BY <1>1, <2>1 DEF Sets, Line
<1>3. head \in Seq(Line)
  <2>1. /\ R \subseteq 1..Len(lines) /\ R \subseteq Nat /\ Len(lines) \in Nat
        /\ \A i \in R : lines[i] \in Line
    OBVIOUS
  <2>2. IsFiniteSet(R)
    <3>1. IsFiniteSet(1..Len(lines))
      BY <2>1, FS_Interval
    <3> QED
      BY <2>1, <3>1, FS_Subset
  <2> HIDE DEF R
  <2>3. Cardinality(R) \in Nat /\ Ascends(kept, R)
    BY <2>1, <2>2, PlacesInOrder
  <2>4. kept \in [1..Cardinality(R) -> R]
    BY <2>3 DEF Ascends
  <2>5. head \in [1..Cardinality(R) -> Line]
    BY <2>1, <2>4
  <2> QED
    BY <2>3, <2>5
<1>4. Replaced(lines, Deployed) = head \o tail
  BY DEF Replaced
<1> HIDE DEF head, tail, S
<1>5. head \o tail \in Seq(Line)
  BY <1>1, <1>2, <1>3, AddedLines
<1> QED
  BY <1>4, <1>5

LEMMA EnvironmentSteps ==
    ASSUME EnvironmentTypeOK, [EnvironmentNext]_environment
    PROVE  EnvironmentTypeOK'
<1> USE DEF EnvironmentTypeOK
<1>1. CASE UNCHANGED environment
  BY <1>1
<1>2. CASE Edit
  <2>1. PICK line \in Line : environment' = Append(environment, line)
    BY <1>2 DEF Edit
  <2>2. environment' \in Seq(Line)
    BY <2>1
  <2> QED
    BY <1>2, <2>2 DEF Edit
<1>3. CASE MigrateByHand
  <2>1. environment' = Extended(environment) /\ ~Conflicting(environment)
        /\ Len(environment') <= MaxLines
    BY <1>3 DEF MigrateByHand
  <2>2. Extended(environment) \in Seq(Line)
    BY <2>1, ExtendedKeeps
  <2> QED
    BY <2>1, <2>2
<1>4. CASE MigrateDeployed
  <2>1. environment' = CanonicalOnly(environment) /\ ~Conflicting(environment)
    BY <1>4 DEF MigrateDeployed
  <2>2. /\ CanonicalOnly(environment) \in Seq(Line)
        /\ Len(CanonicalOnly(environment)) <= Len(environment)
    BY <2>1, CanonicalOnlyKeeps
  <2>4. Len(CanonicalOnly(environment)) <= MaxLines
    <3>1. Len(environment) \in Nat /\ Len(CanonicalOnly(environment)) \in Nat
          /\ MaxLines \in Nat
      BY <2>2, NodeEnvironmentAssumption
    <3> QED
      BY <2>2, <3>1
  <2> QED
    BY <2>1, <2>2, <2>4
<1>5. CASE SetDeployed
  BY <1>5, ReplacedTyped DEF SetDeployed
<1> QED
  BY <1>1, <1>2, <1>3, <1>4, <1>5 DEF EnvironmentNext

LEMMA EnvironmentTypeInit == EnvironmentInit => EnvironmentTypeOK
<1> SUFFICES ASSUME EnvironmentInit PROVE EnvironmentTypeOK
  OBVIOUS
<1>1. environment = <<>> /\ NamesOf(environment) = {}
  BY DEF EnvironmentInit, NamesOf
<1>2. Len(environment) = 0 /\ environment \in Seq(Line)
  BY <1>1
<1> QED
  BY <1>1, <1>2, NodeEnvironmentAssumption DEF EnvironmentTypeOK

(* The file is a sequence of lines: EnvironmentTypeOK.                      *)
THEOREM EnvironmentTyped == EnvironmentSpec => []EnvironmentTypeOK
<1>1. EnvironmentInit => EnvironmentTypeOK
  BY EnvironmentTypeInit
<1>2. EnvironmentTypeOK /\ [EnvironmentNext]_environment => EnvironmentTypeOK'
  BY EnvironmentSteps
<1> QED
  BY <1>1, <1>2, PTL DEF EnvironmentSpec

(* A migration, by hand or of a deployment, loses no setting and changes    *)
(* none, whatever names a file sets and in whatever order, but for a name   *)
(* outside those it looks at: SettingsKept.                                 *)
THEOREM SettingsStay == EnvironmentSpec => SettingsKept
<1>1. ASSUME EnvironmentTypeOK, MigrateByHand \/ MigrateDeployed
      PROVE  \A n \in NamesOf(environment) : Preserved(environment, environment', n)
  <2> USE DEF EnvironmentTypeOK
  <2>1. CASE MigrateByHand
    BY <1>1, <2>1, ExtendedKeeps DEF MigrateByHand
  <2>2. CASE MigrateDeployed
    BY <1>1, <2>2, CanonicalOnlyKeeps DEF MigrateDeployed
  <2> QED
    BY <1>1, <2>1, <2>2
<1>2. EnvironmentTypeOK =>
        [MigrateByHand \/ MigrateDeployed =>
           \A n \in NamesOf(environment) :
              Preserved(environment, environment', n)]_environment
  BY <1>1
<1> QED
  BY <1>2, EnvironmentTyped, PTL DEF SettingsKept

(* What a deployment's migration has written holds no name of before, and   *)
(* migrating it again changes nothing: DeployedOnce.                        *)
THEOREM MigratedOnce == EnvironmentSpec => DeployedOnce
<1>1. ASSUME EnvironmentTypeOK, MigrateDeployed
      PROVE  /\ NamesOf(environment') \cap Legacy = {}
             /\ CanonicalOnly(environment') = environment'
  <2>1. environment' = CanonicalOnly(environment) /\ ~Conflicting(environment)
    BY <1>1 DEF MigrateDeployed
  <2>2. NamesOf(CanonicalOnly(environment)) \cap Legacy = {}
    BY <1>1, <2>1, CanonicalOnlyKeeps DEF EnvironmentTypeOK
  <2>3. CanonicalOnly(CanonicalOnly(environment)) = CanonicalOnly(environment)
    BY <1>1, <2>1, CanonicalOnlyOnce DEF EnvironmentTypeOK
  <2> QED
    BY <2>1, <2>2, <2>3
<1>2. EnvironmentTypeOK =>
        [MigrateDeployed =>
           /\ NamesOf(environment') \cap Legacy = {}
           /\ CanonicalOnly(environment') = environment']_environment
  BY <1>1
<1> QED
  BY <1>2, EnvironmentTyped, PTL DEF DeployedOnce

-----------------------------------------------------------------------------
(* The programs beside a node, together *)

\* What the steps of each program keep, the ones of the others leave alone.
OperationsInv ==
    StoreInv /\ MirrorInv /\ EnvironmentTypeOK /\ NativeInv /\ DeployInv /\ BotInv

LEMMA OperationsInvInit == OperationsInit => OperationsInv
BY StoreInvInit, MirrorInvInit, EnvironmentTypeInit, NativeInvInit, DeployInvInit, BotInvInit
   DEF OperationsInit, OperationsInv

LEMMA OperationsInvNext ==
    OperationsInv /\ [OperationsNext]_operationsVars => OperationsInv'
<1> SUFFICES ASSUME OperationsInv, [OperationsNext]_operationsVars
             PROVE  OperationsInv'
  OBVIOUS
<1>1. /\ [StoreNext]_storeVars /\ [MirrorNext]_mirrorVars
      /\ [EnvironmentNext]_environment /\ [NativeNext]_nativeVars
      /\ [DeployNext]_deployVars /\ [BotNext]_botVars
  BY DEF operationsVars, OperationsNext, RunStore, RunMirror, RunEnvironment,
         RunBuild, RunDeploy, RunBot
<1>2. StoreInv' /\ MirrorInv'
  BY <1>1, StoreInvNext, MirrorInvNext DEF OperationsInv
<1>3. EnvironmentTypeOK' /\ NativeInv'
  BY <1>1, EnvironmentSteps, NativeInvNext DEF OperationsInv
<1>4. DeployInv' /\ BotInv'
  BY <1>1, DeployInvNext, BotInvNext DEF OperationsInv
<1> QED
  BY <1>2, <1>3, <1>4 DEF OperationsInv

(* Whichever program runs, every variable keeps its type, and the store and *)
(* the bucket have at most one holder of their lock: OperationsTypeOK.      *)
THEOREM OperationsStayTyped == OperationsSpec => []OperationsTypeOK
<1>1. OperationsInv => OperationsTypeOK
  BY DEF OperationsInv, OperationsTypeOK, StoreInv, MirrorInv,
         NativeInv, DeployInv, BotInv
<1> QED
  BY <1>1, OperationsInvInit, OperationsInvNext, PTL DEF OperationsSpec
=============================================================================
