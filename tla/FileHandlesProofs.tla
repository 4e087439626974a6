------------------------- MODULE FileHandlesProofs -------------------------
(***************************************************************************)
(* Proofs about FileHandles, for any number of files and descriptors:      *)
(* HandlesInv is inductive.                                                *)
(***************************************************************************)
EXTENDS FileHandles, TLAPS

USE HandlesAssumption DEF Files, Free, Foreign, Numbers

LEMMA InitInv == Init => HandlesInv
<1> SUFFICES ASSUME Init PROVE HandlesInv
  OBVIOUS
<1>1. HandlesTypeOK
  <2>1. /\ holder \in [Descriptors -> 0 .. (NFiles + 1)]
        /\ handle \in [Files -> Numbers] /\ held \in [Files -> Numbers]
        /\ use \in [Files -> {"waiting", "close", "store", "send", "done"}]
    BY DEF Init
  <2>2. /\ added \in 0 .. NFiles /\ dispEnd \in 0 .. NFiles /\ dispFile \in Files
        /\ local \in Numbers /\ dispHeld \in Numbers
    BY DEF Init
  <2> QED
    BY <2>1, <2>2 DEF Init, HandlesTypeOK
<1>2. Phases
  BY DEF Init, Phases, Quiet, Looping
<1>3. Named
  BY DEF Init, Named
<1>4. QuietFiles
  BY DEF Init, QuietFiles
<1> QED
  BY <1>1, <1>2, <1>3, <1>4 DEF HandlesInv

LEMMA OpenFileStep ==
    ASSUME HandlesInv, OpenFile
    PROVE  HandlesInv'
<1> USE DEF HandlesInv
<1>1. HandlesTypeOK'
  BY DEF HandlesTypeOK, Phases, Looping, OpenFile, useVars, dispVars, prepVars
<1>2. Phases'
  BY DEF HandlesTypeOK, Phases, Quiet, Looping, OpenFile, useVars, dispVars, prepVars
<1>3. Named'
  BY DEF HandlesTypeOK, Phases, Named, Closed, Looping, OpenFile, useVars, dispVars, prepVars
<1>4. QuietFiles'
  BY DEF HandlesTypeOK, Phases, QuietFiles, Quiet, Own, Looping, OpenFile, useVars, dispVars, prepVars
<1> QED
  BY <1>1, <1>2, <1>3, <1>4

LEMMA OpenFailsStep ==
    ASSUME HandlesInv, OpenFails
    PROVE  HandlesInv'
<1> USE DEF HandlesInv
<1>1. HandlesTypeOK'
  BY DEF HandlesTypeOK, Phases, Looping, OpenFails, useVars, dispVars, prepVars
<1>2. Phases'
  BY DEF HandlesTypeOK, Phases, Quiet, Looping, OpenFails, useVars, dispVars, prepVars
<1>3. Named'
  BY DEF HandlesTypeOK, Phases, Named, Closed, Looping, OpenFails, useVars, dispVars, prepVars
<1>4. QuietFiles'
  BY DEF HandlesTypeOK, Phases, QuietFiles, Quiet, Own, Looping, OpenFails, useVars, dispVars, prepVars
<1> QED
  BY <1>1, <1>2, <1>3, <1>4

LEMMA ConfigureFailsStep ==
    ASSUME HandlesInv, ConfigureFails
    PROVE  HandlesInv'
<1> USE DEF HandlesInv
<1>1. HandlesTypeOK'
  BY DEF HandlesTypeOK, Phases, Looping, ConfigureFails, useVars, dispVars, prepVars
<1>2. Phases'
  BY DEF HandlesTypeOK, Phases, Quiet, Looping, ConfigureFails, useVars, dispVars, prepVars
<1>3. Named'
  BY DEF HandlesTypeOK, Phases, Named, Closed, Looping, ConfigureFails, useVars, dispVars, prepVars
<1>4. QuietFiles'
  BY DEF HandlesTypeOK, Phases, QuietFiles, Quiet, Own, Looping, ConfigureFails, useVars, dispVars, prepVars
<1> QED
  BY <1>1, <1>2, <1>3, <1>4

LEMMA AddFileStep ==
    ASSUME HandlesInv, AddFile
    PROVE  HandlesInv'
<1> USE DEF HandlesInv
<1>1. HandlesTypeOK'
  BY DEF HandlesTypeOK, Phases, Looping, AddFile, useVars, dispVars, prepVars
<1>2. Phases'
  BY DEF HandlesTypeOK, Phases, Quiet, Looping, AddFile, useVars, dispVars, prepVars
<1>3. Named'
  BY DEF HandlesTypeOK, Phases, Named, Closed, Looping, AddFile, useVars, dispVars, prepVars
<1>4. QuietFiles'
  BY DEF HandlesTypeOK, Phases, QuietFiles, Quiet, Own, Looping, AddFile, useVars, dispVars, prepVars
<1> QED
  BY <1>1, <1>2, <1>3, <1>4

LEMMA TestHandleStep ==
    ASSUME HandlesInv, NEW f \in Files, TestHandle(f)
    PROVE  HandlesInv'
<1> USE DEF HandlesInv
<1>1. HandlesTypeOK'
  BY DEF HandlesTypeOK, Phases, Looping, TestHandle, useVars, dispVars, prepVars, Use
<1>2. Phases'
  BY DEF HandlesTypeOK, Phases, Quiet, Looping, TestHandle, useVars, dispVars, prepVars, Use
<1>3. Named'
  BY DEF HandlesTypeOK, Phases, Named, Closed, Looping, TestHandle, useVars, dispVars, prepVars, Use
<1>4. QuietFiles'
  BY DEF HandlesTypeOK, Phases, QuietFiles, Quiet, Own, Looping, TestHandle, useVars, dispVars, prepVars, Use
<1> QED
  BY <1>1, <1>2, <1>3, <1>4

LEMMA CloseHandleStep ==
    ASSUME HandlesInv, NEW f \in Files, CloseHandle(f)
    PROVE  HandlesInv'
<1> USE DEF HandlesInv
<1>1. HandlesTypeOK'
  BY DEF HandlesTypeOK, Phases, Looping, CloseHandle, useVars, dispVars, prepVars, Use, Close
<1>2. Phases'
  BY DEF HandlesTypeOK, Phases, Quiet, Looping, CloseHandle, useVars, dispVars, prepVars, Use, Close
<1>3. Named'
  BY DEF HandlesTypeOK, Phases, Named, Closed, Looping, CloseHandle, useVars, dispVars, prepVars, Use, Close
<1>4. QuietFiles'
  BY DEF HandlesTypeOK, Phases, QuietFiles, Quiet, Own, Looping, CloseHandle, useVars, dispVars, prepVars, Use, Close
<1> QED
  BY <1>1, <1>2, <1>3, <1>4

LEMMA StoreInvalidStep ==
    ASSUME HandlesInv, NEW f \in Files, StoreInvalid(f)
    PROVE  HandlesInv'
<1> USE DEF HandlesInv
<1>1. HandlesTypeOK'
  BY DEF HandlesTypeOK, Phases, Looping, StoreInvalid, useVars, dispVars, prepVars, Use
<1>2. Phases'
  BY DEF HandlesTypeOK, Phases, Quiet, Looping, StoreInvalid, useVars, dispVars, prepVars, Use
<1>3. Named'
  BY DEF HandlesTypeOK, Phases, Named, Closed, Looping, StoreInvalid, useVars, dispVars, prepVars, Use
<1>4. QuietFiles'
  BY DEF HandlesTypeOK, Phases, QuietFiles, Quiet, Own, Looping, StoreInvalid, useVars, dispVars, prepVars, Use
<1> QED
  BY <1>1, <1>2, <1>3, <1>4

LEMMA ReadHandleStep ==
    ASSUME HandlesInv, NEW f \in Files, ReadHandle(f)
    PROVE  HandlesInv'
<1> USE DEF HandlesInv
<1>1. HandlesTypeOK'
  BY DEF HandlesTypeOK, Phases, Looping, ReadHandle, useVars, dispVars, prepVars, Use
<1>2. Phases'
  BY DEF HandlesTypeOK, Phases, Quiet, Looping, ReadHandle, useVars, dispVars, prepVars, Use
<1>3. Named'
  BY DEF HandlesTypeOK, Phases, Named, Closed, Looping, ReadHandle, useVars, dispVars, prepVars, Use
<1>4. QuietFiles'
  BY DEF HandlesTypeOK, Phases, QuietFiles, Quiet, Own, Looping, ReadHandle, useVars, dispVars, prepVars, Use
<1> QED
  BY <1>1, <1>2, <1>3, <1>4

LEMMA SendFileStep ==
    ASSUME HandlesInv, NEW f \in Files, SendFile(f)
    PROVE  HandlesInv'
<1> USE DEF HandlesInv
<1>1. HandlesTypeOK'
  BY DEF HandlesTypeOK, Phases, Looping, SendFile, useVars, dispVars, prepVars, Use
<1>2. Phases'
  BY DEF HandlesTypeOK, Phases, Quiet, Looping, SendFile, useVars, dispVars, prepVars, Use
<1>3. Named'
  BY DEF HandlesTypeOK, Phases, Named, Closed, Looping, SendFile, useVars, dispVars, prepVars, Use
<1>4. QuietFiles'
  BY DEF HandlesTypeOK, Phases, QuietFiles, Quiet, Own, Looping, SendFile, useVars, dispVars, prepVars, Use
<1> QED
  BY <1>1, <1>2, <1>3, <1>4

LEMMA SendFileFailsStep ==
    ASSUME HandlesInv, NEW f \in Files, SendFileFails(f)
    PROVE  HandlesInv'
<1> USE DEF HandlesInv
<1>1. HandlesTypeOK'
  BY DEF HandlesTypeOK, Phases, Looping, SendFileFails, useVars, dispVars, prepVars, Use
<1>2. Phases'
  BY DEF HandlesTypeOK, Phases, Quiet, Looping, SendFileFails, useVars, dispVars, prepVars, Use
<1>3. Named'
  BY DEF HandlesTypeOK, Phases, Named, Closed, Looping, SendFileFails, useVars, dispVars, prepVars, Use
<1>4. QuietFiles'
  BY DEF HandlesTypeOK, Phases, QuietFiles, Quiet, Own, Looping, SendFileFails, useVars, dispVars, prepVars, Use
<1> QED
  BY <1>1, <1>2, <1>3, <1>4

LEMMA BeginDisposeStep ==
    ASSUME HandlesInv, BeginDispose
    PROVE  HandlesInv'
<1> USE DEF HandlesInv
<1>1. HandlesTypeOK'
  BY DEF HandlesTypeOK, Phases, Looping, BeginDispose, useVars, dispVars, prepVars
<1>2. Phases'
  BY DEF HandlesTypeOK, Phases, Quiet, Looping, BeginDispose, useVars, dispVars, prepVars
<1>3. Named'
  BY DEF HandlesTypeOK, Phases, Named, Closed, Looping, BeginDispose, useVars, dispVars, prepVars
<1>4. QuietFiles'
  BY DEF HandlesTypeOK, Phases, QuietFiles, Quiet, Own, Looping, BeginDispose, useVars, dispVars, prepVars
<1> QED
  BY <1>1, <1>2, <1>3, <1>4

LEMMA DisposeTestsStep ==
    ASSUME HandlesInv, DisposeTests
    PROVE  HandlesInv'
<1> USE DEF HandlesInv
<1>1. HandlesTypeOK'
  BY DEF HandlesTypeOK, Phases, Looping, DisposeTests, useVars, dispVars, prepVars, Readable, NextContext
<1>2. Phases'
  BY DEF HandlesTypeOK, Phases, Quiet, Looping, DisposeTests, useVars, dispVars, prepVars, Readable, NextContext
<1>3. Named'
  <2> PICK h \in Readable :
          \/ h = INVALID /\ NextContext
          \/ h # INVALID /\ dispHeld' = h /\ dispPc' = "close" /\ UNCHANGED dispFile
    BY DEF DisposeTests
  <2>1. UNCHANGED <<holder, handle, added, local, prepPc, use, held, dispEnd, stale>>
    BY DEF DisposeTests, useVars, prepVars
  <2>2. CASE stale
    BY <2>1, <2>2 DEF Named
  <2>3. CASE ~stale /\ h = INVALID /\ NextContext
    <3>1. h = handle[dispFile] /\ dispFile \in 1 .. added /\ dispFile <= dispEnd
      BY <2>3 DEF Readable, DisposeTests, HandlesTypeOK, Phases, Looping
    <3>2. Closed(dispFile)
      <4> SUFFICES ASSUME NEW d \in Descriptors, holder[d] = dispFile PROVE FALSE
        BY DEF Closed
      <4>1. dispFile \in Files /\ dispFile # added + 1
        BY <3>1 DEF HandlesTypeOK
      <4>2. handle[dispFile] = d
        BY <4>1, <2>3 DEF Named
      <4> QED
        BY <4>2, <3>1, <2>3
    <3>3. \A f \in Files : f < dispFile + 1 => Closed(f)
      BY <3>1, <3>2, <2>3 DEF Named, HandlesTypeOK
    <3>4. dispFile' \in {dispFile, dispFile + 1} /\ dispPc' \in {"done", "test"}
      BY <2>3 DEF NextContext
    <3>5. dispPc' = "done" => dispEnd = dispFile
      BY <2>3 DEF NextContext
    <3>6. \A f \in Files : Closed(f)' <=> Closed(f)
      BY <2>1 DEF Closed
    <3>7. \A f \in Files : f < dispFile' => Closed(f)'
      BY <3>3, <3>4, <3>6 DEF HandlesTypeOK
    <3>8. dispPc' = "done" => \A f \in 1 .. dispEnd' : Closed(f)'
      BY <3>3, <3>5, <3>6, <2>1 DEF HandlesTypeOK
    <3>9. /\ \A d \in Descriptors : holder'[d] \in Files =>
                \/ holder'[d] <= added' /\ handle'[holder'[d]] = d
                \/ holder'[d] = added' + 1 /\ prepPc' = "failed"
                \/ holder'[d] = added' + 1 /\ prepPc' = "configure" /\ d = local'
          /\ \A f \in Files :
                /\ use'[f] = "close" => handle'[f] \in {held'[f], INVALID}
                /\ use'[f] = "store" => Closed(f)'
      BY <2>1, <2>3, <3>6 DEF Named
    <3> QED
      BY <3>4, <3>7, <3>8, <3>9 DEF Named
  <2>4. CASE ~stale /\ h # INVALID /\ dispHeld' = h /\ dispPc' = "close" /\ UNCHANGED dispFile
    <3>1. h = handle[dispFile]
      BY <2>4 DEF Readable
    <3> QED
      BY <3>1, <2>1, <2>4 DEF Named, Closed, HandlesTypeOK
  <2> QED
    BY <2>2, <2>3, <2>4
<1>4. QuietFiles'
  BY DEF HandlesTypeOK, Phases, QuietFiles, Quiet, Own, Looping, DisposeTests, useVars, dispVars, prepVars, Readable, NextContext
<1> QED
  BY <1>1, <1>2, <1>3, <1>4

LEMMA DisposeClosesStep ==
    ASSUME HandlesInv, DisposeCloses
    PROVE  HandlesInv'
<1> USE DEF HandlesInv
<1>1. HandlesTypeOK'
  BY DEF HandlesTypeOK, Phases, Looping, DisposeCloses, useVars, dispVars, prepVars, Close
<1>2. Phases'
  BY DEF HandlesTypeOK, Phases, Quiet, Looping, DisposeCloses, useVars, dispVars, prepVars, Close
<1>3. Named'
  BY DEF HandlesTypeOK, Phases, Named, Closed, Looping, DisposeCloses, useVars, dispVars, prepVars, Close
<1>4. QuietFiles'
  BY DEF HandlesTypeOK, Phases, QuietFiles, Quiet, Own, Looping, DisposeCloses, useVars, dispVars, prepVars, Close
<1> QED
  BY <1>1, <1>2, <1>3, <1>4

LEMMA DisposeStoresStep ==
    ASSUME HandlesInv, DisposeStores
    PROVE  HandlesInv'
<1> USE DEF HandlesInv
<1>1. HandlesTypeOK'
  BY DEF HandlesTypeOK, Phases, Looping, DisposeStores, useVars, dispVars, prepVars, NextContext
<1>2. Phases'
  BY DEF HandlesTypeOK, Phases, Quiet, Looping, DisposeStores, useVars, dispVars, prepVars, NextContext
<1>3. Named'
  BY DEF HandlesTypeOK, Phases, Named, Closed, Looping, DisposeStores, useVars, dispVars, prepVars, NextContext
<1>4. QuietFiles'
  BY DEF HandlesTypeOK, Phases, QuietFiles, Quiet, Own, Looping, DisposeStores, useVars, dispVars, prepVars, NextContext
<1> QED
  BY <1>1, <1>2, <1>3, <1>4

LEMMA OtherOpensStep ==
    ASSUME HandlesInv, NEW d \in Descriptors, OtherOpens(d)
    PROVE  HandlesInv'
<1> USE DEF HandlesInv
<1>1. HandlesTypeOK'
  BY DEF HandlesTypeOK, Phases, Looping, OtherOpens, useVars, dispVars, prepVars
<1>2. Phases'
  BY DEF HandlesTypeOK, Phases, Quiet, Looping, OtherOpens, useVars, dispVars, prepVars
<1>3. Named'
  BY DEF HandlesTypeOK, Phases, Named, Closed, Looping, OtherOpens, useVars, dispVars, prepVars
<1>4. QuietFiles'
  BY DEF HandlesTypeOK, Phases, QuietFiles, Quiet, Own, Looping, OtherOpens, useVars, dispVars, prepVars
<1> QED
  BY <1>1, <1>2, <1>3, <1>4

LEMMA OtherClosesStep ==
    ASSUME HandlesInv, NEW d \in Descriptors, OtherCloses(d)
    PROVE  HandlesInv'
<1> USE DEF HandlesInv
<1>1. HandlesTypeOK'
  BY DEF HandlesTypeOK, Phases, Looping, OtherCloses, useVars, dispVars, prepVars
<1>2. Phases'
  BY DEF HandlesTypeOK, Phases, Quiet, Looping, OtherCloses, useVars, dispVars, prepVars
<1>3. Named'
  BY DEF HandlesTypeOK, Phases, Named, Closed, Looping, OtherCloses, useVars, dispVars, prepVars
<1>4. QuietFiles'
  BY DEF HandlesTypeOK, Phases, QuietFiles, Quiet, Own, Looping, OtherCloses, useVars, dispVars, prepVars
<1> QED
  BY <1>1, <1>2, <1>3, <1>4

----------------------------------------------------------------------------
(* The theorems.                                                           *)

\* HandlesInv is inductive: an opened file's number names that file until its
\* channel or dispose_impl closes it, and a number that names a file stands in
\* that file's context (transfer.h:175-190, transfer.cpp:590-631).
THEOREM HandlesInvHolds == Spec => []HandlesInv
<1>1. HandlesInv /\ [Next]_vars => HandlesInv'
  <2> SUFFICES ASSUME HandlesInv, [Next]_vars PROVE HandlesInv'
    OBVIOUS
  <2>1. CASE PrepareStep
    BY <2>1, OpenFileStep, OpenFailsStep, ConfigureFailsStep, AddFileStep DEF PrepareStep
  <2>2. ASSUME NEW f \in Files, ChannelStep(f) PROVE HandlesInv'
    BY <2>2, TestHandleStep, CloseHandleStep, StoreInvalidStep, ReadHandleStep, SendFileStep,
       SendFileFailsStep DEF ChannelStep
  <2>3. CASE DisposeStep
    BY <2>3, BeginDisposeStep, DisposeTestsStep, DisposeClosesStep, DisposeStoresStep DEF DisposeStep
  <2>4. ASSUME NEW d \in Descriptors, OtherOpens(d) \/ OtherCloses(d) PROVE HandlesInv'
    BY <2>4, OtherOpensStep, OtherClosesStep
  <2>5. CASE UNCHANGED vars
    BY <2>5 DEF vars, prepVars, useVars, dispVars, HandlesInv, HandlesTypeOK, Phases, Named,
       QuietFiles, Quiet, Own, Closed, Looping
  <2> QED
    BY <2>1, <2>2, <2>3, <2>4, <2>5 DEF Next
<1> QED
  BY InitInv, <1>1, PTL DEF Spec

\* Until dispose_impl begins, every number is its own file's: no channel closes
\* another's descriptor (transfer.h:183) or sends another's bytes (transfer.cpp:68).
THEOREM UndisposedFilesOwned == Spec => []UndisposedFilesAreTheirOwn
<1>1. HandlesInv => UndisposedFilesAreTheirOwn
  BY DEF HandlesInv, HandlesTypeOK, Phases, Named, QuietFiles, Own, UndisposedFilesAreTheirOwn
<1> QED
  BY HandlesInvHolds, <1>1, PTL

\* dispose_impl closes only its own file's number if no channel was in
\* close_handle since it began, and no context has moved (transfer.cpp:626-629).
THEOREM DisposeClosesItsOwn == Spec => []DisposeOwnsNumber
<1>1. HandlesInv => DisposeOwnsNumber
  BY DEF HandlesInv, QuietFiles, Quiet, Own, DisposeOwnsNumber
<1> QED
  BY HandlesInvHolds, <1>1, PTL

\* A dispose_impl that is through leaves no file open that was listed when it
\* began, whatever the channels have closed meanwhile (transfer.cpp:624-631).
THEOREM DisposeClosesAllListed == Spec => []ListedFilesAreClosed
<1>1. HandlesInv => ListedFilesAreClosed
  BY DEF HandlesInv, HandlesTypeOK, Named, Closed, ListedFilesAreClosed
<1> QED
  BY HandlesInvHolds, <1>1, PTL
=============================================================================
