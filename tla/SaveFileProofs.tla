---------------------------- MODULE SaveFileProofs ----------------------------
(***************************************************************************)
(* Proofs about SaveFile, for SRAM of any size, on cards of any cluster    *)
(* size: its types, that a store swaps one whole image for another, that a *)
(* success is there twice, and that it keeps the promise of DurableSave.   *)
(***************************************************************************)
EXTENDS SaveFileRefinement, TLAPS

\* While a file is written its directory entry says zero, and what has gone out
\* of it is what SRAM holds.
WriteInv ==
  /\ pc \in {"write", "close"} =>
       /\ card[file].len = 0 /\ ~card[file].cut
       /\ \A u \in 1..Units : u <= done => card[file].image[u] = sram[u]
  /\ pc \in {"write", "abort"} => done < FileLen
  /\ pc = "close" => done = FileLen
  /\ pc = "abort" => card[file].len = 0 /\ ~card[file].cut

\* The .SAV is not touched before the .TMP holds the image whole.
OrderInv ==
  /\ pc \in {"boot", "idle", "mount"} => file = "TMP"
  /\ file = "SAV" => Readable("TMP") /\ card["TMP"].image = sram
  /\ pc = "ok" => file = "SAV" /\ Readable("SAV") /\ card["SAV"].image = sram

\* What the .SAV holds, compared with when the last store ended.
PrimaryInv ==
  /\ pc # "boot" /\ file = "TMP" => /\ sound = Readable("SAV")
                                    /\ sound => card["SAV"].image = before
  /\ file = "SAV" /\ Readable("SAV") => card["SAV"].image \in {before, sram}
  /\ sound => \/ card["SAV"].cut
              \/ Readable("SAV") /\ card["SAV"].image \in {before, sram}
              \/ Readable("TMP") /\ card["TMP"].image = sram
                   /\ ~IsFullSave(card["SAV"].len)

IInv == TypeOK /\ WriteInv /\ OrderInv /\ PrimaryInv

-----------------------------------------------------------------------------

LEMMA FileLenFacts == FileLen \in Nat /\ FileLen > 0 /\ Units <= FileLen
  BY UnitsAssumption, RtcAssumption DEF FileLen

LEMMA ZeroImageType == ZeroImage \in Image
  BY ValueAssumption DEF ZeroImage, Image

LEMMA SlotType ==
  \A sav, tmp : PickRestoreSlot(sav, tmp) \in Name \cup {"none"}
  BY DEF PickRestoreSlot, Name

LEMMA BootImageType ==
  ASSUME NEW c \in [Name -> File]
  PROVE  BootImage(c) \in Image \cup {NoImage}
<1> DEFINE slot == PickRestoreSlot(c["SAV"].len, c["TMP"].len)
<1>1. slot \in Name \cup {"none"}
  BY SlotType
<1>2. CASE slot = "none"
  BY <1>2 DEF BootImage
<1>3. CASE slot \in Name
  <2>1. c[slot].image \in Image
    BY <1>3 DEF File
  <2> QED BY <1>3, <2>1 DEF BootImage, Name
<1> QED BY <1>1, <1>2, <1>3

\* A readable .SAV is what a boot restores; a readable .TMP behind an incomplete
\* .SAV is too.
LEMMA Restored ==
  ASSUME NEW c
  PROVE  /\ IsFullSave(c["SAV"].len) /\ ~c["SAV"].cut
              => BootImage(c) = c["SAV"].image
         /\ IsFullSave(c["TMP"].len) /\ ~c["TMP"].cut /\ ~IsFullSave(c["SAV"].len)
              => BootImage(c) = c["TMP"].image
  BY DEF BootImage, PickRestoreSlot

\* Types, one action at a time.
LEMMA TypeInit == Init => TypeOK
<1> SUFFICES ASSUME Init PROVE TypeOK
  OBVIOUS
<1>1. card \in [Name -> File]
  BY FileLenFacts, ZeroImageType DEF Init, File
<1>2. sound \in BOOLEAN
  BY Zenon DEF Init
<1>3. done \in 0..FileLen
  BY FileLenFacts DEF Init
<1>4. sram \in Image
  BY ZeroImageType DEF Init
<1>5. /\ pc \in Pc /\ file \in Name
      /\ before \in Image \cup {NoImage}
  BY Zenon DEF Init, Name, Pc
<1> QED BY <1>1, <1>2, <1>3, <1>4, <1>5 DEF TypeOK

LEMMA CardType ==
  ASSUME card \in [Name -> File], NEW f \in Name, NEW n \in 0..FileLen
  PROVE  /\ ChainCut(f) => card' \in [Name -> File]
         /\ EntryZeroed(f) => card' \in [Name -> File]
         /\ LengthRecorded(f, n) => card' \in [Name -> File]
<1>0. card[f] \in File /\ 0 \in 0..FileLen
  BY FileLenFacts
<1>1. ASSUME ChainCut(f) PROVE card' \in [Name -> File]
  <2>1. [card[f] EXCEPT !.cut = @ \/ card[f].len > ClusterUnits] \in File
    BY <1>0 DEF File
  <2>2. card' = [card EXCEPT ![f] = [card[f] EXCEPT !.cut = @ \/ card[f].len > ClusterUnits]]
    BY <1>1 DEF ChainCut
  <2> QED BY <2>1, <2>2
<1>2. ASSUME EntryZeroed(f) PROVE card' \in [Name -> File]
  <2>1. [card[f] EXCEPT !.len = 0, !.cut = FALSE] \in File
    BY <1>0 DEF File
  <2>2. card' = [card EXCEPT ![f] = [card[f] EXCEPT !.len = 0, !.cut = FALSE]]
    BY <1>2 DEF EntryZeroed
  <2> QED BY <2>1, <2>2
<1>3. ASSUME LengthRecorded(f, n) PROVE card' \in [Name -> File]
  <2>1. [card[f] EXCEPT !.len = n] \in File
    BY <1>0 DEF File
  <2>2. card' = [card EXCEPT ![f] = [card[f] EXCEPT !.len = n]]
    BY <1>3 DEF LengthRecorded
  <2> QED BY <2>1, <2>2
<1> QED BY <1>1, <1>2, <1>3

LEMMA TypeStep == TypeOK /\ WriteInv /\ [Next]_vars => TypeOK'
<1> SUFFICES ASSUME TypeOK, WriteInv, [Next]_vars PROVE TypeOK'
  OBVIOUS
<1> USE DEF TypeOK
<1>0. Readable("SAV") \in BOOLEAN /\ BootImage(card) \in Image \cup {NoImage}
  <2>1. Readable("SAV") \in BOOLEAN
    BY Zenon DEF Readable
  <2> QED BY <2>1, BootImageType
<1>1. ASSUME NEW clock \in BOOLEAN, NEW savProbed \in BOOLEAN,
             NEW tmpProbed \in BOOLEAN, NEW read \in BOOLEAN,
             Restore(clock, savProbed, tmpProbed, read)
      PROVE  TypeOK'
  <2> DEFINE slot == Chosen(savProbed, tmpProbed)
  <2>1. slot \in Name \cup {"none"}
    BY SlotType DEF Chosen
  <2>2. sram' \in Image
    <3>1. \/ sram' = ZeroImage
          \/ slot # "none" /\ sram' = card[slot].image
      BY <1>1 DEF Restore
    <3>2. slot # "none" => card[slot].image \in Image
      BY <2>1 DEF File
    <3> QED BY <3>1, <3>2, ZeroImageType
  <2>3. sound' \in BOOLEAN /\ before' \in Image \cup {NoImage}
    BY <1>0, <1>1 DEF Restore, Settle
  <2>4. UNCHANGED <<card, file, done>> /\ pc' \in Pc
    BY <1>1 DEF Restore, Pc
  <2> QED BY <2>2, <2>3, <2>4
<1>2. ASSUME NEW i \in Image, Play(i) PROVE TypeOK'
  BY <1>2 DEF Play, jobVars, historyVars
<1>3. CASE StartStore \/ Mount \/ MountFails
  BY <1>3 DEF StartStore, Mount, MountFails, historyVars, Pc, Name
<1>4. CASE CutChain \/ CutChainFails
  BY <1>4, CardType DEF CutChain, CutChainFails, historyVars, Pc
<1>5. CASE ZeroEntry \/ ZeroEntryFails
  BY <1>5, CardType, FileLenFacts DEF ZeroEntry, ZeroEntryFails, historyVars, Pc
<1>6. CASE WriteUnit
  <2>1. done < FileLen
    BY <1>6 DEF WriteUnit, WriteInv
  <2>2. done' \in 0..FileLen /\ pc' \in Pc
    BY <1>6, <2>1, FileLenFacts DEF WriteUnit, Pc
  <2>3. card' \in [Name -> File]
    <3>1. CASE done < Units
      <4> DEFINE image == [card[file].image EXCEPT ![done + 1] = sram[done + 1]]
      <4>1. image \in Image
        BY <3>1, UnitsAssumption DEF Image, File
      <4>2. [card[file] EXCEPT !.image = image] \in File
        BY <4>1 DEF File
      <4>3. card' = [card EXCEPT ![file] = [card[file] EXCEPT !.image = image]]
        BY <1>6, <3>1 DEF WriteUnit
      <4> QED BY <4>2, <4>3
    <3>2. CASE ~(done < Units)
      BY <1>6, <3>2 DEF WriteUnit
    <3> QED BY <3>1, <3>2
  <2> QED BY <1>6, <2>2, <2>3 DEF WriteUnit, historyVars
<1>7. CASE WriteFails
  BY <1>7 DEF WriteFails, historyVars, Pc
<1>8. CASE Close \/ CloseFails \/ Abort
  BY <1>8, CardType DEF Close, CloseFails, Abort, historyVars, Pc, Name
<1>9. CASE FinishStore
  BY <1>0, <1>9, FileLenFacts DEF FinishStore, Settle, Pc, Name
<1>10. CASE PowerLoss
  BY <1>10, FileLenFacts DEF PowerLoss, historyVars, Pc, Name
<1>11. CASE UNCHANGED vars
  BY <1>11 DEF vars, jobVars, historyVars
<1> QED
  BY <1>1, <1>2, <1>3, <1>4, <1>5, <1>6, <1>7, <1>8, <1>9, <1>10, <1>11
  DEF Next, Boot, StoreStep

LEMMA IInvInit == Init => IInv
<1>1. ASSUME Init PROVE WriteInv /\ OrderInv /\ PrimaryInv
  <2>1. pc = "boot" /\ file = "TMP" /\ ~sound
    BY <1>1, Zenon DEF Init
  <2> QED BY <2>1 DEF WriteInv, OrderInv, PrimaryInv
<1> QED BY <1>1, TypeInit DEF IInv

LEMMA SameImage ==
  ASSUME NEW a \in Image, NEW b \in Image, \A u \in 1..Units : a[u] = b[u]
  PROVE  a = b
<1>1. /\ a = [u \in 1..Units |-> a[u]]
      /\ b = [u \in 1..Units |-> b[u]]
  BY DEF Image
<1> QED BY <1>1, Zenon

\* What a store has written: the whole image, once SRAM is out.
LEMMA WholeImage ==
  ASSUME TypeOK, WriteInv, pc = "close"
  PROVE  /\ card[file].image = sram /\ ~card[file].cut
         /\ IsFullSave(done)
<1>1. \A u \in 1..Units : card[file].image[u] = sram[u]
  BY FileLenFacts, UnitsAssumption DEF WriteInv
<1>2. card[file].image \in Image /\ sram \in Image
  BY DEF TypeOK, File
<1>3. card[file].image = sram
  BY <1>1, <1>2, SameImage
<1>4. IsFullSave(done)
  BY FileLenFacts DEF WriteInv, IsFullSave
<1>5. ~card[file].cut
  BY DEF WriteInv
<1> QED BY <1>3, <1>4, <1>5

LEMMA IInvStep == IInv /\ TypeOK' /\ [Next]_vars => IInv'
<1> SUFFICES ASSUME TypeOK, WriteInv, OrderInv, PrimaryInv, TypeOK', [Next]_vars
             PROVE  WriteInv' /\ OrderInv' /\ PrimaryInv'
  BY DEF IInv
<1> USE DEF TypeOK, jobVars, historyVars, Name
<1>1. ASSUME NEW clock \in BOOLEAN, NEW savProbed \in BOOLEAN,
             NEW tmpProbed \in BOOLEAN, NEW read \in BOOLEAN,
             Restore(clock, savProbed, tmpProbed, read)
      PROVE  WriteInv' /\ OrderInv' /\ PrimaryInv'
  <2>1. /\ pc = "boot" /\ pc' = "idle" /\ file' = "TMP" /\ card' = card
        /\ sound' = Readable("SAV") /\ before' = BootImage(card)
    BY <1>1 DEF Restore, Settle, OrderInv
  <2>2. Readable("SAV") => BootImage(card) = card["SAV"].image
    BY DEF Readable, BootImage, PickRestoreSlot
  <2> QED BY <2>1, <2>2 DEF WriteInv, OrderInv, PrimaryInv, Readable
<1>2. ASSUME NEW i \in Image, Play(i)
      PROVE  WriteInv' /\ OrderInv' /\ PrimaryInv'
  BY <1>2 DEF Play, WriteInv, OrderInv, PrimaryInv, Readable
<1>3. CASE StartStore \/ Mount \/ MountFails
  BY <1>3 DEF StartStore, Mount, MountFails, WriteInv, OrderInv, PrimaryInv, Readable
<1>4. CASE CutChain \/ CutChainFails
  <2>1. /\ pc = "cut" /\ pc' \in {"zero", "err"}
        /\ UNCHANGED <<sram, file, done, before, sound>>
    BY <1>4 DEF CutChain, CutChainFails
  <2>2. /\ \A g \in Name : g # file => card'[g] = card[g]
        /\ card'[file].len = card[file].len
        /\ card'[file].image = card[file].image
        /\ card[file].cut => card'[file].cut
    <3>1. CASE UNCHANGED card
      BY <3>1
    <3>2. CASE ChainCut(file)
      BY <3>2 DEF ChainCut, File
    <3> QED BY <1>4, <3>1, <3>2 DEF CutChain, CutChainFails
  <2>3. WriteInv'
    BY <2>1 DEF WriteInv
  <2>4. OrderInv'
    BY <2>1, <2>2 DEF OrderInv, Readable
  <2>5. PrimaryInv'
    BY <2>1, <2>2 DEF OrderInv, PrimaryInv, Readable
  <2> QED BY <2>3, <2>4, <2>5
<1>5. CASE ZeroEntry \/ ZeroEntryFails
  <2>1. /\ pc = "zero" /\ pc' \in {"write", "err"}
        /\ UNCHANGED <<sram, file, before, sound>>
    BY <1>5 DEF ZeroEntry, ZeroEntryFails
  <2>2. /\ \A g \in Name : g # file => card'[g] = card[g]
        /\ card' = card \/ (card'[file].len = 0 /\ ~card'[file].cut)
    <3>1. CASE UNCHANGED card
      BY <3>1
    <3>2. CASE EntryZeroed(file)
      <4>1. card' = [card EXCEPT ![file] =
                        [card[file] EXCEPT !.len = 0, !.cut = FALSE]]
        BY <3>2 DEF EntryZeroed
      <4>2. card'[file] = [card[file] EXCEPT !.len = 0, !.cut = FALSE]
        BY <4>1
      <4>3. card'[file].len = 0 /\ ~card'[file].cut
        BY <4>2 DEF File
      <4> QED BY <4>1, <4>3
    <3> QED BY <1>5, <3>1, <3>2 DEF ZeroEntry, ZeroEntryFails
  <2>3. WriteInv'
    <3>1. CASE ZeroEntry
      <4>1. pc' = "write" /\ done' = 0 /\ card'[file'].len = 0 /\ ~card'[file'].cut
        BY <3>1 DEF ZeroEntry, EntryZeroed, File
      <4> QED BY <4>1, FileLenFacts DEF WriteInv
    <3>2. CASE ZeroEntryFails
      BY <3>2 DEF ZeroEntryFails, WriteInv
    <3> QED BY <1>5, <3>1, <3>2
  <2>4. OrderInv'
    BY <2>1, <2>2 DEF OrderInv, Readable
  <2>5. ~(0 >= FileLen)
    BY FileLenFacts
  <2>6. PrimaryInv'
    BY <2>1, <2>2, <2>5 DEF OrderInv, PrimaryInv, Readable, IsFullSave
  <2> QED BY <2>3, <2>4, <2>6
<1>6. CASE WriteUnit
  <2>1. /\ pc = "write" /\ pc' \in {"write", "close"}
        /\ UNCHANGED <<sram, file, before, sound>>
        /\ done' = done + 1 /\ (pc' = "close" <=> done' = FileLen)
    BY <1>6 DEF WriteUnit
  <2>2. /\ \A g \in Name : g # file => card'[g] = card[g]
        /\ card'[file].len = card[file].len /\ card'[file].cut = card[file].cut
        /\ \A u \in 1..Units :
              card'[file].image[u] = IF u = done + 1 THEN sram[u] ELSE card[file].image[u]
    <3>1. CASE done < Units
      BY <1>6, <3>1 DEF WriteUnit, File, Image
    <3>2. CASE ~(done < Units)
      BY <1>6, <3>2, UnitsAssumption DEF WriteUnit
    <3> QED BY <3>1, <3>2
  <2>3. WriteInv'
    BY <2>1, <2>2, FileLenFacts, UnitsAssumption DEF WriteInv
  <2>4. OrderInv'
    BY <2>1, <2>2 DEF OrderInv, Readable
  <2>5. ~IsFullSave(card[file].len)
    BY <2>1, FileLenFacts DEF WriteInv, IsFullSave
  <2>6. PrimaryInv'
    BY <2>1, <2>2, <2>5 DEF OrderInv, PrimaryInv, Readable
  <2> QED BY <2>3, <2>4, <2>6
<1>7. CASE WriteFails
  BY <1>7 DEF WriteFails, WriteInv, OrderInv, PrimaryInv, Readable
<1>8. CASE Close \/ CloseFails
  <2>1. /\ pc = "close" /\ card[file].image = sram /\ ~card[file].cut
        /\ IsFullSave(done) /\ ~IsFullSave(card[file].len)
    BY <1>8, WholeImage, FileLenFacts DEF Close, CloseFails, WriteInv, IsFullSave
  <2>2. /\ UNCHANGED <<sram, done, before, sound>>
        /\ \/ pc' \in {"ok", "err"} /\ file' = file
           \/ pc' = "cut" /\ file' = "SAV" /\ file = "TMP"
        /\ pc' = "ok" => file = "SAV"
        /\ pc' # "err" => LengthRecorded(file, done)
        /\ UNCHANGED card \/ LengthRecorded(file, done)
    BY <1>8 DEF Close, CloseFails
  <2>3. /\ \A g \in Name : g # file => card'[g] = card[g]
        /\ card'[file].image = sram /\ ~card'[file].cut
        /\ card' = card \/ IsFullSave(card'[file].len)
        /\ pc' # "err" => IsFullSave(card'[file].len)
    BY <2>1, <2>2 DEF LengthRecorded, File
  <2>4. WriteInv'
    BY <2>2 DEF WriteInv
  <2>5. OrderInv'
    BY <2>1, <2>2, <2>3 DEF OrderInv, Readable
  <2>6. PrimaryInv'
    BY <2>1, <2>2, <2>3 DEF OrderInv, PrimaryInv, Readable
  <2> QED BY <2>4, <2>5, <2>6
<1>9. CASE Abort
  <2>1. /\ pc = "abort" /\ pc' = "err"
        /\ UNCHANGED <<sram, file, done, before, sound>>
    BY <1>9 DEF Abort
  <2>2. /\ \A g \in Name : g # file => card'[g] = card[g]
        /\ ~card[file].cut /\ ~card'[file].cut
        /\ ~IsFullSave(card[file].len) /\ ~IsFullSave(card'[file].len)
    BY <1>9, FileLenFacts DEF Abort, LengthRecorded, WriteInv, File, IsFullSave
  <2>3. WriteInv'
    BY <2>1 DEF WriteInv
  <2>4. OrderInv'
    BY <2>1, <2>2 DEF OrderInv, Readable
  <2>5. PrimaryInv'
    BY <2>1, <2>2 DEF OrderInv, PrimaryInv, Readable
  <2> QED BY <2>3, <2>4, <2>5
<1>10. CASE FinishStore
  <2>1. Readable("SAV") => BootImage(card) = card["SAV"].image
    BY DEF Readable, BootImage, PickRestoreSlot
  <2> QED BY <1>10, <2>1 DEF FinishStore, Settle, WriteInv, OrderInv, PrimaryInv, Readable
<1>11. CASE PowerLoss
  BY <1>11 DEF PowerLoss, WriteInv, OrderInv, PrimaryInv, Readable
<1>12. CASE UNCHANGED vars
  BY <1>12 DEF vars, WriteInv, OrderInv, PrimaryInv, Readable
<1> QED
  BY <1>1, <1>2, <1>3, <1>4, <1>5, <1>6, <1>7, <1>8, <1>9, <1>10, <1>11, <1>12
  DEF Next, Boot, StoreStep

LEMMA IInvariant == Spec => []IInv
<1>1. IInv /\ [Next]_vars => IInv'
  BY TypeStep, IInvStep DEF IInv
<1> QED BY <1>1, IInvInit, PTL DEF Spec

-----------------------------------------------------------------------------

\* Every variable keeps its type; in particular no step writes past the end of
\* the image.
THEOREM TypeCorrect == Spec => []TypeOK
<1>1. IInv => TypeOK
  BY DEF IInv
<1> QED BY <1>1, IInvariant, PTL

\* A store that returned Ok left the image in both files.
THEOREM SuccessIsStoredTwice == Spec => []StoredTwice
<1>1. IInv => StoredTwice
  BY DEF IInv, StoredTwice, OrderInv, Name
<1> QED BY <1>1, IInvariant, PTL

\* Failures and power losses never leave a boot with anything but the old image
\* or the new one, where OldOrNew says so.
THEOREM StoreSwapsImages == Spec => []OldOrNew
<1>1. ASSUME IInv PROVE OldOrNew
  <2> SUFFICES ASSUME sound \/ file = "SAV", ~card["SAV"].cut
               PROVE  BootImage(card) \in {before, sram}
    BY DEF OldOrNew
  <2>1. CASE Readable("SAV")
    BY <1>1, <2>1, Restored DEF IInv, PrimaryInv, Readable
  <2>2. CASE ~Readable("SAV")
    <3>1. ~IsFullSave(card["SAV"].len)
      BY <2>2 DEF Readable
    <3>2. Readable("TMP") /\ card["TMP"].image = sram
      BY <1>1, <2>2 DEF IInv, OrderInv, PrimaryInv
    <3> QED BY <3>1, <3>2, Restored DEF Readable
  <2> QED BY <2>1, <2>2
<1> QED BY <1>1, IInvariant, PTL

-----------------------------------------------------------------------------
(* SaveFile keeps the promise of DurableSave.                              *)

mappedTarget == IF pc \in {"boot", "idle"} THEN NoImage ELSE sram

LEMMA PromiseInit == Init => Promise!Init
<1> SUFFICES ASSUME Init PROVE Promise!Init
  OBVIOUS
<1>1. card["SAV"].len = 0 /\ card["TMP"].len = 0 /\ pc = "boot"
  BY DEF Init, Name
<1>2. BootImage(card) = NoImage
  BY <1>1, FileLenFacts, UnitsAssumption
  DEF BootImage, PickRestoreSlot, IsFullSave, IsSramComplete
<1>3. ~Readable("SAV")
  BY <1>1, FileLenFacts DEF Readable, IsFullSave
<1> QED BY <1>1, <1>2, <1>3 DEF Promise!Init

\* What a boot restores depends on the card alone.
LEMMA SameCard ==
  ASSUME UNCHANGED card
  PROVE  BootImage(card)' = BootImage(card) /\ Readable("SAV")' = Readable("SAV")
  BY DEF BootImage, Readable

\* A store at work: not yet successful, before and after.
AtWork == pc \notin {"boot", "idle", "ok"}

\* A step that leaves the .SAV alone changes nothing, or loses an image that had
\* no second copy.
LEMMA TempStep ==
  ASSUME IInv, TypeOK', AtWork, AtWork', sram' = sram, card'["SAV"] = card["SAV"]
  PROVE  [Promise!Next]_(Promise!vars)
<1>1. sram \in Image /\ sram # NoImage /\ card' \in [Name -> File]
  BY NoImageAssumption DEF IInv, TypeOK
<1>2. Readable("SAV")' = Readable("SAV")
  BY DEF Readable
<1>3. CASE Readable("SAV")
  <2>1. BootImage(card') = BootImage(card)
    BY <1>3, Restored DEF Readable
  <2> QED BY <1>2, <2>1 DEF AtWork, Promise!vars
<1>4. CASE ~Readable("SAV")
  <2>1. BootImage(card') \in Image \cup {NoImage}
    BY <1>1, BootImageType
  <2>2. Promise!Lose
    BY <1>1, <1>2, <1>4, <2>1 DEF Promise!Lose, Promise!Storing, AtWork
  <2> QED BY <2>2 DEF Promise!Next
<1> QED BY <1>3, <1>4

\* A step after which a boot restores the image being stored.
LEMMA TakeStep ==
  ASSUME IInv, AtWork, AtWork', sram' = sram, BootImage(card') = sram
  PROVE  [Promise!Next]_(Promise!vars)
<1>1. sram # NoImage
  BY NoImageAssumption DEF IInv, TypeOK
<1>2. Readable("SAV")' \in BOOLEAN
  BY Zenon DEF Readable
<1>3. Promise!Take
  BY <1>1, <1>2 DEF Promise!Take, Promise!Storing, AtWork
<1> QED BY <1>3 DEF Promise!Next

\* The .TMP stands in for an incomplete .SAV.
LEMMA StandIn ==
  ASSUME IInv, file = "SAV", NEW c, c["TMP"] = card["TMP"],
         ~IsFullSave(c["SAV"].len)
  PROVE  BootImage(c) = sram
  BY Restored DEF IInv, OrderInv, Readable

LEMMA CutStep ==
  ASSUME IInv, TypeOK', AtWork, AtWork', sram' = sram, file = "SAV", ChainCut(file)
  PROVE  [Promise!Next]_(Promise!vars)
<1>1. /\ card \in [Name -> File] /\ card["SAV"] \in File
      /\ sram \in Image /\ sram # NoImage
  BY NoImageAssumption DEF IInv, TypeOK, Name
<1>2. /\ card'["TMP"] = card["TMP"] /\ card'["SAV"].len = card["SAV"].len
      /\ card'["SAV"].image = card["SAV"].image
      /\ card'["SAV"].cut = (card["SAV"].cut \/ card["SAV"].len > ClusterUnits)
  BY <1>1 DEF ChainCut, Name, File
<1>3. CASE ~IsFullSave(card["SAV"].len)
  <2>1. BootImage(card') = sram
    BY <1>2, <1>3, StandIn
  <2> QED BY <2>1, TakeStep
<1>4. CASE IsFullSave(card["SAV"].len) /\ card'["SAV"].cut
  <2>1. BootImage(card') = NoImage /\ ~Readable("SAV")'
    BY <1>2, <1>4 DEF BootImage, PickRestoreSlot, Readable
  <2>2. CASE card["SAV"].cut
    <3>1. BootImage(card) = NoImage /\ ~Readable("SAV")
      BY <1>4, <2>2 DEF BootImage, PickRestoreSlot, Readable
    <3> QED BY <2>1, <3>1 DEF AtWork, Promise!vars
  <2>3. CASE ~card["SAV"].cut
    <3>1. ~(FileLen <= ClusterUnits)
      BY <1>1, <1>2, <1>4, <2>3, ClusterAssumption, FileLenFacts DEF File, IsFullSave
    <3>2. Promise!Gap
      BY <1>1, <2>1, <3>1 DEF Promise!Gap, Promise!Storing, AtWork
    <3> QED BY <3>2 DEF Promise!Next
  <2> QED BY <2>2, <2>3
<1>5. CASE IsFullSave(card["SAV"].len) /\ ~card'["SAV"].cut
  <2>1. BootImage(card') = card["SAV"].image /\ Readable("SAV")'
    BY <1>2, <1>5, Restored DEF Readable
  <2>2. BootImage(card) = card["SAV"].image /\ Readable("SAV")
    BY <1>2, <1>5, Restored DEF Readable
  <2> QED BY <2>1, <2>2 DEF AtWork, Promise!vars
<1> QED BY <1>3, <1>4, <1>5

LEMMA PromiseStep ==
  IInv /\ IInv' /\ [Next]_vars => [Promise!Next]_(Promise!vars)
<1> SUFFICES ASSUME IInv, IInv', [Next]_vars
             PROVE  [Promise!Next]_(Promise!vars)
  OBVIOUS
<1> USE DEF Promise!vars
<1>1. TypeOK /\ TypeOK' /\ sram \in Image /\ sram # NoImage
  BY NoImageAssumption DEF IInv, TypeOK
<1>2. CASE Boot \/ (\E i \in Image : Play(i)) \/ UNCHANGED vars
  <2>1. UNCHANGED card /\ mappedTarget' = mappedTarget /\ (pc = "ok")' = (pc = "ok")
    BY <1>2 DEF Boot, Restore, Play, vars, jobVars, mappedTarget
  <2> QED BY <2>1, SameCard DEF mappedTarget
<1>3. CASE StartStore
  <2>1. UNCHANGED <<card, sram>> /\ pc = "idle" /\ pc' = "mount"
    BY <1>3 DEF StartStore
  <2>2. Promise!Begin(sram)
    BY <1>1, <2>1, SameCard DEF Promise!Begin
  <2> QED BY <1>1, <2>2 DEF Promise!Next
<1>4. CASE FinishStore \/ PowerLoss
  <2>1. UNCHANGED <<card, sram>> /\ pc # "boot" /\ pc' \in {"idle", "boot"}
    BY <1>4 DEF FinishStore, PowerLoss
  <2>2. CASE pc = "idle"
    BY <2>1, <2>2, SameCard
  <2>3. CASE pc # "idle"
    <3>1. Promise!End
      BY <1>1, <2>1, <2>3, SameCard DEF Promise!End
    <3> QED BY <3>1 DEF Promise!Next
  <2> QED BY <2>2, <2>3
<1>5. CASE UNCHANGED card /\ AtWork /\ AtWork' /\ sram' = sram
  BY <1>5, SameCard DEF AtWork
<1>6. CASE Mount \/ MountFails \/ WriteFails
  BY <1>5, <1>6 DEF Mount, MountFails, WriteFails, AtWork
<1>7. CASE CutChain \/ CutChainFails
  <2>1. AtWork /\ AtWork' /\ sram' = sram /\ (UNCHANGED card \/ ChainCut(file))
    BY <1>7 DEF CutChain, CutChainFails, AtWork
  <2>2. CASE file = "TMP" /\ ChainCut(file)
    <3>1. card'["SAV"] = card["SAV"]
      BY <1>1, <2>2 DEF ChainCut, TypeOK, Name
    <3> QED BY <1>1, <2>1, <3>1, TempStep
  <2>3. CASE file = "SAV" /\ ChainCut(file)
    BY <1>1, <2>1, <2>3, CutStep
  <2> QED BY <1>1, <1>5, <2>1, <2>2, <2>3 DEF TypeOK, Name
<1>8. CASE ZeroEntry \/ ZeroEntryFails
  <2>1. AtWork /\ AtWork' /\ sram' = sram /\ (UNCHANGED card \/ EntryZeroed(file))
    BY <1>8 DEF ZeroEntry, ZeroEntryFails, AtWork
  <2>2. CASE file = "TMP" /\ EntryZeroed(file)
    <3>1. card'["SAV"] = card["SAV"]
      BY <1>1, <2>2 DEF EntryZeroed, TypeOK, Name
    <3> QED BY <1>1, <2>1, <3>1, TempStep
  <2>3. CASE file = "SAV" /\ EntryZeroed(file)
    <3>1. card'["TMP"] = card["TMP"] /\ card'["SAV"].len = 0
      BY <1>1, <2>3 DEF EntryZeroed, TypeOK, Name, File
    <3>2. BootImage(card') = sram
      BY <2>3, <3>1, StandIn, FileLenFacts DEF IsFullSave
    <3> QED BY <2>1, <3>2, TakeStep
  <2> QED BY <1>1, <1>5, <2>1, <2>2, <2>3 DEF TypeOK, Name
<1>9. CASE WriteUnit
  <2>1. AtWork /\ AtWork' /\ sram' = sram /\ card[file].len = 0
    BY <1>9 DEF WriteUnit, AtWork, IInv, WriteInv
  <2>2. /\ \A g \in Name : g # file => card'[g] = card[g]
        /\ card'[file].len = 0
    <3>1. CASE done < Units
      BY <1>1, <1>9, <2>1, <3>1 DEF WriteUnit, TypeOK, File
    <3>2. CASE ~(done < Units)
      BY <1>9, <2>1, <3>2 DEF WriteUnit
    <3> QED BY <3>1, <3>2
  <2>3. CASE file = "TMP"
    BY <1>1, <2>1, <2>2, <2>3, TempStep DEF Name
  <2>4. CASE file = "SAV"
    <3>1. BootImage(card') = sram
      BY <2>2, <2>4, StandIn, FileLenFacts DEF IsFullSave, Name
    <3> QED BY <2>1, <3>1, TakeStep
  <2> QED BY <1>1, <2>3, <2>4 DEF TypeOK, Name
<1>10. CASE Close \/ CloseFails
  <2>1. /\ pc = "close" /\ card[file].image = sram /\ ~card[file].cut
        /\ IsFullSave(done)
    BY <1>1, <1>10, WholeImage DEF Close, CloseFails, IInv
  <2>2. /\ AtWork /\ sram' = sram
        /\ UNCHANGED card \/ LengthRecorded(file, done)
        /\ Close => LengthRecorded(file, done)
        /\ AtWork' \/ (Close /\ file = "SAV" /\ pc' = "ok")
    <3>1. CASE Close
      BY <1>1, <2>1, <3>1 DEF Close, AtWork, TypeOK, Name
    <3>2. CASE CloseFails /\ ~Close
      BY <2>1, <3>2 DEF CloseFails, AtWork
    <3> QED BY <1>10, <3>1, <3>2
  <2>3. CASE file = "TMP" /\ LengthRecorded(file, done)
    <3>1. card'["SAV"] = card["SAV"]
      BY <1>1, <2>3 DEF LengthRecorded, TypeOK, Name
    <3> QED BY <1>1, <2>2, <2>3, <3>1, TempStep
  <2>4. CASE file = "SAV" /\ LengthRecorded(file, done)
    <3>1. /\ card'["SAV"].len = done /\ card'["SAV"].image = sram
          /\ ~card'["SAV"].cut
      BY <1>1, <2>1, <2>4 DEF LengthRecorded, TypeOK, Name, File
    <3>2. BootImage(card') = sram /\ Readable("SAV")'
      BY <2>1, <3>1, Restored DEF Readable
    <3>3. CASE AtWork'
      BY <2>2, <3>2, <3>3, TakeStep
    <3>4. CASE Close /\ pc' = "ok"
      <4>1. ~IsFullSave(card["SAV"].len)
        BY <2>1, <2>4, FileLenFacts DEF IInv, WriteInv, IsFullSave
      <4>2. BootImage(card) = sram
        BY <2>4, <4>1, StandIn
      <4>3. Promise!Succeed
        BY <1>1, <2>1, <2>2, <3>2, <3>4, <4>2 DEF Promise!Succeed, Promise!Storing
      <4> QED BY <4>3 DEF Promise!Next
    <3> QED BY <2>2, <3>3, <3>4
  <2> QED BY <1>1, <1>5, <2>2, <2>3, <2>4 DEF TypeOK, Name
<1>11. CASE Abort
  <2>1. /\ AtWork /\ AtWork' /\ sram' = sram /\ done < FileLen
        /\ UNCHANGED card \/ LengthRecorded(file, done)
    BY <1>11 DEF Abort, AtWork, IInv, WriteInv
  <2>2. CASE file = "TMP" /\ LengthRecorded(file, done)
    <3>1. card'["SAV"] = card["SAV"]
      BY <1>1, <2>2 DEF LengthRecorded, TypeOK, Name
    <3> QED BY <1>1, <2>1, <3>1, TempStep
  <2>3. CASE file = "SAV" /\ LengthRecorded(file, done)
    <3>1. card'["TMP"] = card["TMP"] /\ card'["SAV"].len = done
      BY <1>1, <2>3 DEF LengthRecorded, TypeOK, Name, File
    <3>2. ~IsFullSave(done)
      BY <1>1, <2>1, FileLenFacts DEF IsFullSave, TypeOK
    <3>3. BootImage(card') = sram
      BY <2>3, <3>1, <3>2, StandIn
    <3> QED BY <2>1, <3>3, TakeStep
  <2> QED BY <1>1, <1>5, <2>1, <2>2, <2>3 DEF TypeOK, Name
<1> QED
  BY <1>2, <1>3, <1>4, <1>6, <1>7, <1>8, <1>9, <1>10, <1>11 DEF Next, StoreStep

\* The two files on the card implement the promised save: what a boot restores
\* moves from whole image to whole image, a reported success is the image
\* stored, and an image is lost only where DurableSave says.
THEOREM SaveFileKeepsPromise == Spec => KeepsPromise
<1>1. IInv /\ IInv' /\ [Next]_vars => [Promise!Next]_(Promise!vars)
  BY PromiseStep
<1> QED BY <1>1, PromiseInit, IInvariant, PTL DEF Spec, KeepsPromise, Promise!Spec

=============================================================================
