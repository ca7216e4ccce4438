---------------------------- MODULE TerminalProofs ----------------------------
(***************************************************************************)
(* Proofs about Terminal, for any word list, any files and PSBTs and any   *)
(* fingerprints.                                                           *)
(***************************************************************************)
EXTENDS Terminal, FiniteSetTheorems, SequenceTheorems, TLAPS

-----------------------------------------------------------------------------
\* What groups of actions leave alone.

LEMMA EnterFrame ==
  Enter =>
    /\ UNCHANGED <<fileVars, reviewVars, addressIndex, qr>>
    /\ \/ state \in Entering /\ state' \in Entering /\ UNCHANGED seedVars
       \/ Recover
       \/ Confirm
<1> SUFFICES ASSUME Enter
             PROVE  /\ UNCHANGED <<fileVars, reviewVars, addressIndex, qr>>
                    /\ \/ state \in Entering /\ state' \in Entering /\ UNCHANGED seedVars
                       \/ Recover
                       \/ Confirm
  OBVIOUS
<1> USE DEF Entering
<1>1. ASSUME NEW letter \in Letter, TypeLetter(letter)
      PROVE  /\ UNCHANGED <<fileVars, reviewVars, addressIndex, qr, seedVars>>
             /\ state \in Entering /\ state' \in Entering
  BY <1>1 DEF TypeLetter, EnterWords
<1>2. CASE DeleteLetter
  BY <1>2 DEF DeleteLetter, EnterWords
<1>3. CASE NextWord
  BY <1>3 DEF NextWord, EnterWords
<1>4. CASE PreviousWord
  BY <1>4 DEF PreviousWord, EnterWords
<1>5. CASE ChooseWord
  BY <1>5 DEF ChooseWord
<1>6. CASE BackWord
  BY <1>6 DEF BackWord, EnterWords
<1>7. ASSUME NEW pass, EnterPass(pass)
      PROVE  /\ UNCHANGED <<fileVars, reviewVars, addressIndex, qr, seedVars>>
             /\ state \in Entering /\ state' \in Entering
  BY <1>7 DEF EnterPass
<1>8. CASE BackToWords
  BY <1>8 DEF BackToWords
<1>9. CASE Recover
  BY <1>9 DEF Recover
<1>10. CASE RecoverFails
  BY <1>10 DEF RecoverFails
<1>11. CASE BackFromInvalid
  BY <1>11 DEF BackFromInvalid
<1>12. CASE Confirm
  BY <1>12 DEF Confirm
<1> QED BY <1>1, <1>2, <1>3, <1>4, <1>5, <1>6, <1>7, <1>8, <1>9, <1>10, <1>11, <1>12
        DEF Enter, TypePass, DeletePass

LEMMA LookFrame ==
  Look => UNCHANGED <<fileVars, reviewVars, entryVars, seed, network>>
          /\ state \in {"active", "qr"} /\ state' \in {"active", "qr"}
<1>1. VerifyNext => UNCHANGED <<fileVars, reviewVars, entryVars, seed, network>>
        /\ state = "active" /\ state' = "active"
  BY DEF VerifyNext
<1>2. \A segwit : Export(segwit) =>
        UNCHANGED <<fileVars, reviewVars, entryVars, seed, network>>
        /\ state = "active" /\ state' = "qr"
  BY DEF Export, seedVars
<1>3. ExportBack => UNCHANGED <<fileVars, reviewVars, entryVars, seed, network>>
        /\ state = "qr" /\ state' = "active"
  BY DEF ExportBack, seedVars
<1> QED BY <1>1, <1>2, <1>3 DEF Look

\* Browsing moves index and page only.
LEMMA BrowseFrame ==
  NextFile \/ PreviousFile \/ NextNamePage \/ PreviousNamePage =>
    /\ state = "files" /\ \E index, page : Browse(index, page)
    /\ UNCHANGED <<state, aliases, entryVars, seedVars, addressIndex, reviewVars, qr>>
<1>1. \A index, page : Browse(index, page) =>
        /\ state = "files"
        /\ UNCHANGED <<state, aliases, entryVars, seedVars, addressIndex, reviewVars, qr>>
  BY DEF Browse
<1> QED BY <1>1 DEF NextFile, PreviousFile, NextNamePage, PreviousNamePage

LEMMA PickFrame == Pick => UNCHANGED <<entryVars, seedVars, addressIndex, qr>>
<1>1. \A listing : Import(listing) => UNCHANGED <<entryVars, seedVars, addressIndex, qr>>
  BY DEF Import
<1>2. ImportFails => UNCHANGED <<entryVars, seedVars, addressIndex, qr>>
  BY DEF ImportFails
<1>3. \A psbt : Open(psbt) => UNCHANGED <<entryVars, seedVars, addressIndex, qr>>
  BY DEF Open
<1>4. OpenFails => UNCHANGED <<entryVars, seedVars, addressIndex, qr>>
  BY DEF OpenFails
<1> QED BY <1>1, <1>2, <1>3, <1>4, BrowseFrame DEF Pick

LEMMA DecideFrame ==
  Decide => UNCHANGED <<aliases, entryVars, seedVars, addressIndex, qr>> /\ state' # "files"
<1>1. NextPage \/ PreviousPage =>
        UNCHANGED <<aliases, entryVars, seedVars, addressIndex, qr>> /\ state' # "files"
  BY DEF NextPage, PreviousPage, TurnTo, fileVars
<1>2. \A stored : Approve(stored) =>
        UNCHANGED <<aliases, entryVars, seedVars, addressIndex, qr>> /\ state' # "files"
  BY DEF Approve, PsbtError, OnApproval
<1>3. Cancel => UNCHANGED <<aliases, entryVars, seedVars, addressIndex, qr>> /\ state' # "files"
  BY DEF Cancel
<1> QED BY <1>1, <1>2, <1>3 DEF Decide

-----------------------------------------------------------------------------
Pickers == [files : Seq(File), index : Nat, page : Nat]

\* The two lists of files are the same while they are on display.
PickerInv ==
  /\ picker \in Pickers /\ aliases \in Seq(File)
  /\ state = "files" => picker.index \in 1 .. Len(picker.files) /\ aliases = picker.files

LEMMA Emptied ==
  \A pk \in Pickers :
    /\ [pk EXCEPT !.files = <<>>] \in Pickers
    /\ [pk EXCEPT !.files = <<>>].files = <<>>
<1>1. \A pk \in Pickers, e \in Seq(File) : [pk EXCEPT !.files = e] \in Pickers
  BY DEF Pickers
<1>2. \A pk \in Pickers, e \in Seq(File) : [pk EXCEPT !.files = e].files = e
  BY DEF Pickers
<1>3. <<>> \in Seq(File)
  OBVIOUS
<1> QED BY <1>1, <1>2, <1>3

LEMMA Fresh ==
  /\ NoFiles \in Pickers
  /\ \A listing \in Seq(File) :
       /\ [NoFiles EXCEPT !.files = listing] \in Pickers
       /\ [NoFiles EXCEPT !.files = listing].files = listing
       /\ [NoFiles EXCEPT !.files = listing].index = 1
BY DEF NoFiles, Pickers

\* After every step but an import and a move in the list, it is empty, or as it
\* was and not on display.
LEMMA PickerKept ==
  ASSUME PickerInv, aliases' = aliases,
         \/ picker' = [picker EXCEPT !.files = <<>>] /\ state' # "files"
         \/ picker' = picker /\ (state' # "files" \/ state' = state)
  PROVE  PickerInv'
<1>1. picker \in Pickers /\ aliases \in Seq(File)
  BY DEF PickerInv
<1>2. CASE picker' = [picker EXCEPT !.files = <<>>] /\ state' # "files"
  BY <1>1, <1>2, Emptied DEF PickerInv
<1>3. CASE picker' = picker /\ (state' # "files" \/ state' = state)
  BY <1>1, <1>3 DEF PickerInv
<1> QED BY <1>2, <1>3

LEMMA PickerInductive == PickerInv /\ [Next]_vars => PickerInv'
<1> SUFFICES ASSUME PickerInv, [Next]_vars PROVE PickerInv'
  OBVIOUS
<1>1. CASE Lock
  BY <1>1, PickerKept DEF Lock, Wipe
<1>2. ASSUME NEW words \in WordCounts, NEW net \in Network, Begin(words, net)
      PROVE  PickerInv'
  BY <1>2, PickerKept DEF Begin, Wipe
<1>3. CASE Enter
  <2>1. UNCHANGED fileVars /\ state' # "files"
    BY <1>3, EnterFrame DEF Entering, Recover, Confirm
  <2> QED BY <2>1, PickerKept DEF fileVars
<1>4. CASE Look
  BY <1>4, LookFrame, PickerKept DEF fileVars
<1>5. CASE Pick
  <2>1. ASSUME NEW listing \in Listing, Import(listing) PROVE PickerInv'
    <3>1. listing \in Seq(File)
      BY DEF Listing
    <3>2. aliases' = listing
      BY <2>1 DEF Import, Listed
    <3>3. CASE state' # "files" /\ picker' = NoFiles
      BY <3>1, <3>2, <3>3, Fresh DEF PickerInv
    <3>4. CASE listing # <<>> /\ picker' = [NoFiles EXCEPT !.files = listing]
      <4>1. picker' \in Pickers /\ picker'.files = listing /\ picker'.index = 1
        BY <3>1, <3>4, Fresh
      <4>2. 1 \in 1 .. Len(listing)
        BY <3>1, <3>4
      <4> QED BY <3>1, <3>2, <4>1, <4>2 DEF PickerInv
    <3> QED BY <2>1, <3>3, <3>4 DEF Import
  <2>2. CASE ImportFails
    <3>1. state' # "files" /\ picker' = NoFiles /\ aliases' = <<>>
      BY <2>2 DEF ImportFails
    <3>2. <<>> \in Seq(File)
      OBVIOUS
    <3> QED BY <3>1, <3>2, Fresh DEF PickerInv
  <2>3. ASSUME NEW index \in 1 .. Len(picker.files), NEW page \in Nat, Browse(index, page)
        PROVE  PickerInv'
    <3>1. /\ picker \in Pickers /\ picker.files \in Seq(File) /\ index \in Nat
          /\ aliases' = aliases /\ state = "files" /\ state' = "files"
          /\ picker' = [picker EXCEPT !.index = index, !.page = page]
      BY <2>3 DEF Browse, PickerInv, Pickers
    <3>2. picker' \in Pickers /\ picker'.files = picker.files /\ picker'.index = index
      BY <3>1 DEF Pickers
    <3> QED BY <3>1, <3>2 DEF PickerInv
  <2> DEFINE n == Len(picker.files)
  <2>4. state = "files" => n \in Nat /\ n > 0 /\ picker.index \in 1 .. n /\ picker.page \in Nat
    BY DEF PickerInv, Pickers
  <2>5. CASE NextFile
    <3>1. (picker.index % n) + 1 \in 1 .. n
      BY <2>4, <2>5, BrowseFrame
    <3> QED BY <2>3, <2>5, <3>1 DEF NextFile
  <2>6. CASE PreviousFile
    <3>1. \A k, d \in Int : d > 0 => (k % d) + 1 \in 1 .. d
      OBVIOUS
    <3>2. n \in Int /\ n > 0 /\ picker.index + n - 2 \in Int
      BY <2>4, <2>6, BrowseFrame
    <3>3. ((picker.index + n - 2) % n) + 1 \in 1 .. n
      BY <3>1, <3>2
    <3> QED BY <2>3, <2>6, <3>3 DEF PreviousFile
  <2>7. CASE NextNamePage
    <3>1. picker.index \in 1 .. n /\ picker.page + 1 \in Nat
      BY <2>4, <2>7, BrowseFrame
    <3> QED BY <2>3, <2>7, <3>1 DEF NextNamePage
  <2>8. CASE PreviousNamePage
    <3>1. picker.index \in 1 .. n /\ picker.page - 1 \in Nat
      BY <2>4, <2>8, BrowseFrame DEF PreviousNamePage
    <3> QED BY <2>3, <2>8, <3>1 DEF PreviousNamePage
  <2>9. ASSUME NEW psbt \in Psbts, Open(psbt) PROVE PickerInv'
    BY <2>9, PickerKept DEF Open, PsbtError
  <2>10. CASE OpenFails
    BY <2>10, PickerKept DEF OpenFails, PsbtError
  <2> QED BY <1>5, <2>1, <2>2, <2>5, <2>6, <2>7, <2>8, <2>9, <2>10 DEF Pick
<1>6. CASE Decide
  <2>1. NextPage \/ PreviousPage => UNCHANGED picker
    BY DEF NextPage, PreviousPage, TurnTo, fileVars
  <2>2. ASSUME NEW stored, Approve(stored)
        PROVE  picker' = picker \/ picker' = [picker EXCEPT !.files = <<>>]
    BY <2>2 DEF Approve, PsbtError
  <2>3. Cancel => picker' = [picker EXCEPT !.files = <<>>]
    BY DEF Cancel
  <2> QED BY <1>6, <2>1, <2>2, <2>3, DecideFrame, PickerKept DEF Decide
<1>7. CASE UNCHANGED vars
  BY <1>7, PickerKept DEF vars, fileVars
<1> QED BY <1>1, <1>2, <1>3, <1>4, <1>5, <1>6, <1>7 DEF Next

LEMMA PickerStays == Spec => []PickerInv
<1>1. Init => PickerInv
  <2>1. <<>> \in Seq(File)
    OBVIOUS
  <2> QED BY <2>1, Fresh DEF Init, PickerInv
<1> QED BY <1>1, PickerInductive, PTL DEF Spec

\* FILE_OPEN reads the file that is on the screen, whatever was listed before.
THEOREM OpenedFileIsShown == Spec => []OpensWhatItShows
<1>1. PickerInv => OpensWhatItShows
  BY DEF PickerInv, OpensWhatItShows, Shown
<1> QED BY <1>1, PickerStays, PTL

-----------------------------------------------------------------------------
\* A record with other fields than "none" is not None.
LEMMA SomeSeed == \A secret, net : [secret |-> secret, network |-> net] # None
BY DEF None

LEMMA SomeIdentity == \A print, address : [print |-> print, address |-> address] # None
BY DEF None

LEMMA SomeQr == \A s, segwit : [seed |-> s, segwit |-> segwit] # None
BY DEF None

LEMMA SomeReview == \A s, psbt : Review(s, psbt) # None
BY DEF Review, None

\* Identity, index and network belong to the seed; without a seed the index is 0.
IdentityInv ==
  /\ seed = None => identity = None /\ addressIndex = 0
  /\ seed # None =>
       /\ network = seed.network
       /\ identity = [print |-> Fingerprint(seed.secret),
                      address |-> ReceiveAddress(seed, addressIndex)]

LEMMA ScreenInductive ==
  PickerInv /\ IdentityInv /\ NothingOutlivesItsScreen /\ [Next]_vars
    => NothingOutlivesItsScreen'
<1> SUFFICES ASSUME PickerInv, IdentityInv, NothingOutlivesItsScreen, [Next]_vars
             PROVE  NothingOutlivesItsScreen'
  OBVIOUS
<1> USE DEF NothingOutlivesItsScreen
<1>0. picker \in Pickers
  BY DEF PickerInv
<1>e. [picker EXCEPT !.files = <<>>].files = <<>>
  BY <1>0, Emptied
<1>1. CASE Lock
  BY <1>1, <1>e DEF Lock, Wipe, Loaded, Entering
<1>2. ASSUME NEW words \in WordCounts, NEW net \in Network, Begin(words, net)
      PROVE  NothingOutlivesItsScreen'
  BY <1>2, <1>e DEF Begin, Wipe, Loaded, Entering
<1>3. CASE Enter
  <2>1. CASE Recover
    <3>1. seed' # None /\ identity' # None
      BY <2>1, SomeSeed, SomeIdentity DEF Recover, Recovered
    <3> QED BY <2>1, <3>1 DEF Recover, fileVars, reviewVars, Loaded, Entering
  <2>2. CASE Confirm
    BY <2>2 DEF Confirm, fileVars, reviewVars, seedVars, entryVars, Loaded, Entering
  <2>3. CASE state \in Entering /\ state' \in Entering /\ UNCHANGED seedVars
    BY <1>3, <2>3, EnterFrame DEF fileVars, reviewVars, seedVars, Loaded, Entering
  <2> QED BY <1>3, <2>1, <2>2, <2>3, EnterFrame
<1>4. CASE Look
  <2>1. CASE VerifyNext
    <3>1. identity' # None
      <4>1. seed # None /\ identity = [print |-> Fingerprint(seed.secret),
                                       address |-> ReceiveAddress(seed, addressIndex)]
        BY <2>1 DEF VerifyNext, IdentityInv
      <4>2. identity' = [print |-> Fingerprint(seed.secret),
                         address |-> ReceiveAddress(seed, addressIndex')]
        BY <2>1, <4>1 DEF VerifyNext
      <4> QED BY <4>2, SomeIdentity
    <3> QED BY <2>1, <3>1 DEF VerifyNext, fileVars, reviewVars, entryVars, Loaded, Entering
  <2>2. ASSUME NEW segwit \in BOOLEAN, Export(segwit) PROVE NothingOutlivesItsScreen'
    <3>1. qr' # None
      BY <2>2, SomeQr DEF Export
    <3> QED BY <2>2, <3>1
            DEF Export, fileVars, reviewVars, entryVars, seedVars, Loaded, Entering
  <2>3. CASE ExportBack
    BY <2>3 DEF ExportBack, fileVars, reviewVars, entryVars, seedVars, Loaded, Entering
  <2> QED BY <1>4, <2>1, <2>2, <2>3 DEF Look
<1>5. CASE Pick
  <2>0. UNCHANGED <<entry, seed, identity, qr>>
    BY <1>5, PickFrame DEF entryVars, seedVars
  <2>1. ASSUME NEW listing \in Listing, Import(listing) PROVE NothingOutlivesItsScreen'
    <3>1. listing \in Seq(File)
      BY DEF Listing
    <3>2. picker'.files # <<>> <=> state' = "files"
      <4>1. CASE state' = "error" /\ picker' = NoFiles
        BY <4>1 DEF NoFiles
      <4>2. CASE state' = "files" /\ listing # <<>> /\ picker' = [NoFiles EXCEPT !.files = listing]
        BY <3>1, <4>2, Fresh
      <4> QED BY <2>1, <4>1, <4>2 DEF Import
    <3>3. state = "active" /\ state' \in {"error", "files"} /\ review' = None
      BY <2>1 DEF Import
    <3> QED BY <2>0, <3>2, <3>3 DEF Loaded, Entering
  <2>2. CASE ImportFails
    BY <2>0, <2>2 DEF ImportFails, NoFiles, Loaded, Entering
  <2>3. CASE NextFile \/ PreviousFile \/ NextNamePage \/ PreviousNamePage
    <3>1. PICK index, page : Browse(index, page)
      BY <2>3, BrowseFrame
    <3>2. [picker EXCEPT !.index = index, !.page = page].files = picker.files
      BY <1>0 DEF Pickers
    <3> QED BY <2>0, <3>1, <3>2 DEF Browse, reviewVars
  <2>4. ASSUME NEW psbt \in Psbts, Open(psbt) PROVE NothingOutlivesItsScreen'
    <3>1. /\ state = "files" /\ picker'.files = <<>>
          /\ \/ state' = "review" /\ review' # None
             \/ state' = "error" /\ review' = None
      BY <1>e, <2>4, SomeReview DEF Open, PsbtError
    <3> QED BY <2>0, <3>1 DEF Loaded, Entering
  <2>5. CASE OpenFails
    BY <1>e, <2>0, <2>5 DEF OpenFails, PsbtError, Loaded, Entering
  <2> QED BY <1>5, <2>1, <2>2, <2>3, <2>4, <2>5 DEF Pick
<1>6. CASE Decide
  <2>0. UNCHANGED <<entry, seed, identity, qr>>
    BY <1>6, DecideFrame DEF entryVars, seedVars
  <2>1. CASE NextPage \/ PreviousPage
    BY <2>0, <2>1 DEF NextPage, PreviousPage, TurnTo, fileVars
  <2>2. ASSUME NEW stored, Approve(stored) PROVE NothingOutlivesItsScreen'
    <3>1. /\ state = "review" /\ state' \in {"error", "saved"} /\ review' = None
          /\ picker' = picker \/ picker' = [picker EXCEPT !.files = <<>>]
      BY <2>2 DEF Approve, OnApproval, PsbtError
    <3> QED BY <1>e, <2>0, <3>1 DEF Loaded, Entering
  <2>3. CASE Cancel
    BY <1>e, <2>0, <2>3 DEF Cancel, Loaded, Entering
  <2> QED BY <1>6, <2>1, <2>2, <2>3 DEF Decide
<1>7. CASE UNCHANGED vars
  BY <1>7 DEF vars, fileVars, entryVars, seedVars, reviewVars
<1> QED BY <1>1, <1>2, <1>3, <1>4, <1>5, <1>6, <1>7 DEF Next

LEMMA IdentityInductive ==
  NothingOutlivesItsScreen /\ IdentityInv /\ [Next]_vars => IdentityInv'
<1> SUFFICES ASSUME NothingOutlivesItsScreen, IdentityInv, [Next]_vars PROVE IdentityInv'
  OBVIOUS
<1>1. CASE Lock \/ \E words \in WordCounts, net \in Network : Begin(words, net)
  BY <1>1 DEF Lock, Begin, Wipe, IdentityInv
<1>2. CASE Recover
  <2>1. seed = None
    BY <1>2 DEF Recover, NothingOutlivesItsScreen, Loaded
  <2>2. addressIndex' = 0 /\ network' = network
    BY <1>2, <2>1 DEF Recover, IdentityInv
  <2>3. seed' = Recovered /\ seed' # None /\ seed'.network = network /\ seed'.secret = Secret
    BY <1>2, SomeSeed DEF Recover, Recovered
  <2>4. identity' = [print |-> Fingerprint(seed'.secret), address |-> ReceiveAddress(seed', 0)]
    BY <1>2, <2>3 DEF Recover
  <2> QED BY <2>2, <2>3, <2>4 DEF IdentityInv
<1>3. CASE VerifyNext
  <2>1. identity = [print |-> Fingerprint(seed.secret),
                    address |-> ReceiveAddress(seed, addressIndex)]
    BY <1>3 DEF VerifyNext, IdentityInv
  <2>2. identity' = [print |-> Fingerprint(seed.secret),
                     address |-> ReceiveAddress(seed, addressIndex')]
    BY <1>3, <2>1 DEF VerifyNext
  <2> QED BY <1>3, <2>2 DEF VerifyNext, IdentityInv
<1>4. CASE UNCHANGED <<seedVars, addressIndex>>
  BY <1>4 DEF IdentityInv, seedVars
<1>5. Look /\ ~VerifyNext => UNCHANGED <<seedVars, addressIndex>>
  BY DEF Look, Export, ExportBack
<1>6. Enter /\ ~Recover => UNCHANGED <<seedVars, addressIndex>>
  BY EnterFrame DEF Confirm
<1> QED BY <1>1, <1>2, <1>3, <1>4, <1>5, <1>6, PickFrame, DecideFrame DEF Next, vars

LEMMA ScreensStay == Spec => [](NothingOutlivesItsScreen /\ IdentityInv)
<1>1. Init => NothingOutlivesItsScreen /\ IdentityInv
  BY DEF Init, NothingOutlivesItsScreen, IdentityInv, Loaded, Entering, NoFiles
<1> QED BY <1>1, ScreenInductive, IdentityInductive, PickerStays, PTL DEF Spec

\* Whatever way a screen is left, what belongs to it is cleared; nothing of a
\* seed or of its entry outlives a LOCK.
THEOREM ScreensLeaveNothing == Spec => []NothingOutlivesItsScreen
BY ScreensStay, PTL

\* What is on display is the fingerprint and an address of the seed loaded.
THEOREM DisplayIsTheSeeds == Spec => []IdentityIsTheSeeds
<1>1. IdentityInv => IdentityIsTheSeeds
  BY DEF IdentityInv, IdentityIsTheSeeds
<1> QED BY <1>1, ScreensStay, PTL

-----------------------------------------------------------------------------
\* What is known of an accepted PSBT and its review: its outputs, its shape, its key.
LEMMA ReviewOutput ==
  ASSUME NEW s, NEW psbt, Accepted(s, psbt), NEW i \in 1 .. Len(psbt.outputs)
  PROVE  /\ Review(s, psbt).outputs[i] =
              [address |-> [network |-> s.network, script |-> psbt.outputs[i].script],
               amount |-> psbt.outputs[i].value,
               change |-> IsChange(s, psbt.outputs[i])]
         /\ psbt.outputs[i].value <= MaxMoney
         /\ psbt.outputs[i].script.kind = "p2wpkh"
<1>1. Review(s, psbt).outputs = [k \in 1 .. Len(psbt.outputs) |->
        [address |-> [network |-> s.network, script |-> psbt.outputs[k].script],
         amount |-> psbt.outputs[k].value,
         change |-> IsChange(s, psbt.outputs[k])]]
  BY DEF Review
<1>2. psbt.outputs[i].value <= MaxMoney /\ psbt.outputs[i].script.kind = "p2wpkh"
  BY DEF Accepted, OutputAccepted
<1> QED BY <1>1, <1>2, Zenon

LEMMA ReviewShape ==
  ASSUME NEW s, NEW psbt, Accepted(s, psbt)
  PROVE  /\ Len(psbt.outputs) \in {1, 2}
         /\ Review(s, psbt).psbt = psbt /\ Review(s, psbt).fee = Fee(psbt)
         /\ Len(Review(s, psbt).outputs) = Len(psbt.outputs)
         /\ DOMAIN Review(s, psbt).outputs = 1 .. Len(psbt.outputs)
<1> DEFINE r == Review(s, psbt)
           n == Len(psbt.outputs)
<1>1. n \in {1, 2}
  <2>1. n \in 1 .. 2
    BY Zenon DEF Accepted
  <2> HIDE DEF n
  <2> QED BY <2>1
<1>2. r.psbt = psbt /\ r.fee = Fee(psbt)
  BY DEF Review
<1>3. r.outputs = [i \in 1 .. n |->
        [address |-> [network |-> s.network, script |-> psbt.outputs[i].script],
         amount |-> psbt.outputs[i].value,
         change |-> IsChange(s, psbt.outputs[i])]]
  BY DEF Review
<1>4. DOMAIN r.outputs = 1 .. n /\ Len(r.outputs) = n
  BY <1>1, <1>3
<1> QED BY <1>1, <1>2, <1>4

LEMMA ReviewKey ==
  ASSUME NEW s, NEW psbt, Accepted(s, psbt)
  PROVE  LET origin == Review(s, psbt).origin IN
         OwnKey(s, origin) /\ psbt.utxo.script = P2wpkh(origin.key)
<1>1. psbt.origins # {}
  <2>1. Cardinality(psbt.origins) = 1
    BY Zenon DEF Accepted, InputAccepted
  <2>2. Cardinality({}) = 0
    BY FS_EmptySet
  <2> QED BY <2>1, <2>2
<1>2. Review(s, psbt).origin \in psbt.origins
  BY <1>1 DEF Review
<1> QED BY <1>2 DEF Accepted, InputAccepted

\* Its pages show it without a cut.
LEMMA PagesShowAll ==
  ASSUME NEW s, NEW psbt, Accepted(s, psbt)
  PROVE  LET r == Review(s, psbt) n == Len(psbt.outputs) IN
         /\ \A i \in 1 .. n : \E change \in BOOLEAN :
              PageOf(r, i - 1) =
                [page |-> i - 1, amount |-> psbt.outputs[i].value,
                 address |-> [network |-> s.network, script |-> psbt.outputs[i].script],
                 change |-> change]
         /\ PageOf(r, n) = [page |-> n, fee |-> Fee(psbt)]
         /\ PageOf(r, n + 1) = [page |-> n + 1, approve |-> TRUE]
<1> DEFINE r == Review(s, psbt)
           n == Len(psbt.outputs)
<1>1. n \in {1, 2} /\ Len(r.outputs) = n /\ r.fee = Fee(psbt)
  BY ReviewShape, Zenon
<1>5. ASSUME NEW i \in 1 .. n
      PROVE  /\ r.outputs[i] =
                  [address |-> [network |-> s.network, script |-> psbt.outputs[i].script],
                   amount |-> psbt.outputs[i].value,
                   change |-> IsChange(s, psbt.outputs[i])]
             /\ psbt.outputs[i].value <= MaxMoney
             /\ psbt.outputs[i].script.kind = "p2wpkh"
  BY <1>5, ReviewOutput, Zenon
<1> HIDE DEF r, n
<1>2. PageOf(r, n) = [page |-> n, fee |-> Fee(psbt)]
  BY <1>1 DEF PageOf
<1>3. PageOf(r, n + 1) = [page |-> n + 1, approve |-> TRUE]
  BY <1>1 DEF PageOf
<1>4. ASSUME NEW i \in 1 .. n
      PROVE  \E change \in BOOLEAN :
               PageOf(r, i - 1) =
                 [page |-> i - 1, amount |-> psbt.outputs[i].value,
                  address |-> [network |-> s.network, script |-> psbt.outputs[i].script],
                  change |-> change]
  <2> DEFINE output == psbt.outputs[i]
             address == [network |-> s.network, script |-> output.script]
  <2>1. /\ r.outputs[i].address = address /\ r.outputs[i].amount = output.value
        /\ r.outputs[i].change = IsChange(s, output)
    <3>1. r.outputs[i] = [address |-> address, amount |-> output.value,
                          change |-> IsChange(s, output)]
      BY <1>5, Zenon
    <3> HIDE DEF address, output
    <3> QED BY <3>1
  <2>2. Address(address) = address /\ Amount(output.value) = output.value
    BY <1>5 DEF Address, Amount
  <2>3. i - 1 < Len(r.outputs) /\ (i - 1) + 1 = i
    BY <1>1
  <2>4. PageOf(r, i - 1) =
          [page |-> i - 1, amount |-> output.value, address |-> address,
           change |-> IsChange(s, output)]
    BY <2>1, <2>2, <2>3 DEF PageOf
  <2>5. IsChange(s, output) \in BOOLEAN
    BY Zenon DEF IsChange
  <2> QED BY <2>4, <2>5
<1> QED BY <1>2, <1>3, <1>4 DEF r, n

\* A review is that of an accepted PSBT by the seed loaded, and the pages up to
\* the one on display have been reported.
ReviewInv ==
  state = "review" =>
    /\ \E psbt \in Psbts : Accepted(seed, psbt) /\ review = Review(seed, psbt)
    /\ reviewPage \in 0 .. LastPage(review)
    /\ \A page \in 0 .. reviewPage : PageOf(review, page) \in seen

LEMMA ReviewInductive == ReviewInv /\ [Next]_vars => ReviewInv'
<1> SUFFICES ASSUME ReviewInv, [Next]_vars PROVE ReviewInv'
  OBVIOUS
<1>1. ASSUME NEW psbt \in Psbts, Open(psbt), state' = "review" PROVE ReviewInv'
  <2>1. /\ Accepted(seed, psbt) /\ review' = Review(seed, psbt) /\ reviewPage' = 0
        /\ seen' = {PageOf(review', 0)} /\ seed' = seed
    BY <1>1 DEF Open, PsbtError, seedVars
  <2>2. 0 \in 0 .. LastPage(review')
    BY <2>1, ReviewShape DEF LastPage
  <2>3. \A page \in 0 .. reviewPage' : PageOf(review', page) \in seen'
    BY <2>1
  <2> QED BY <2>1, <2>2, <2>3 DEF ReviewInv
<1>2. ASSUME NEW page \in 0 .. LastPage(review), TurnTo(page), page <= reviewPage + 1
      PROVE  ReviewInv'
  <2>1. /\ state = "review" /\ state' = "review" /\ review' = review /\ seed' = seed
        /\ reviewPage' = page /\ seen' = seen \cup {PageOf(review, page)}
    BY <1>2 DEF TurnTo, seedVars
  <2>2. \A q \in 0 .. page : q = page \/ q \in 0 .. reviewPage
    BY <1>2, <2>1 DEF ReviewInv
  <2> QED BY <2>1, <2>2 DEF ReviewInv
<1>3. CASE NextPage \/ PreviousPage
  <2>1. state = "review" /\ LastPage(review) \in Nat /\ reviewPage \in 0 .. LastPage(review)
    <3>1. state = "review"
      BY <1>3 DEF NextPage, PreviousPage, TurnTo
    <3>2. PICK psbt \in Psbts : Accepted(seed, psbt) /\ review = Review(seed, psbt)
      BY <3>1 DEF ReviewInv
    <3>3. LastPage(review) \in Nat
      BY <3>2, ReviewShape DEF LastPage
    <3> QED BY <3>1, <3>3 DEF ReviewInv
  <2> QED BY <1>2, <1>3, <2>1 DEF NextPage, PreviousPage
<1>4. CASE state' # "review"
  BY <1>4 DEF ReviewInv
<1>5. CASE UNCHANGED <<state, review, reviewPage, seen, seed>>
  BY <1>5 DEF ReviewInv
<1>6. Lock \/ (\E words \in WordCounts, net \in Network : Begin(words, net)) => state' # "review"
  BY DEF Lock, Begin
<1>7. Enter => state' # "review"
  BY EnterFrame DEF Entering, Recover, Confirm
<1>8. Look => state' # "review"
  BY LookFrame
<1>9. Pick => state' # "review" \/ (\E psbt \in Psbts : Open(psbt))
  BY BrowseFrame DEF Pick, Import, ImportFails, OpenFails, PsbtError
<1>10. Decide => NextPage \/ PreviousPage \/ state' # "review"
  BY DEF Decide, Approve, PsbtError, Cancel
<1> QED BY <1>1, <1>3, <1>4, <1>5, <1>6, <1>7, <1>8, <1>9, <1>10 DEF Next, vars, reviewVars, seedVars

LEMMA SignedInductive == ReviewInv /\ SignedAsShown /\ [Next]_vars => SignedAsShown'
<1> SUFFICES ASSUME ReviewInv, SignedAsShown, [Next]_vars PROVE SignedAsShown'
  OBVIOUS
<1>1. CASE UNCHANGED signature
  BY <1>1 DEF SignedAsShown
<1>2. CASE signature' = None
  BY <1>2 DEF SignedAsShown
<1>3. ASSUME NEW stored, Approve(stored), signature' # signature PROVE SignedAsShown'
  <2>1. /\ state = "review" /\ reviewPage = LastPage(review)
        /\ Signs(seed, review)
        /\ signature' = [psbt |-> review.psbt, key |-> SigningKey(seed, review),
                         network |-> seed.network, seen |-> seen]
    BY <1>3 DEF Approve, OnApproval
  <2>2. PICK psbt \in Psbts : Accepted(seed, psbt) /\ review = Review(seed, psbt)
    BY <2>1 DEF ReviewInv
  <2> DEFINE n == Len(psbt.outputs)
  <2>3. /\ n \in {1, 2} /\ LastPage(review) = n + 1 /\ review.psbt = psbt
        /\ psbt.utxo.script = P2wpkh(review.origin.key)
    BY <2>2, ReviewShape, ReviewKey DEF LastPage
  <2>4. /\ signature'.psbt = psbt /\ signature'.network = seed.network /\ signature'.seen = seen
        /\ signature'.key = review.origin.key
    BY <2>1, <2>3 DEF Signs
  <2>5. \A page \in 0 .. n + 1 : PageOf(review, page) \in seen
    BY <2>1, <2>3 DEF ReviewInv
  <2> HIDE DEF n
  <2>6. PageOf(review, n) \in seen /\ PageOf(review, n + 1) \in seen
    BY <2>3, <2>5
  <2>7. /\ PageOf(review, n) = [page |-> n, fee |-> Fee(psbt)]
        /\ PageOf(review, n + 1) = [page |-> n + 1, approve |-> TRUE]
    BY <2>2, PagesShowAll, Zenon DEF n
  <2>8. \A i \in 1 .. n : \E change \in BOOLEAN :
          [page |-> i - 1, amount |-> psbt.outputs[i].value,
           address |-> [network |-> seed.network, script |-> psbt.outputs[i].script],
           change |-> change] \in seen
    <3> SUFFICES ASSUME NEW i \in 1 .. n
                 PROVE  \E change \in BOOLEAN :
                          [page |-> i - 1, amount |-> psbt.outputs[i].value,
                           address |-> [network |-> seed.network,
                                        script |-> psbt.outputs[i].script],
                           change |-> change] \in seen
      OBVIOUS
    <3>1. PICK change \in BOOLEAN :
            PageOf(review, i - 1) =
              [page |-> i - 1, amount |-> psbt.outputs[i].value,
               address |-> [network |-> seed.network, script |-> psbt.outputs[i].script],
               change |-> change]
      BY <2>2, PagesShowAll DEF n
    <3>2. i - 1 \in 0 .. n + 1
      BY <2>3
    <3> QED BY <2>5, <3>1, <3>2
  <2> QED BY <2>3, <2>4, <2>6, <2>7, <2>8 DEF SignedAsShown, Fee, n
<1>4. Lock \/ (\E words \in WordCounts, net \in Network : Begin(words, net)) => signature' = None
  BY DEF Lock, Begin, Wipe
<1>5. Enter \/ Look => UNCHANGED signature
  BY EnterFrame, LookFrame DEF reviewVars
<1>6. Pick => UNCHANGED signature
  BY BrowseFrame DEF Pick, Import, ImportFails, Open, OpenFails, reviewVars
<1>7. Decide => UNCHANGED signature \/ signature' = None \/ \E stored \in BOOLEAN : Approve(stored)
  BY DEF Decide, NextPage, PreviousPage, TurnTo, Cancel
<1> QED BY <1>1, <1>2, <1>3, <1>4, <1>5, <1>6, <1>7 DEF Next, vars, reviewVars

LEMMA ReviewStays == Spec => []ReviewInv
<1>1. Init => ReviewInv
  BY DEF Init, ReviewInv
<1> QED BY <1>1, ReviewInductive, PTL DEF Spec

\* Nothing is signed that was not shown in full, uncut, since it was read, and
\* the coin it spends belongs to the key that signs.
THEOREM SignaturesWereShown == Spec => []SignedAsShown
<1>1. Init => SignedAsShown
  BY DEF Init, SignedAsShown
<1> QED BY <1>1, SignedInductive, ReviewStays, PTL DEF Spec

\* The key reviewed is the key that signing derives: approval is not refused.
THEOREM ApprovalSigns == Spec => []ApprovedIsSigned
<1>1. Init => ApprovedIsSigned
  BY DEF Init, ApprovedIsSigned
<1>2. ReviewInv /\ ApprovedIsSigned /\ [Next]_vars => ApprovedIsSigned'
  <2> SUFFICES ASSUME ReviewInv, ApprovedIsSigned, [Next]_vars PROVE ApprovedIsSigned'
    OBVIOUS
  <2>1. ASSUME NEW stored, Approve(stored) PROVE message' # "Signing failed"
    <3>1. PICK psbt \in Psbts : Accepted(seed, psbt) /\ review = Review(seed, psbt)
      BY <2>1 DEF Approve, OnApproval, ReviewInv
    <3>2. Signs(seed, review)
      BY <3>1, ReviewKey DEF OwnKey, Signs, SigningKey
    <3> QED BY <2>1, <3>2 DEF Approve, PsbtError
  <2>2. Lock \/ (\E words \in WordCounts, net \in Network : Begin(words, net))
          => message' # "Signing failed"
    BY DEF Lock, Begin, Wipe
  <2>3. Enter \/ Look => UNCHANGED message
    BY EnterFrame, LookFrame DEF reviewVars
  <2>4. Pick => UNCHANGED message \/ message' # "Signing failed"
    BY BrowseFrame DEF Pick, Import, ImportFails, Open, OpenFails, PsbtError, reviewVars
  <2>5. NextPage \/ PreviousPage \/ Cancel => UNCHANGED message \/ message' # "Signing failed"
    BY DEF NextPage, PreviousPage, TurnTo, Cancel
  <2> QED BY <2>1, <2>2, <2>3, <2>4, <2>5 DEF ApprovedIsSigned, Next, Decide, vars, reviewVars
<1> QED BY <1>1, <1>2, ReviewStays, PTL DEF Spec

\* What is labelled "Change" is locked to a change key of the seed loaded.
THEOREM ChangeIsOwn == Spec => []ChangeComesBack
<1>1. ReviewInv /\ NothingOutlivesItsScreen => ChangeComesBack
  <2> SUFFICES ASSUME ReviewInv, NothingOutlivesItsScreen, review # None,
                      NEW i \in DOMAIN review.outputs, review.outputs[i].change
               PROVE  \E index \in 0 .. MaxAddressIndex :
                        review.outputs[i].address =
                          [network |-> seed.network,
                           script |-> P2wpkh(Key(seed.secret,
                             [root |-> "bip84", coin |-> CoinType(seed.network),
                              chain |-> 1, index |-> index]))]
    BY DEF ChangeComesBack
  <2>1. PICK psbt \in Psbts : Accepted(seed, psbt) /\ review = Review(seed, psbt)
    BY DEF ReviewInv, NothingOutlivesItsScreen
  <2> DEFINE output == psbt.outputs[i]
  <2>2. /\ i \in 1 .. Len(psbt.outputs) /\ IsChange(seed, output)
        /\ review.outputs[i].address = [network |-> seed.network, script |-> output.script]
    <3>1. i \in 1 .. Len(psbt.outputs)
      BY <2>1, ReviewShape, Zenon
    <3>2. review.outputs[i] =
            [address |-> [network |-> seed.network, script |-> output.script],
             amount |-> output.value, change |-> IsChange(seed, output)]
      <4>1. Review(seed, psbt).outputs[i] =
              [address |-> [network |-> seed.network, script |-> output.script],
               amount |-> output.value, change |-> IsChange(seed, output)]
        <5>1. Accepted(seed, psbt)
          BY <2>1
        <5> QED BY <3>1, <5>1, ReviewOutput
      <4>2. review.outputs[i] = Review(seed, psbt).outputs[i]
        BY <2>1, Zenon
      <4> HIDE DEF output
      <4> QED BY <4>1, <4>2, Zenon
    <3> HIDE DEF output
    <3> QED BY <3>1, <3>2
  <2>3. PICK origin \in output.origins :
          origin.print = Fingerprint(seed.secret) /\ origin.path.chain = 1
    BY <2>2 DEF IsChange
  <2>4. OwnKey(seed, origin) /\ output.script = P2wpkh(origin.key)
    BY <2>1, <2>2, <2>3 DEF Accepted, OutputAccepted
  <2>5. origin.path \in Path
    BY <2>2, PsbtAssumption
  <2>6. origin.path = [root |-> "bip84", coin |-> CoinType(seed.network), chain |-> 1,
                       index |-> origin.path.index]
        /\ origin.path.index \in 0 .. MaxAddressIndex
    BY <2>3, <2>4, <2>5, LimitAssumption DEF Path, OwnKey, OwnPath
  <2> QED BY <2>2, <2>4, <2>6 DEF OwnKey
<1> QED BY <1>1, ReviewStays, ScreensStay, PTL

-----------------------------------------------------------------------------
\* The entry of the phrase.

Entries == [words : [Slots -> Word], prefix : Seq(Letter), candidate : Nat, pass : Seq(PassChar)]

EntryType ==
  /\ entry \in Entries
  /\ Len(entry.prefix) <= PrefixLimit /\ Len(entry.pass) <= MaxPass
  /\ network \in Network /\ count \in {0} \cup WordCounts
  /\ slot \in 1 .. count \cup {1}
  /\ addressIndex \in 0 .. AddressCount - 1
  /\ state \in {"locked"} \cup Entering \cup Loaded
  /\ state \in Entering => count \in WordCounts

\* Words are entered in order, and what is not blank was entered.
TouchedInv ==
  /\ state = "words" => 1 .. slot - 1 \subseteq touched
  /\ state \in {"pass", "invalid"} => 1 .. count \subseteq touched
  /\ \A i \in Slots : entry.words[i] # 0 => i \in touched
  /\ entry.pass # <<>> => 0 \in touched

\* The prefix has a match and the candidate is one of them.
CandidateInv == entry.candidate \in 1 .. Cardinality(Matches(entry.prefix))

EntryInv == EntryType /\ TouchedInv /\ CandidateInv

LEMMA BlankWords ==
  /\ 0 \in Word /\ BlankEntry \in Entries
  /\ BlankEntry.prefix = <<>> /\ BlankEntry.candidate = 1 /\ BlankEntry.pass = <<>>
  /\ \A i \in Slots : BlankEntry.words[i] = 0
<1>1. 0 \in Word
  <2>1. Len(WordList) \in Nat \ {0}
    BY WordAssumption, EmptySeq
  <2> QED BY <2>1 DEF Word
<1>2. [i \in Slots |-> 0] \in [Slots -> Word]
  BY <1>1
<1>3. <<>> \in Seq(Letter) /\ <<>> \in Seq(PassChar)
  OBVIOUS
<1> HIDE DEF Word, Slots
<1> QED BY <1>1, <1>2, <1>3 DEF BlankEntry, Entries

LEMMA MatchesFinite ==
  \A prefix :
    /\ IsFiniteSet(Matches(prefix)) /\ Cardinality(Matches(prefix)) \in Nat
    /\ Matches(prefix) # {} => Cardinality(Matches(prefix)) > 0
<1> SUFFICES ASSUME NEW prefix
             PROVE  /\ IsFiniteSet(Matches(prefix)) /\ Cardinality(Matches(prefix)) \in Nat
                    /\ Matches(prefix) # {} => Cardinality(Matches(prefix)) > 0
  OBVIOUS
<1>1. Len(WordList) \in Nat
  BY WordAssumption, LenProperties
<1>2. IsFiniteSet(Word)
  BY <1>1, FS_Interval DEF Word
<1>3. IsFiniteSet(Matches(prefix))
  BY <1>2, FS_Subset DEF Matches
<1>4. Cardinality(Matches(prefix)) \in Nat
  BY <1>3, FS_CardinalityType
<1>5. Matches(prefix) # {} => Cardinality(Matches(prefix)) # 0
  BY <1>3, FS_EmptySet
<1> QED BY <1>3, <1>4, <1>5

\* Every word begins with the empty prefix.
LEMMA BlankMatches == Matches(<<>>) # {}
<1>1. 0 \in Word
  BY BlankWords
<1>2. WordList[1] \in Seq(Letter)
  BY WordAssumption, ElementOfSeq, LenProperties
<1>3. IsPrefix(<<>>, WordList[0 + 1])
  <2> DEFINE first == WordList[1]
  <2>1. Len(first) \in Nat
    BY <1>2, LenProperties
  <2>2. SubSeq(first, 1, 0) = <<>>
    BY SubSeqEmpty
  <2>3. SubSeq(<<>>, 1, 0) = <<>>
    BY SubSeqEmpty
  <2> HIDE DEF first
  <2>4. IsPrefix(<<>>, first)
    BY <2>1, <2>2, <2>3 DEF IsPrefix
  <2> QED BY <2>4 DEF first
<1> QED BY <1>1, <1>3 DEF Matches

LEMMA FrontOf ==
  ASSUME NEW S, NEW s \in Seq(S), s # <<>>
  PROVE  /\ Front(s) \in Seq(S) /\ Len(Front(s)) = Len(s) - 1
         /\ \A i \in 1 .. Len(s) - 1 : Front(s)[i] = s[i]
<1> DEFINE m == Len(s) - 1
<1>1. m \in Nat /\ m \in Int
  BY EmptySeq
<1>2. \A i \in 1 .. m : s[i] \in S
  BY <1>1, ElementOfSeq
<1> HIDE DEF m
<1>3. /\ SubSeq(s, 1, m) \in Seq(S)
      /\ Len(SubSeq(s, 1, m)) = IF 1 <= m THEN m - 1 + 1 ELSE 0
      /\ \A i \in 1 .. m - 1 + 1 : SubSeq(s, 1, m)[i] = s[1 + i - 1]
  BY <1>1, <1>2, SubSeqProperties
<1>4. Len(SubSeq(s, 1, m)) = m
  BY <1>1, <1>3
<1>5. \A i \in 1 .. m : SubSeq(s, 1, m)[i] = s[i]
  <2>1. m - 1 + 1 = m /\ \A i \in 1 .. m : 1 + i - 1 = i
    BY <1>1
  <2> QED BY <1>3, <2>1
<1> QED BY <1>3, <1>4, <1>5 DEF Front, m

\* A letter less, and every word that matched does still.
LEMMA FrontMatches ==
  \A prefix \in Seq(Letter) : prefix # <<>> =>
    /\ Front(prefix) \in Seq(Letter) /\ Len(Front(prefix)) = Len(prefix) - 1
    /\ Matches(prefix) \subseteq Matches(Front(prefix))
<1> SUFFICES ASSUME NEW prefix \in Seq(Letter), prefix # <<>>
             PROVE  /\ Front(prefix) \in Seq(Letter) /\ Len(Front(prefix)) = Len(prefix) - 1
                    /\ Matches(prefix) \subseteq Matches(Front(prefix))
  OBVIOUS
<1> DEFINE n == Len(prefix)
<1>1. n \in Nat /\ n > 0 /\ \A i \in 1 .. n : prefix[i] \in Letter
  BY LenProperties, ElementOfSeq, EmptySeq
<1>2. /\ Front(prefix) \in Seq(Letter) /\ Len(Front(prefix)) = n - 1
      /\ \A i \in 1 .. n - 1 : Front(prefix)[i] = prefix[i]
  <2> QED BY <1>1, FrontOf
<1>3. ASSUME NEW w \in Matches(prefix) PROVE w \in Matches(Front(prefix))
  <2> DEFINE word == WordList[w + 1]
  <2>1. w \in Word /\ IsPrefix(prefix, word)
    BY <1>3 DEF Matches
  <2>2. word \in Seq(Letter) /\ Len(word) \in Nat
    <3>1. w + 1 \in 1 .. Len(WordList)
      BY <2>1, WordAssumption, LenProperties DEF Word
    <3> QED BY <3>1, WordAssumption, ElementOfSeq, LenProperties
  <2> HIDE DEF word
  <2>3. n <= Len(word) /\ SubSeq(prefix, 1, n) = SubSeq(word, 1, n)
    BY <2>1 DEF IsPrefix
  <2>4. \A i \in 1 .. n : prefix[i] = word[i]
    <3>1. SubSeq(prefix, 1, n) = prefix
      BY SubSeqFull
    <3>2. \A i \in 1 .. n : word[i] \in Letter
      BY <1>1, <2>2, <2>3, ElementOfSeq
    <3>3. \A i \in 1 .. n : SubSeq(word, 1, n)[i] = word[1 + i - 1]
      <4> HIDE DEF n
      <4>1. \A i \in 1 .. n - 1 + 1 : SubSeq(word, 1, n)[i] = word[1 + i - 1]
        BY <1>1, <3>2, SubSeqProperties
      <4>2. n - 1 + 1 = n
        BY <1>1
      <4> QED BY <4>1, <4>2
    <3>4. \A i \in 1 .. n : 1 + i - 1 = i
      BY <1>1
    <3> QED BY <2>3, <3>1, <3>3, <3>4
  <2> HIDE DEF n
  <2> DEFINE front == Front(prefix)
  <2>5. front \in Seq(Letter) /\ Len(front) = n - 1 /\ \A i \in 1 .. n - 1 : front[i] = prefix[i]
    BY <1>2
  <2> HIDE DEF front
  <2>6. SubSeq(front, 1, n - 1) = front
    BY <2>5, SubSeqFull
  <2>7. SubSeq(word, 1, n - 1) = front
    <3>1. \A i \in 1 .. n - 1 : word[i] \in Letter
      BY <1>1, <2>2, <2>3, ElementOfSeq
    <3>2. /\ SubSeq(word, 1, n - 1) \in Seq(Letter)
          /\ Len(SubSeq(word, 1, n - 1)) = n - 1
          /\ \A i \in 1 .. (n - 1) - 1 + 1 : SubSeq(word, 1, n - 1)[i] = word[1 + i - 1]
      BY <1>1, <3>1, SubSeqProperties
    <3>3. \A i \in 1 .. n - 1 : SubSeq(word, 1, n - 1)[i] = front[i]
      BY <1>1, <2>4, <2>5, <3>2
    <3> QED BY <2>5, <3>2, <3>3, SeqEqual
  <2>8. n - 1 <= Len(word)
    BY <1>1, <2>2, <2>3
  <2>9. IsPrefix(front, word)
    BY <2>5, <2>6, <2>7, <2>8 DEF IsPrefix
  <2> QED BY <2>1, <2>9 DEF Matches, front, word
<1> QED BY <1>2, <1>3

\* A move within the prefix leaves words and passphrase alone.
Reprefixed(e, x, c) == [e EXCEPT !.prefix = x, !.candidate = c]

LEMMA PrefixMoved ==
  \A e \in Entries, x \in Seq(Letter), c \in Nat :
    /\ Reprefixed(e, x, c) \in Entries
    /\ Reprefixed(e, x, c).words = e.words /\ Reprefixed(e, x, c).pass = e.pass
    /\ Reprefixed(e, x, c).prefix = x /\ Reprefixed(e, x, c).candidate = c
<1>1. \A e \in Entries, x \in Seq(Letter), c \in Nat : Reprefixed(e, x, c) \in Entries
  BY DEF Entries, Reprefixed
<1>2. \A e \in Entries, x \in Seq(Letter), c \in Nat :
        Reprefixed(e, x, c).words = e.words /\ Reprefixed(e, x, c).pass = e.pass
  BY DEF Entries, Reprefixed
<1>3. \A e \in Entries, x \in Seq(Letter), c \in Nat :
        Reprefixed(e, x, c).prefix = x /\ Reprefixed(e, x, c).candidate = c
  BY DEF Entries, Reprefixed
<1> QED BY <1>1, <1>2, <1>3

LEMMA EntryInductive == EntryInv /\ [Next]_vars => EntryInv'
<1> SUFFICES ASSUME EntryInv, [Next]_vars PROVE EntryInv'
  OBVIOUS
<1> DEFINE n == Cardinality(Matches(entry.prefix))
<1>a. /\ entry.words \in [Slots -> Word] /\ entry.prefix \in Seq(Letter)
      /\ entry.candidate \in Nat /\ entry.pass \in Seq(PassChar)
  BY DEF EntryInv, EntryType, Entries
<1>b. count \in Nat /\ slot \in Nat /\ slot >= 1 /\ \A words \in WordCounts : words \in Nat \ {0}
  BY CountAssumption DEF EntryInv, EntryType
<1>c. n \in Nat /\ n > 0 /\ entry.candidate \in 1 .. n
  <2>1. n \in Nat
    BY MatchesFinite
  <2> QED BY <2>1 DEF EntryInv, CandidateInv
<1>d. state \in Entering => slot \in 1 .. count /\ count \in WordCounts /\ 1 .. count \subseteq Slots
  BY <1>b DEF EntryInv, EntryType, Slots
\* A step that leaves the entry alone and stays out of the entering states or in them.
<1>e. ASSUME UNCHANGED <<entry, touched, slot, count, network>>,
             addressIndex' \in 0 .. AddressCount - 1,
             \/ state' \in Loaded
             \/ state' = state
      PROVE  EntryInv'
  <2>1. EntryType'
    BY <1>e DEF EntryInv, EntryType, Loaded, Entering
  <2>2. TouchedInv'
    BY <1>e DEF EntryInv, TouchedInv, Loaded
  <2>3. CandidateInv'
    BY <1>e DEF EntryInv, CandidateInv, Matches
  <2> QED BY <2>1, <2>2, <2>3 DEF EntryInv
<1>f. ASSUME entry' = BlankEntry, NEW words \in {0} \cup WordCounts, count' = words,
             slot' \in 1 .. words \cup {1}, network' \in Network,
             addressIndex' \in 0 .. AddressCount - 1,
             \/ state' \in {"locked", "identity"}
             \/ state' = "words" /\ words \in WordCounts /\ slot' = 1
      PROVE  EntryInv'
  <2>1. EntryType'
    <3>1. Len(<<>>) <= PrefixLimit /\ Len(<<>>) <= MaxPass
      BY LimitAssumption, EmptySeq
    <3> QED BY <1>f, <3>1, BlankWords DEF EntryType, Entering, Loaded
  <2>2. TouchedInv'
    <3>1. 1 .. 1 - 1 = {}
      OBVIOUS
    <3> QED BY <1>f, <3>1, BlankWords DEF TouchedInv
  <2>3. CandidateInv'
    <3>1. 1 \in 1 .. Cardinality(Matches(<<>>))
      BY BlankMatches, MatchesFinite
    <3>2. Matches(entry'.prefix) = Matches(<<>>)
      BY <1>f, BlankWords
    <3> QED BY <1>f, <3>1, <3>2, BlankWords DEF CandidateInv, Matches
  <2> QED BY <2>1, <2>2, <2>3 DEF EntryInv
<1>g. 0 \in 0 .. AddressCount - 1
  BY LimitAssumption
<1>1. CASE Lock
  <2>1. network' \in Network /\ 1 \in 1 .. 0 \cup {1}
    BY <1>1 DEF Lock, EntryInv, EntryType
  <2> QED BY <1>1, <1>f, <1>g, <2>1 DEF Lock, Wipe
<1>2. ASSUME NEW words \in WordCounts, NEW net \in Network, Begin(words, net) PROVE EntryInv'
  BY <1>2, <1>f, <1>g DEF Begin, Wipe
\* A move within the prefix.
<1>3. ASSUME NEW prefix \in Seq(Letter), Len(prefix) <= PrefixLimit, Matches(prefix) # {},
             NEW candidate \in 1 .. Cardinality(Matches(prefix)),
             entry' = [entry EXCEPT !.prefix = prefix, !.candidate = candidate],
             state = "words", UNCHANGED <<state, count, touched, network, addressIndex>>,
             slot' \in 1 .. slot
      PROVE  EntryInv'
  <2>0. Cardinality(Matches(prefix)) \in Nat
    BY MatchesFinite
  <2>1. /\ entry' \in Entries /\ entry'.words = entry.words /\ entry'.pass = entry.pass
        /\ entry'.prefix = prefix /\ entry'.candidate = candidate
    <3>1. /\ entry \in Entries /\ candidate \in Nat /\ prefix \in Seq(Letter)
          /\ entry' = Reprefixed(entry, prefix, candidate)
      BY <1>3, <2>0 DEF EntryInv, EntryType, Reprefixed
    <3> QED BY <3>1, PrefixMoved
  <2>2. EntryType'
    BY <1>3, <1>b, <1>d, <2>1 DEF EntryInv, EntryType, Entering
  <2>3. TouchedInv'
    <3>1. 1 .. slot' - 1 \subseteq 1 .. slot - 1
      BY <1>3, <1>b
    <3> QED BY <1>3, <2>1, <3>1 DEF EntryInv, TouchedInv
  <2>4. CandidateInv'
    BY <2>1 DEF CandidateInv, Matches
  <2> QED BY <2>2, <2>3, <2>4 DEF EntryInv
<1>4. CASE Enter
  <2>s. state = "words" => slot \in 1 .. slot
    BY <1>b
  <2>p. /\ Len(entry.prefix) <= PrefixLimit /\ Matches(entry.prefix) # {}
        /\ Len(entry.prefix) \in Nat
    <3>1. Matches(entry.prefix) # {}
      BY <1>c, FS_EmptySet
    <3> QED BY <1>a, <3>1, LenProperties DEF EntryInv, EntryType
  <2>0. ASSUME NEW prefix \in Seq(Letter), Len(prefix) <= PrefixLimit, Matches(prefix) # {}
        PROVE  1 \in 1 .. Cardinality(Matches(prefix))
    BY <2>0, MatchesFinite
  <2>1. ASSUME NEW letter \in Letter, TypeLetter(letter) PROVE EntryInv'
    <3> DEFINE longer == Append(entry.prefix, letter)
    <3>1. longer \in Seq(Letter) /\ Len(longer) = Len(entry.prefix) + 1
      BY <1>a
    <3>2. state = "words" /\ Len(longer) <= PrefixLimit
      BY <2>1, <2>p, <3>1, LimitAssumption DEF TypeLetter
    <3> HIDE DEF longer
    <3>3. \/ Extended(letter) = longer /\ Matches(longer) # {}
          \/ Extended(letter) = entry.prefix
      BY DEF Extended, longer
    <3> DEFINE prefix == Extended(letter)
    <3>4. prefix \in Seq(Letter) /\ Len(prefix) <= PrefixLimit /\ Matches(prefix) # {}
      BY <1>a, <2>p, <3>1, <3>2, <3>3
    <3>5. entry' = [entry EXCEPT !.prefix = prefix, !.candidate = 1]
      BY <2>1 DEF TypeLetter, EnterWords, Prefixed
    <3>6. UNCHANGED <<state, count, touched, network, addressIndex>> /\ slot' = slot
      BY <2>1 DEF TypeLetter, EnterWords, seedVars
    <3> HIDE DEF prefix
    <3> QED BY <1>3, <2>0, <2>s, <3>2, <3>4, <3>5, <3>6
  <2>2. CASE DeleteLetter
    <3> DEFINE prefix == Front(entry.prefix)
    <3>1. prefix \in Seq(Letter) /\ Len(prefix) <= PrefixLimit /\ Matches(prefix) # {}
      <4>1. entry.prefix # <<>>
        BY <2>2 DEF DeleteLetter
      <4>2. Front(entry.prefix) \in Seq(Letter) /\ Len(Front(entry.prefix)) = Len(entry.prefix) - 1
            /\ Matches(entry.prefix) \subseteq Matches(Front(entry.prefix))
        BY <1>a, <4>1, FrontMatches
      <4>3. PrefixLimit \in Nat
        BY LimitAssumption
      <4> QED BY <2>p, <4>2, <4>3
    <3>2. entry' = [entry EXCEPT !.prefix = prefix, !.candidate = 1]
      BY <2>2 DEF DeleteLetter, EnterWords, Prefixed
    <3>3. state = "words" /\ UNCHANGED <<state, slot, count, touched, network, addressIndex>>
      BY <2>2 DEF DeleteLetter, EnterWords, seedVars
    <3> HIDE DEF prefix
    <3> QED BY <1>3, <2>0, <2>s, <3>1, <3>2, <3>3
  <2>3. ASSUME NEW candidate \in 1 .. n, state = "words", UNCHANGED <<state, slot>>,
               EnterWords([entry EXCEPT !.candidate = candidate])
        PROVE  EntryInv'
    <3>1. [entry EXCEPT !.candidate = candidate]
            = [entry EXCEPT !.prefix = entry.prefix, !.candidate = candidate]
      BY DEF EntryInv, EntryType, Entries
    <3>2. entry' = [entry EXCEPT !.prefix = entry.prefix, !.candidate = candidate]
      BY <2>3, <3>1 DEF EnterWords
    <3>3. UNCHANGED <<state, count, touched, network, addressIndex>> /\ slot' = slot
      BY <2>3 DEF EnterWords, seedVars
    <3> QED BY <1>3, <1>a, <2>3, <2>p, <2>s, <3>2, <3>3
  <2>4. \A k, d \in Int : d > 0 => (k % d) + 1 \in 1 .. d
    OBVIOUS
  <2>5. CASE NextWord
    <3>1. (entry.candidate % n) + 1 \in 1 .. n
      BY <1>c, <2>4
    <3> QED BY <2>3, <2>5, <3>1 DEF NextWord
  <2>6. CASE PreviousWord
    <3>1. ((entry.candidate + n - 2) % n) + 1 \in 1 .. n
      BY <1>c, <2>4
    <3> QED BY <2>3, <2>6, <3>1 DEF PreviousWord
  <2>7. CASE ChooseWord
    <3>1. PICK word \in Matches(entry.prefix) :
            entry' = [entry EXCEPT !.words[slot] = word, !.prefix = <<>>, !.candidate = 1]
      BY <2>7 DEF ChooseWord
    <3>2. /\ state = "words" /\ touched' = touched \cup {slot}
          /\ UNCHANGED <<count, network, addressIndex>>
          /\ \/ slot = count /\ state' = "pass" /\ slot' = slot
             \/ slot # count /\ state' = "words" /\ slot' = slot + 1
      BY <2>7 DEF ChooseWord, LastSlot, seedVars
    <3>3. word \in Word /\ slot \in 1 .. count /\ count \in WordCounts /\ slot \in Slots
      BY <1>d, <3>1, <3>2 DEF Matches, Entering
    <3>4. /\ entry' \in Entries /\ entry'.pass = entry.pass
          /\ entry'.prefix = <<>> /\ entry'.candidate = 1
          /\ \A i \in Slots : i # slot => entry'.words[i] = entry.words[i]
      <4>1. <<>> \in Seq(Letter)
        OBVIOUS
      <4> QED BY <1>a, <3>1, <3>3, <4>1 DEF EntryInv, EntryType, Entries
    <3>5. EntryType'
      <4>1. Len(<<>>) <= PrefixLimit
        BY LimitAssumption, EmptySeq
      <4>2. slot' \in 1 .. count
        BY <1>b, <3>2, <3>3
      <4> QED BY <3>2, <3>3, <3>4, <4>1, <4>2 DEF EntryInv, EntryType, Entering
    <3>6. TouchedInv'
      <4>1. 1 .. slot \subseteq touched'
        <5>1. 1 .. slot = 1 .. slot - 1 \cup {slot}
          BY <1>b
        <5> QED BY <3>2, <5>1 DEF EntryInv, TouchedInv
      <4>2. state' = "words" => 1 .. slot' - 1 \subseteq touched'
        <5>1. state' = "words" => slot' = slot + 1
          BY <3>2
        <5>2. \A x : x = slot + 1 => x - 1 = slot
          BY <1>b
        <5>3. state' = "words" => slot' - 1 = slot
          BY <5>1, <5>2
        <5> QED BY <4>1, <5>3
      <4>3. state' \in {"pass", "invalid"} => 1 .. count' \subseteq touched'
        BY <3>2, <4>1
      <4> QED BY <3>2, <3>4, <4>2, <4>3 DEF EntryInv, TouchedInv
    <3>7. CandidateInv'
      <4>1. 1 \in 1 .. Cardinality(Matches(<<>>))
        BY BlankMatches, MatchesFinite
      <4> QED BY <3>4, <4>1 DEF CandidateInv, Matches
    <3> QED BY <3>5, <3>6, <3>7 DEF EntryInv
  <2>8. CASE BackWord
    <3>1. <<>> \in Seq(Letter) /\ Len(<<>>) <= PrefixLimit
      BY LimitAssumption, EmptySeq
    <3>2. entry' = [entry EXCEPT !.prefix = <<>>, !.candidate = 1]
      BY <2>8 DEF BackWord, EnterWords, Prefixed
    <3>3. state = "words" /\ UNCHANGED <<state, count, touched, network, addressIndex>>
      BY <2>8 DEF BackWord, EnterWords, seedVars
    <3>4. slot' \in 1 .. slot
      BY <1>b, <2>8 DEF BackWord
    <3> QED BY <1>3, <2>0, <3>1, <3>2, <3>3, <3>4, BlankMatches
  <2>9. ASSUME NEW pass \in Seq(PassChar), Len(pass) <= MaxPass, EnterPass(pass) PROVE EntryInv'
    <3>1. /\ state = "pass" /\ touched' = touched \cup {0}
          /\ UNCHANGED <<state, count, slot, network, addressIndex>>
          /\ entry' = [entry EXCEPT !.pass = pass]
      BY <2>9 DEF EnterPass, seedVars
    <3>2. /\ entry' \in Entries /\ entry'.pass = pass /\ entry'.words = entry.words
          /\ entry'.prefix = entry.prefix /\ entry'.candidate = entry.candidate
      BY <2>9, <3>1 DEF EntryInv, EntryType, Entries
    <3>3. EntryType'
      BY <2>9, <3>1, <3>2 DEF EntryInv, EntryType, Entering
    <3>4. TouchedInv'
      BY <3>1, <3>2 DEF EntryInv, TouchedInv
    <3>5. CandidateInv'
      BY <3>2 DEF EntryInv, CandidateInv, Matches
    <3> QED BY <3>3, <3>4, <3>5 DEF EntryInv
  <2>10. ASSUME NEW char \in PassChar, TypePass(char) PROVE EntryInv'
    <3>1. Append(entry.pass, char) \in Seq(PassChar)
          /\ Len(Append(entry.pass, char)) = Len(entry.pass) + 1 /\ Len(entry.pass) \in Nat
      BY <1>a
    <3>2. Len(entry.pass) + 1 <= MaxPass
      BY <2>10, <3>1, LimitAssumption DEF TypePass
    <3> QED BY <2>9, <2>10, <3>1, <3>2 DEF TypePass
  <2>11. CASE DeletePass
    <3> DEFINE pass == entry.pass
    <3>0. pass \in Seq(PassChar) /\ pass # <<>> /\ Len(pass) <= MaxPass
      BY <1>a, <2>11 DEF DeletePass, EntryInv, EntryType
    <3> HIDE DEF pass
    <3>1. Len(pass) \in Nat \ {0}
      BY <3>0, EmptySeq
    <3>2. Front(pass) \in Seq(PassChar) /\ Len(Front(pass)) = Len(pass) - 1
      BY <3>0, FrontOf
    <3>3. Len(Front(pass)) <= MaxPass
      BY <3>0, <3>1, <3>2, LimitAssumption
    <3> QED BY <2>9, <2>11, <3>2, <3>3 DEF DeletePass, pass
  <2>12. ASSUME state \in Entering, state' \in {"words", "invalid"}, state # "words",
                UNCHANGED <<count, entry, touched, network, addressIndex>>,
                slot' \in {slot, count}
         PROVE  EntryInv'
    <3>1. slot' \in 1 .. count /\ count \in WordCounts
      BY <1>b, <1>d, <2>12
    <3>2. EntryType'
      BY <2>12, <3>1 DEF EntryInv, EntryType, Entering
    <3>3. TouchedInv'
      <4>1. 1 .. slot' - 1 \subseteq 1 .. count
        <5>1. count \in Nat /\ slot' \in 1 .. count
          BY <1>b, <3>1
        <5>2. \A m \in Nat : \A x \in 1 .. m : 1 .. x - 1 \subseteq 1 .. m
          OBVIOUS
        <5> QED BY <5>1, <5>2
      <4> QED BY <2>12, <4>1 DEF EntryInv, TouchedInv, Entering
    <3>4. CandidateInv'
      BY <2>12 DEF EntryInv, CandidateInv, Matches
    <3> QED BY <3>2, <3>3, <3>4 DEF EntryInv
  <2>13. CASE BackToWords
    BY <2>12, <2>13 DEF BackToWords, entryVars, seedVars, Entering
  <2>14. CASE Recover
    <3>1. /\ entry' = BlankEntry /\ state' = "identity" /\ network' \in Network
          /\ UNCHANGED <<count, slot, addressIndex>>
      BY <2>14 DEF Recover, EntryInv, EntryType
    <3>2. count \in {0} \cup WordCounts /\ slot' \in 1 .. count \cup {1}
          /\ addressIndex' \in 0 .. AddressCount - 1
      BY <3>1 DEF EntryInv, EntryType
    <3> QED BY <1>f, <3>1, <3>2
  <2>15. CASE RecoverFails
    BY <2>12, <2>15 DEF RecoverFails, entryVars, seedVars, Entering
  <2>16. CASE BackFromInvalid
    BY <2>12, <2>16 DEF BackFromInvalid, seedVars, Entering
  <2>17. CASE Confirm
    <3>1. addressIndex' \in 0 .. AddressCount - 1
      BY <2>17 DEF Confirm, EntryInv, EntryType
    <3> QED BY <1>e, <2>17, <3>1 DEF Confirm, entryVars, seedVars, Loaded
  <2> QED BY <1>4, <2>1, <2>2, <2>5, <2>6, <2>7, <2>8, <2>10, <2>11, <2>13, <2>14, <2>15, <2>16,
             <2>17 DEF Enter
<1>5. CASE Look
  <2>1. UNCHANGED <<entry, touched, slot, count, network>> /\ state' \in Loaded
    BY <1>5, LookFrame DEF entryVars, Loaded
  <2>2. addressIndex' \in 0 .. AddressCount - 1
    <3>1. VerifyNext => addressIndex' = (addressIndex + 1) % AddressCount
      BY DEF VerifyNext
    <3>2. (addressIndex + 1) % AddressCount \in 0 .. AddressCount - 1
      BY LimitAssumption DEF EntryInv, EntryType
    <3>3. ~VerifyNext => addressIndex' = addressIndex
      BY <1>5 DEF Look, Export, ExportBack
    <3> QED BY <3>1, <3>2, <3>3 DEF EntryInv, EntryType
  <2> QED BY <1>e, <2>1, <2>2
<1>6. CASE Pick
  <2>1. UNCHANGED <<entry, touched, slot, count, network, addressIndex>>
    BY <1>6, PickFrame DEF entryVars, seedVars
  <2>2. state' \in Loaded
    BY <1>6, BrowseFrame DEF Pick, Import, ImportFails, Open, OpenFails, PsbtError, Loaded
  <2> QED BY <1>e, <2>1, <2>2 DEF EntryInv, EntryType
<1>7. CASE Decide
  <2>1. UNCHANGED <<entry, touched, slot, count, network, addressIndex>>
    BY <1>7, DecideFrame DEF entryVars, seedVars
  <2>2. state' \in Loaded
    BY <1>7
    DEF Decide, NextPage, PreviousPage, TurnTo, Approve, OnApproval, PsbtError, Cancel, Loaded
  <2> QED BY <1>e, <2>1, <2>2 DEF EntryInv, EntryType
<1>8. CASE UNCHANGED vars
  BY <1>8, <1>e DEF vars, entryVars, seedVars, EntryInv, EntryType
<1> QED BY <1>1, <1>2, <1>4, <1>5, <1>6, <1>7, <1>8 DEF Next

LEMMA EntryStays == Spec => []EntryInv
<1>1. Init => EntryInv
  <2>1. /\ Len(<<>>) <= PrefixLimit /\ Len(<<>>) <= MaxPass
        /\ 0 \in 0 .. AddressCount - 1
    BY LimitAssumption, EmptySeq
  <2>2. 1 \in 1 .. Cardinality(Matches(<<>>))
    BY BlankMatches, MatchesFinite
  <2>3. Init => EntryType
    BY <2>1, BlankWords DEF Init, EntryType, Entering, Network
  <2>4. Init => TouchedInv
    BY BlankWords DEF Init, TouchedInv
  <2>5. Init => CandidateInv
    BY <2>2, BlankWords DEF Init, CandidateInv
  <2> QED BY <2>3, <2>4, <2>5 DEF EntryInv
<1> QED BY <1>1, EntryInductive, PTL DEF Spec

\* A phrase recovered consists of words and a passphrase entered for it, and the
\* word under the cursor always exists, for any word list.
THEOREM EntryUsesNothingOld == Spec => []EntryIsSound
<1>1. EntryInv => EntryIsSound
  BY DEF EntryInv, TouchedInv, CandidateInv, EntryIsSound, OnlyWhatWasEntered, CandidateExists
<1> QED BY <1>1, EntryStays, PTL

-----------------------------------------------------------------------------
\* The page of the name is one that the name on display has.
NamePageInv == state = "files" => picker.page \in 0 .. NamePages(Shown) - 1

LEMMA NamePageInductive == PickerInv /\ NamePageInv /\ [Next]_vars => NamePageInv'
<1> SUFFICES ASSUME PickerInv, NamePageInv, [Next]_vars, state' = "files" PROVE NamePageInv'
  BY DEF NamePageInv
<1>1. PickerInv'
  BY PickerInductive
<1>2. Shown' \in File /\ NamePages(Shown') \in Nat \ {0}
  <2>1. picker' \in Pickers /\ picker'.index \in 1 .. Len(picker'.files)
    BY <1>1 DEF PickerInv
  <2>2. picker'.files \in Seq(File)
    BY <2>1 DEF Pickers
  <2>3. picker'.files[picker'.index] \in File
    BY <2>1, <2>2, ElementOfSeq
  <2> QED BY <2>3, PageAssumption DEF Shown
<1>3. CASE picker'.page = 0
  BY <1>2, <1>3 DEF NamePageInv, Shown
<1>4. CASE UNCHANGED <<state, picker>>
  BY <1>4 DEF NamePageInv, Shown
<1>5. ASSUME NEW index, NEW page, Browse(index, page)
      PROVE  /\ picker'.index = index /\ picker'.page = page /\ picker'.files = picker.files
             /\ state = "files"
  BY <1>5 DEF Browse, PickerInv, Pickers
<1>6. CASE NextFile \/ PreviousFile
  BY <1>3, <1>5, <1>6 DEF NextFile, PreviousFile
<1>7. CASE NextNamePage \/ PreviousNamePage
  <2>0. state = "files" /\ picker.page \in 0 .. NamePages(Shown) - 1
    BY <1>7, BrowseFrame DEF NamePageInv
  <2>1. /\ picker'.index = picker.index /\ picker'.files = picker.files
        /\ \/ picker'.page = picker.page + 1 /\ picker.page + 1 < NamePages(Shown)
           \/ picker'.page = picker.page - 1 /\ picker.page > 0
    BY <1>5, <1>7 DEF NextNamePage, PreviousNamePage
  <2>2. Shown' = Shown
    BY <2>1 DEF Shown
  <2>3. picker'.page \in 0 .. NamePages(Shown) - 1
    BY <1>2, <2>0, <2>1, <2>2
  <2> QED BY <2>2, <2>3 DEF NamePageInv
<1>8. ASSUME NEW listing \in Listing, Import(listing) PROVE picker'.page = 0
  <2>1. picker' = NoFiles \/ picker' = [NoFiles EXCEPT !.files = listing]
    BY <1>8 DEF Import
  <2> QED BY <2>1 DEF NoFiles
<1>9. Lock \/ (\E words \in WordCounts, net \in Network : Begin(words, net)) => state' # "files"
  BY DEF Lock, Begin
<1>10. Enter => state' # "files"
  BY EnterFrame DEF Entering, Recover, Confirm
<1>11. Look => state' # "files"
  BY LookFrame
<1>12. Decide => state' # "files"
  BY DecideFrame
<1>13. ImportFails \/ OpenFails \/ (\E psbt \in Psbts : Open(psbt)) => state' # "files"
  BY DEF ImportFails, OpenFails, Open, PsbtError
<1> QED BY <1>3, <1>4, <1>6, <1>7, <1>8, <1>9, <1>10, <1>11, <1>12, <1>13
        DEF Next, Pick, vars, fileVars

\* Type correctness, every index within what it indexes.
THEOREM TypeCorrect == Spec => []TypeOK
<1>1. Init => NamePageInv
  BY DEF Init, NamePageInv
<1>2. EntryInv /\ PickerInv /\ NamePageInv /\ ReviewInv => TypeOK
  <2> SUFFICES ASSUME EntryInv, PickerInv, NamePageInv, ReviewInv PROVE TypeOK
    OBVIOUS
  <2>1. /\ entry.words \in [Slots -> Word] /\ entry.prefix \in Seq(Letter)
        /\ entry.pass \in Seq(PassChar)
    BY DEF EntryInv, EntryType, Entries
  <2>2. picker.files \in Seq(File) /\ aliases \in Seq(File)
    BY DEF PickerInv, Pickers
  <2>3. state = "files" => picker.index \in DOMAIN picker.files
    BY <2>2, LenProperties DEF PickerInv
  <2>4. state = "review" => reviewPage \in 0 .. LastPage(review)
    BY DEF ReviewInv
  <2> QED BY <2>1, <2>2, <2>3, <2>4 DEF TypeOK, EntryInv, EntryType, NamePageInv
<1> QED BY <1>1, <1>2, NamePageInductive, PickerStays, EntryStays, ReviewStays, PTL DEF Spec

=============================================================================
