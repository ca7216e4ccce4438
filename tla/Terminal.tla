------------------------------- MODULE Terminal -------------------------------
(***************************************************************************)
(* The signer behind the Crystal menu (signer-probe/src/terminal.rs) with  *)
(* the work that Worker::poll (src/crystal_seed.rs) does for it on the     *)
(* card.  One action is one poll: the command and, within the same poll,   *)
(* the recovery, listing, reading or signing it leads to, so that the      *)
(* codes 3, 9, 11, 14 and 16 of "state" are never at rest.  A command that *)
(* the state has no use for changes nothing.                               *)
(*                                                                         *)
(* What the console shows is a function of the state (Terminal::report).   *)
(***************************************************************************)
EXTENDS PsbtPolicy

CONSTANTS
  Letter,         \* a..z
  WordList,       \* the words in order, each a sequence of letters
  PrefixLimit,    \* 4
  WordCounts,     \* 12 and 24
  ValidPhrases,   \* the phrases whose checksum is right
  PassChar,       \* the printable characters
  MaxPass,        \* 100
  AddressCount,   \* 1001
  File,           \* names on the card
  NamePages(_),   \* the pages of 60 characters a name takes
  MaxFiles,       \* MAX_PSBT_FILES
  Psbts           \* what the files may hold

ASSUME CountAssumption == WordCounts \subseteq Nat \ {0} /\ IsFiniteSet(WordCounts)
ASSUME WordAssumption == WordList \in Seq(Seq(Letter)) /\ WordList # <<>>
ASSUME LimitAssumption ==
  /\ PrefixLimit \in Nat /\ MaxPass \in Nat /\ MaxFiles \in Nat
  /\ AddressCount \in Nat \ {0} /\ MaxAddressIndex = AddressCount - 1
ASSUME PageAssumption == \A f \in File : NamePages(f) \in Nat \ {0}
ASSUME PsbtAssumption ==
  \A psbt \in Psbts : \A i \in 1 .. Len(psbt.outputs) :
    \A origin \in psbt.outputs[i].origins : origin.path \in Path
ASSUME PhraseAssumption == ValidPhrases \subseteq Seq(Nat)

VARIABLES
  state,         \* "state"
  network,
  count, slot,   \* words of the phrase, the word being entered (from 1; 0-based in the code)
  entry,         \* words, prefix, candidate (from 1), pass: what clear_entry wipes
  seed,
  identity,      \* fingerprint and address on display
  addressIndex,
  picker,        \* files, file_index (from 1), name_page
  aliases,       \* Worker.aliases
  review, reviewPage,
  message,       \* psbt_message
  qr,            \* the account in qr_buffer
  touched,       \* history: the slots entered since the phrase was begun, 0 for the passphrase
  seen,          \* history: the pages of this review that were reported
  signature      \* history: the last signature and the pages seen before it

entryVars == <<count, slot, entry, touched>>
fileVars == <<picker, aliases>>
reviewVars == <<review, reviewPage, seen, signature, message>>
seedVars == <<seed, identity, network>>
vars == <<state, entryVars, fileVars, reviewVars, seedVars, addressIndex, qr>>

Word == 0 .. Len(WordList) - 1
Slots == UNION {1 .. n : n \in WordCounts}
BlankEntry == [words |-> [i \in Slots |-> 0], prefix |-> <<>>, candidate |-> 1, pass |-> <<>>]
NoFiles == [files |-> <<>>, index |-> 1, page |-> 0]

Init ==
  /\ state = "locked" /\ network = "test"
  /\ count = 0 /\ slot = 1 /\ entry = BlankEntry
  /\ seed = None /\ identity = None /\ addressIndex = 0
  /\ picker = NoFiles /\ aliases = <<>>
  /\ review = None /\ reviewPage = 0 /\ message = "none"
  /\ qr = None
  /\ touched = {} /\ seen = {} /\ signature = None

-----------------------------------------------------------------------------
\* LOCK, BEGIN12, BEGIN24, BEGIN_MAIN12, BEGIN_MAIN24

\* Mutant: the address index survives.
Wipe_KeepsAddressIndex ==
  /\ seed' = None /\ identity' = None /\ addressIndex' = addressIndex /\ qr' = None
  /\ entry' = BlankEntry /\ slot' = 1 /\ touched' = {}
  /\ picker' = [picker EXCEPT !.files = <<>>]
  /\ review' = None /\ message' = "none" /\ seen' = {} /\ signature' = None
  /\ UNCHANGED <<aliases, reviewPage>>

Wipe ==
  /\ seed' = None /\ identity' = None /\ addressIndex' = 0 /\ qr' = None
  /\ entry' = BlankEntry /\ slot' = 1 /\ touched' = {}
  /\ picker' = [picker EXCEPT !.files = <<>>]
  /\ review' = None /\ message' = "none" /\ seen' = {} /\ signature' = None
  /\ UNCHANGED <<aliases, reviewPage>>

Lock == Wipe /\ state' = "locked" /\ count' = 0 /\ UNCHANGED network

Begin(words, net) == Wipe /\ state' = "words" /\ count' = words /\ network' = net

-----------------------------------------------------------------------------
\* The words of the phrase

Matches(prefix) == {w \in Word : IsPrefix(prefix, WordList[w + 1])}

EnterWords(new) ==
  /\ entry' = new
  /\ UNCHANGED <<count, touched, seedVars, addressIndex, fileVars, reviewVars, qr>>

Prefixed(prefix) == [entry EXCEPT !.prefix = prefix, !.candidate = 1]

Extended(letter) ==
  IF Matches(Append(entry.prefix, letter)) = {}
    THEN entry.prefix
    ELSE Append(entry.prefix, letter)

TypeLetter(letter) ==
  /\ state = "words" /\ Len(entry.prefix) < PrefixLimit
  /\ EnterWords(Prefixed(Extended(letter)))
  /\ UNCHANGED <<state, slot>>

DeleteLetter ==
  /\ state = "words" /\ entry.prefix # <<>>
  /\ EnterWords(Prefixed(Front(entry.prefix)))
  /\ UNCHANGED <<state, slot>>

NextWord ==
  /\ state = "words"
  /\ LET n == Cardinality(Matches(entry.prefix)) IN
       EnterWords([entry EXCEPT !.candidate = (@ % n) + 1])
  /\ UNCHANGED <<state, slot>>

PreviousWord ==
  /\ state = "words"
  /\ LET n == Cardinality(Matches(entry.prefix)) IN
       EnterWords([entry EXCEPT !.candidate = ((@ + n - 2) % n) + 1])
  /\ UNCHANGED <<state, slot>>

\* Mutant: the last word is not waited for.
LastSlot_OffByOne == slot + 1 >= count
LastSlot == slot = count

ChooseWord ==
  /\ state = "words"
  /\ \E word \in Matches(entry.prefix) :
       /\ Cardinality({w \in Matches(entry.prefix) : w < word}) = entry.candidate - 1
       /\ entry' = [entry EXCEPT !.words[slot] = word, !.prefix = <<>>, !.candidate = 1]
  /\ touched' = touched \cup {slot}
  /\ IF LastSlot
       THEN state' = "pass" /\ UNCHANGED slot
       ELSE slot' = slot + 1 /\ UNCHANGED state
  /\ UNCHANGED <<count, seedVars, addressIndex, fileVars, reviewVars, qr>>

BackWord ==
  /\ state = "words"
  /\ slot' = IF slot > 1 THEN slot - 1 ELSE slot
  /\ EnterWords(Prefixed(<<>>))
  /\ UNCHANGED state

-----------------------------------------------------------------------------
\* The passphrase and the recovery

EnterPass(pass) ==
  /\ state = "pass"
  /\ entry' = [entry EXCEPT !.pass = pass]
  /\ touched' = touched \cup {0}
  /\ UNCHANGED <<state, count, slot, seedVars, addressIndex, fileVars, reviewVars, qr>>

TypePass(char) == Len(entry.pass) < MaxPass /\ EnterPass(Append(entry.pass, char))
DeletePass == entry.pass # <<>> /\ EnterPass(Front(entry.pass))

BackToWords ==
  /\ state = "pass" /\ state' = "words"
  /\ UNCHANGED <<entryVars, seedVars, addressIndex, fileVars, reviewVars, qr>>

Secret == [phrase |-> SubSeq(entry.words, 1, count), pass |-> entry.pass]
Recovered == [secret |-> Secret, network |-> network]

\* RECOVER and finish_recovery.  A recovered seed has an identity: no
\* derivation from it fails.
Recover ==
  /\ state = "pass" /\ Secret.phrase \in ValidPhrases
  /\ seed' = Recovered
  /\ identity' = [print |-> Fingerprint(Secret), address |-> ReceiveAddress(Recovered, 0)]
  /\ entry' = BlankEntry /\ touched' = {} /\ state' = "identity"
  /\ UNCHANGED <<count, slot, network, addressIndex, fileVars, reviewVars, qr>>

RecoverFails ==
  /\ state = "pass" /\ Secret.phrase \notin ValidPhrases
  /\ state' = "invalid"
  /\ UNCHANGED <<entryVars, seedVars, addressIndex, fileVars, reviewVars, qr>>

BackFromInvalid ==
  /\ state = "invalid" /\ state' = "words" /\ slot' = count
  /\ UNCHANGED <<count, entry, touched, seedVars, addressIndex, fileVars, reviewVars, qr>>

Confirm ==
  /\ state = "identity" /\ state' = "active"
  /\ UNCHANGED <<entryVars, seedVars, addressIndex, fileVars, reviewVars, qr>>

-----------------------------------------------------------------------------
\* Addresses and accounts

VerifyNext ==
  /\ state = "active" /\ seed # None
  /\ addressIndex' = (addressIndex + 1) % AddressCount
  /\ identity' = [identity EXCEPT !.address = ReceiveAddress(seed, addressIndex')]
  /\ UNCHANGED <<state, seed, network, entryVars, fileVars, reviewVars, qr>>

\* EXPORT_ACCOUNT, EXPORT_SEGWIT: the QR code of an account key always fits.
Export(segwit) ==
  /\ state = "active" /\ seed # None
  /\ qr' = [seed |-> seed, segwit |-> segwit] /\ state' = "qr"
  /\ UNCHANGED <<entryVars, seedVars, addressIndex, fileVars, reviewVars>>

\* Mutant: the code stays in the window.
ExportBack_KeepsQr ==
  /\ state = "qr" /\ qr' = qr /\ state' = "active"
  /\ UNCHANGED <<entryVars, seedVars, addressIndex, fileVars, reviewVars>>

ExportBack ==
  /\ state = "qr" /\ qr' = None /\ state' = "active"
  /\ UNCHANGED <<entryVars, seedVars, addressIndex, fileVars, reviewVars>>

-----------------------------------------------------------------------------
\* The file to sign

PsbtError(text) ==
  /\ state' = "error" /\ message' = text
  /\ picker' = [picker EXCEPT !.files = <<>>]
  /\ review' = None /\ seen' = {}

\* Mutant: the names of the last listing are kept.
Listed_Appended(listing) == aliases \o listing
Listed(listing) == listing

\* IMPORT_PSBT, sd_psbt::list, set_files
Import(listing) ==
  /\ state = "active"
  /\ reviewPage' = 0 /\ aliases' = Listed(listing)
  /\ IF listing = <<>> \/ Len(listing) > MaxFiles
       THEN /\ state' = "error" /\ picker' = NoFiles
            /\ message' = IF listing = <<>> THEN "No .psbt/.psb files"
                          ELSE "Too many PSBT files"
       ELSE /\ state' = "files" /\ message' = "none"
            /\ picker' = [NoFiles EXCEPT !.files = listing]
  /\ review' = None /\ seen' = {}
  /\ UNCHANGED <<entryVars, seedVars, addressIndex, qr, signature>>

ImportFails ==
  /\ state = "active"
  /\ reviewPage' = 0 /\ aliases' = <<>>
  /\ state' = "error" /\ message' = "SD listing failed" /\ picker' = NoFiles
  /\ review' = None /\ seen' = {}
  /\ UNCHANGED <<entryVars, seedVars, addressIndex, qr, signature>>

Shown == picker.files[picker.index]

Browse(index, page) ==
  /\ state = "files"
  /\ picker' = [picker EXCEPT !.index = index, !.page = page]
  /\ UNCHANGED <<state, aliases, entryVars, seedVars, addressIndex, reviewVars, qr>>

\* Mutant: the page of the name stays where it is.
NextFile_KeepsPage == Browse((picker.index % Len(picker.files)) + 1, picker.page)
NextFile == Browse((picker.index % Len(picker.files)) + 1, 0)
PreviousFile ==
  Browse(((picker.index + Len(picker.files) - 2) % Len(picker.files)) + 1, 0)
NextNamePage ==
  /\ state = "files" /\ picker.page + 1 < NamePages(Shown)
  /\ Browse(picker.index, picker.page + 1)
PreviousNamePage == picker.page > 0 /\ Browse(picker.index, picker.page - 1)

-----------------------------------------------------------------------------
\* The review.  A page has room for an amount up to 20 digits and unit and for
\* an address of 44 characters, which those of P2WPKH scripts alone fit.

Amount(value) == IF value <= MaxMoney THEN value ELSE -1
Address(address) ==
  IF address.script.kind = "p2wpkh" THEN address ELSE [address EXCEPT !.script = None]

LastPage(r) == Len(r.outputs) + 1

\* Terminal::report in PSBT_REVIEW
PageOf(r, page) ==
  IF page < Len(r.outputs)
    THEN LET output == r.outputs[page + 1] IN
         [page |-> page, amount |-> Amount(output.amount),
          address |-> Address(output.address), change |-> output.change]
    ELSE IF page = Len(r.outputs)
           THEN [page |-> page, fee |-> r.fee]
           ELSE [page |-> page, approve |-> TRUE]

\* FILE_OPEN, read_short, load_psbt
Open(psbt) ==
  /\ state = "files" /\ picker.index <= Len(aliases)
  /\ IF Accepted(seed, psbt)
       THEN /\ state' = "review"
            /\ review' = Review(seed, psbt) /\ reviewPage' = 0
            /\ seen' = {PageOf(review', 0)}
            /\ picker' = [picker EXCEPT !.files = <<>>]
            /\ UNCHANGED message
       ELSE PsbtError("refused") /\ UNCHANGED reviewPage
  /\ UNCHANGED <<aliases, entryVars, seedVars, addressIndex, qr, signature>>

OpenFails ==
  /\ state = "files"
  /\ PsbtError(IF picker.index <= Len(aliases) THEN "SD read failed" ELSE "Rescan SD")
  /\ UNCHANGED <<aliases, reviewPage, entryVars, seedVars, addressIndex, qr, signature>>

TurnTo(page) ==
  /\ state = "review"
  /\ reviewPage' = page /\ seen' = seen \cup {PageOf(review, page)}
  /\ UNCHANGED <<state, review, signature, message, entryVars, fileVars, seedVars,
                 addressIndex, qr>>

NextPage == state = "review" /\ reviewPage < LastPage(review) /\ TurnTo(reviewPage + 1)
PreviousPage == reviewPage > 0 /\ TurnTo(reviewPage - 1)

\* Mutant: approval from any page.
OnApproval_AnyPage == state = "review"
OnApproval == state = "review" /\ reviewPage = LastPage(review)

\* APPROVE_PSBT, finish_signing, write_signed
Approve(stored) ==
  /\ OnApproval
  /\ IF ~Signs(seed, review)
       THEN PsbtError("Signing failed") /\ UNCHANGED signature
       ELSE /\ signature' = [psbt |-> review.psbt, key |-> SigningKey(seed, review),
                             network |-> seed.network, seen |-> seen]
            /\ IF stored
                 THEN /\ state' = "saved" /\ message' = "signed"
                      /\ review' = None /\ seen' = {} /\ UNCHANGED picker
                 ELSE PsbtError("SD write failed")
  /\ UNCHANGED <<aliases, reviewPage, entryVars, seedVars, addressIndex, qr>>

Cancel ==
  /\ state \in {"files", "review", "error", "saved"}
  /\ state' = "active" /\ message' = "none" /\ seen' = {} /\ signature' = None
  /\ picker' = [picker EXCEPT !.files = <<>>]
  /\ review' = None
  /\ UNCHANGED <<aliases, reviewPage, entryVars, seedVars, addressIndex, qr>>

-----------------------------------------------------------------------------
\* What sd_psbt::list returns: at most MaxFiles names.
Listing == {names \in UNION {[1 .. n -> File] : n \in 0 .. MaxFiles} :
              \A i, j \in DOMAIN names : names[i] = names[j] => i = j}

Enter ==
  \/ \E letter \in Letter : TypeLetter(letter)
  \/ DeleteLetter \/ NextWord \/ PreviousWord \/ ChooseWord \/ BackWord
  \/ \E char \in PassChar : TypePass(char)
  \/ DeletePass \/ BackToWords \/ Recover \/ RecoverFails \/ BackFromInvalid \/ Confirm

Look == VerifyNext \/ (\E segwit \in BOOLEAN : Export(segwit)) \/ ExportBack

Pick ==
  \/ \E listing \in Listing : Import(listing)
  \/ ImportFails \/ NextFile \/ PreviousFile \/ NextNamePage \/ PreviousNamePage
  \/ \E psbt \in Psbts : Open(psbt)
  \/ OpenFails

Decide == NextPage \/ PreviousPage \/ (\E stored \in BOOLEAN : Approve(stored)) \/ Cancel

Next ==
  \/ Lock
  \/ \E words \in WordCounts, net \in Network : Begin(words, net)
  \/ Enter \/ Look \/ Pick \/ Decide

Spec == Init /\ [][Next]_vars

-----------------------------------------------------------------------------
(***************************************************************************)
(* Properties                                                              *)
(***************************************************************************)

Loaded == {"identity", "active", "qr", "files", "review", "error", "saved"}
Entering == {"words", "pass", "invalid"}

\* Type correctness.
TypeOK ==
  /\ state \in {"locked"} \cup Entering \cup Loaded
  /\ network \in Network /\ count \in {0} \cup WordCounts
  /\ slot \in 1 .. count \cup {1}
  /\ entry.words \in [Slots -> Word] /\ entry.prefix \in Seq(Letter)
  /\ Len(entry.prefix) <= PrefixLimit
  /\ entry.pass \in Seq(PassChar) /\ Len(entry.pass) <= MaxPass
  /\ addressIndex \in 0 .. AddressCount - 1
  /\ picker.files \in Seq(File) /\ aliases \in Seq(File)
  /\ state = "files" => picker.index \in DOMAIN picker.files
  /\ state = "files" => picker.page \in 0 .. NamePages(Shown) - 1
  /\ state = "review" => reviewPage \in 0 .. LastPage(review)

\* Every way out of a screen clears what belongs to it: a seed is loaded on its
\* screens only, a review, a QR code or a list of files on theirs, and words,
\* prefix and passphrase are there only while they are being entered.
NothingOutlivesItsScreen ==
  /\ seed # None <=> state \in Loaded
  /\ identity # None <=> state \in Loaded
  /\ review # None <=> state = "review"
  /\ qr # None <=> state = "qr"
  /\ picker.files # <<>> <=> state = "files"
  /\ state \notin Entering => entry = BlankEntry

OnlyWhatWasEntered ==
  /\ state \in {"pass", "invalid"} => 1 .. count \subseteq touched
  /\ \A i \in Slots : entry.words[i] # 0 => i \in touched
  /\ entry.pass # <<>> => 0 \in touched

CandidateExists ==
  state = "words" => entry.candidate \in 1 .. Cardinality(Matches(entry.prefix))

\* A recovery uses nothing of an earlier attempt: the passphrase is asked for
\* when every word has been chosen since BEGIN, whatever was gone back over, and
\* what is not blank was entered since.  There is always a word to choose: the
\* prefix has a match, so that NEXT and PREV never divide by zero, and the
\* candidate is one of the matches.
EntryIsSound == OnlyWhatWasEntered /\ CandidateExists

\* Fingerprint, address and network on display are those of the seed that is
\* loaded, at the index that the next VERIFY_NEXT counts from.
IdentityIsTheSeeds ==
  seed # None =>
    /\ network = seed.network
    /\ identity = [print |-> Fingerprint(seed.secret),
                   address |-> ReceiveAddress(seed, addressIndex)]

\* Worker.aliases and Terminal.files are two lists: what FILE_OPEN reads is the
\* file on the screen.
OpensWhatItShows == state = "files" => aliases[picker.index] = Shown

\* The terminal signs what it has asked about: a review that passed the policy
\* is never refused once it is approved.
ApprovedIsSigned == message # "Signing failed"

\* The user has seen all that a signature commits to: every output with its
\* amount and address, the fee, the request to approve, all since this PSBT was
\* read; and the coin spent is locked to the key that signs.
SignedAsShown ==
  signature # None =>
    LET tx == signature.psbt
        last == Len(tx.outputs)
    IN /\ \A i \in 1 .. last : \E change \in BOOLEAN :
            [page |-> i - 1, amount |-> tx.outputs[i].value,
             address |-> [network |-> signature.network, script |-> tx.outputs[i].script],
             change |-> change] \in signature.seen
       /\ [page |-> last, fee |-> tx.utxo.value - Total(tx)] \in signature.seen
       /\ [page |-> last + 1, approve |-> TRUE] \in signature.seen
       /\ tx.utxo.script = P2wpkh(signature.key)

\* An output labelled "Change" returns to the change chain of the seed that is
\* loaded, on its network.
ChangeComesBack ==
  review # None =>
    \A i \in DOMAIN review.outputs : review.outputs[i].change =>
      \E index \in 0 .. MaxAddressIndex :
        review.outputs[i].address =
          [network |-> seed.network,
           script |-> P2wpkh(Key(seed.secret,
             [root |-> "bip84", coin |-> CoinType(seed.network), chain |-> 1,
              index |-> index]))]

=============================================================================
