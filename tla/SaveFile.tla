------------------------------- MODULE SaveFile -------------------------------
(***************************************************************************)
(* One save on the card: the files <rom>.TMP and <rom>.SAV that            *)
(* persist_atomic writes one after the other and restore_best_in_place     *)
(* picks from at boot (cartridge-core/src/savefile.rs), down to the steps  *)
(* at which the vendored FAT driver changes what a reader of the card      *)
(* sees.  A missing file is one of length zero: no test tells them apart.  *)
(*                                                                         *)
(* Lengths are counted in units.  The SRAM is Units units; with a clock,   *)
(* the RTC tail is one more, of which only the presence is kept.  A write  *)
(* to the card may fail at any step; a failing directory or FAT write may  *)
(* have reached the card or not.  Power may go at any point.               *)
(***************************************************************************)
EXTENDS Integers

CONSTANTS
  Value,         \* what a unit of SRAM may hold
  Zero,          \* the value SRAM is filled with when nothing is restored
  NoImage,       \* nothing to restore
  Units,         \* saveram_memory.len(), in units
  HasRtc,        \* rom_info.has_rtc
  ClusterUnits   \* units in a cluster of the card

ASSUME ValueAssumption == Zero \in Value
ASSUME UnitsAssumption == Units \in Nat /\ Units > 0
ASSUME RtcAssumption == HasRtc \in BOOLEAN
ASSUME ClusterAssumption == ClusterUnits \in Nat /\ ClusterUnits > 0

Image == [1..Units -> Value]
ZeroImage == [u \in 1..Units |-> Zero]

ASSUME NoImageAssumption == NoImage \notin Image

VARIABLES
  sram,           \* saveram_memory
  card,           \* what the directory and the FAT say of the two files
  pc, file, done, \* the store in progress: where it is, in which file, and
                  \* the units of it written since the file was opened
  before, sound   \* history: what a boot would have restored when the last
                  \* store ended, and whether that was a full, readable .SAV

jobVars == <<pc, file, done>>
historyVars == <<before, sound>>
vars == <<sram, card, jobVars, historyVars>>

\* cut: the cluster chain has been cut behind the first cluster, while the
\* directory still gives the old length.
FileLen == IF HasRtc THEN Units + 1 ELSE Units
Name == {"TMP", "SAV"}
File == [len : 0..FileLen, image : Image, cut : BOOLEAN]
Pc == {"boot", "idle", "mount", "cut", "zero", "write", "close", "abort",
       "ok", "err"}

-----------------------------------------------------------------------------
(* The choice between the two files.                                       *)

IsFullSave(len) == len >= FileLen
IsSramComplete(len) == len >= Units

\* Mutant: the primary is taken as soon as it has any contents.
PickRestoreSlot_AnyPrimary(sav, tmp) ==
  IF sav > 0 THEN "SAV" ELSE IF tmp > 0 THEN "TMP" ELSE "none"

PickRestoreSlot(sav, tmp) ==
  IF IsFullSave(sav) THEN "SAV"
  ELSE IF IsFullSave(tmp) THEN "TMP"
  ELSE IF IsSramComplete(sav) THEN "SAV"
  ELSE IF IsSramComplete(tmp) THEN "TMP"
  ELSE "none"

\* What a boot that meets no read error gets.  Only lengths are probed, so a
\* file whose chain is cut may be picked; reading it then fails.
BootImage(c) ==
  LET slot == PickRestoreSlot(c["SAV"].len, c["TMP"].len) IN
  IF slot = "none" THEN NoImage
  ELSE IF c[slot].cut THEN NoImage ELSE c[slot].image

Readable(f) == IsFullSave(card[f].len) /\ ~card[f].cut

-----------------------------------------------------------------------------

Init ==
  /\ sram = ZeroImage
  /\ card = [f \in Name |-> [len |-> 0, image |-> ZeroImage, cut |-> FALSE]]
  /\ pc = "boot" /\ file = "TMP" /\ done = 0
  /\ before = NoImage /\ sound = FALSE

\* History: a store or a restore has ended.
Settle == before' = BootImage(card) /\ sound' = Readable("SAV")

\* The slot picked when a probe that fails counts as a missing file.
Chosen(savProbed, tmpProbed) ==
  PickRestoreSlot(IF savProbed THEN card["SAV"].len ELSE 0,
                  IF tmpProbed THEN card["TMP"].len ELSE 0)

\* GbSavefile::restore, and the bootloader that zero-fills SRAM on Ok(None),
\* which is what no slot gives, and on Err, which is what a clock that cannot be
\* read gives, a file that cannot be read, or one whose chain is cut.
Restore(clock, savProbed, tmpProbed, read) ==
  LET slot == Chosen(savProbed, tmpProbed) IN
  /\ pc = "boot"
  /\ IF clock /\ read /\ slot # "none" /\ ~card[slot].cut
     THEN sram' = card[slot].image
     ELSE sram' = ZeroImage
  /\ pc' = "idle"
  /\ Settle
  /\ UNCHANGED <<card, file, done>>

\* The game, external to the repository, writes SRAM.
Play(i) ==
  /\ pc = "idle"
  /\ sram' = i
  /\ UNCHANGED <<card, jobVars, historyVars>>

StartStore ==
  /\ pc = "idle"
  /\ pc' = "mount"
  /\ UNCHANGED <<sram, card, file, done, historyVars>>

\* Mutant: the primary is rewritten in place.
Mount_PrimaryOnly ==
  /\ pc = "mount"
  /\ pc' = "cut" /\ file' = "SAV"
  /\ UNCHANGED <<sram, card, done, historyVars>>

\* open_volume, open_root_dir and the wall clock: nothing is written yet.
Mount ==
  /\ pc = "mount"
  /\ pc' = "cut" /\ file' = "TMP"
  /\ UNCHANGED <<sram, card, done, historyVars>>

MountFails ==
  /\ pc = "mount"
  /\ pc' = "err"
  /\ UNCHANGED <<sram, card, file, done, historyVars>>

-----------------------------------------------------------------------------
(* write_save: open_file_in_dir(ReadWriteCreateOrTruncate), File::write,   *)
(* File::close.                                                            *)

ChainCut(f) == card' = [card EXCEPT ![f].cut = @ \/ card[f].len > ClusterUnits]
EntryZeroed(f) == card' = [card EXCEPT ![f].len = 0, ![f].cut = FALSE]
LengthRecorded(f, n) == card' = [card EXCEPT ![f].len = n]

\* truncate_cluster_chain returns early for a file of one cluster.
CutChain ==
  /\ pc = "cut"
  /\ ChainCut(file)
  /\ pc' = "zero"
  /\ UNCHANGED <<sram, file, done, historyVars>>

CutChainFails ==
  /\ pc = "cut"
  /\ UNCHANGED card \/ ChainCut(file)
  /\ pc' = "err"
  /\ UNCHANGED <<sram, file, done, historyVars>>

\* write_entry_to_disk after the truncation, or write_new_directory_entry.
ZeroEntry ==
  /\ pc = "zero"
  /\ EntryZeroed(file)
  /\ pc' = "write" /\ done' = 0
  /\ UNCHANGED <<sram, file, historyVars>>

ZeroEntryFails ==
  /\ pc = "zero"
  /\ UNCHANGED card \/ EntryZeroed(file)
  /\ pc' = "err"
  /\ UNCHANGED <<sram, file, done, historyVars>>

\* Mutant: the length is compared after it has been passed.
WriteUnit_OneMore ==
  /\ pc = "write"
  /\ card' = IF done < Units
             THEN [card EXCEPT ![file].image[done + 1] = sram[done + 1]]
             ELSE card
  /\ done' = done + 1
  /\ pc' = IF done' > FileLen THEN "close" ELSE "write"
  /\ UNCHANGED <<sram, file, historyVars>>

\* The data goes out block by block, from the live SRAM; the directory keeps
\* saying zero until the file is closed.
WriteUnit ==
  /\ pc = "write"
  /\ card' = IF done < Units
             THEN [card EXCEPT ![file].image[done + 1] = sram[done + 1]]
             ELSE card
  /\ done' = done + 1
  /\ pc' = IF done' = FileLen THEN "close" ELSE "write"
  /\ UNCHANGED <<sram, file, historyVars>>

WriteFails ==
  /\ pc = "write"
  /\ pc' = "abort"
  /\ UNCHANGED <<sram, card, file, done, historyVars>>

Close ==
  /\ pc = "close"
  /\ LengthRecorded(file, done)
  /\ IF file = "TMP"
     THEN pc' = "cut" /\ file' = "SAV"
     ELSE pc' = "ok" /\ UNCHANGED file
  /\ UNCHANGED <<sram, done, historyVars>>

\* Mutant: the store goes on, or succeeds, with a close that failed.
CloseFails_Ignored ==
  /\ pc = "close"
  /\ UNCHANGED card \/ LengthRecorded(file, done)
  /\ IF file = "TMP"
     THEN pc' = "cut" /\ file' = "SAV"
     ELSE pc' = "ok" /\ UNCHANGED file
  /\ UNCHANGED <<sram, done, historyVars>>

CloseFails ==
  /\ pc = "close"
  /\ UNCHANGED card \/ LengthRecorded(file, done)
  /\ pc' = "err"
  /\ UNCHANGED <<sram, file, done, historyVars>>

\* `let _ = file.close()`: the length reached so far is recorded, or is not.
Abort ==
  /\ pc = "abort"
  /\ UNCHANGED card \/ LengthRecorded(file, done)
  /\ pc' = "err"
  /\ UNCHANGED <<sram, file, done, historyVars>>

StoreStep ==
  \/ Mount \/ MountFails
  \/ CutChain \/ CutChainFails \/ ZeroEntry \/ ZeroEntryFails
  \/ WriteUnit \/ WriteFails \/ Close \/ CloseFails \/ Abort

FinishStore ==
  /\ pc \in {"ok", "err"}
  /\ pc' = "idle" /\ file' = "TMP" /\ done' = 0
  /\ Settle
  /\ UNCHANGED <<sram, card>>

\* sram keeps what it held when the power went until the next boot fills it.
PowerLoss ==
  /\ pc # "boot"
  /\ pc' = "boot" /\ file' = "TMP" /\ done' = 0
  /\ UNCHANGED <<sram, card, historyVars>>

Boot == \E clock, savProbed, tmpProbed, read \in BOOLEAN :
          Restore(clock, savProbed, tmpProbed, read)

Next ==
  \/ Boot \/ PowerLoss
  \/ \E i \in Image : Play(i)
  \/ StartStore \/ StoreStep \/ FinishStore

Spec == Init /\ [][Next]_vars

-----------------------------------------------------------------------------
(* Properties.                                                             *)

TypeOK ==
  /\ sram \in Image
  /\ card \in [Name -> File]
  /\ pc \in Pc /\ file \in Name /\ done \in 0..FileLen
  /\ before \in Image \cup {NoImage} /\ sound \in BOOLEAN

\* persist_atomic: from a full .SAV on, a boot gets either what it would have
\* got before the store or the new image, whatever fails and whenever the power
\* goes; and so it does in a store that got to the .SAV, whatever it found.  The
\* exception is a .SAV whose chain is cut.
OldOrNew ==
  (sound \/ file = "SAV") /\ ~card["SAV"].cut
    => BootImage(card) \in {before, sram}

\* A store that returned Ok has put the image in both files, so that one more
\* failure cannot take it away.
StoredTwice ==
  pc = "ok" => \A f \in Name : Readable(f) /\ card[f].image = sram

\* Module header, savefile.rs:4-6: "A power loss during the `.SAV` rewrite
\* leaves a complete `.TMP` that boot will load".
RewriteAlwaysCovered == file = "SAV" => BootImage(card) # NoImage

=============================================================================
