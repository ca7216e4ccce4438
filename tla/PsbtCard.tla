------------------------------ MODULE PsbtCard ------------------------------
(***************************************************************************)
(* PSBTs in the root directory of the card: the listing of the signer,     *)
(* with the long names of FAT (src/sd_psbt.rs, src/sd_lfn.rs), and the     *)
(* export of what has been signed, to the first free name of SIGNED.PSB,   *)
(* SIGNED1.PSB, ...  The card comes from other computers, which leave long *)
(* names of files they deleted, or renamed without knowing of them.        *)
(*                                                                         *)
(* An alias (short name) is a number, and 0 .. MaxIndex are the names for  *)
(* exports; a long name is a sequence of the pieces its slots hold, and an *)
(* alias a is shown as <<a>>.                                              *)
(***************************************************************************)
EXTENDS Naturals, Sequences, FiniteSets

CONSTANTS
  Alias,
  Pieces,      \* of long names
  Garbled,     \* pieces that are no text, or hold the end of it too early
  Unoffered,   \* names without the extension, or beginning with a dot
  Sum,         \* the checksum of an alias
  MaxParts,    \* 20: slots of a long name
  Directories, \* root directories to begin with
  MaxScan,     \* MAX_DIRECTORY_SLOTS
  MaxFiles,    \* MAX_PSBT_FILES
  MaxIndex,    \* EXPORT_MAX_INDEX
  Chunks,      \* writes of 256 bytes per export
  MaxExports   \* bound on the exports of a run

Sums == {Sum[a] : a \in Alias}

\* A slot of the directory: deleted, a part of a long name, or an entry.
\* index 0 stands for what no slot of a long name can hold.
Slot == [is : {"deleted", "part", "entry"},
         index : 0 .. MaxParts, last : BOOLEAN, sum : Sums \cup {0}, piece : Pieces \cup {0},
         alias : Alias, plain : BOOLEAN]

ASSUME PsbtCardAssumption ==
  /\ MaxIndex \in Nat /\ 0 .. MaxIndex \subseteq Alias /\ Alias \subseteq Nat
  /\ Pieces \subseteq Nat \ Alias /\ Garbled \subseteq Pieces
  /\ Sum \in [Alias -> Nat \ {0}]
  /\ MaxParts \in Nat \ {0} /\ MaxScan \in Nat /\ MaxFiles \in Nat
  /\ Chunks \in Nat \ {0} /\ MaxExports \in Nat
  /\ Directories \subseteq Seq(Slot)

VARIABLES
  slots,    \* the root directory
  content,  \* of the file of an alias: the export it is of, and its chunks
  doing,    \* what the signer does with the card
  at,       \* the slot or the name it has come to
  name,     \* LongName
  files,    \* the listing
  export,   \* exports so far
  told,     \* files found on the card and returned by write_signed, with the export
  misread   \* a lookup has failed

vars == <<slots, content, doing, at, name, files, export, told, misread>>

-----------------------------------------------------------------------------
(* LongName                                                                *)

NoName == [units |-> <<>>, next |-> 0, sum |-> 0]
Reset(n) == [n EXCEPT !.next = 0, !.units = <<>>]

\* Slots come last part first; only one with the flag begins a name.
Begun(n, s) ==
  IF s.last THEN [units |-> [k \in 1 .. s.index |-> 0], next |-> s.index, sum |-> s.sum] ELSE n

TakeSlot(n, s) ==
  LET b == Begun(n, s)
  IN IF s.index = 0 \/ b.units = <<>> \/ s.index # b.next \/ s.sum # b.sum
     THEN Reset(b)
     ELSE [b EXCEPT !.units[s.index] = s.piece, !.next = @ - 1]

\* Mutant: the checksum is not compared.
Assembled_AnyAlias(n, alias) == n.units # <<>> /\ n.next = 0

Assembled(n, alias) == n.units # <<>> /\ n.next = 0 /\ n.sum = Sum[alias]

IsText(units) == \A k \in DOMAIN units : units[k] \notin Garbled

Display(n, alias) == IF Assembled(n, alias) /\ IsText(n.units) THEN n.units ELSE <<alias>>

-----------------------------------------------------------------------------
(* The card                                                                *)

None == [by |-> 0, chunks |-> 0]
Whole(e) == [by |-> e, chunks |-> Chunks]
Entries(dir) == {i \in DOMAIN dir : dir[i].is = "entry"}
Present(alias) == \E i \in Entries(slots) : slots[i].alias = alias

Entry(alias) == [is |-> "entry", index |-> 0, last |-> FALSE, sum |-> 0, piece |-> 0,
                 alias |-> alias, plain |-> TRUE]

\* write_new_directory_entry takes the first slot that is free, wherever it is.
Free == {i \in DOMAIN slots : slots[i].is = "deleted"}
WithEntry(alias) ==
  IF Free = {} THEN Append(slots, Entry(alias))
  ELSE [slots EXCEPT ![CHOOSE i \in Free : \A j \in Free : i <= j] = Entry(alias)]

-----------------------------------------------------------------------------
(* list                                                                    *)

Init ==
  /\ slots \in Directories
  /\ content = [a \in Alias |-> IF Present(a) THEN Whole(0) ELSE None]
  /\ doing = "idle" /\ at = 0
  /\ name = NoName /\ files = {}
  /\ export = 0 /\ told = {[alias |-> a, by |-> 0] : a \in {b \in Alias : Present(b)}}
  /\ misread = FALSE

card == <<slots, content, export, told, misread>>

List ==
  /\ doing = "idle" /\ doing' = "list"
  /\ at' = 1 /\ name' = NoName /\ files' = {}
  /\ UNCHANGED card

\* Directories, labels, hidden and system files are not plain.
Offered(s, display) == s.plain /\ display \notin Unoffered

\* Mutant: one file too many.
Full_Late == Cardinality(files) > MaxFiles

Full == Cardinality(files) = MaxFiles

\* "done" and "limit" stand for the two results.
Scan ==
  LET s == slots[at]
      display == Display(name, s.alias)
      more == /\ at' = at + 1 /\ UNCHANGED doing
  IN /\ doing = "list" /\ at <= Len(slots)
     /\ \/ at > MaxScan /\ doing' = "limit" /\ UNCHANGED <<at, name, files>>
        \/ at <= MaxScan /\ s.is = "deleted" /\ more /\ name' = Reset(name) /\ UNCHANGED files
        \/ at <= MaxScan /\ s.is = "part" /\ more /\ name' = TakeSlot(name, s) /\ UNCHANGED files
        \/ /\ at <= MaxScan /\ s.is = "entry" /\ name' = Reset(name)
           /\ \/ ~Offered(s, display) /\ more /\ UNCHANGED files
              \/ /\ Offered(s, display) /\ ~Full
                 /\ more /\ files' = files \cup {[name |-> display, slot |-> at]}
              \/ /\ Offered(s, display) /\ Full
                 /\ doing' = "limit" /\ UNCHANGED <<at, files>>
     /\ UNCHANGED card

ScanEnds ==
  /\ doing = "list" /\ at = Len(slots) + 1 /\ doing' = "done"
  /\ UNCHANGED <<at, name, files, card>>

\* A read error; a listing that is not whole is not given out.
ScanFails ==
  /\ doing = "list" /\ doing' = "idle"
  /\ files' = {} /\ UNCHANGED <<at, name, card>>

Listed ==
  /\ doing \in {"done", "limit"} /\ doing' = "idle"
  /\ files' = {} /\ UNCHANGED <<at, name, card>>

-----------------------------------------------------------------------------
(* write_signed                                                            *)

listing == <<name, files>>

WriteSigned ==
  /\ doing = "idle" /\ export < MaxExports
  /\ doing' = "probe" /\ at' = 0 /\ export' = export + 1
  /\ UNCHANGED <<slots, content, told, misread, listing>>

\* Opened for reading, a name whose lookup fails is NotFound like one that is
\* not there.
Lookup(free) ==
  \/ free = ~Present(at) /\ UNCHANGED misread
  \/ free = TRUE /\ misread' = TRUE

\* Mutant: only the first name is looked up.
Probe_FirstOnly ==
  /\ doing = "probe"
  /\ \E free \in BOOLEAN :
       /\ Lookup(free)
       /\ doing' = (IF free \/ at < MaxIndex THEN "open" ELSE "idle")
       /\ at' = IF ~free /\ at < MaxIndex THEN at + 1 ELSE at
  /\ UNCHANGED <<slots, content, export, told, listing>>

Probe ==
  /\ doing = "probe"
  /\ \E free \in BOOLEAN :
       /\ Lookup(free)
       /\ doing' = (IF free THEN "open" ELSE IF at < MaxIndex THEN "probe" ELSE "idle")
       /\ at' = IF ~free /\ at < MaxIndex THEN at + 1 ELSE at
  /\ UNCHANGED <<slots, content, export, told, listing>>

\* ReadWriteCreateOrTruncate: what the lookup finds is truncated; what it
\* does not find, or fails to, is created.
Open ==
  /\ doing = "open" /\ doing' = "write"
  /\ \/ Present(at) /\ UNCHANGED <<slots, misread>>
     \/ ~Present(at) /\ slots' = WithEntry(at) /\ UNCHANGED misread
     \/ slots' = WithEntry(at) /\ misread' = TRUE
  /\ content' = [content EXCEPT ![at] = [by |-> export, chunks |-> 0]]
  /\ UNCHANGED <<at, export, told, listing>>

\* Reads and writes that fail; what has been written stays.
ExportFails ==
  /\ doing \in {"probe", "open", "write"} /\ doing' = "idle"
  /\ UNCHANGED <<at, card, listing>>

Write ==
  /\ doing = "write" /\ content[at].chunks < Chunks
  /\ content' = [content EXCEPT ![at].chunks = @ + 1]
  /\ UNCHANGED <<slots, doing, at, export, told, misread, listing>>

Close ==
  /\ doing = "write" /\ content[at].chunks = Chunks
  /\ doing' = "idle" /\ told' = told \cup {[alias |-> at, by |-> export]}
  /\ UNCHANGED <<slots, content, at, export, misread, listing>>

PowerLoss ==
  /\ doing # "idle" /\ doing' = "idle"
  /\ files' = {} /\ UNCHANGED <<at, name, card>>

-----------------------------------------------------------------------------

Next ==
  \/ List \/ Scan \/ ScanEnds \/ ScanFails \/ Listed
  \/ WriteSigned \/ Probe \/ Open \/ Write \/ Close \/ ExportFails
  \/ PowerLoss

Spec == Init /\ [][Next]_vars

-----------------------------------------------------------------------------
(* Properties                                                              *)

\* Types; a long name being assembled has room for the parts it waits for,
\* and no listing is longer than MAX_PSBT_FILES, each of a file.
TypeOK ==
  /\ slots \in Seq(Slot) /\ content \in [Alias -> [by : 0 .. MaxExports, chunks : 0 .. Chunks]]
  /\ doing \in {"idle", "list", "done", "limit", "probe", "open", "write"}
  /\ at \in Nat
  /\ doing \in {"probe", "open", "write"} => at <= MaxIndex
  /\ name \in [units : Seq(Pieces \cup {0}), next : Nat, sum : Sums \cup {0}]
  /\ name.next <= Len(name.units)
  /\ Cardinality(files) <= MaxFiles /\ \A file \in files : file.slot \in Entries(slots)
  /\ export \in 0 .. MaxExports /\ misread \in BOOLEAN
  /\ told \subseteq [alias : Alias, by : 0 .. MaxExports]

\* The slots before an entry that are the whole of a long name for it: from
\* the flagged part down to part 1, each with the checksum of its alias.
NamedBy(i, k) ==
  /\ k \in 1 .. i - 1
  /\ \A j \in 1 .. k : LET s == slots[i - j] IN s.is = "part" /\ s.index = j /\ s.sum = Sum[slots[i].alias]
  /\ slots[i - k].last
  /\ \A j \in 1 .. k - 1 : ~slots[i - j].last

Pieced(i, k) == [j \in 1 .. k |-> slots[i - j].piece]

\* The name an entry has: its long one if it has one that is text.
OwnName(i) ==
  IF \E k \in 1 .. i - 1 : NamedBy(i, k) /\ IsText(Pieced(i, k))
  THEN Pieced(i, CHOOSE k \in 1 .. i - 1 : NamedBy(i, k))
  ELSE <<slots[i].alias>>

\* The listing names every file that is offered, once, by its own name: no
\* long name another computer left behind, torn or whole, is put on another
\* file, whatever deleted slots and exports lie between (list, LongName::slot
\* and finish).
ListedByOwnName ==
  doing = "done" =>
    files = {[name |-> OwnName(i), slot |-> i] :
               i \in {j \in Entries(slots) : Offered(slots[j], OwnName(j))}}

\* A file that was there, and an export that has been reported, is whole, and
\* no later export, finished, failed or cut by a power loss, touches it, as
\* long as no lookup has failed (write_signed: "A previous export is never
\* overwritten").
ExportsAreKept ==
  ~misread => \A one \in told : content[one.alias] = Whole(one.by)

=============================================================================
