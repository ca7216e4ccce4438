--------------------------- MODULE PsbtCardProofs ---------------------------
(***************************************************************************)
(* What holds of the PSBTs on the card for every directory another         *)
(* computer can leave, every number of names, files and exports.           *)
(***************************************************************************)
EXTENDS PsbtCard, FiniteSetTheorems, SequenceTheorems, TLAPS

USE PsbtCardAssumption

\* Files are named while a listing is made or given out, and only then; a
\* listing starts with the first slot.
ListingInv ==
  /\ IsFiniteSet(files)
  /\ doing \notin {"list", "done", "limit"} => files = {}
  /\ doing = "list" => at >= 1

TypeInv == TypeOK /\ ListingInv

-----------------------------------------------------------------------------
(* The steps of the listing leave the card as it is, and those of the      *)
(* export leave the listing.                                               *)

LEMMA InitTypes == Init => TypeInv
<1> SUFFICES ASSUME Init PROVE TypeInv
  OBVIOUS
<1>1. slots \in Seq(Slot)
  BY DEF Init
<1>2. content \in [Alias -> [by : 0 .. MaxExports, chunks : 0 .. Chunks]]
  BY DEF Init, Whole, None
<1>3. name \in [units : Seq(Pieces \cup {0}), next : Nat, sum : Sums \cup {0}]
      /\ name.next <= Len(name.units)
  BY DEF Init, NoName
<1>4. IsFiniteSet(files) /\ Cardinality(files) = 0 /\ files = {}
  BY FS_EmptySet DEF Init
<1>5. told \subseteq [alias : Alias, by : 0 .. MaxExports]
  <2> SUFFICES ASSUME NEW one \in told PROVE one \in [alias : Alias, by : 0 .. MaxExports]
    OBVIOUS
  <2>1. PICK a \in Alias : one = [alias |-> a, by |-> 0]
    BY DEF Init
  <2> QED BY <2>1
<1>6. doing = "idle" /\ at = 0 /\ export = 0 /\ misread = FALSE
  BY DEF Init
<1>7. export \in 0 .. MaxExports /\ at \in Nat /\ Cardinality(files) <= MaxFiles
  BY <1>4, <1>6
<1> QED BY <1>1, <1>2, <1>3, <1>4, <1>5, <1>6, <1>7, Zenon DEF TypeInv, TypeOK, ListingInv

\* A name that is dropped has no parts and waits for none.
LEMMA EmptyName ==
  ASSUME NEW S, NEW T, NEW n \in [units : Seq(S), next : Nat, sum : T],
         NEW e \in Seq(S), Len(e) = 0
  PROVE  /\ [n EXCEPT !.next = 0, !.units = e] \in [units : Seq(S), next : Nat, sum : T]
         /\ [n EXCEPT !.next = 0, !.units = e].next <= Len([n EXCEPT !.next = 0, !.units = e].units)
<1>1. [n EXCEPT !.next = 0, !.units = e].next = 0 /\ [n EXCEPT !.next = 0, !.units = e].units = e
  OBVIOUS
<1>2. [n EXCEPT !.next = 0, !.units = e] \in [units : Seq(S), next : Nat, sum : T]
  OBVIOUS
<1> QED BY <1>1, <1>2

\* A slot of a long name keeps the name's room.
LEMMA TakeSlotTypes ==
  ASSUME NEW n \in [units : Seq(Pieces \cup {0}), next : Nat, sum : Sums \cup {0}],
         n.next <= Len(n.units), NEW s \in Slot
  PROVE  /\ TakeSlot(n, s) \in [units : Seq(Pieces \cup {0}), next : Nat, sum : Sums \cup {0}]
         /\ TakeSlot(n, s).next <= Len(TakeSlot(n, s).units)
<1> DEFINE Names == [units : Seq(Pieces \cup {0}), next : Nat, sum : Sums \cup {0}]
           b == Begun(n, s)
           Wrong == s.index = 0 \/ b.units = <<>> \/ s.index # b.next \/ s.sum # b.sum
<1>0. s.index \in Nat /\ s.sum \in Sums \cup {0} /\ s.piece \in Pieces \cup {0}
  BY DEF Slot
<1>1. b \in Names /\ b.next <= Len(b.units)
  <2>1. CASE ~s.last
    BY <2>1 DEF Begun
  <2>2. CASE s.last
    <3> DEFINE blank == [k \in 1 .. s.index |-> 0]
    <3>1. blank \in Seq(Pieces \cup {0}) /\ Len(blank) = s.index
      BY <1>0, IsASeq
    <3>2. b = [units |-> blank, next |-> s.index, sum |-> s.sum]
      BY <2>2 DEF Begun
    <3> HIDE DEF blank
    <3> QED BY <1>0, <3>1, <3>2
  <2> QED BY <2>1, <2>2
<1> HIDE DEF b
<1>2. Reset(b) \in Names /\ Reset(b).next <= Len(Reset(b).units)
  <2>1. \A e : e = <<>> => e \in Seq(Pieces \cup {0}) /\ Len(e) = 0
    BY EmptySeq
  <2>2. Reset(b) = [b EXCEPT !.next = 0, !.units = <<>>]
    BY DEF Reset
  <2>3. ASSUME NEW e, e = <<>>
        PROVE  /\ [b EXCEPT !.next = 0, !.units = e] \in Names
               /\ [b EXCEPT !.next = 0, !.units = e].next
                    <= Len([b EXCEPT !.next = 0, !.units = e].units)
    <3>1. e \in Seq(Pieces \cup {0}) /\ Len(e) = 0
      BY <2>1, <2>3
    <3> DEFINE P == Pieces \cup {0}
               S == Sums \cup {0}
    <3>2. b \in [units : Seq(P), next : Nat, sum : S] /\ e \in Seq(P)
      BY <1>1, <3>1
    <3> HIDE DEF P, S
    <3>3. /\ [b EXCEPT !.next = 0, !.units = e] \in [units : Seq(P), next : Nat, sum : S]
          /\ [b EXCEPT !.next = 0, !.units = e].next
               <= Len([b EXCEPT !.next = 0, !.units = e].units)
      BY <3>1, <3>2, EmptyName
    <3> QED BY <3>3 DEF P, S
  <2> QED BY <2>2, <2>3, Zenon
<1>3. CASE Wrong
  BY <1>2, <1>3 DEF TakeSlot, b
<1>4. CASE ~Wrong
  <2> DEFINE new == [b EXCEPT !.units[s.index] = s.piece, !.next = @ - 1]
  <2>1. TakeSlot(n, s) = new
    BY <1>4 DEF TakeSlot, b
  <2>2. [b.units EXCEPT ![s.index] = s.piece] \in Seq(Pieces \cup {0})
        /\ Len([b.units EXCEPT ![s.index] = s.piece]) = Len(b.units)
    <3>1. s.index \in 1 .. Len(b.units)
      BY <1>0, <1>1, <1>4, LenProperties
    <3> QED BY <1>0, <1>1, <3>1, ExceptSeq
  <2>3. b.next - 1 \in Nat /\ b.next - 1 <= Len(b.units)
    BY <1>0, <1>1, <1>4
  <2> QED BY <1>1, <2>1, <2>2, <2>3
<1> QED BY <1>3, <1>4

-----------------------------------------------------------------------------

\* A directory with one more entry is one.
LEMMA WithEntryTypes ==
  ASSUME slots \in Seq(Slot), NEW alias \in Alias
  PROVE  WithEntry(alias) \in Seq(Slot)
<1>1. Entry(alias) \in Slot
  BY DEF Entry, Slot
<1>2. CASE Free = {}
  BY <1>1, <1>2, AppendProperties DEF WithEntry
<1>3. CASE Free # {}
  <2> DEFINE i == CHOOSE k \in Free : \A j \in Free : k <= j
  <2>1. WithEntry(alias) = [slots EXCEPT ![i] = Entry(alias)]
    BY <1>3 DEF WithEntry
  <2> HIDE DEF i
  <2>2. slots \in [1 .. Len(slots) -> Slot] /\ Len(slots) \in Nat
    BY LenProperties
  <2>3. [slots EXCEPT ![i] = Entry(alias)] \in [1 .. Len(slots) -> Slot]
    BY <1>1, <2>2
  <2> QED BY <2>1, <2>2, <2>3
<1> QED BY <1>2, <1>3

\* The listing: the card stays, and each file named is an entry of it.
LEMMA ScanTypes == TypeInv /\ Scan => TypeInv'
<1> SUFFICES ASSUME TypeInv, Scan PROVE TypeInv'
  OBVIOUS
<1> DEFINE s == slots[at]
           display == Display(name, s.alias)
           named == [name |-> display, slot |-> at]
           Names == [units : Seq(Pieces \cup {0}), next : Nat, sum : Sums \cup {0}]
<1>0. doing = "list" /\ at \in Nat /\ at >= 1 /\ at <= Len(slots) /\ slots \in Seq(Slot)
  BY DEF Scan, TypeInv, TypeOK, ListingInv
<1>1. slots' = slots /\ content' = content /\ export' = export /\ told' = told /\ misread' = misread
  BY DEF Scan, card
<1>2. s \in Slot /\ at \in DOMAIN slots
  BY <1>0, ElementOfSeq, LenProperties
<1>3. name \in Names /\ name.next <= Len(name.units)
  BY DEF TypeInv, TypeOK
<1>4. name' \in Names /\ name'.next <= Len(name'.units)
  <2> HIDE DEF Names
  <2>1. name' \in {name, Reset(name), TakeSlot(name, s)}
    BY DEF Scan
  <2>2. Reset(name) = [name EXCEPT !.next = 0, !.units = <<>>]
    BY DEF Reset
  <2>3. Reset(name) \in Names /\ Reset(name).next <= Len(Reset(name).units)
    BY <1>3, <2>2, EmptyName, EmptySeq DEF Names
  <2>4. TakeSlot(name, s) \in Names /\ TakeSlot(name, s).next <= Len(TakeSlot(name, s).units)
    BY <1>2, <1>3, TakeSlotTypes DEF Names
  <2> QED BY <1>3, <2>1, <2>3, <2>4
<1>5. at' \in Nat /\ at' >= 1 /\ doing' \in {"list", "limit"}
  BY <1>0 DEF Scan
<1>6. files' = files \/ (s.is = "entry" /\ ~Full /\ files' = files \cup {named})
  BY DEF Scan
<1>7. IsFiniteSet(files) /\ Cardinality(files) <= MaxFiles /\ Cardinality(files) \in Nat
  BY FS_CardinalityType DEF TypeInv, TypeOK, ListingInv
<1>8. IsFiniteSet(files') /\ Cardinality(files') <= MaxFiles
  <2>1. CASE files' = files
    BY <1>7, <2>1
  <2>2. CASE ~Full /\ files' = files \cup {named}
    <3> HIDE DEF named
    <3>1. /\ IsFiniteSet(files')
          /\ Cardinality(files') = Cardinality(files) \/ Cardinality(files') = Cardinality(files) + 1
      BY <1>7, <2>2, FS_AddElement
    <3>2. Cardinality(files) # MaxFiles
      BY <2>2 DEF Full
    <3> QED BY <1>7, <3>1, <3>2
  <2> QED BY <1>6, <2>1, <2>2
<1>9. \A file \in files' : file.slot \in Entries(slots')
  BY <1>1, <1>2, <1>6 DEF TypeInv, TypeOK, Entries
<1>10. doing' \notin {"probe", "open", "write"}
  BY <1>5
<1> QED
  BY <1>1, <1>4, <1>5, <1>8, <1>9, <1>10, Zenon DEF TypeInv, TypeOK, ListingInv

LEMMA ListingTypes == TypeInv /\ (List \/ ScanEnds \/ ScanFails \/ Listed) => TypeInv'
<1> SUFFICES ASSUME TypeInv, List \/ ScanEnds \/ ScanFails \/ Listed PROVE TypeInv'
  OBVIOUS
<1>1. UNCHANGED <<slots, content, export, told, misread>>
  BY DEF List, ScanEnds, ScanFails, Listed, card
<1>2. name' = name \/ name' = NoName
  BY DEF List, ScanEnds, ScanFails, Listed
<1>3. name' \in [units : Seq(Pieces \cup {0}), next : Nat, sum : Sums \cup {0}]
      /\ name'.next <= Len(name'.units)
  <2>1. NoName \in [units : Seq(Pieces \cup {0}), next : Nat, sum : Sums \cup {0}]
        /\ NoName.next = 0 /\ NoName.units = <<>>
    BY EmptySeq DEF NoName
  <2>2. NoName.next <= Len(NoName.units)
    BY <2>1, EmptySeq
  <2> QED BY <1>2, <2>1, <2>2 DEF TypeInv, TypeOK
<1>4. files' = files \/ files' = {}
  BY DEF List, ScanEnds, ScanFails, Listed
<1>5. IsFiniteSet(files') /\ Cardinality(files') <= MaxFiles
  <2>1. IsFiniteSet({}) /\ Cardinality({}) <= MaxFiles
    BY FS_EmptySet
  <2> QED BY <1>4, <2>1 DEF TypeInv, TypeOK, ListingInv
<1>6. \A file \in files' : file.slot \in Entries(slots')
  BY <1>1, <1>4 DEF TypeInv, TypeOK, Entries
<1>7. /\ at' \in Nat
      /\ doing' \in {"idle", "list", "done", "limit"}
      /\ doing' \notin {"list", "done", "limit"} => files' = {}
      /\ doing' = "list" => at' >= 1
  BY DEF List, ScanEnds, ScanFails, Listed, TypeInv, TypeOK, ListingInv
<1> QED
  BY <1>1, <1>3, <1>5, <1>6, <1>7, Zenon DEF TypeInv, TypeOK, ListingInv

-----------------------------------------------------------------------------
(* The export: no listing is at hand.                                      *)

LEMMA ExportTypes ==
  TypeInv /\ (WriteSigned \/ Probe \/ Open \/ Write \/ Close \/ ExportFails \/ PowerLoss)
    => TypeInv'
<1> SUFFICES ASSUME TypeInv, WriteSigned \/ Probe \/ Open \/ Write \/ Close \/ ExportFails \/ PowerLoss
             PROVE  TypeInv'
  OBVIOUS
<1>1. name' = name /\ files' \in {files, {}}
  BY DEF WriteSigned, Probe, Open, Write, Close, ExportFails, PowerLoss, listing
<1>2. files' = {} /\ IsFiniteSet(files') /\ Cardinality(files') = 0
  BY FS_EmptySet DEF TypeInv, ListingInv,
     WriteSigned, Probe, Open, Write, Close, ExportFails, PowerLoss, listing
<1>3. at' \in Nat /\ doing' \in {"idle", "probe", "open", "write"}
      /\ (doing' \in {"probe", "open", "write"} => at' <= MaxIndex)
  <2>0. at \in Nat /\ (doing \in {"probe", "open", "write"} => at <= MaxIndex)
    BY DEF TypeInv, TypeOK
  <2>1. CASE WriteSigned
    BY <2>0, <2>1 DEF WriteSigned
  <2>2. CASE Probe
    BY <2>0, <2>2 DEF Probe
  <2>3. CASE Open \/ Write \/ Close
    BY <2>0, <2>3 DEF Open, Write, Close
  <2>4. CASE ExportFails \/ PowerLoss
    BY <2>0, <2>4 DEF ExportFails, PowerLoss
  <2> QED BY <2>1, <2>2, <2>3, <2>4
<1>4. doing = "open" \/ doing = "write" => at \in Alias
  BY DEF TypeInv, TypeOK
<1>5. slots' \in Seq(Slot)
  BY <1>4, WithEntryTypes
  DEF TypeInv, TypeOK, WriteSigned, Probe, Open, Write, Close, ExportFails, PowerLoss, card
<1>6. content' \in [Alias -> [by : 0 .. MaxExports, chunks : 0 .. Chunks]]
  <2>1. CASE Open
    BY <1>4, <2>1 DEF Open, TypeInv, TypeOK
  <2>2. CASE Write
    <3> DEFINE File == [by : 0 .. MaxExports, chunks : 0 .. Chunks]
    <3>1. content \in [Alias -> File] /\ at \in Alias /\ content[at] \in File
          /\ content[at].chunks < Chunks /\ content' = [content EXCEPT ![at].chunks = @ + 1]
      BY <1>4, <2>2 DEF Write, TypeInv, TypeOK
    <3>2. content[at] = [by |-> content[at].by, chunks |-> content[at].chunks]
      BY <3>1
    <3>3. /\ content' = [a \in Alias |-> content'[a]]
          /\ \A a \in Alias \ {at} : content'[a] = content[a]
          /\ content'[at] = [by |-> content[at].by, chunks |-> content[at].chunks + 1]
      <4>1. content'[at] = [content[at] EXCEPT !.chunks = @ + 1]
        BY <3>1
      <4> QED BY <3>1, <3>2, <4>1
    <3>5. content'[at] \in File
      BY <3>1, <3>3
    <3> HIDE DEF File
    <3>4. content' \in [Alias -> File]
      BY <3>1, <3>3, <3>5
    <3> QED BY <3>4 DEF File
  <2>3. CASE content' = content
    BY <2>3 DEF TypeInv, TypeOK
  <2> QED BY <2>1, <2>2, <2>3 DEF WriteSigned, Probe, Close, ExportFails, PowerLoss, card
<1>7. export' \in 0 .. MaxExports
  BY DEF TypeInv, TypeOK, WriteSigned, Probe, Open, Write, Close, ExportFails, PowerLoss, card
<1>8. misread' \in BOOLEAN
  BY DEF TypeInv, TypeOK, WriteSigned, Probe, Lookup, Open, Write, Close, ExportFails, PowerLoss, card
<1>9. told' \subseteq [alias : Alias, by : 0 .. MaxExports]
  <2>1. told' = told \/ (Close /\ told' = told \cup {[alias |-> at, by |-> export]})
    BY DEF WriteSigned, Probe, Open, Write, Close, ExportFails, PowerLoss, card
  <2>2. Close => [alias |-> at, by |-> export] \in [alias : Alias, by : 0 .. MaxExports]
    BY <1>4 DEF Close, TypeInv, TypeOK
  <2> QED BY <2>1, <2>2 DEF TypeInv, TypeOK
<1>10. MaxFiles >= 0 /\ Cardinality(files') <= MaxFiles
  BY <1>2
<1>11. \A file \in files' : file.slot \in Entries(slots')
  BY <1>2
<1>12. name' \in [units : Seq(Pieces \cup {0}), next : Nat, sum : Sums \cup {0}]
       /\ name'.next <= Len(name'.units)
  BY <1>1 DEF TypeInv, TypeOK
<1> QED
  BY <1>2, <1>3, <1>5, <1>6, <1>7, <1>8, <1>9, <1>10, <1>11, <1>12, Zenon
  DEF TypeInv, TypeOK, ListingInv

LEMMA TypeStep == TypeInv /\ [Next]_vars => TypeInv'
<1>1. TypeInv /\ UNCHANGED vars => TypeInv'
  <2> SUFFICES ASSUME TypeInv, UNCHANGED vars PROVE TypeInv'
    OBVIOUS
  <2>1. UNCHANGED <<slots, content, doing, at, name, files, export, told, misread>>
    BY DEF vars
  <2> QED BY <2>1, Zenon DEF TypeInv, TypeOK, ListingInv, Entries
<1> QED BY <1>1, ScanTypes, ListingTypes, ExportTypes DEF Next

\* The variables of the card and of the signer keep their types, whatever
\* directory the signer finds; no listing is too long, and each file of one is
\* there.
THEOREM TypeCorrect == Spec => []TypeOK
<1>1. TypeInv => TypeOK
  BY DEF TypeInv
<1> QED BY <1>1, InitTypes, TypeStep, PTL DEF Spec

-----------------------------------------------------------------------------
(* A set of numbers has a least one.  Of the intervals that begin at 0 and *)
(* end in the set, one is within all others.                               *)

LEMMA FirstExists ==
  ASSUME NEW T \in SUBSET Nat, T # {}
  PROVE  \E i \in T : \A j \in T : i <= j
<1>1. PICK n \in T : TRUE
  OBVIOUS
<1> DEFINE R == StrictSubsetOrdering(0 .. n)
           S == FiniteSubsetsOf(0 .. n)
           Up == {0 .. i : i \in {k \in T : k <= n}}
<1>2. IsWellFoundedOn(R, S)
  BY FS_Interval, FS_StrictSubsetOrderingWellFounded
<1>3. Up \subseteq S /\ Up # {}
  <2>1. \A i \in 0 .. n : 0 .. i \subseteq 0 .. n /\ IsFiniteSet(0 .. i)
    BY FS_Interval
  <2> QED BY <1>1, <2>1 DEF FiniteSubsetsOf
<1>4. \A x, y \in S : x \subseteq y /\ x # y => <<x, y>> \in R
  BY DEF StrictSubsetOrdering, FiniteSubsetsOf
<1>5. PICK x \in Up : \A y \in Up : ~(<<y, x>> \in R)
  <2> HIDE DEF R, S, Up
  <2> QED BY <1>2, <1>3, WFMin
<1>6. PICK i \in T : i <= n /\ x = 0 .. i
  BY <1>5
<1>7. \A j \in T : j < i => FALSE
  <2> SUFFICES ASSUME NEW j \in T, j < i PROVE FALSE
    OBVIOUS
  <2>1. 0 .. j \in Up
    BY <1>6
  <2>2. 0 .. j \subseteq 0 .. i /\ 0 .. j # 0 .. i
    BY <1>6
  <2> QED BY <1>3, <1>4, <1>5, <1>6, <2>1, <2>2
<1> QED BY <1>6, <1>7

\* A new entry takes no other's place, and is then there.
LEMMA WithEntryKeeps ==
  ASSUME slots \in Seq(Slot), NEW alias \in Alias, slots' = WithEntry(alias)
  PROVE  /\ \A a : Present(a) => Present(a)'
         /\ Present(alias)'
<1>0. Len(slots) \in Nat /\ DOMAIN slots = 1 .. Len(slots)
  BY LenProperties
<1>1. Entry(alias) \in Slot /\ Entry(alias).is = "entry" /\ Entry(alias).alias = alias
  BY DEF Entry, Slot
<1>2. \A i \in Free : i \in DOMAIN slots /\ slots[i].is = "deleted"
  BY DEF Free
<1>3. ASSUME NEW i \in DOMAIN slots \cup {Len(slots) + 1}, i \in DOMAIN slots => i \in Free,
             i \in DOMAIN slots', slots'[i] = Entry(alias),
             \A j \in DOMAIN slots : j \in DOMAIN slots' /\ (j # i => slots'[j] = slots[j])
      PROVE  (\A a : Present(a) => Present(a)') /\ Present(alias)'
  <2>1. Present(alias)'
    BY <1>1, <1>3 DEF Present, Entries
  <2>2. ASSUME NEW a, Present(a) PROVE Present(a)'
    <3>1. PICK j \in Entries(slots) : slots[j].alias = a
      BY <2>2 DEF Present
    <3>2. j \in DOMAIN slots /\ slots[j].is = "entry"
      BY <3>1 DEF Entries
    <3>3. j # i
      BY <1>2, <1>3, <3>2
    <3> QED BY <1>3, <3>1, <3>2, <3>3 DEF Present, Entries
  <2> QED BY <2>1, <2>2
<1>4. CASE Free = {}
  <2>1. slots' = Append(slots, Entry(alias))
    BY <1>4 DEF WithEntry
  <2>2. /\ DOMAIN slots' = 1 .. Len(slots) + 1
        /\ slots'[Len(slots) + 1] = Entry(alias)
        /\ \A j \in DOMAIN slots : slots'[j] = slots[j]
    BY <1>0, <1>1, <2>1, AppendProperties
  <2> QED BY <1>0, <1>3, <2>2
<1>5. CASE Free # {}
  <2> DEFINE First(i) == i \in Free /\ \A j \in Free : i <= j
             i == CHOOSE k \in Free : \A j \in Free : k <= j
  <2>1. Free \in SUBSET Nat
    BY <1>0, <1>2
  <2>2. i \in Free
    BY <1>5, <2>1, FirstExists
  <2>3. slots' = [slots EXCEPT ![i] = Entry(alias)]
    BY <1>5 DEF WithEntry
  <2> HIDE DEF i
  <2>4. i \in DOMAIN slots
    BY <1>2, <2>2
  <2>5. /\ DOMAIN slots' = DOMAIN slots /\ slots'[i] = Entry(alias)
        /\ \A j \in DOMAIN slots : j # i => slots'[j] = slots[j]
    BY <1>0, <2>3, <2>4
  <2> QED BY <1>3, <2>2, <2>4, <2>5
<1> QED BY <1>4, <1>5

-----------------------------------------------------------------------------

\* As long as no lookup has failed: what has been told is there and whole; the
\* name an export has found is free; the file it writes is its own.
ToldInv == \A one \in told : Present(one.alias) /\ content[one.alias] = Whole(one.by)
FreeInv == doing = "open" => ~Present(at)
OwnInv ==
  doing = "write" =>
    Present(at) /\ content[at].by = export /\ \A one \in told : one.alias # at

KeptInv == ~misread => ToldInv /\ FreeInv /\ OwnInv

LEMMA InitKept == Init => KeptInv
<1> SUFFICES ASSUME Init PROVE KeptInv
  OBVIOUS
<1>1. doing = "idle"
  BY DEF Init
<1>2. ASSUME NEW one \in told PROVE Present(one.alias) /\ content[one.alias] = Whole(one.by)
  <2>1. PICK a \in Alias : Present(a) /\ one = [alias |-> a, by |-> 0]
    BY <1>2 DEF Init
  <2>2. one.alias = a /\ one.by = 0
    BY <2>1
  <2>3. content[a] = Whole(0)
    BY <2>1 DEF Init
  <2> QED BY <2>1, <2>2, <2>3
<1> QED BY <1>1, <1>2 DEF KeptInv, ToldInv, FreeInv, OwnInv

\* What does not touch the card and is no export keeps it all.
LEMMA IdleKeeps ==
  ASSUME KeptInv, UNCHANGED <<slots, content, told>>, misread => misread',
         doing' \notin {"open", "write"}
  PROVE  KeptInv'
<1>1. ToldInv => ToldInv'
  BY DEF ToldInv, Present, Entries
<1> QED BY <1>1 DEF KeptInv, FreeInv, OwnInv

LEMMA KeptStep == TypeInv /\ KeptInv /\ [Next]_vars => KeptInv'
<1> SUFFICES ASSUME TypeInv, KeptInv, [Next]_vars PROVE KeptInv'
  OBVIOUS
<1>0. /\ slots \in Seq(Slot)
      /\ content \in [Alias -> [by : 0 .. MaxExports, chunks : 0 .. Chunks]]
      /\ misread \in BOOLEAN
      /\ told \subseteq [alias : Alias, by : 0 .. MaxExports]
      /\ at \in Nat /\ (doing \in {"probe", "open", "write"} => at <= MaxIndex)
  BY Zenon DEF TypeInv, TypeOK
<1>a. doing \in {"probe", "open", "write"} => at \in Alias
  BY <1>0
<1>1. CASE List \/ Scan \/ ScanEnds \/ ScanFails \/ Listed \/ WriteSigned \/ ExportFails \/ PowerLoss
  <2>1. UNCHANGED <<slots, content, told, misread>> /\ doing' \notin {"open", "write"}
    BY <1>1 DEF List, Scan, ScanEnds, ScanFails, Listed, WriteSigned, ExportFails, PowerLoss, card
  <2> QED BY <2>1, IdleKeeps
<1>2. CASE Probe
  <2>1. UNCHANGED <<slots, content, told>> /\ doing' # "write"
    BY <1>2 DEF Probe
  <2>2. CASE doing' # "open"
    <3>1. misread => misread'
      BY <1>2 DEF Probe, Lookup
    <3> QED BY <2>1, <2>2, <3>1, IdleKeeps
  <2>3. CASE doing' = "open" /\ ~misread'
    <3>1. at' = at /\ ~misread /\ ~Present(at)
      BY <1>2, <2>3 DEF Probe, Lookup
    <3>2. ToldInv' /\ FreeInv' /\ OwnInv'
      BY <2>1, <3>1 DEF KeptInv, ToldInv, FreeInv, OwnInv, Present, Entries
    <3> QED BY <3>2 DEF KeptInv
  <2> QED BY <2>2, <2>3 DEF KeptInv
<1>3. CASE Open
  <2> SUFFICES ASSUME ~misread' PROVE ToldInv' /\ FreeInv' /\ OwnInv'
    BY DEF KeptInv
  <2>1. ~misread /\ ~Present(at) /\ at \in Alias
    BY <1>a, <1>3 DEF Open, KeptInv, FreeInv
  <2>a. PICK b \in Alias : b = at
    BY <2>1
  <2>2. slots' = WithEntry(b)
    BY <1>3, <2>1, <2>a DEF Open
  <2>3. (\A a : Present(a) => Present(a)') /\ Present(b)'
    BY <1>0, <2>2, WithEntryKeeps
  <2>4. /\ doing' = "write" /\ at' = at /\ told' = told /\ export' = export
        /\ content'[at] = [by |-> export, chunks |-> 0]
        /\ \A a \in Alias \ {at} : content'[a] = content[a]
    BY <1>0, <1>3, <2>1 DEF Open
  <2>5. \A one \in told : one.alias \in Alias /\ one.alias # at /\ Present(one.alias)
                           /\ content[one.alias] = Whole(one.by)
    BY <1>0, <2>1 DEF KeptInv, ToldInv
  <2>6. ToldInv'
    BY <2>3, <2>4, <2>5 DEF ToldInv, Whole
  <2>7. FreeInv'
    BY <2>4 DEF FreeInv
  <2>8. OwnInv'
    <3>1. b = at' /\ Present(at)'
      BY <2>a, <2>3, <2>4 DEF Present
    <3> QED BY <2>4, <2>5, <3>1 DEF OwnInv
  <2> QED BY <2>6, <2>7, <2>8
<1>4. CASE Write
  <2> SUFFICES ASSUME ~misread' PROVE ToldInv' /\ FreeInv' /\ OwnInv'
    BY DEF KeptInv
  <2>1. ~misread /\ at \in Alias /\ ToldInv /\ OwnInv /\ doing = "write"
    BY <1>a, <1>4 DEF Write, KeptInv
  <2>2. /\ doing' = "write" /\ UNCHANGED <<slots, at, told, export>>
        /\ content'[at].by = content[at].by
        /\ \A a \in Alias \ {at} : content'[a] = content[a]
    <3>1. content' = [content EXCEPT ![at].chunks = @ + 1]
      BY <1>4 DEF Write
    <3> QED BY <1>0, <1>4, <2>1, <3>1 DEF Write
  <2>3. \A a : Present(a)' = Present(a)
    BY <2>2 DEF Present, Entries
  <2> QED BY <1>0, <2>1, <2>2, <2>3 DEF ToldInv, FreeInv, OwnInv, Whole
<1>5. CASE Close
  <2> SUFFICES ASSUME ~misread' PROVE ToldInv' /\ FreeInv' /\ OwnInv'
    BY DEF KeptInv
  <2>1. ~misread /\ at \in Alias /\ ToldInv /\ OwnInv /\ doing = "write"
    BY <1>a, <1>5 DEF Close, KeptInv
  <2>2. content[at] = [by |-> export, chunks |-> Chunks]
    BY <1>0, <1>5, <2>1 DEF Close, OwnInv
  <2>3. doing' = "idle" /\ UNCHANGED <<slots, content>>
        /\ told' = told \cup {[alias |-> at, by |-> export]}
    BY <1>5 DEF Close
  <2>4. \A a : Present(a)' = Present(a)
    BY <2>3 DEF Present, Entries
  <2>5. ToldInv'
    BY <2>1, <2>2, <2>3, <2>4 DEF ToldInv, OwnInv, Whole
  <2> QED BY <2>3, <2>5 DEF FreeInv, OwnInv
<1>6. CASE UNCHANGED vars
  BY <1>6 DEF vars, KeptInv, ToldInv, FreeInv, OwnInv, Present, Entries
<1> QED BY <1>1, <1>2, <1>3, <1>4, <1>5, <1>6 DEF Next

\* A file that was on the card and an export reported as done keep their
\* content, as long as no lookup fails, however many exports follow and wherever
\* they end.
THEOREM NothingIsOverwritten == Spec => []ExportsAreKept
<1>1. KeptInv => ExportsAreKept
  BY DEF KeptInv, ToldInv, ExportsAreKept
<1> QED BY <1>1, InitTypes, TypeStep, InitKept, KeptStep, PTL DEF Spec

-----------------------------------------------------------------------------
(* The name in assembly is that of the slots before the one at hand.       *)

LongNames == [units : Seq(Pieces \cup {0}), next : Nat, sum : Sums \cup {0}]

\* The k slots of dir before slot a are the parts t + k, ..., t + 1 of a name
\* of t + k parts with the checksum c.
Run(dir, a, k, t, c) ==
  /\ k \in 1 .. a - 1
  /\ \A j \in 1 .. k : dir[a - j].is = "part" /\ dir[a - j].index = t + j /\ dir[a - j].sum = c
  /\ dir[a - k].last
  /\ \A j \in 1 .. k - 1 : ~dir[a - j].last

\* n is the name of those parts.
Holds(dir, n, a, k, t, c) ==
  /\ Len(n.units) = t + k /\ n.next = t /\ n.sum = c
  /\ \A j \in 1 .. k : n.units[t + j] = dir[a - j].piece

\* n is the name the slots before a are parts of, if there is one, and empty
\* if there is none.
Known(dir, a, n) ==
  /\ \A k, t \in Nat, c \in Sums \cup {0} : Run(dir, a, k, t, c) => Holds(dir, n, a, k, t, c)
  /\ n.units # <<>> => \E k \in Nat : Run(dir, a, k, n.next, n.sum)

\* Without its last slot a run is still one, of a name with one part more to come.
LEMMA RunShrinks ==
  ASSUME NEW dir, NEW a \in Nat, NEW k \in Nat, NEW t \in Nat, NEW c,
         k > 1, Run(dir, a + 1, k, t, c)
  PROVE  Run(dir, a, k - 1, t + 1, c)
<1> PICK b : b = a + 1
  OBVIOUS
<1>b. Run(dir, b, k, t, c)
  OBVIOUS
<1>1. k - 1 \in 1 .. a - 1 /\ a - (k - 1) = b - k
  <2>1. k \in 1 .. b - 1
    BY <1>b, Zenon DEF Run
  <2> QED BY <2>1
<1>2. ASSUME NEW j \in 1 .. k - 1
      PROVE  j + 1 \in 1 .. k /\ a - j = b - (j + 1) /\ t + 1 + j = t + (j + 1)
  OBVIOUS
<1>0. \A i \in 1 .. k :
        dir[b - i].is = "part" /\ dir[b - i].index = t + i /\ dir[b - i].sum = c
  BY <1>b, Zenon DEF Run
<1>3. \A j \in 1 .. k - 1 :
        dir[a - j].is = "part" /\ dir[a - j].index = t + 1 + j /\ dir[a - j].sum = c
  <2> TAKE j \in 1 .. k - 1
  <2>1. PICK i : i = j + 1 /\ i \in 1 .. k /\ a - j = b - i /\ t + 1 + j = t + i
    BY <1>2
  <2> QED BY <1>0, <2>1
<1>4. dir[a - (k - 1)].last
  <2>1. dir[b - k].last
    BY <1>b, Zenon DEF Run
  <2> QED BY <1>1, <2>1
<1>5. \A j \in 1 .. k - 1 - 1 : ~dir[a - j].last
  <2> TAKE j \in 1 .. k - 1 - 1
  <2>1. PICK i : i \in 1 .. k - 1 /\ a - j = b - i
    <3>1. j + 1 \in 1 .. k - 1 /\ a - j = b - (j + 1)
      OBVIOUS
    <3> QED BY <3>1
  <2>2. \A h \in 1 .. k - 1 : ~dir[b - h].last
    BY <1>b, Zenon DEF Run
  <2> QED BY <2>1, <2>2
<1> QED BY <1>1, <1>3, <1>4, <1>5 DEF Run

\* With the next slot it is one again.
LEMMA RunGrows ==
  ASSUME NEW dir, NEW a \in Nat, NEW k \in Nat, NEW t \in Nat, NEW c,
         Run(dir, a, k, t + 1, c),
         dir[a].is = "part", dir[a].index = t + 1, dir[a].sum = c, ~dir[a].last
  PROVE  Run(dir, a + 1, k + 1, t, c)
<1>1. k + 1 \in 1 .. a + 1 - 1 /\ a + 1 - (k + 1) = a - k /\ k >= 1
  <2>1. k \in 1 .. a - 1
    BY Zenon DEF Run
  <2> QED BY <2>1
<1>2. ASSUME NEW j \in 1 .. k + 1
      PROVE  \/ j = 1 /\ a + 1 - j = a
             \/ j - 1 \in 1 .. k /\ a + 1 - j = a - (j - 1) /\ t + 1 + (j - 1) = t + j
  BY <1>1
<1>3. \A j \in 1 .. k + 1 :
        dir[a + 1 - j].is = "part" /\ dir[a + 1 - j].index = t + j /\ dir[a + 1 - j].sum = c
  <2> TAKE j \in 1 .. k + 1
  <2>1. CASE j = 1 /\ a + 1 - j = a
    BY <2>1
  <2>2. CASE j - 1 \in 1 .. k /\ a + 1 - j = a - (j - 1) /\ t + 1 + (j - 1) = t + j
    <3>1. PICK i \in 1 .. k : a + 1 - j = a - i /\ t + 1 + i = t + j
      BY <2>2
    <3>2. dir[a - i].is = "part" /\ dir[a - i].index = t + 1 + i /\ dir[a - i].sum = c
      BY Zenon DEF Run
    <3> QED BY <3>1, <3>2
  <2> QED BY <1>2, <2>1, <2>2
<1>4. dir[a + 1 - (k + 1)].last
  BY <1>1 DEF Run
<1>5. \A j \in 1 .. k + 1 - 1 : ~dir[a + 1 - j].last
  <2> TAKE j \in 1 .. k + 1 - 1
  <2>1. \/ j = 1 /\ a + 1 - j = a
        \/ j - 1 \in 1 .. k - 1 /\ a + 1 - j = a - (j - 1)
    BY <1>1
  <2> QED BY <2>1 DEF Run
<1> QED BY <1>1, <1>3, <1>4, <1>5 DEF Run

\* A slot with the flag begins one.
LEMMA RunBegins ==
  ASSUME NEW dir, NEW a \in Nat, a >= 1, NEW t \in Nat, NEW c,
         dir[a].is = "part", dir[a].index = t + 1, dir[a].sum = c, dir[a].last
  PROVE  Run(dir, a + 1, 1, t, c)
<1>1. \A j \in 1 .. 1 : j = 1 /\ a + 1 - j = a /\ t + j = t + 1
  OBVIOUS
<1>2. 1 \in 1 .. a + 1 - 1 /\ a + 1 - 1 = a
  OBVIOUS
<1>3. \A j \in 1 .. 1 - 1 : FALSE
  OBVIOUS
<1> QED BY <1>1, <1>2, <1>3 DEF Run

\* The last slot of a run
LEMMA RunEnd ==
  ASSUME NEW dir, NEW a \in Nat, NEW k \in Nat, NEW t \in Nat, NEW c, Run(dir, a + 1, k, t, c)
  PROVE  /\ dir[a].is = "part" /\ dir[a].index = t + 1 /\ dir[a].sum = c
         /\ k = 1 => dir[a].last
         /\ k > 1 => ~dir[a].last
         /\ k >= 1
<1> PICK b : b = a + 1
  OBVIOUS
<1>b. Run(dir, b, k, t, c)
  OBVIOUS
<1>1. 1 \in 1 .. k /\ b - 1 = a /\ k >= 1
  <2>1. k \in 1 .. b - 1
    BY <1>b, Zenon DEF Run
  <2> QED BY <2>1
<1>2. k > 1 => 1 \in 1 .. k - 1
  BY <1>1
<1>3. dir[a].is = "part" /\ dir[a].index = t + 1 /\ dir[a].sum = c
  <2>1. \A j \in 1 .. k : dir[b - j].is = "part" /\ dir[b - j].index = t + j /\ dir[b - j].sum = c
    BY <1>b, Zenon DEF Run
  <2>2. dir[b - 1].is = "part" /\ dir[b - 1].index = t + 1 /\ dir[b - 1].sum = c
    BY <1>1, <2>1, Zenon
  <2> QED BY <1>1, <2>2, Zenon
<1>4. k = 1 => dir[a].last
  <2>1. dir[b - k].last
    BY <1>b, Zenon DEF Run
  <2> QED BY <1>1, <2>1, Zenon
<1>5. k > 1 => ~dir[a].last
  <2>1. \A j \in 1 .. k - 1 : ~dir[b - j].last
    BY <1>b, Zenon DEF Run
  <2>2. k > 1 => ~dir[b - 1].last
    BY <1>2, <2>1, Zenon
  <2> QED BY <1>1, <2>2, Zenon
<1> QED BY <1>1, <1>3, <1>4, <1>5

\* The slots that leave no name, and those that are the next part
Misfits(b, s) == s.index = 0 \/ b.units = <<>> \/ s.index # b.next \/ s.sum # b.sum

LEMMA ResetEmpties == \A n \in LongNames : Reset(n).units = <<>>
<1> TAKE n \in LongNames
<1>1. \A e : [n EXCEPT !.next = 0, !.units = e].units = e
  BY DEF LongNames
<1> QED BY <1>1, Zenon DEF Reset

LEMMA MisfitEmpties ==
  ASSUME NEW n, NEW s, Begun(n, s) \in LongNames, Misfits(Begun(n, s), s)
  PROVE  TakeSlot(n, s).units = <<>>
<1>1. TakeSlot(n, s) = Reset(Begun(n, s))
  BY DEF TakeSlot, Misfits
<1> QED BY <1>1, ResetEmpties

LEMMA PartIsTaken ==
  ASSUME NEW n, NEW s, Begun(n, s) \in LongNames, ~Misfits(Begun(n, s), s)
  PROVE  /\ TakeSlot(n, s).units = [Begun(n, s).units EXCEPT ![s.index] = s.piece]
         /\ TakeSlot(n, s).next = Begun(n, s).next - 1
         /\ TakeSlot(n, s).sum = Begun(n, s).sum
<1> DEFINE b == Begun(n, s)
<1>1. TakeSlot(n, s) = [b EXCEPT !.units[s.index] = s.piece, !.next = @ - 1]
  BY DEF TakeSlot, Misfits
<1> HIDE DEF b
<1>2. b \in LongNames
  BY DEF b
<1> QED BY <1>1, <1>2 DEF LongNames, b

LEMMA BegunCases ==
  ASSUME NEW n \in LongNames, NEW s \in Slot
  PROVE  /\ Begun(n, s) \in LongNames
         /\ ~s.last => Begun(n, s) = n
         /\ s.last => /\ Begun(n, s).units \in Seq(Pieces \cup {0}) /\ Len(Begun(n, s).units) = s.index
                      /\ Begun(n, s).next = s.index /\ Begun(n, s).sum = s.sum
<1>0. s.index \in Nat /\ s.sum \in Sums \cup {0}
  BY DEF Slot
<1>1. ~s.last => Begun(n, s) = n
  BY DEF Begun
<1>2. ASSUME s.last
      PROVE  /\ Begun(n, s) \in LongNames
             /\ Begun(n, s).units \in Seq(Pieces \cup {0}) /\ Len(Begun(n, s).units) = s.index
             /\ Begun(n, s).next = s.index /\ Begun(n, s).sum = s.sum
  <2> DEFINE blank == [k \in 1 .. s.index |-> 0]
  <2>1. blank \in Seq(Pieces \cup {0}) /\ Len(blank) = s.index
    BY <1>0, IsASeq
  <2>2. Begun(n, s) = [units |-> blank, next |-> s.index, sum |-> s.sum]
    BY <1>2 DEF Begun
  <2> HIDE DEF blank
  <2> QED BY <1>0, <2>1, <2>2 DEF LongNames
<1> QED BY <1>1, <1>2

\* A part of a long name
LEMMA PartKnown ==
  ASSUME NEW dir \in Seq(Slot), NEW a \in 1 .. Len(dir), NEW n \in LongNames,
         Known(dir, a, n), dir[a].is = "part"
  PROVE  Known(dir, a + 1, TakeSlot(n, dir[a]))
<1> DEFINE s == dir[a]
           b == Begun(n, s)
           new == TakeSlot(n, s)
<1>0. s \in Slot /\ a \in Nat /\ a >= 1
  BY ElementOfSeq, LenProperties
<1>1. s.index \in Nat /\ s.sum \in Sums \cup {0} /\ s.piece \in Pieces \cup {0}
  BY <1>0 DEF Slot
<1>2. b \in LongNames
  BY <1>0, BegunCases
<1>3. ASSUME NEW k \in Nat, NEW t \in Nat, NEW c \in Sums \cup {0}, Run(dir, a + 1, k, t, c)
      PROVE  Holds(dir, new, a + 1, k, t, c)
  <2>1. s.index = t + 1 /\ s.sum = c /\ k >= 1 /\ (k = 1 => s.last) /\ (k > 1 => ~s.last)
    BY <1>0, <1>3, RunEnd
  <2>2. /\ Len(b.units) = t + k /\ b.next = t + 1 /\ b.sum = c
        /\ \A j \in 2 .. k : b.units[t + j] = dir[a + 1 - j].piece
    <3>1. CASE k = 1
      BY <1>0, <2>1, <3>1, BegunCases
    <3>2. CASE k > 1
      <4>1. b = n
        BY <1>0, <2>1, <3>2, BegunCases
      <4>2. k - 1 \in Nat /\ t + 1 \in Nat /\ t + 1 + (k - 1) = t + k
        BY <3>2
      <4>3. Run(dir, a, k - 1, t + 1, c)
        BY <1>0, <1>3, <3>2, RunShrinks
      <4>4. Holds(dir, n, a, k - 1, t + 1, c)
        BY <4>2, <4>3 DEF Known
      <4>5. \A j \in 2 .. k : n.units[t + j] = dir[a + 1 - j].piece
        <5> TAKE j \in 2 .. k
        <5>1. PICK i \in 1 .. k - 1 : i = j - 1 /\ t + 1 + i = t + j /\ a - i = a + 1 - j
          <6>1. j - 1 \in 1 .. k - 1 /\ t + 1 + (j - 1) = t + j /\ a - (j - 1) = a + 1 - j
            BY <1>0
          <6> QED BY <6>1
        <5>2. n.units[t + 1 + i] = dir[a - i].piece
          BY <4>4 DEF Holds
        <5> QED BY <5>1, <5>2
      <4> QED BY <4>1, <4>2, <4>4, <4>5 DEF Holds
    <3> QED BY <2>1, <3>1, <3>2
  <2>3. b.units \in Seq(Pieces \cup {0}) /\ b.units # <<>>
    BY <1>2, <2>1, <2>2, EmptySeq DEF LongNames
  <2>4. new.units = [b.units EXCEPT ![t + 1] = s.piece] /\ new.next = t /\ new.sum = c
    <3>1. ~Misfits(b, s)
      BY <2>1, <2>2, <2>3 DEF Misfits
    <3>2. new.units = [b.units EXCEPT ![s.index] = s.piece]
      BY <1>2, <3>1, PartIsTaken
    <3>3. new.next = b.next - 1 /\ new.sum = b.sum
      BY <1>2, <3>1, PartIsTaken
    <3> HIDE DEF new, b
    <3> QED BY <2>1, <2>2, <3>2, <3>3
  <2>5. t + 1 \in 1 .. Len(b.units)
    BY <2>1, <2>2
  <2>6. Len(new.units) = t + k
    BY <1>1, <2>2, <2>3, <2>4, <2>5, ExceptSeq
  <2>7. DOMAIN b.units = 1 .. (t + k)
    BY <2>2, <2>3, LenProperties
  <2>8. \A j \in 1 .. k : new.units[t + j] = dir[a + 1 - j].piece
    <3> TAKE j \in 1 .. k
    <3>1. CASE j = 1
      BY <1>0, <2>4, <2>5, <2>7, <3>1
    <3>2. CASE j # 1
      <4>1. j \in 2 .. k /\ t + j # t + 1 /\ t + j \in 1 .. (t + k)
        BY <3>2
      <4>2. new.units[t + j] = b.units[t + j]
        BY <2>4, <2>7, <4>1
      <4> QED BY <2>2, <4>1, <4>2
    <3> QED BY <3>1, <3>2
  <2> QED BY <2>4, <2>6, <2>8 DEF Holds
<1>4. ASSUME new.units # <<>>
      PROVE  \E k \in Nat : Run(dir, a + 1, k, new.next, new.sum)
  <2>1. /\ s.index # 0 /\ b.units # <<>> /\ s.index = b.next /\ s.sum = b.sum
        /\ new.next = s.index - 1 /\ new.sum = s.sum
    <3>1. ~Misfits(b, s)
      BY <1>2, <1>4, MisfitEmpties
    <3>2. new.next = b.next - 1 /\ new.sum = b.sum
      BY <1>2, <3>1, PartIsTaken
    <3> QED BY <3>1, <3>2 DEF Misfits
  <2>2. PICK t \in Nat : t = s.index - 1 /\ s.index = t + 1
    BY <1>1, <2>1
  <2>3. CASE s.last
    <3>1. Run(dir, a + 1, 1, t, s.sum)
      BY <1>0, <2>2, <2>3, RunBegins
    <3> QED BY <2>1, <2>2, <3>1
  <2>4. CASE ~s.last
    <3>1. b = n
      BY <1>0, <2>4, BegunCases
    <3>2. PICK k \in Nat : Run(dir, a, k, t + 1, s.sum)
      BY <2>1, <2>2, <3>1 DEF Known
    <3>3. Run(dir, a + 1, k + 1, t, s.sum)
      BY <1>0, <2>2, <2>4, <3>2, RunGrows
    <3> QED BY <2>1, <2>2, <3>3
  <2> QED BY <2>3, <2>4
<1> HIDE DEF new
<1> QED BY <1>3, <1>4 DEF Known, new

\* A slot that is none
LEMMA OtherKnown ==
  ASSUME NEW dir, NEW a \in Nat, NEW n \in LongNames, dir[a].is # "part"
  PROVE  Known(dir, a + 1, Reset(n))
<1>2. Reset(n).units = <<>>
  BY ResetEmpties
<1>3. \A k, t \in Nat, c \in Sums \cup {0} : ~Run(dir, a + 1, k, t, c)
  BY RunEnd
<1> QED BY <1>2, <1>3 DEF Known

\* At an entry, the name in assembly is the entry's own.
LEMMA OwnNameIsShown ==
  ASSUME slots \in Seq(Slot), NEW i \in Entries(slots), NEW n \in LongNames, Known(slots, i, n)
  PROVE  Display(n, slots[i].alias) = OwnName(i)
<1> DEFINE alias == slots[i].alias
<1>0. i \in 1 .. Len(slots) /\ i \in Nat /\ slots[i] \in Slot
  BY ElementOfSeq, LenProperties DEF Entries
<1>1. alias \in Alias /\ Sum[alias] \in Sums \cup {0}
  BY <1>0 DEF Slot, Sums
<1>2. \A k : NamedBy(i, k) <=> Run(slots, i, k, 0, Sum[alias])
  <2>1. \A k \in 1 .. i - 1 : \A j \in 1 .. k : 0 + j = j
    OBVIOUS
  <2> QED BY <2>1 DEF NamedBy, Run
<1>3. ASSUME NEW k, NamedBy(i, k)
      PROVE  /\ Assembled(n, alias) /\ k \in 1 .. i - 1
             /\ k = Len(n.units) /\ Pieced(i, k) = n.units
  <2>1. k \in 1 .. i - 1 /\ k \in Nat
    BY <1>0, <1>3 DEF NamedBy
  <2>2. Holds(slots, n, i, k, 0, Sum[alias])
    BY <1>1, <1>2, <1>3, <2>1 DEF Known
  <2>3. n.units \in Seq(Pieces \cup {0})
    BY DEF LongNames
  <2>4. Len(n.units) = k /\ n.next = 0 /\ n.sum = Sum[alias]
    BY <2>1, <2>2 DEF Holds
  <2>5. n.units # <<>>
    BY <2>1, <2>3, <2>4, EmptySeq
  <2>6. n.units = [j \in 1 .. k |-> n.units[j]]
    BY <2>3, <2>4, LenProperties
  <2>7. \A j \in 1 .. k : n.units[j] = slots[i - j].piece
    <3> TAKE j \in 1 .. k
    <3>1. 0 + j = j /\ n.units[0 + j] = slots[i - j].piece
      BY <2>2 DEF Holds
    <3> QED BY <3>1
  <2>8. Pieced(i, k) = n.units
    BY <2>6, <2>7 DEF Pieced
  <2> QED BY <2>1, <2>4, <2>5, <2>8 DEF Assembled
<1>4. CASE ~Assembled(n, alias)
  BY <1>3, <1>4 DEF Display, OwnName
<1>5. CASE Assembled(n, alias)
  <2>1. PICK k \in Nat : Run(slots, i, k, 0, Sum[alias])
    BY <1>5 DEF Assembled, Known
  <2>2. NamedBy(i, k) /\ k \in 1 .. i - 1
    BY <1>2, <1>3, <2>1
  <2> DEFINE one == CHOOSE k_1 \in 1 .. i - 1 : NamedBy(i, k_1)
  <2>3. NamedBy(i, one)
    BY <2>2
  <2>4. Pieced(i, one) = n.units
    BY <1>3, <2>3
  <2>5. (\E k_1 \in 1 .. i - 1 : NamedBy(i, k_1) /\ IsText(Pieced(i, k_1))) <=> IsText(n.units)
    BY <1>3, <2>2
  <2>6. OwnName(i) = IF IsText(n.units) THEN n.units ELSE <<alias>>
    BY <2>4, <2>5, Zenon DEF OwnName
  <2> QED BY <1>5, <2>6 DEF Display
<1> QED BY <1>4, <1>5

-----------------------------------------------------------------------------
(* The listing                                                             *)

\* OwnName in a directory that need not be the card's
OwnNameIn(dir, i) ==
  LET Named(k) ==
        /\ k \in 1 .. i - 1
        /\ \A j \in 1 .. k :
             LET s == dir[i - j] IN s.is = "part" /\ s.index = j /\ s.sum = Sum[dir[i].alias]
        /\ dir[i - k].last
        /\ \A j \in 1 .. k - 1 : ~dir[i - j].last
      Parts(k) == [j \in 1 .. k |-> dir[i - j].piece]
  IN IF \E k \in 1 .. i - 1 : Named(k) /\ IsText(Parts(k))
     THEN Parts(CHOOSE k \in 1 .. i - 1 : Named(k))
     ELSE <<dir[i].alias>>

LEMMA SameOwnName == \A i : OwnName(i) = OwnNameIn(slots, i)
BY Zenon DEF OwnName, OwnNameIn, NamedBy, Pieced

\* What a listing holds of the entries before slot a
NamedBefore(dir, a) ==
  {[name |-> OwnNameIn(dir, i), slot |-> i] :
     i \in {j \in Entries(dir) : Offered(dir[j], OwnNameIn(dir, j)) /\ j < a}}

NamesInv ==
  /\ doing = "list" => Known(slots, at, name)
  /\ doing = "list" => files = NamedBefore(slots, at)
  /\ doing = "done" => files = NamedBefore(slots, Len(slots) + 1)

\* A slot more
LEMMA NamedNext ==
  ASSUME NEW dir \in Seq(Slot), NEW a \in 1 .. Len(dir)
  PROVE  NamedBefore(dir, a + 1) =
           NamedBefore(dir, a) \cup
             (IF a \in Entries(dir) /\ Offered(dir[a], OwnNameIn(dir, a))
              THEN {[name |-> OwnNameIn(dir, a), slot |-> a]} ELSE {})
<1>1. \A j \in Entries(dir) : j \in Nat /\ (j < a + 1 <=> j < a \/ j = a)
  BY LenProperties DEF Entries
<1>2. {j \in Entries(dir) : Offered(dir[j], OwnNameIn(dir, j)) /\ j < a + 1} =
        {j \in Entries(dir) : Offered(dir[j], OwnNameIn(dir, j)) /\ j < a} \cup
          (IF a \in Entries(dir) /\ Offered(dir[a], OwnNameIn(dir, a)) THEN {a} ELSE {})
  BY <1>1
<1> QED BY <1>2, Zenon DEF NamedBefore

LEMMA ScanNames ==
  TypeInv /\ NamesInv /\ Scan =>
    /\ doing' \in {"list", "limit"} /\ slots' = slots
    /\ doing' = "list" => Known(slots, at', name') /\ files' = NamedBefore(slots, at')
<1> SUFFICES ASSUME TypeInv, NamesInv, Scan, doing' = "list"
             PROVE  Known(slots, at', name') /\ files' = NamedBefore(slots, at')
  BY DEF Scan, card
<1>1. /\ slots \in Seq(Slot) /\ name \in LongNames /\ at \in 1 .. Len(slots)
      /\ Known(slots, at, name) /\ files = NamedBefore(slots, at)
  BY DEF Scan, TypeInv, TypeOK, ListingInv, LongNames, NamesInv
<1>2. at' = at + 1
  BY DEF Scan
<1>3. slots[at].is = "part" => name' = TakeSlot(name, slots[at])
  BY DEF Scan
<1>4. slots[at].is # "part" => name' = Reset(name)
  BY DEF Scan
<1>5. Known(slots, at + 1, name')
  BY <1>1, <1>3, <1>4, PartKnown, OtherKnown
<1>6. at \in Entries(slots) <=> slots[at].is = "entry"
  BY <1>1, LenProperties DEF Entries
<1>7. slots[at].is # "entry" => files' = files
  BY DEF Scan
<1>8. slots[at].is = "entry" =>
        files' = files \cup (IF Offered(slots[at], OwnNameIn(slots, at))
                             THEN {[name |-> OwnNameIn(slots, at), slot |-> at]} ELSE {})
  <2> SUFFICES ASSUME slots[at].is = "entry"
               PROVE  files' = files \cup (IF Offered(slots[at], OwnNameIn(slots, at))
                             THEN {[name |-> OwnNameIn(slots, at), slot |-> at]} ELSE {})
    OBVIOUS
  <2>1. Display(name, slots[at].alias) = OwnNameIn(slots, at)
    BY <1>1, <1>6, OwnNameIsShown, SameOwnName
  <2> QED BY <2>1 DEF Scan
<1>9. files' = NamedBefore(slots, at + 1)
  BY <1>1, <1>6, <1>7, <1>8, NamedNext
<1> QED BY <1>2, <1>5, <1>9

\* The empty name at the first slot
LEMMA StartNames == slots \in Seq(Slot) => Known(slots, 1, NoName) /\ NamedBefore(slots, 1) = {}
<1> SUFFICES ASSUME slots \in Seq(Slot) PROVE Known(slots, 1, NoName) /\ NamedBefore(slots, 1) = {}
  OBVIOUS
<1>1. Known(slots, 1, NoName)
  BY DEF Known, Run, NoName
<1>2. \A j \in Entries(slots) : ~(j < 1)
  BY LenProperties DEF Entries
<1> QED BY <1>1, <1>2 DEF NamedBefore

LEMMA NamesStep == TypeInv /\ NamesInv /\ [Next]_vars => NamesInv'
<1> SUFFICES ASSUME TypeInv, NamesInv, [Next]_vars PROVE NamesInv'
  OBVIOUS
<1>0. slots \in Seq(Slot)
  BY DEF TypeInv, TypeOK
<1>1. CASE Scan
  <2>1. doing' \in {"list", "limit"} /\ slots' = slots
    BY <1>1, ScanNames
  <2>2. doing' = "list" => Known(slots, at', name')
    BY <1>1, ScanNames
  <2>3. doing' = "list" => files' = NamedBefore(slots, at')
    BY <1>1, ScanNames
  <2> QED BY <2>1, <2>2, <2>3 DEF NamesInv
<1>2. CASE List
  <2>1. doing' = "list" /\ at' = 1 /\ name' = NoName /\ files' = {} /\ slots' = slots
    BY <1>2 DEF List, card
  <2>2. Known(slots, 1, NoName)
    BY <1>0, StartNames
  <2>3. NamedBefore(slots, 1) = {}
    BY <1>0, StartNames
  <2> QED BY <2>1, <2>2, <2>3 DEF NamesInv
<1>3. CASE ScanEnds
  BY <1>3 DEF ScanEnds, card, NamesInv
<1>4. CASE UNCHANGED vars
  BY <1>4 DEF vars, NamesInv
<1>5. CASE doing' \notin {"list", "done"}
  BY <1>5 DEF NamesInv
<1>6. CASE ScanFails \/ Listed \/ WriteSigned \/ Probe \/ Open \/ Write \/ Close \/ ExportFails \/ PowerLoss
  <2>1. doing' \notin {"list", "done"}
    BY <1>6 DEF ScanFails, Listed, WriteSigned, Probe, Open, Write, Close, ExportFails, PowerLoss
  <2> QED BY <1>5, <2>1
<1> QED BY <1>1, <1>2, <1>3, <1>4, <1>6 DEF Next

\* Every listing that is given out whole names the files that are offered,
\* each once and by its own name, whatever other computers have left in the
\* directory.
THEOREM FilesBearTheirNames == Spec => []ListedByOwnName
<1>1. Init => NamesInv
  BY DEF Init, NamesInv
<1>2. TypeInv /\ NamesInv => ListedByOwnName
  <2> SUFFICES ASSUME TypeInv, NamesInv, doing = "done" PROVE ListedByOwnName
    BY DEF ListedByOwnName
  <2>1. \A j \in Entries(slots) : j < Len(slots) + 1
    BY LenProperties DEF Entries, TypeInv, TypeOK
  <2>2. {j \in Entries(slots) : Offered(slots[j], OwnNameIn(slots, j)) /\ j < Len(slots) + 1}
          = {j \in Entries(slots) : Offered(slots[j], OwnNameIn(slots, j))}
    BY <2>1, Zenon
  <2>3. files = {[name |-> OwnNameIn(slots, i), slot |-> i] :
                   i \in {j \in Entries(slots) : Offered(slots[j], OwnNameIn(slots, j))}}
    BY <2>2, Zenon DEF NamesInv, NamedBefore
  <2>4. \A i : OwnNameIn(slots, i) = OwnName(i)
    BY SameOwnName
  <2> QED BY <2>3, <2>4 DEF ListedByOwnName
<1> QED BY <1>1, <1>2, InitTypes, TypeStep, NamesStep, PTL DEF Spec
=============================================================================
