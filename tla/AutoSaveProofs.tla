---------------------------- MODULE AutoSaveProofs ----------------------------
(***************************************************************************)
(* Proofs about the save path as a whole, for SRAM of any size, with or    *)
(* without a clock, for any number of sessions: when it is at rest the     *)
(* card holds what the game left, a skipped flush loses nothing, and an    *)
(* attempt that ends in doubt leaves a store owed.  What is proved of the  *)
(* coordinator alone holds here (P), and what is proved of the files alone *)
(* holds for every store that no session overlaps (Q).                     *)
(*                                                                         *)
(* The argument follows one image from SRAM to the checksum, to the files, *)
(* to last_crc: each hand-over keeps it, unless the window was open        *)
(* meanwhile; and then a later generation is still owed to the card.       *)
(***************************************************************************)
EXTENDS AutoSave, TLAPS

\* The coordinator: its types, as far as they matter here, and the order of the
\* generations.
Coordination ==
  /\ SAVE_GENERATION \in Nat /\ gen \in Nat /\ engine \in C!Engine
  /\ window \in BOOLEAN /\ ram_enabled \in BOOLEAN /\ crc \in F!Image \cup {NoCrc}
  /\ engine.disk_generation <= engine.pending_generation
  /\ engine.pending_generation <= SAVE_GENERATION
  /\ wpc = "poll" => gen <= SAVE_GENERATION

\* Where the mapper is tells whether the window is open and whether closing it
\* will be published as a new generation: it always is.
GateInv ==
  /\ mpc \in {"idle", "storeOff"} => window = (ram_enabled /\ mpc = "idle")
  /\ mpc = "storeOff" => ram_enabled
  /\ mpc = "storeOn" => window
  /\ mpc \in {"bump", "dirty"} => ~window /\ ~ram_enabled

\* The files, the store in progress and the checksum in progress.
CardType ==
  /\ sram \in F!Image /\ card \in [F!Name -> F!File]
  /\ file \in F!Name /\ done \in 0..F!FileLen
  /\ pc \in {"write", "abort"} => done < F!FileLen
  /\ pc = "close" => done = F!FileLen
  /\ pc \in {"boot", "idle", "mount"} => file = "TMP"
  /\ scan \in F!Image /\ scanned \in 0..Units
  /\ wpc # "crc" => scanned = 0

\* A session that overlaps an attempt will be published as a generation the
\* attempt does not claim.
OverlapInv ==
  /\ window /\ wpc \in Reading => overlap
  /\ overlap => /\ wpc \in Reading \cup {"still", "success"}
                /\ Owed(engine.pending_generation)

\* SRAM to checksum.
Slice ==
  wpc = "crc" /\ ~overlap => \A u \in 1..Units : u <= scanned => scan[u] = sram[u]

\* SRAM to files: what SaveFileProofs says of SRAM that does not change.
Written ==
  wpc = "store" /\ ~overlap =>
    /\ crc = sram
    /\ pc \in {"write", "close"} =>
         /\ card[file].len = 0 /\ ~card[file].cut
         /\ \A u \in 1..Units : u <= done => card[file].image[u] = sram[u]
    /\ file = "SAV" => F!Readable("TMP") /\ card["TMP"].image = sram
    /\ pc = "ok" => F!Readable("SAV") /\ card["SAV"].image = sram

\* After the store: the card holds what crc says, and that is still what SRAM
\* holds unless a later session is under way.
Kept ==
  (wpc = "still" /\ stored) \/ wpc = "success" =>
    \/ overlap
    \/ /\ BootContents(card) = crc
       /\ Owed(engine.pending_generation) \/ crc = sram

\* Between two stores: the card holds what last_crc says, and that is what SRAM
\* holds unless the card is owed more.
Credited ==
  wpc \in {"top", "gen", "poll", "recheck", "crc"} /\ ~tainted =>
    /\ engine.last_crc = BootContents(card)
    /\ Owed(engine.disk_generation) \/ engine.last_crc = sram

Inv ==
  /\ Coordination /\ GateInv /\ CardType
  /\ OverlapInv /\ Slice /\ Written /\ Kept /\ Credited

LEMMA FileLenFacts == F!FileLen \in Nat /\ F!FileLen > 0 /\ Units <= F!FileLen
  BY UnitsAssumption, RtcAssumption DEF F!FileLen

LEMMA ZeroImageType == F!ZeroImage \in F!Image
  BY ValueAssumption DEF F!ZeroImage, F!Image

LEMMA CardImage ==
  ASSUME NEW c \in [F!Name -> F!File]
  PROVE  F!BootImage(c) \in F!Image \cup {NoImage}
<1> DEFINE slot == F!PickRestoreSlot(c["SAV"].len, c["TMP"].len)
<1>1. slot \in F!Name \cup {"none"}
  BY DEF F!PickRestoreSlot, F!Name
<1>2. CASE slot = "none"
  BY <1>2 DEF F!BootImage
<1>3. CASE slot \in F!Name
  <2>1. c[slot].image \in F!Image
    BY <1>3 DEF F!File
  <2> QED BY <1>3, <2>1 DEF F!BootImage, F!Name
<1> QED BY <1>1, <1>2, <1>3

\* What a boot fills SRAM with is an image, and depends on the card alone.
LEMMA BootContentsType ==
  ASSUME NEW c \in [F!Name -> F!File]
  PROVE  BootContents(c) \in F!Image
  BY CardImage, ZeroImageType DEF BootContents

\* A full, readable .SAV is what a boot fills SRAM with.
LEMMA PrimaryWins ==
  ASSUME F!Readable("SAV"), card["SAV"].image \in F!Image
  PROVE  BootContents(card) = card["SAV"].image
<1>1. F!BootImage(card) = card["SAV"].image
  BY DEF F!BootImage, F!PickRestoreSlot, F!Readable
<1>2. card["SAV"].image # NoImage
  BY NoImageAssumption
<1> QED BY <1>1, <1>2 DEF BootContents

-----------------------------------------------------------------------------

LEMMA InvInit == Init => Inv
<1> SUFFICES ASSUME Init PROVE Inv
  OBVIOUS
<1> USE DEF Init, C!Init, F!Init
<1>1. Coordination
  <2>1. window \in BOOLEAN /\ ram_enabled \in BOOLEAN /\ FALSE \in BOOLEAN
    BY Zenon
  <2>2. engine \in C!Engine /\ crc \in F!Image \cup {NoCrc}
    BY <2>1 DEF C!NewEngine, C!Engine
  <2> QED BY <2>1, <2>2 DEF Coordination, C!NewEngine
<1>2. GateInv
  BY DEF GateInv
<1>3. CardType
  BY FileLenFacts, ZeroImageType, UnitsAssumption DEF CardType, F!File, F!Name
<1>4. OverlapInv /\ Slice /\ Written /\ Kept /\ Credited
  BY DEF OverlapInv, Slice, Written, Kept, Credited, Reading
<1> QED BY <1>1, <1>2, <1>3, <1>4 DEF Inv

\* The mapper never settles a debt, and any open window is one.
LEMMA MapperOwes ==
  ASSUME Inv, Mapper
  PROVE  /\ Coordination' /\ GateInv'
         /\ \A g \in Nat : g <= SAVE_GENERATION /\ Owed(g) => Owed(g)'
<1> USE DEF Inv, Coordination, GateInv, Owed, C!atomics, C!mapperVars, C!localVars,
            C!clockVars
<1>1. ASSUME NEW on \in BOOLEAN, C!GateWrite(on), mpc = "idle" => window' # window
      PROVE  /\ Coordination' /\ GateInv'
             /\ \A g \in Nat : g <= SAVE_GENERATION /\ Owed(g) => Owed(g)'
  BY <1>1 DEF C!GateWrite
<1>2. CASE C!StoreEnabled
  BY <1>2 DEF C!StoreEnabled
<1>3. CASE C!StoreDisabled
  BY <1>3 DEF C!StoreDisabled
<1>4. CASE C!BumpGeneration
  <2>1. /\ mpc = "bump" /\ mpc' = "dirty" /\ SAVE_GENERATION' = SAVE_GENERATION + 1
        /\ UNCHANGED <<window, ram_enabled, engine, gen, crc, wpc>>
    BY <1>4 DEF C!BumpGeneration
  <2>2. Coordination'
    BY <2>1 DEF C!Engine
  <2>3. GateInv'
    BY <2>1
  <2>4. \A g \in Nat : g <= SAVE_GENERATION => SAVE_GENERATION' > g
    BY <2>1
  <2> QED BY <2>2, <2>3, <2>4
<1>5. CASE C!MarkDirty
  BY <1>5 DEF C!MarkDirty
<1> QED BY <1>1, <1>2, <1>3, <1>4, <1>5 DEF Mapper, C!Mapper, C!Publish

\* What the two history variables become.
LEMMA Watched ==
  ASSUME Watch
  PROVE  /\ overlap' <=> \/ window' /\ wpc' \in Reading
                         \/ overlap /\ wpc' \in Reading \cup {"still", "success"}
         /\ wpc = "boot" /\ wpc' # "boot" /\ ~tainted' => sram' = BootContents(card')
         /\ wpc = "success" /\ wpc' # "boot" /\ ~tainted' => ~overlap
         /\ wpc = "failure" /\ wpc' \notin {"failure", "boot"} => tainted'
         /\ wpc \notin {"boot", "success", "failure"} /\ wpc' # "boot" => tainted' = tainted
  BY DEF Watch

\* A step of core 0 or of the clock leaves the worker where it is.
LEMMA WorkerStays ==
  ASSUME Inv, Watch, UNCHANGED <<engine, crc, stored, wpc, fileVars, scanVars>>,
         Coordination', GateInv',
         \A g \in Nat : g <= SAVE_GENERATION /\ Owed(g) => Owed(g)'
  PROVE  Inv'
<1> USE DEF fileVars, scanVars
<1>1. /\ engine.pending_generation \in Nat /\ engine.disk_generation \in Nat
      /\ engine.pending_generation <= SAVE_GENERATION
      /\ engine.disk_generation <= SAVE_GENERATION
  BY DEF Inv, Coordination, C!Engine
<1>2. /\ Owed(engine.pending_generation) => Owed(engine.pending_generation)'
      /\ Owed(engine.disk_generation) => Owed(engine.disk_generation)'
  BY <1>1 DEF Owed
<1>3. CardType'
  BY DEF Inv, CardType
<1>4. OverlapInv'
  BY <1>2, Watched DEF Inv, OverlapInv, Owed
<1>5. ~overlap' /\ wpc' \in {"crc", "store", "still", "success"} => ~overlap
  BY Watched DEF Inv, OverlapInv, Reading
<1>6. Slice'
  BY <1>5 DEF Inv, Slice
<1>7. Written'
  BY <1>5 DEF Inv, Written, F!Readable
<1>8. BootContents(card)' = BootContents(card)
  BY DEF BootContents, F!BootImage
<1>9. Kept'
  BY <1>2, <1>5, <1>8 DEF Inv, Kept
<1>10. Credited'
  BY <1>2, <1>8, Watched DEF Inv, Credited
<1> QED BY <1>3, <1>4, <1>6, <1>7, <1>9, <1>10 DEF Inv

LEMMA MapperStep == Inv /\ Mapper => Inv'
<1> SUFFICES ASSUME Inv, Mapper PROVE Inv'
  OBVIOUS
<1>1. UNCHANGED <<engine, crc, stored, wpc, fileVars, scanVars>> /\ Watch
  BY DEF Mapper, C!Mapper, C!Publish, C!GateWrite, C!StoreEnabled, C!StoreDisabled,
         C!BumpGeneration, C!MarkDirty, C!localVars
<1> QED BY <1>1, MapperOwes, WorkerStays

LEMMA TickStep == Inv /\ Tick => Inv'
<1> SUFFICES ASSUME Inv, Tick PROVE Inv'
  OBVIOUS
<1>1. /\ UNCHANGED <<engine, crc, stored, wpc, fileVars, scanVars>> /\ Watch
      /\ UNCHANGED <<SAVE_GENERATION, window, ram_enabled, mpc, gen>>
  BY DEF Tick, C!Tick, C!atomics, C!mapperVars, C!localVars
<1>2. Coordination' /\ GateInv'
  BY <1>1 DEF Inv, Coordination, GateInv
<1>3. \A g \in Nat : Owed(g) => Owed(g)'
  BY <1>1 DEF Owed
<1> QED BY <1>1, <1>2, <1>3, WorkerStays

LEMMA GameStep ==
  ASSUME Inv, NEW u \in 1..Units, NEW v \in Value, GameWrite(u, v)
  PROVE  Inv'
<1> USE DEF GameWrite, coordinatorVars, scanVars
<1>1. Coordination' /\ GateInv'
  BY DEF Inv, Coordination, GateInv
<1>2. sram' \in F!Image
  BY DEF Inv, CardType, F!Image
<1>3. CardType'
  BY <1>2 DEF Inv, CardType
<1>4. wpc' \in Reading => overlap'
  BY Watched
<1>5. OverlapInv'
  BY <1>4, Watched DEF Inv, OverlapInv, Owed
<1>6. Slice' /\ Written'
  BY <1>4 DEF Slice, Written, Reading
<1>7. BootContents(card)' = BootContents(card)
  BY DEF BootContents, F!BootImage
<1>8. Kept'
  BY <1>7, Watched DEF Inv, Kept, Owed
<1>9. Credited'
  BY <1>7, Watched DEF Inv, Credited, Owed
<1> QED BY <1>1, <1>3, <1>5, <1>6, <1>8, <1>9 DEF Inv

\* The worker's own steps, between the reads of SRAM and the writes of the card.
LEMMA CoordinateStep == Inv /\ Coordinate => Inv'
<1> SUFFICES ASSUME Inv, Coordinate PROVE Inv'
  OBVIOUS
<1>1. /\ UNCHANGED <<sram, card, pc, file, done, scan, scanned>> /\ Watch
      /\ UNCHANGED <<SAVE_GENERATION, window, ram_enabled, mpc>>
  BY DEF Coordinate, fileVars, scanVars, C!TakeDirty, C!LoadGeneration, C!Poll,
         C!Recheck, C!StillDisabled, C!Succeed, C!Fail, C!atomics, C!mapperVars
<1>2. /\ engine \in C!Engine /\ engine.pending_generation \in Nat
      /\ engine.disk_generation \in Nat
  BY DEF Inv, Coordination, C!Engine
<1>3. GateInv'
  BY <1>1 DEF Inv, GateInv
<1>4. BootContents(card)' = BootContents(card)
  BY <1>1 DEF BootContents, F!BootImage
<1>5. \A g : Owed(g)' <=> Owed(g)
  BY <1>1 DEF Owed
<1>6. CASE C!TakeDirty \/ C!LoadGeneration
  <2>1. /\ engine' = engine /\ crc' = crc /\ gen' \in {gen, SAVE_GENERATION}
        /\ wpc \in {"top", "gen"} /\ wpc' \in {"gen", "poll"}
        /\ wpc' = "poll" => gen' = SAVE_GENERATION
    BY <1>6 DEF C!TakeDirty, C!LoadGeneration
  <2>2. ~overlap /\ ~overlap'
    BY <1>1, <2>1, Watched DEF Inv, OverlapInv, Reading
  <2>3. Coordination'
    BY <1>1, <2>1 DEF Inv, Coordination
  <2>4. CardType' /\ OverlapInv' /\ Slice' /\ Written' /\ Kept'
    BY <1>1, <2>1, <2>2 DEF Inv, CardType, OverlapInv, Slice, Written, Kept, Reading
  <2>5. Credited'
    BY <1>1, <1>4, <1>5, <2>1, Watched DEF Inv, Credited, Owed
  <2> QED BY <1>3, <2>3, <2>4, <2>5 DEF Inv
<1>7. CASE C!Poll
  <2>1. /\ wpc = "poll" /\ wpc' \in {"recheck", "top"} /\ crc' = crc /\ gen' = 0
        /\ engine' = [engine EXCEPT !.pending_generation = engine'.pending_generation]
        /\ engine'.pending_generation \in {engine.pending_generation, gen}
        /\ engine'.pending_generation >= engine.pending_generation
    BY <1>2, <1>7 DEF C!Poll, C!IngestDirty, C!Engine, Inv, Coordination
  <2>2. ~overlap /\ ~overlap'
    BY <1>1, <2>1, Watched DEF Inv, OverlapInv, Reading
  <2>3. Coordination'
    BY <1>1, <1>2, <2>1 DEF Inv, Coordination, C!Engine
  <2>4. CardType' /\ OverlapInv' /\ Slice' /\ Written' /\ Kept'
    BY <1>1, <2>1, <2>2 DEF Inv, CardType, OverlapInv, Slice, Written, Kept, Reading
  <2>5. /\ engine'.disk_generation = engine.disk_generation
        /\ engine'.last_crc = engine.last_crc
    BY <1>2, <2>1 DEF C!Engine
  <2>6. Credited'
    BY <1>1, <1>4, <1>5, <2>1, <2>5, Watched DEF Inv, Credited, Owed
  <2> QED BY <1>3, <2>3, <2>4, <2>6 DEF Inv
<1>8. CASE C!Recheck
  <2>1. /\ engine' = engine /\ crc' = crc /\ gen' = gen
        /\ wpc = "recheck" /\ wpc' \in {"top", "crc"}
    BY <1>8 DEF C!Recheck, C!localVars
  <2>2. ~overlap /\ (overlap' <=> window' /\ wpc' = "crc")
    BY <1>1, <2>1, Watched DEF Inv, OverlapInv, Reading
  <2>3. Coordination'
    BY <1>1, <2>1 DEF Inv, Coordination
  <2>4. OverlapInv'
    BY <1>1, <2>1, <2>2 DEF OverlapInv, Owed, Reading
  <2>5. scanned = 0
    BY <2>1 DEF Inv, CardType
  <2>6. CardType' /\ Slice' /\ Written' /\ Kept'
    BY <1>1, <2>1, <2>5 DEF Inv, CardType, Slice, Written, Kept
  <2>7. Credited'
    BY <1>1, <1>4, <1>5, <2>1, Watched DEF Inv, Credited, Owed
  <2> QED BY <1>3, <2>3, <2>4, <2>6, <2>7 DEF Inv
<1>9. CASE C!StillDisabled
  <2>1. /\ engine' = engine /\ crc' = crc /\ gen' = gen
        /\ wpc = "still" /\ wpc' \in {"success", "failure"}
        /\ wpc' = "success" => stored
    BY <1>9 DEF C!StillDisabled
  <2>2. overlap' <=> overlap /\ wpc' = "success"
    BY <1>1, <2>1, Watched DEF Reading
  <2>3. Coordination'
    BY <1>1, <2>1 DEF Inv, Coordination
  <2>4. OverlapInv'
    BY <1>1, <1>5, <2>1, <2>2 DEF Inv, OverlapInv, Reading, Owed
  <2>5. CardType' /\ Slice' /\ Written' /\ Credited'
    BY <1>1, <2>1 DEF Inv, CardType, Slice, Written, Credited
  <2>6. Kept'
    BY <1>1, <1>4, <1>5, <2>1, <2>2 DEF Inv, Kept, Owed
  <2> QED BY <1>3, <2>3, <2>4, <2>5, <2>6 DEF Inv
<1>10. CASE C!Succeed
  <2>1. /\ wpc = "success" /\ wpc' = "top" /\ crc' = NoCrc /\ gen' = gen
        /\ engine' = C!OnSuccess(engine, engine.pending_generation, crc)
    BY <1>10 DEF C!Succeed
  <2>2. /\ engine' \in C!Engine
        /\ engine'.pending_generation = engine.pending_generation
        /\ engine'.disk_generation = engine.pending_generation
        /\ engine'.last_crc = crc
    <3>1. /\ crc \in F!Image \cup {NoCrc}
          /\ engine.disk_generation <= engine.pending_generation
      BY DEF Inv, Coordination
    <3>2. engine' = [engine EXCEPT !.disk_generation = engine.pending_generation,
                                   !.last_crc = crc, !.in_flight = FALSE]
      <4>1. (IF engine.pending_generation > engine.disk_generation
             THEN engine.pending_generation ELSE engine.disk_generation)
               = engine.pending_generation
        BY <1>2, <3>1
      <4> QED BY <2>1, <4>1 DEF C!OnSuccess
    <3> QED BY <1>2, <3>1, <3>2 DEF C!Engine
  <2>3. Coordination'
    BY <1>1, <1>2, <2>1, <2>2 DEF Inv, Coordination
  <2>4. ~overlap' /\ (~tainted' => ~overlap)
    BY <1>1, <2>1, Watched DEF Reading
  <2>5. CardType' /\ OverlapInv' /\ Slice' /\ Written' /\ Kept'
    BY <1>1, <2>1, <2>4 DEF Inv, CardType, OverlapInv, Slice, Written, Kept, Reading
  <2>6. Credited'
    BY <1>1, <1>4, <1>5, <2>1, <2>2, <2>4 DEF Inv, Kept, Credited, Owed
  <2> QED BY <1>3, <2>3, <2>5, <2>6 DEF Inv
<1>11. CASE C!Fail
  <2>1. /\ wpc = "failure" /\ wpc' = "top" /\ crc' = NoCrc /\ gen' = gen
        /\ engine' = C!OnFailure(engine)
    BY <1>11 DEF C!Fail
  <2>2. /\ engine' \in C!Engine
        /\ engine'.pending_generation = engine.pending_generation
        /\ engine'.disk_generation = engine.disk_generation
    BY <1>2, <2>1 DEF C!OnFailure, C!Engine
  <2>3. Coordination'
    BY <1>1, <1>2, <2>1, <2>2 DEF Inv, Coordination
  <2>4. ~overlap' /\ tainted'
    BY <1>1, <2>1, Watched DEF Inv, OverlapInv, Reading
  <2>5. CardType' /\ OverlapInv' /\ Slice' /\ Written' /\ Kept' /\ Credited'
    BY <1>1, <2>1, <2>4 DEF Inv, CardType, OverlapInv, Slice, Written, Kept,
                            Credited, Reading
  <2> QED BY <1>3, <2>3, <2>5 DEF Inv
<1> QED BY <1>6, <1>7, <1>8, <1>9, <1>10, <1>11 DEF Coordinate

LEMMA BootStep == Inv /\ Boot => Inv'
<1> SUFFICES ASSUME Inv, Boot PROVE Inv'
  OBVIOUS
<1>1. PICK clock \in BOOLEAN, savProbed \in BOOLEAN, tmpProbed \in BOOLEAN,
           read \in BOOLEAN : F!Restore(clock, savProbed, tmpProbed, read)
  BY DEF Boot, F!Boot
<1> DEFINE slot == F!Chosen(savProbed, tmpProbed)
<1>2. /\ UNCHANGED <<card, file, done, scan, scanned>> /\ Watch
      /\ pc = "boot" /\ pc' = "idle" /\ wpc = "boot" /\ wpc' = "top"
      /\ UNCHANGED <<SAVE_GENERATION, window, ram_enabled, mpc, gen, crc>>
      /\ engine' = C!OnRestored(engine, sram')
  BY <1>1 DEF Boot, F!Restore, C!Restored, scanVars, C!atomics, C!mapperVars, C!localVars
<1>3. sram' \in F!Image
  <2>1. \/ sram' = F!ZeroImage
        \/ slot # "none" /\ sram' = card[slot].image
    BY <1>1 DEF F!Restore
  <2>2. slot \in F!Name \cup {"none"}
    BY DEF F!Chosen, F!PickRestoreSlot, F!Name
  <2>3. slot # "none" => card[slot].image \in F!Image
    BY <2>2 DEF Inv, CardType, F!File
  <2> QED BY <2>1, <2>3, ZeroImageType
<1>4. /\ engine' \in C!Engine
      /\ engine'.pending_generation = engine.pending_generation
      /\ engine'.disk_generation = engine.pending_generation
      /\ engine'.last_crc = sram'
  BY <1>2, <1>3 DEF C!OnRestored, C!Engine, Inv, Coordination
<1>5. Coordination' /\ GateInv'
  BY <1>2, <1>4 DEF Inv, Coordination, GateInv, C!Engine
<1>6. ~overlap'
  BY <1>2, Watched DEF Inv, OverlapInv, Reading
<1>7. CardType' /\ OverlapInv' /\ Slice' /\ Written' /\ Kept'
  BY <1>2, <1>3, <1>6 DEF Inv, CardType, OverlapInv, Slice, Written, Kept, Reading
<1>8. Credited'
  BY <1>2, <1>4, Watched DEF Credited, BootContents, F!BootImage
<1> QED BY <1>5, <1>7, <1>8 DEF Inv

\* The checksum takes in one more unit of an SRAM that, but for an overlap, has
\* not changed since it began.
LEMMA ScanStep == Inv /\ ScanUnit => Inv'
<1> SUFFICES ASSUME Inv, ScanUnit PROVE Inv'
  OBVIOUS
<1> USE DEF ScanUnit, coordinatorVars, fileVars
<1>1. Coordination' /\ GateInv'
  BY DEF Inv, Coordination, GateInv
<1>2. sram[scanned'] \in Value /\ scanned' \in 1..Units /\ scanned' = scanned + 1
  BY UnitsAssumption DEF Inv, CardType, F!Image
<1>3. CardType'
  BY <1>2 DEF Inv, CardType, F!Image
<1>4. overlap' <=> window \/ overlap
  BY Watched DEF Reading
<1>5. OverlapInv'
  BY <1>4 DEF Inv, OverlapInv, Owed, Reading
<1>6. \A u \in 1..Units : scan'[u] = IF u = scanned' THEN sram[u] ELSE scan[u]
  BY <1>2 DEF Inv, CardType, F!Image
<1>7. Slice'
  BY <1>2, <1>4, <1>6 DEF Inv, Slice, CardType
<1>8. Written' /\ Kept'
  BY DEF Written, Kept
<1>9. Credited'
  BY Watched DEF Inv, Credited, Owed, BootContents, F!BootImage
<1> QED BY <1>1, <1>3, <1>5, <1>7, <1>8, <1>9 DEF Inv

\* A checksum without overlap is that of the SRAM.
LEMMA WholeScan ==
  ASSUME Inv, wpc = "crc", scanned = Units, ~overlap
  PROVE  scan = sram
<1>1. \A u \in 1..Units : scan[u] = sram[u]
  BY UnitsAssumption DEF Inv, Slice
<1>2. /\ scan = [u \in 1..Units |-> scan[u]]
      /\ sram = [u \in 1..Units |-> sram[u]]
  BY DEF Inv, CardType, F!Image
<1> QED BY <1>1, <1>2, Zenon

LEMMA StartPersistStep == Inv /\ StartPersist => Inv'
<1> SUFFICES ASSUME Inv, StartPersist PROVE Inv'
  OBVIOUS
<1>1. /\ wpc = "crc" /\ scanned = Units /\ scanned' = 0 /\ scan' = F!ZeroImage
      /\ UNCHANGED <<SAVE_GENERATION, window, ram_enabled, mpc, gen>>
      /\ UNCHANGED <<sram, card, file, done>> /\ Watch
  BY DEF StartPersist, C!StartPersist, F!StartStore, fileVars, C!atomics, C!mapperVars
<1>2. /\ engine \in C!Engine /\ scan \in F!Image
      /\ engine.pending_generation \in Nat /\ engine.disk_generation \in Nat
      /\ engine.disk_generation <= engine.pending_generation
  BY DEF Inv, Coordination, CardType, C!Engine
<1>3. GateInv'
  BY <1>1 DEF Inv, GateInv
<1>4. BootContents(card)' = BootContents(card)
  BY <1>1 DEF BootContents, F!BootImage
<1>5. \A g : Owed(g)' <=> Owed(g)
  BY <1>1 DEF Owed
<1>6. overlap \/ scan = sram
  BY <1>1, WholeScan
<1>7. CASE C!ShouldSkipIdentical(engine, scan)
  <2>1. /\ engine.last_crc = scan /\ wpc' = "top" /\ crc' = crc
        /\ engine' = C!OnSuccess(C!BeginPersist(engine), engine.pending_generation, scan)
        /\ UNCHANGED pc
    BY <1>7 DEF StartPersist, C!StartPersist, C!ShouldSkipIdentical, fileVars
  <2>2. /\ engine' \in C!Engine
        /\ engine'.pending_generation = engine.pending_generation
        /\ engine'.disk_generation = engine.pending_generation
        /\ engine'.last_crc = scan
    <3>1. (IF engine.pending_generation > engine.disk_generation
           THEN engine.pending_generation ELSE engine.disk_generation)
             = engine.pending_generation
      BY <1>2
    <3>2. engine' = [C!BeginPersist(engine) EXCEPT
                       !.disk_generation = engine.pending_generation,
                       !.last_crc = scan, !.in_flight = FALSE]
      BY <1>2, <2>1, <3>1 DEF C!OnSuccess, C!BeginPersist, C!Engine
    <3> QED BY <1>2, <3>2 DEF C!BeginPersist, C!Engine
  <2>3. Coordination'
    BY <1>1, <1>2, <2>1, <2>2 DEF Inv, Coordination
  <2>4. ~overlap'
    BY <1>1, <2>1, Watched DEF Reading
  <2>5. CardType' /\ OverlapInv' /\ Slice' /\ Written' /\ Kept'
    BY <1>1, <2>1, <2>4, ZeroImageType, UnitsAssumption
    DEF Inv, CardType, OverlapInv, Slice, Written, Kept, Reading
  <2>6. overlap => Owed(engine.pending_generation)
    BY DEF Inv, OverlapInv
  <2>7. Credited'
    BY <1>1, <1>4, <1>5, <1>6, <2>1, <2>2, <2>6, Watched DEF Inv, Credited, Owed
  <2> QED BY <1>3, <2>3, <2>5, <2>7 DEF Inv
<1>8. CASE ~C!ShouldSkipIdentical(engine, scan)
  <2>1. /\ wpc' = "store" /\ crc' = scan /\ engine' = C!BeginPersist(engine)
        /\ pc = "idle" /\ pc' = "mount"
    BY <1>8 DEF StartPersist, C!StartPersist, F!StartStore
  <2>2. /\ engine' \in C!Engine
        /\ engine'.pending_generation = engine.pending_generation
        /\ engine'.disk_generation = engine.disk_generation
    BY <1>2, <2>1 DEF C!BeginPersist, C!Engine
  <2>3. Coordination'
    BY <1>1, <1>2, <2>1, <2>2 DEF Inv, Coordination
  <2>4. overlap' <=> window \/ overlap
    BY <1>1, <2>1, Watched DEF Reading
  <2>5. OverlapInv'
    BY <1>1, <2>1, <2>2, <2>4 DEF Inv, OverlapInv, Owed, Reading
  <2>6. CardType' /\ Slice' /\ Kept' /\ Credited'
    BY <1>1, <2>1, ZeroImageType, UnitsAssumption
    DEF Inv, CardType, Slice, Kept, Credited
  <2>7. Written'
    BY <1>1, <1>6, <2>1, <2>4 DEF Inv, CardType, Written
  <2> QED BY <1>3, <2>3, <2>5, <2>6, <2>7 DEF Inv
<1> QED BY <1>7, <1>8

LEMMA FinishStep == Inv /\ FinishStore => Inv'
<1> SUFFICES ASSUME Inv, FinishStore PROVE Inv'
  OBVIOUS
<1>1. /\ pc \in {"ok", "err"} /\ pc' = "idle" /\ file' = "TMP" /\ done' = 0
      /\ wpc = "store" /\ wpc' = "still" /\ (stored' <=> pc = "ok")
      /\ UNCHANGED <<sram, card, scan, scanned, engine, gen, crc>>
      /\ UNCHANGED <<SAVE_GENERATION, window, ram_enabled, mpc>> /\ Watch
  BY DEF FinishStore, F!FinishStore, C!FinishStore, scanVars, C!atomics, C!mapperVars
<1>2. Coordination' /\ GateInv'
  BY <1>1 DEF Inv, Coordination, GateInv
<1>3. overlap' <=> overlap
  BY <1>1, Watched DEF Reading
<1>4. CardType'
  BY <1>1, FileLenFacts DEF Inv, CardType, F!Name
<1>5. OverlapInv'
  BY <1>1, <1>3 DEF Inv, OverlapInv, Owed, Reading
<1>6. Slice' /\ Written' /\ Credited'
  BY <1>1 DEF Slice, Written, Credited
<1>7. Kept'
  <2>1. CASE pc = "ok" /\ ~overlap
    <3>1. F!Readable("SAV") /\ card["SAV"].image = sram /\ crc = sram
      BY <1>1, <2>1 DEF Inv, Written
    <3>2. BootContents(card) = sram
      BY <3>1, PrimaryWins DEF Inv, CardType
    <3>3. BootContents(card)' = BootContents(card)
      BY <1>1 DEF BootContents, F!BootImage
    <3> QED BY <1>1, <3>1, <3>2, <3>3 DEF Kept
  <2>2. CASE ~(pc = "ok" /\ ~overlap)
    BY <1>1, <1>3, <2>2 DEF Kept
  <2> QED BY <2>1, <2>2
<1> QED BY <1>2, <1>4, <1>5, <1>6, <1>7 DEF Inv

LEMMA PowerLossStep == Inv /\ PowerLoss => Inv'
<1> SUFFICES ASSUME Inv, PowerLoss PROVE Inv'
  OBVIOUS
<1>1. /\ wpc' = "boot" /\ pc' = "boot" /\ file' = "TMP" /\ done' = 0
      /\ UNCHANGED <<sram, card>> /\ scan' = F!ZeroImage /\ scanned' = 0
      /\ SAVE_GENERATION' = 0 /\ window' = FALSE /\ ram_enabled' = FALSE
      /\ mpc' = "idle" /\ engine' = C!NewEngine /\ gen' = 0 /\ crc' = NoCrc /\ Watch
  BY DEF PowerLoss, C!Reboot, F!PowerLoss
<1>2. Coordination'
  <2>1. window' \in BOOLEAN /\ ram_enabled' \in BOOLEAN /\ FALSE \in BOOLEAN
    BY <1>1, Zenon
  <2>2. engine' \in C!Engine /\ crc' \in F!Image \cup {NoCrc}
    BY <1>1, <2>1 DEF C!NewEngine, C!Engine
  <2> QED BY <1>1, <2>1, <2>2 DEF Coordination, C!NewEngine
<1>3. GateInv'
  BY <1>1 DEF GateInv
<1>4. ~overlap'
  BY <1>1, Watched DEF Reading
<1>5. CardType'
  BY <1>1, FileLenFacts, ZeroImageType, UnitsAssumption DEF Inv, CardType, F!Name
<1>6. OverlapInv' /\ Slice' /\ Written' /\ Kept' /\ Credited'
  BY <1>1, <1>4 DEF OverlapInv, Slice, Written, Kept, Credited, Reading
<1> QED BY <1>2, <1>3, <1>5, <1>6 DEF Inv

\* The files keep their shape through every step of a store, and without an
\* overlap what has been written is what SRAM holds.
LEMMA FilesTyped ==
  ASSUME CardType, F!StoreStep, UNCHANGED <<scanVars, wpc>>
  PROVE  CardType'
<1> USE DEF CardType, F!historyVars, F!Name, scanVars
<1>0. card[file] \in F!File /\ 0 \in 0..F!FileLen
  BY FileLenFacts
<1>1. CASE F!Mount \/ F!MountFails \/ F!WriteFails
  BY <1>1 DEF F!Mount, F!MountFails, F!WriteFails
<1>2. ASSUME F!ChainCut(file) PROVE card' \in [F!Name -> F!File]
  <2> DEFINE f == [card[file] EXCEPT !.cut = @ \/ card[file].len > ClusterUnits]
  <2>1. f \in F!File /\ card' = [card EXCEPT ![file] = f]
    BY <1>0, <1>2 DEF F!ChainCut, F!File
  <2> QED BY <2>1
<1>3. ASSUME F!EntryZeroed(file) PROVE card' \in [F!Name -> F!File]
  <2> DEFINE f == [card[file] EXCEPT !.len = 0, !.cut = FALSE]
  <2>1. f \in F!File /\ card' = [card EXCEPT ![file] = f]
    BY <1>0, <1>3 DEF F!EntryZeroed, F!File
  <2> QED BY <2>1
<1>4. ASSUME F!LengthRecorded(file, done) PROVE card' \in [F!Name -> F!File]
  <2> DEFINE f == [card[file] EXCEPT !.len = done]
  <2>1. f \in F!File /\ card' = [card EXCEPT ![file] = f]
    BY <1>0, <1>4 DEF F!LengthRecorded, F!File
  <2> QED BY <2>1
<1>5. CASE F!CutChain \/ F!CutChainFails
  BY <1>2, <1>5 DEF F!CutChain, F!CutChainFails
<1>6. CASE F!ZeroEntry \/ F!ZeroEntryFails
  BY <1>3, <1>6, FileLenFacts DEF F!ZeroEntry, F!ZeroEntryFails
<1>7. CASE F!WriteUnit
  <2>1. done < F!FileLen
    BY <1>7 DEF F!WriteUnit
  <2>2. done' \in 0..F!FileLen /\ (pc' = "close" <=> done' = F!FileLen)
        /\ pc' \in {"write", "close"} /\ UNCHANGED <<sram, file>>
    BY <1>7, <2>1, FileLenFacts DEF F!WriteUnit
  <2>3. card' \in [F!Name -> F!File]
    <3>1. CASE done < Units
      <4> DEFINE image == [card[file].image EXCEPT ![done + 1] = sram[done + 1]]
                 f == [card[file] EXCEPT !.image = image]
      <4>1. image \in F!Image
        BY <1>0, <3>1, UnitsAssumption DEF F!Image, F!File
      <4>2. f \in F!File
        BY <1>0, <4>1 DEF F!File
      <4>3. card' = [card EXCEPT ![file] = f]
        BY <1>7, <3>1 DEF F!WriteUnit
      <4> QED BY <4>2, <4>3
    <3>2. CASE ~(done < Units)
      BY <1>7, <3>2 DEF F!WriteUnit
    <3> QED BY <3>1, <3>2
  <2> QED BY <2>2, <2>3, FileLenFacts
<1>8. CASE F!Close \/ F!CloseFails \/ F!Abort
  BY <1>4, <1>8 DEF F!Close, F!CloseFails, F!Abort
<1> QED BY <1>1, <1>5, <1>6, <1>7, <1>8 DEF F!StoreStep

\* What a store has written, once SRAM is out, is the whole image.
LEMMA WholeImage ==
  ASSUME CardType, Written, wpc = "store", ~overlap, pc = "close"
  PROVE  /\ card[file].image = sram /\ ~card[file].cut
         /\ F!IsFullSave(done)
<1>1. \A u \in 1..Units : card[file].image[u] = sram[u]
  BY FileLenFacts, UnitsAssumption DEF CardType, Written
<1>2. card[file].image \in F!Image /\ sram \in F!Image
  BY DEF CardType, F!File
<1>3. /\ card[file].image = [u \in 1..Units |-> card[file].image[u]]
      /\ sram = [u \in 1..Units |-> sram[u]]
  BY <1>2 DEF F!Image
<1>4. card[file].image = sram
  BY <1>1, <1>3, Zenon
<1>5. F!IsFullSave(done)
  BY FileLenFacts DEF CardType, F!IsFullSave
<1>6. ~card[file].cut
  BY DEF Written
<1> QED BY <1>4, <1>5, <1>6

LEMMA WrittenSoFar ==
  ASSUME CardType, CardType', Written, wpc = "store", ~overlap,
         F!StoreStep, UNCHANGED crc
  PROVE  Written'
<1> USE DEF CardType, Written, F!historyVars, F!Name, F!Readable
<1>1. CASE F!Mount \/ F!MountFails \/ F!WriteFails
  BY <1>1 DEF F!Mount, F!MountFails, F!WriteFails
<1>2. CASE F!CutChain \/ F!CutChainFails
  <2>1. /\ pc' \in {"zero", "err"} /\ UNCHANGED <<sram, file>>
        /\ UNCHANGED card \/ F!ChainCut(file)
    BY <1>2 DEF F!CutChain, F!CutChainFails
  <2>2. \A g \in F!Name : g # file => card'[g] = card[g]
    BY <2>1 DEF F!ChainCut
  <2> QED BY <2>1, <2>2
<1>3. CASE F!ZeroEntry \/ F!ZeroEntryFails
  <2>1. /\ pc' \in {"write", "err"} /\ UNCHANGED <<sram, file>>
        /\ UNCHANGED card \/ F!EntryZeroed(file)
        /\ pc' = "write" => done' = 0 /\ F!EntryZeroed(file)
    BY <1>3 DEF F!ZeroEntry, F!ZeroEntryFails
  <2>2. \A g \in F!Name : g # file => card'[g] = card[g]
    BY <2>1 DEF F!EntryZeroed
  <2>3. ASSUME F!EntryZeroed(file) PROVE card'[file].len = 0 /\ ~card'[file].cut
    <3>1. card' = [card EXCEPT ![file] = [card[file] EXCEPT !.len = 0, !.cut = FALSE]]
      BY <2>3 DEF F!EntryZeroed
    <3>2. card'[file] = [card[file] EXCEPT !.len = 0, !.cut = FALSE]
      BY <3>1
    <3> QED BY <3>2 DEF F!File
  <2> QED BY <2>1, <2>2, <2>3, UnitsAssumption
<1>4. CASE F!WriteUnit
  <2>1. /\ pc = "write" /\ pc' \in {"write", "close"} /\ done' = done + 1
        /\ UNCHANGED <<sram, file>>
    BY <1>4 DEF F!WriteUnit
  <2>2. /\ \A g \in F!Name : g # file => card'[g] = card[g]
        /\ card'[file].len = card[file].len /\ card'[file].cut = card[file].cut
        /\ \A u \in 1..Units :
              card'[file].image[u] = IF u = done + 1 THEN sram[u] ELSE card[file].image[u]
    <3>1. CASE done < Units
      BY <1>4, <3>1 DEF F!WriteUnit, F!File, F!Image
    <3>2. CASE ~(done < Units)
      BY <1>4, <3>2, UnitsAssumption DEF F!WriteUnit
    <3> QED BY <3>1, <3>2
  <2> QED BY <2>1, <2>2, FileLenFacts, UnitsAssumption
<1>5. CASE F!Close \/ F!CloseFails
  <2>1. /\ pc = "close" /\ card[file].image = sram /\ ~card[file].cut
        /\ F!IsFullSave(done)
    BY <1>5, WholeImage DEF F!Close, F!CloseFails
  <2>2. /\ UNCHANGED sram
        /\ \/ pc' \in {"ok", "err"} /\ file' = file
           \/ pc' = "cut" /\ file' = "SAV" /\ file = "TMP"
        /\ pc' = "ok" => file = "SAV"
        /\ pc' # "err" => F!LengthRecorded(file, done)
        /\ UNCHANGED card \/ F!LengthRecorded(file, done)
    BY <1>5 DEF F!Close, F!CloseFails
  <2>3. /\ \A g \in F!Name : g # file => card'[g] = card[g]
        /\ card'[file].image = sram /\ ~card'[file].cut
        /\ pc' # "err" => F!IsFullSave(card'[file].len)
    BY <2>1, <2>2 DEF F!LengthRecorded, F!File
  <2>4. file' = "SAV" => F!Readable("TMP")' /\ card'["TMP"].image = sram'
    <3>1. CASE file = "TMP" /\ file' = "SAV"
      BY <2>2, <2>3, <3>1
    <3>2. CASE file = "SAV"
      BY <2>2, <2>3, <3>2
    <3> QED BY <3>1, <3>2
  <2>5. pc' = "ok" => F!Readable("SAV")' /\ card'["SAV"].image = sram'
    BY <2>2, <2>3
  <2> QED BY <2>2, <2>4, <2>5
<1>6. CASE F!Abort
  <2>1. /\ pc' = "err" /\ UNCHANGED <<sram, file>>
        /\ UNCHANGED card \/ F!LengthRecorded(file, done)
    BY <1>6 DEF F!Abort
  <2>2. \A g \in F!Name : g # file => card'[g] = card[g]
    BY <2>1 DEF F!LengthRecorded
  <2> QED BY <2>1, <2>2
<1> QED BY <1>1, <1>2, <1>3, <1>4, <1>5, <1>6 DEF F!StoreStep

LEMMA StoreStepStep == Inv /\ StoreStep => Inv'
<1> SUFFICES ASSUME Inv, StoreStep PROVE Inv'
  OBVIOUS
<1>1. wpc = "store" /\ F!StoreStep /\ UNCHANGED <<coordinatorVars, scanVars>> /\ Watch
  BY DEF StoreStep
<1> USE DEF coordinatorVars
<1>2. Coordination' /\ GateInv'
  BY <1>1 DEF Inv, Coordination, GateInv
<1>3. CardType'
  BY <1>1, FilesTyped DEF Inv
<1>4. overlap' <=> window \/ overlap
  BY <1>1, Watched DEF Reading
<1>5. OverlapInv'
  BY <1>1, <1>4 DEF Inv, OverlapInv, Owed, Reading
<1>6. Written'
  <2>1. CASE overlap
    BY <1>4, <2>1 DEF Written
  <2>2. CASE ~overlap
    BY <1>1, <1>3, <2>2, WrittenSoFar DEF Inv
  <2> QED BY <2>1, <2>2
<1>7. Slice' /\ Kept' /\ Credited'
  BY <1>1 DEF Slice, Kept, Credited
<1> QED BY <1>2, <1>3, <1>5, <1>6, <1>7 DEF Inv

-----------------------------------------------------------------------------

LEMMA InvStep == Inv /\ [Next]_vars => Inv'
<1> SUFFICES ASSUME Inv, [Next]_vars PROVE Inv'
  OBVIOUS
<1>1. CASE UNCHANGED vars
  <2> USE <1>1 DEF vars, coordinatorVars, fileVars, scanVars
  <2>1. BootContents(card)' = BootContents(card)
    BY DEF BootContents, F!BootImage
  <2>2. Coordination' /\ GateInv' /\ CardType' /\ OverlapInv' /\ Slice'
    BY DEF Inv, Coordination, GateInv, CardType, OverlapInv, Owed, Slice
  <2>3. Written' /\ Kept' /\ Credited'
    BY <2>1 DEF Inv, Written, Kept, Credited, Owed, F!Readable
  <2> QED BY <2>2, <2>3 DEF Inv
<1> QED
  BY <1>1, MapperStep, GameStep, BootStep, CoordinateStep, ScanStep,
     StartPersistStep, StoreStepStep, FinishStep, TickStep, PowerLossStep
  DEF Next

LEMMA Invariant == Spec => []Inv
  BY InvInit, InvStep, PTL DEF Spec

\* When the save path is at rest, a boot restores exactly what the game left in
\* SRAM, unless an attempt failed or was overlapped by a session since the card
\* was last known to be good.
THEOREM RestIsDurable == Spec => []DurableAtRest
<1>1. Inv => DurableAtRest
  <2> SUFFICES ASSUME Inv, AtRest, ~tainted PROVE BootContents(card) = sram
    BY DEF DurableAtRest
  <2>1. ~Owed(engine.disk_generation)
    BY DEF AtRest, Owed, Inv, Coordination
  <2> QED BY <2>1 DEF AtRest, Inv, Credited
<1> QED BY <1>1, Invariant, PTL

\* A flush skipped because the checksum has not changed would have written what
\* a boot restores anyway, with the same exception.
THEOREM SkippingLosesNothing == Spec => []SkipIsSound
<1>1. Inv => SkipIsSound
  BY DEF SkipIsSound, Inv, Credited
<1> QED BY <1>1, Invariant, PTL

\* The composition takes the coordinator through its own steps, so that what
\* SaveCoordinatorProofs proves of the coordinator holds in the whole.
LEMMA CoordinatorSteps == Spec => C!Spec
<1>1. Init => C!Init
  BY DEF Init
<1>2. Inv /\ Inv' /\ [Next]_vars => [C!Next]_(C!vars)
  <2> SUFFICES ASSUME Inv, Inv', [Next]_vars PROVE [C!Next]_(C!vars)
    OBVIOUS
  <2> USE DEF C!Next, C!vars, C!atomics, C!mapperVars, C!localVars, C!clockVars,
              coordinatorVars
  <2>1. scan \in F!Image /\ sram' \in F!Image
    BY DEF Inv, CardType
  <2>2. CASE Mapper
    BY <2>2 DEF Mapper
  <2>3. CASE Boot
    BY <2>1, <2>3 DEF Boot, C!Worker
  <2>4. CASE Coordinate
    BY <2>4 DEF Coordinate, C!Worker
  <2>5. CASE StartPersist
    BY <2>1, <2>5 DEF StartPersist, C!Worker
  <2>6. CASE FinishStore
    BY <2>6 DEF FinishStore, C!Worker
  <2>7. CASE Tick \/ PowerLoss
    BY <2>7 DEF Tick, PowerLoss
  <2>8. CASE ScanUnit \/ StoreStep
    BY <2>8 DEF ScanUnit, StoreStep
  <2>9. ASSUME NEW u \in 1..Units, NEW v \in Value, GameWrite(u, v)
        PROVE  UNCHANGED C!vars
    BY <2>9 DEF GameWrite
  <2>10. CASE UNCHANGED vars
    BY <2>10 DEF vars
  <2> QED BY <2>2, <2>3, <2>4, <2>5, <2>6, <2>7, <2>8, <2>9, <2>10 DEF Next
<1> QED BY <1>1, <1>2, Invariant, PTL DEF Spec, C!Spec

-----------------------------------------------------------------------------
(* What is proved of the coordinator alone holds of the whole.             *)

\* The theorems about the coordinator, for the images of this module.
P == INSTANCE SaveCoordinatorProofs WITH Image <- F!Image

\* P's coordinator is C.
LEMMA SameCoordinator ==
  /\ P!vars = C!vars
  /\ P!Init <=> C!Init
  /\ P!Next <=> C!Next
<1>1. P!vars = C!vars
  BY DEF P!vars, C!vars, P!atomics, C!atomics, P!mapperVars, C!mapperVars,
         P!localVars, C!localVars, P!clockVars, C!clockVars
<1>2. P!Init <=> C!Init
  BY DEF P!Init, C!Init, P!NewEngine, C!NewEngine
<1>3. P!Next <=> C!Next
  BY Zenon DEF
  C!Next, P!Next, C!Mapper, P!Mapper, C!GateWrite, P!GateWrite, C!Publish, P!Publish,
     C!StoreEnabled, P!StoreEnabled, C!StoreDisabled, P!StoreDisabled, C!BumpGeneration,
     P!BumpGeneration, C!MarkDirty, P!MarkDirty, C!Worker, P!Worker, C!Restored,
     P!Restored, C!StartPersist, P!StartPersist, C!TakeDirty, P!TakeDirty,
     C!LoadGeneration, P!LoadGeneration, C!Poll, P!Poll, C!Recheck, P!Recheck,
     C!FinishStore, P!FinishStore, C!StillDisabled, P!StillDisabled, C!Succeed, P!Succeed,
     C!Fail, P!Fail, C!Tick, P!Tick, C!Reboot, P!Reboot, C!OnRestored, P!OnRestored,
     C!NewEngine, P!NewEngine, C!IngestDirty, P!IngestDirty, C!DecidesPersist,
     P!DecidesPersist, C!BeginPersist, P!BeginPersist, C!ShouldSkipIdentical,
     P!ShouldSkipIdentical, C!OnSuccess, P!OnSuccess, C!OnFailure, P!OnFailure, C!Older,
     P!Older, C!atomics, P!atomics, C!mapperVars, P!mapperVars, C!localVars, P!localVars,
     C!clockVars, P!clockVars, C!vars, P!vars
<1> QED BY <1>1, <1>2, <1>3

LEMMA CoordinatorInstance == Spec => P!Spec
<1>1. C!Init => P!Init
  BY SameCoordinator
<1>2. [C!Next]_(C!vars) => [P!Next]_(P!vars)
  <2>1. C!vars' = C!vars => P!vars' = P!vars
    BY DEF P!vars, C!vars, P!atomics, C!atomics, P!mapperVars, C!mapperVars,
           P!localVars, C!localVars, P!clockVars, C!clockVars
  <2> QED BY <2>1, SameCoordinator
<1> QED BY <1>1, <1>2, CoordinatorSteps, PTL DEF C!Spec, P!Spec

\* No finished session is forgotten, the generations stay in order and attempts
\* keep the quiet period while files and SRAM are in play as well.
THEOREM CoordinatorHolds ==
  Spec => [](C!NothingForgotten /\ C!GenerationsOrdered /\ C!QuietUnlessRaced)
<1>1. P!Spec => [](P!NothingForgotten /\ P!GenerationsOrdered /\ P!QuietUnlessRaced)
  <2>1. P!Spec => []P!NothingForgotten
    BY P!NoSessionForgotten, QuietAssumption, GenerationAssumption, CrcAssumption
  <2>2. P!Spec => []P!GenerationsOrdered
    BY P!GenerationsAreOrdered, QuietAssumption, GenerationAssumption, CrcAssumption
  <2>3. P!Spec => []P!QuietUnlessRaced
    BY P!AttemptsFollowQuiet, QuietAssumption, GenerationAssumption, CrcAssumption
  <2> QED BY <2>1, <2>2, <2>3, PTL
<1>2. P!NothingForgotten /\ P!GenerationsOrdered /\ P!QuietUnlessRaced =>
        C!NothingForgotten /\ C!GenerationsOrdered /\ C!QuietUnlessRaced
  BY DEF P!NothingForgotten, C!NothingForgotten, P!GenerationsOrdered, C!GenerationsOrdered,
         P!QuietUnlessRaced, C!QuietUnlessRaced
<1> QED BY <1>1, <1>2, CoordinatorInstance, PTL

\* An attempt that failed, or that a session overlapped, leaves the engine with a
\* store it still owes: neither a half written file nor an image torn between the
\* CRC and the two files is ever taken for the last word about a session.
THEOREM DoubtLeavesADebt == Spec => DoubtIsOwed
<1>1. P!Spec => []P!AttemptInv
  BY P!AttemptInvariant, QuietAssumption, GenerationAssumption, CrcAssumption
<1>2. Inv /\ P!AttemptInv /\ [Next]_vars
        => [EndsInDoubt => (Owed(engine.disk_generation))']_vars
  <2> SUFFICES ASSUME Inv, P!AttemptInv, Next, EndsInDoubt
               PROVE  (Owed(engine.disk_generation))'
    OBVIOUS
  <2>1. /\ engine \in C!Engine /\ engine.pending_generation \in Nat
        /\ engine.disk_generation \in Nat /\ SAVE_GENERATION \in Nat
        /\ engine.disk_generation <= engine.pending_generation
        /\ engine.pending_generation <= SAVE_GENERATION
    BY DEF Inv, Coordination, C!Engine
  <2>2. wpc \in {"crc", "success", "failure"} /\ wpc' = "top"
    BY DEF EndsInDoubt
  <2>3. CASE StartPersist
    <3>1. /\ wpc = "crc" /\ UNCHANGED <<SAVE_GENERATION, window, mpc>>
      BY <2>3 DEF StartPersist, C!StartPersist, C!atomics, C!mapperVars
    <3>2. Owed(engine.pending_generation)
      BY <3>1 DEF EndsInDoubt, Inv, OverlapInv
    <3>3. engine' = C!OnSuccess(C!BeginPersist(engine), engine.pending_generation, scan)
      BY <2>2, <2>3 DEF StartPersist, C!StartPersist
    <3>4. engine'.disk_generation = engine.pending_generation
      BY <2>1, <3>3 DEF C!OnSuccess, C!BeginPersist, C!Engine
    <3> QED BY <3>1, <3>2, <3>4 DEF Owed
  <2>4. CASE Coordinate
    <3>1. (C!Succeed \/ C!Fail) /\ UNCHANGED <<SAVE_GENERATION, window, mpc>>
      BY <2>2, <2>4 DEF Coordinate, C!TakeDirty, C!LoadGeneration, C!Poll, C!Recheck,
                       C!StillDisabled, C!Succeed, C!Fail, C!mapperVars, C!atomics
    <3>2. CASE C!Succeed
      <4>1. /\ wpc = "success"
            /\ engine' = C!OnSuccess(engine, engine.pending_generation, crc)
        BY <3>2 DEF C!Succeed
      <4>2. Owed(engine.pending_generation)
        BY <4>1 DEF EndsInDoubt, Inv, OverlapInv
      <4>3. engine'.disk_generation = engine.pending_generation
        BY <2>1, <4>1 DEF C!OnSuccess, C!Engine
      <4> QED BY <3>1, <4>2, <4>3 DEF Owed
    <3>3. CASE C!Fail
      <4>1. wpc = "failure" /\ engine' = C!OnFailure(engine)
        BY <3>3 DEF C!Fail
      <4>2. engine'.disk_generation = engine.disk_generation
        BY <2>1, <4>1 DEF C!OnFailure, C!Engine
      <4>3. engine.pending_generation > engine.disk_generation
        BY <4>1 DEF P!AttemptInv
      <4>4. SAVE_GENERATION' > engine'.disk_generation
        BY <2>1, <3>1, <4>2, <4>3
      <4> QED BY <4>4 DEF Owed
    <3> QED BY <3>1, <3>2, <3>3
  <2>5. /\ ~Mapper /\ ~Boot /\ ~ScanUnit /\ ~StoreStep /\ ~FinishStore /\ ~Tick /\ ~PowerLoss
        /\ ~\E u \in 1..Units, v \in Value : GameWrite(u, v)
    <3>1. wpc' # wpc /\ wpc # "boot" /\ wpc # "store" /\ wpc' # "boot"
      BY <2>2
    <3>2. ~Mapper /\ ~Tick
      BY <3>1 DEF Mapper, C!Mapper, C!Publish, C!GateWrite, C!StoreEnabled,
                  C!StoreDisabled, C!BumpGeneration, C!MarkDirty, Tick, C!Tick
    <3>3. ~Boot /\ ~FinishStore /\ ~StoreStep /\ ~PowerLoss
      BY <3>1 DEF Boot, C!Restored, FinishStore, C!FinishStore, StoreStep, PowerLoss,
                  C!Reboot
    <3>4. ~ScanUnit /\ ~\E u \in 1..Units, v \in Value : GameWrite(u, v)
      BY <3>1 DEF ScanUnit, GameWrite, coordinatorVars
    <3> QED BY <3>2, <3>3, <3>4
  <2> QED BY <2>3, <2>4, <2>5 DEF Next
<1> QED BY <1>1, <1>2, Invariant, CoordinatorInstance, PTL DEF Spec, DoubtIsOwed

\* The worker begins its loop, the game is out of its SRAM, no edge is on its way,
\* and the card would not restore what SRAM holds.
CardBehind ==
  /\ wpc = "top" /\ mpc = "idle" /\ ~window /\ ~SAVE_DIRTY
  /\ BootContents(card) # sram

\* The safety half of what the save path is for: a card that is behind, and not
\* in doubt, leaves the engine with a store to start as soon as the quiet period
\* is over.  What the game has written is never only in SRAM with nobody to know.
THEOREM DifferenceIsPending ==
  Spec => [](CardBehind /\ ~tainted => C!DecidesPersist(engine, TRUE, TRUE))
<1>1. P!Spec => [](P!Owing => P!DecidesPersist(engine, TRUE, TRUE))
  BY P!EngineIsNeverStuck, QuietAssumption, GenerationAssumption, CrcAssumption
<1>2. Inv /\ CardBehind /\ ~tainted => P!Owing
  <2> SUFFICES ASSUME Inv, CardBehind, ~tainted PROVE P!Owing
    OBVIOUS
  <2> USE DEF CardBehind
  <2>1. Owed(engine.disk_generation)
    BY DEF Inv, Credited
  <2>2. SAVE_GENERATION > engine.disk_generation
    BY <2>1 DEF Owed
  <2>3. engine.disk_generation # SAVE_GENERATION
    BY <2>2 DEF Inv, Coordination, C!Engine
  <2> QED BY <2>3 DEF P!Owing
<1>3. P!DecidesPersist(engine, TRUE, TRUE) => C!DecidesPersist(engine, TRUE, TRUE)
  BY DEF P!DecidesPersist, C!DecidesPersist
<1> QED BY <1>1, <1>2, <1>3, Invariant, CoordinatorInstance, PTL

-----------------------------------------------------------------------------
(* A crash during a store that no session overlaps.                        *)

\* The theorems about the files; Q's files are F.
Q == INSTANCE SaveFileProofs

\* The worker is in a store exactly when the files are; between two stores the
\* history variables say what the .SAV holds; and in a store that no session
\* overlaps everything holds that SaveFileProofs says of an SRAM that is still.
FilesInv ==
  /\ pc \in F!Pc /\ before \in F!Image \cup {NoImage} /\ sound \in BOOLEAN
  /\ pc \in {"boot", "idle"} <=> wpc # "store"
  /\ pc # "boot" /\ file = "TMP" =>
       /\ sound = F!Readable("SAV")
       /\ sound => card["SAV"].image = before
  /\ wpc = "store" /\ ~overlap => Q!WriteInv /\ Q!OrderInv /\ Q!PrimaryInv

LEMMA SameFiles ==
  /\ Q!vars = <<sram, card, Q!jobVars, Q!historyVars>>
  /\ Q!jobVars = <<pc, file, done>> /\ Q!historyVars = <<before, sound>>
  /\ F!StoreStep => Q!StoreStep
  /\ Q!Pc = F!Pc /\ Q!Name = F!Name /\ Q!File = F!File /\ Q!Image = F!Image
  /\ Q!FileLen = F!FileLen
  /\ \A f \in F!Name : Q!Readable(f) <=> F!Readable(f)
  /\ \A c : Q!BootImage(c) = F!BootImage(c)
<1>1. /\ Q!vars = <<sram, card, Q!jobVars, Q!historyVars>>
      /\ Q!jobVars = <<pc, file, done>> /\ Q!historyVars = <<before, sound>>
  BY DEF Q!vars, Q!jobVars, Q!historyVars
<1>2. Q!FileLen = F!FileLen
  BY DEF Q!FileLen, F!FileLen
<1>3. Q!Pc = F!Pc /\ Q!Name = F!Name /\ Q!Image = F!Image /\ Q!File = F!File
  BY <1>2 DEF Q!Pc, F!Pc, Q!Name, F!Name, Q!Image, F!Image, Q!File, F!File
<1>4. \A f \in F!Name : Q!Readable(f) <=> F!Readable(f)
  BY <1>2 DEF Q!Readable, F!Readable, Q!IsFullSave, F!IsFullSave
<1>5. \A c : Q!BootImage(c) = F!BootImage(c)
  BY <1>2 DEF Q!BootImage, F!BootImage, Q!PickRestoreSlot, F!PickRestoreSlot,
     Q!IsFullSave, F!IsFullSave, Q!IsSramComplete, F!IsSramComplete
<1>6. F!StoreStep => Q!StoreStep
  BY <1>2, Zenon DEF
     Q!StoreStep, F!StoreStep, Q!Mount, F!Mount, Q!MountFails, F!MountFails,
     Q!CutChain, F!CutChain, Q!CutChainFails, F!CutChainFails, Q!ZeroEntry,
     F!ZeroEntry, Q!ZeroEntryFails, F!ZeroEntryFails, Q!WriteUnit, F!WriteUnit,
     Q!WriteFails, F!WriteFails, Q!Close, F!Close, Q!CloseFails, F!CloseFails,
     Q!Abort, F!Abort, Q!ChainCut, F!ChainCut, Q!EntryZeroed, F!EntryZeroed,
     Q!LengthRecorded, F!LengthRecorded, Q!historyVars, F!historyVars
<1> QED BY <1>1, <1>2, <1>3, <1>4, <1>5, <1>6

LEMMA FilesInit == Init => FilesInv
<1> SUFFICES ASSUME Init PROVE FilesInv
  OBVIOUS
<1>1. sound \in BOOLEAN
  BY Zenon DEF Init, F!Init
<1>2. pc \in F!Pc /\ pc = "boot" /\ before = NoImage /\ wpc # "store"
  BY DEF Init, F!Init, C!Init, F!Pc
<1> QED BY <1>1, <1>2 DEF FilesInv

\* A step that leaves the files alone and does not start, or end, a store.
LEMMA FilesStay ==
  ASSUME Inv, FilesInv, UNCHANGED fileVars, wpc' = "store" <=> wpc = "store", Watch
  PROVE  FilesInv'
<1> USE DEF fileVars
<1>1. wpc' = "store" /\ ~overlap' => wpc = "store" /\ ~overlap
  BY Watched DEF Reading
<1>2. F!Readable("SAV")' = F!Readable("SAV")
  BY DEF F!Readable
<1>3. /\ Q!WriteInv => Q!WriteInv'
      /\ Q!OrderInv => Q!OrderInv'
      /\ Q!PrimaryInv => Q!PrimaryInv'
  BY DEF Q!WriteInv, Q!OrderInv, Q!PrimaryInv, Q!Readable
<1> QED BY <1>1, <1>2, <1>3 DEF FilesInv

\* A step of the store: SaveFileProofs's own step, if no session overlaps; and the
\* .SAV is touched only once the store has got to it.
LEMMA FilesStore ==
  ASSUME Inv, Inv', FilesInv, StoreStep
  PROVE  FilesInv'
<1>1. /\ wpc = "store" /\ wpc' = "store" /\ F!StoreStep /\ UNCHANGED <<before, sound, sram>>
  BY DEF StoreStep, coordinatorVars, F!StoreStep, F!Mount, F!MountFails, F!CutChain,
     F!CutChainFails, F!ZeroEntry, F!ZeroEntryFails, F!WriteUnit, F!WriteFails, F!Close,
     F!CloseFails, F!Abort, F!historyVars
<1>2. pc' \in F!Pc \ {"boot", "idle"}
  BY <1>1 DEF F!StoreStep, F!Mount, F!MountFails, F!CutChain,
     F!CutChainFails, F!ZeroEntry, F!ZeroEntryFails, F!WriteUnit, F!WriteFails, F!Close,
     F!CloseFails, F!Abort, F!Pc
<1>3. file' = "TMP" => file = "TMP" /\ card'["SAV"] = card["SAV"]
  <2> SUFFICES ASSUME file' = "TMP" PROVE file = "TMP" /\ card'["SAV"] = card["SAV"]
    OBVIOUS
  <2>1. CASE F!Mount \/ F!MountFails \/ F!WriteFails
    BY <2>1 DEF F!Mount, F!MountFails, F!WriteFails, Inv, CardType
  <2>2. CASE F!CutChain \/ F!CutChainFails \/ F!ZeroEntry \/ F!ZeroEntryFails
    BY <2>2 DEF F!CutChain, F!CutChainFails, F!ZeroEntry, F!ZeroEntryFails, F!ChainCut,
       F!EntryZeroed, Inv, CardType, F!Name
  <2>3. CASE F!WriteUnit
    BY <2>3 DEF F!WriteUnit, Inv, CardType, F!Name
  <2>4. CASE F!Close \/ F!CloseFails \/ F!Abort
    BY <2>4 DEF F!Close, F!CloseFails, F!Abort, F!LengthRecorded, Inv, CardType, F!Name
  <2> QED BY <1>1, <2>1, <2>2, <2>3, <2>4 DEF F!StoreStep
<1>4. file' = "TMP" => F!Readable("SAV")' = F!Readable("SAV")
  BY <1>3 DEF F!Readable
<1>5. ASSUME ~overlap' PROVE Q!WriteInv' /\ Q!OrderInv' /\ Q!PrimaryInv'
  <2>1. ~overlap
    BY <1>1, <1>5, Watched DEF StoreStep, Reading
  <2>2. Q!TypeOK /\ Q!TypeOK'
    BY <1>1, <1>2, SameFiles DEF Q!TypeOK, Inv, CardType, FilesInv
  <2>3. Q!IInv
    BY <1>1, <2>1, <2>2 DEF FilesInv, Q!IInv
  <2>4. [Q!Next]_(Q!vars)
    BY <1>1, SameFiles DEF Q!Next
  <2>5. NoImage \notin Q!Image
    BY NoImageAssumption, SameFiles
  <2>6. Q!IInv /\ Q!TypeOK' /\ [Q!Next]_(Q!vars) => Q!IInv'
    BY <2>5, Q!IInvStep, ValueAssumption, UnitsAssumption, RtcAssumption, ClusterAssumption,
       Zenon
  <2>7. Q!IInv'
    BY <2>2, <2>3, <2>4, <2>6
  <2> QED BY <2>7 DEF Q!IInv
<1> QED BY <1>1, <1>2, <1>3, <1>4, <1>5 DEF FilesInv

\* A store begins on files that are at rest, and ends by looking at them again.
LEMMA FilesStart == Inv /\ FilesInv /\ StartPersist => FilesInv'
<1> SUFFICES ASSUME Inv, FilesInv, StartPersist PROVE FilesInv'
  OBVIOUS
<1>0. wpc = "crc" /\ Watch
  BY DEF StartPersist
<1>1. CASE wpc' = "store"
  <2>1. /\ pc = "idle" /\ pc' = "mount" /\ UNCHANGED <<sram, card, file, done, before, sound>>
    BY <1>1 DEF StartPersist, F!StartStore, F!historyVars
  <2>2. file = "TMP"
    BY <2>1 DEF Inv, CardType
  <2>3. F!Readable("SAV")' = F!Readable("SAV")
    BY <2>1 DEF F!Readable
  <2>4. (Q!Readable("SAV") <=> F!Readable("SAV")) /\ Q!Readable("SAV") \in BOOLEAN
    <3>1. Q!Readable("SAV") \in BOOLEAN
      BY Zenon DEF Q!Readable
    <3>2. "SAV" \in F!Name
      BY DEF F!Name
    <3> QED BY <3>1, <3>2, SameFiles
  <2>5. /\ sound = Q!Readable("SAV")
        /\ sound => card["SAV"].image = before
    <3>1. /\ sound = F!Readable("SAV")
          /\ sound => card["SAV"].image = before
      BY <2>1, <2>2, Zenon DEF FilesInv
    <3>2. F!Readable("SAV") \in BOOLEAN
      BY Zenon DEF F!Readable
    <3>3. Q!Readable("SAV") = F!Readable("SAV")
      BY <2>4, <3>2
    <3> QED BY <3>1, <3>3, Zenon
  <2>6. Q!WriteInv' /\ Q!OrderInv'
    BY <2>1, <2>2 DEF Q!WriteInv, Q!OrderInv
  <2>7. Q!Readable("SAV")' = Q!Readable("SAV")
    BY <2>1 DEF Q!Readable
  <2>8. Q!PrimaryInv'
    BY <2>1, <2>2, <2>5, <2>7 DEF Q!PrimaryInv
  <2> QED BY <1>1, <2>1, <2>2, <2>3, <2>6, <2>8 DEF FilesInv, F!Pc
<1>2. CASE wpc' # "store"
  <2>1. UNCHANGED fileVars
    BY <1>2 DEF StartPersist
  <2> QED BY <1>0, <1>2, <2>1, FilesStay
<1> QED BY <1>1, <1>2

LEMMA FilesEnd ==
  ASSUME Inv, FilesInv, Boot \/ FinishStore \/ PowerLoss
  PROVE  FilesInv'
<1>1. UNCHANGED card
  BY DEF Boot, FinishStore, PowerLoss, F!Boot, F!Restore, F!FinishStore, F!PowerLoss
<1>2. wpc' # "store" /\ pc' \in {"boot", "idle"}
  BY DEF Boot, FinishStore, PowerLoss, F!Boot, F!Restore, F!FinishStore, F!PowerLoss,
     C!Restored, C!FinishStore, C!Reboot
<1>3. \/ pc' = "boot" /\ UNCHANGED <<before, sound>>
      \/ F!Settle
  BY DEF Boot, FinishStore, PowerLoss, F!Boot, F!Restore, F!FinishStore, F!PowerLoss,
     F!historyVars
<1>4. F!Readable("SAV")' = F!Readable("SAV") /\ F!Readable("SAV") \in BOOLEAN
  BY <1>1, Zenon DEF F!Readable
<1>5. F!BootImage(card) \in F!Image \cup {NoImage}
  BY CardImage DEF Inv, CardType
<1>6. F!Readable("SAV") => card["SAV"].image = F!BootImage(card)
  BY DEF F!Readable, F!BootImage, F!PickRestoreSlot
<1>7. /\ pc' \in F!Pc /\ before' \in F!Image \cup {NoImage} /\ sound' \in BOOLEAN
  BY <1>2, <1>3, <1>4, <1>5 DEF F!Settle, F!Pc, FilesInv
<1>8. pc' # "boot" => /\ sound' = F!Readable("SAV")'
                      /\ sound' => card'["SAV"].image = before'
  BY <1>1, <1>3, <1>4, <1>6 DEF F!Settle
<1> QED BY <1>2, <1>7, <1>8 DEF FilesInv

LEMMA FilesStep == Inv /\ Inv' /\ FilesInv /\ [Next]_vars => FilesInv'
<1> SUFFICES ASSUME Inv, Inv', FilesInv, [Next]_vars PROVE FilesInv'
  OBVIOUS
<1>1. CASE Mapper \/ Tick \/ Coordinate \/ ScanUnit
  <2>1. UNCHANGED fileVars /\ Watch
    BY <1>1 DEF Mapper, Tick, Coordinate, ScanUnit
  <2>2. wpc' = "store" <=> wpc = "store"
    BY <1>1 DEF Mapper, C!Mapper, C!Publish, C!GateWrite, C!StoreEnabled,
       C!StoreDisabled, C!BumpGeneration, C!MarkDirty, C!localVars, Tick, C!Tick, C!atomics,
       C!mapperVars, Coordinate, C!TakeDirty, C!LoadGeneration, C!Poll, C!Recheck,
       C!StillDisabled, C!Succeed, C!Fail, ScanUnit, coordinatorVars
  <2> QED BY <2>1, <2>2, FilesStay
<1>2. ASSUME NEW u \in 1..Units, NEW v \in Value, GameWrite(u, v) PROVE FilesInv'
  <2>1. UNCHANGED <<card, pc, file, done, before, sound, wpc>> /\ window /\ window' /\ Watch
    BY <1>2 DEF GameWrite, coordinatorVars
  <2>2. wpc' = "store" => overlap'
    BY <2>1, Watched DEF Reading
  <2>3. F!Readable("SAV")' = F!Readable("SAV")
    BY <2>1 DEF F!Readable
  <2> QED BY <2>1, <2>2, <2>3 DEF FilesInv
<1>3. CASE UNCHANGED vars
  <2>1. FilesInv' <=> FilesInv
    BY <1>3 DEF vars, coordinatorVars, fileVars, FilesInv, F!Readable, Q!WriteInv,
       Q!OrderInv, Q!PrimaryInv, Q!Readable
  <2> QED BY <2>1
<1> QED
  BY <1>1, <1>2, <1>3, FilesStart, FilesStore, FilesEnd DEF Next

LEMMA FilesInvariant == Spec => []FilesInv
  BY FilesInit, FilesStep, Invariant, PTL DEF Spec

\* Type correctness of both parts while they work on one another's values.
THEOREM TypeCorrect == Spec => [](C!TypeOK /\ F!TypeOK)
<1>1. P!Spec => []P!TypeOK
  BY P!TypeCorrect, QuietAssumption, GenerationAssumption, CrcAssumption
<1>2. P!TypeOK => C!TypeOK
  BY Zenon DEF P!TypeOK, C!TypeOK, P!Engine, C!Engine, P!MapperPc, C!MapperPc, P!WorkerPc,
     C!WorkerPc
<1>3. Inv /\ FilesInv => F!TypeOK
  BY DEF Inv, CardType, FilesInv, F!TypeOK
<1> QED BY <1>1, <1>2, <1>3, CoordinatorInstance, FilesInvariant, Invariant, PTL

\* No session has opened the window since the attempt that is storing began.
Undisturbed == wpc = "store" => ~overlap

\* A power loss at any point of a store no session overlaps leaves a card that
\* boots what it booted before or what the game has left in SRAM, as persist_atomic
\* promises of an SRAM that is still; and so it does between two stores, whatever
\* the game is doing: only a session during the store itself can tear the image.
THEOREM CrashKeepsOldOrNew ==
  Spec => [](pc # "boot" /\ Undisturbed => F!OldOrNew)
<1>1. Inv /\ FilesInv /\ pc # "boot" /\ Undisturbed => F!OldOrNew
  <2> SUFFICES ASSUME Inv, FilesInv, pc # "boot", Undisturbed,
                      sound \/ file = "SAV", ~card["SAV"].cut
               PROVE  F!BootImage(card) \in {before, sram}
    BY DEF F!OldOrNew
  <2>1. F!Readable("SAV") => F!BootImage(card) = card["SAV"].image
    BY DEF F!Readable, F!BootImage, F!PickRestoreSlot
  <2>2. CASE file = "TMP"
    BY <2>1, <2>2 DEF FilesInv
  <2>3. CASE file = "SAV"
    <3>1. wpc = "store" /\ ~overlap
      BY <2>3 DEF Inv, CardType, FilesInv, Undisturbed
    <3>2. CASE F!Readable("SAV")
      BY <2>1, <2>3, <3>1, <3>2, SameFiles DEF FilesInv, Q!PrimaryInv, F!Name
    <3>3. CASE ~F!Readable("SAV")
      <4>1. ~F!IsFullSave(card["SAV"].len)
        BY <3>3 DEF F!Readable
      <4>2. F!Readable("TMP") /\ card["TMP"].image = sram
        BY <2>3, <3>1 DEF Inv, Written
      <4> QED BY <4>1, <4>2 DEF F!Readable, F!BootImage, F!PickRestoreSlot
    <3> QED BY <3>2, <3>3
  <2> QED BY <2>2, <2>3 DEF Inv, CardType, F!Name
<1> QED BY <1>1, FilesInvariant, Invariant, PTL

\* A store no session overlaps that comes to its end has put what the game left
\* in both files, whole, so that one more failure cannot take it away.
THEOREM SuccessIsWhole == Spec => [](Undisturbed => F!StoredTwice)
<1>1. Inv /\ FilesInv /\ Undisturbed => F!StoredTwice
  <2> SUFFICES ASSUME Inv, FilesInv, Undisturbed, pc = "ok"
               PROVE  \A f \in F!Name : F!Readable(f) /\ card[f].image = sram
    BY DEF F!StoredTwice
  <2>1. wpc = "store" /\ ~overlap
    BY DEF FilesInv, Undisturbed
  <2>2. file = "SAV"
    BY <2>1 DEF FilesInv, Q!OrderInv
  <2> QED BY <2>1, <2>2 DEF Inv, Written, F!Name
<1> QED BY <1>1, FilesInvariant, Invariant, PTL

=============================================================================
