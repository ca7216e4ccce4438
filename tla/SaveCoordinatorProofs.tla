------------------------- MODULE SaveCoordinatorProofs -------------------------
(***************************************************************************)
(* What holds of the save coordinator for every quiet period, every number *)
(* of SRAM sessions and every set of images.                               *)
(***************************************************************************)
EXTENDS SaveCoordinator, TLAPS

USE QuietAssumption, GenerationAssumption, CrcAssumption

\* The methods of the engine return an engine.
LEMMA EngineMethods ==
  ASSUME NEW e \in Engine, NEW g \in Nat, NEW c \in Image \cup {NoCrc}
  PROVE  /\ IngestDirty(e, g) \in Engine
         /\ BeginPersist(e) \in Engine
         /\ OnSuccess(e, g, c) \in Engine
         /\ OnFailure(e) \in Engine
         /\ OnRestored(e, c) \in Engine
<1>1. IngestDirty(e, g) \in Engine
  BY DEF IngestDirty, Engine
<1>2. BeginPersist(e) \in Engine /\ OnFailure(e) \in Engine
  BY DEF BeginPersist, OnFailure, Engine
<1>3. OnSuccess(e, g, c) \in Engine
  BY DEF OnSuccess, Engine
<1>4. OnRestored(e, c) \in Engine
  BY DEF OnRestored, Engine
<1> QED BY <1>1, <1>2, <1>3, <1>4

\* Every variable keeps its type through every step of both cores and through
\* a power cut.
THEOREM TypeCorrect == Spec => []TypeOK
<1>1. Init => TypeOK
  <2> SUFFICES ASSUME Init PROVE TypeOK
    OBVIOUS
  <2> USE DEF Init
  <2>1. /\ SRAM_ENABLED \in BOOLEAN /\ SAVE_DIRTY \in BOOLEAN
        /\ window \in BOOLEAN /\ ram_enabled \in BOOLEAN /\ dirty \in BOOLEAN
        /\ quiet \in BOOLEAN /\ stored \in BOOLEAN /\ raced \in BOOLEAN
    BY Zenon
  <2>2. /\ SAVE_GENERATION \in Nat /\ gen \in Nat
        /\ activityAge \in 0..QuietPeriod /\ disableAge \in 0..QuietPeriod
    OBVIOUS
  <2>3. engine \in Engine /\ crc \in Image \cup {NoCrc}
    BY DEF NewEngine, Engine
  <2>4. mpc \in MapperPc /\ wpc \in WorkerPc
    BY DEF MapperPc, WorkerPc
  <2> QED BY <2>1, <2>2, <2>3, <2>4 DEF TypeOK
<1>2. TypeOK /\ [Next]_vars => TypeOK'
  <2> SUFFICES ASSUME TypeOK, [Next]_vars PROVE TypeOK'
    OBVIOUS
  <2> USE DEF TypeOK, MapperPc, WorkerPc, atomics, mapperVars, localVars, clockVars
  <2>1. CASE Mapper
    <3>1. ASSUME NEW on \in BOOLEAN, GateWrite(on) PROVE TypeOK'
      BY <3>1 DEF GateWrite
    <3>2. CASE StoreEnabled
      BY <3>2 DEF StoreEnabled
    <3>3. CASE StoreDisabled
      <4>1. disableAge' \in 0..QuietPeriod /\ mpc' \in MapperPc
        BY <3>3 DEF StoreDisabled
      <4>2. raced' \in BOOLEAN /\ SRAM_ENABLED' \in BOOLEAN /\ ram_enabled' \in BOOLEAN
        BY <3>3, Zenon DEF StoreDisabled
      <4> QED BY <3>3, <4>1, <4>2, Zenon DEF StoreDisabled
    <3>4. CASE BumpGeneration
      BY <3>4 DEF BumpGeneration
    <3>5. CASE MarkDirty
      BY <3>5 DEF MarkDirty
    <3> QED BY <2>1, <3>1, <3>2, <3>3, <3>4, <3>5 DEF Mapper, Publish
  <2>2. CASE Worker
    <3>1. ASSUME NEW c \in Image, Restored(c) PROVE TypeOK'
      <4>1. engine' \in Engine
        BY <3>1, EngineMethods DEF Restored
      <4> QED BY <3>1, <4>1 DEF Restored
    <3>2. ASSUME NEW c \in Image, StartPersist(c) PROVE TypeOK'
      <4>1. engine.pending_generation \in Nat
        BY DEF Engine
      <4>2. BeginPersist(engine) \in Engine
        BY EngineMethods, <4>1
      <4>3. OnSuccess(BeginPersist(engine), engine.pending_generation, c) \in Engine
        BY EngineMethods, <4>1, <4>2
      <4> QED BY <3>2, <4>2, <4>3 DEF StartPersist
    <3>3. CASE TakeDirty
      <4>1. activityAge' \in 0..QuietPeriod /\ wpc' \in WorkerPc
        BY <3>3 DEF TakeDirty
      <4>2. SAVE_DIRTY' \in BOOLEAN /\ dirty' \in BOOLEAN
        BY <3>3, Zenon DEF TakeDirty
      <4>3. quiet' \in BOOLEAN /\ raced' \in BOOLEAN
        BY <3>3, SMT DEF TakeDirty
      <4> QED BY <3>3, <4>1, <4>2, <4>3, Zenon DEF TakeDirty
    <3>4. CASE LoadGeneration
      BY <3>4 DEF LoadGeneration
    <3>5. CASE Poll
      <4>1. engine' \in Engine
        BY <3>5, EngineMethods DEF Poll
      <4> QED BY <3>5, <4>1 DEF Poll
    <3>6. CASE Recheck
      BY <3>6 DEF Recheck
    <3>7. ASSUME NEW ok \in BOOLEAN, FinishStore(ok) PROVE TypeOK'
      BY <3>7 DEF FinishStore
    <3>8. CASE StillDisabled
      BY <3>8 DEF StillDisabled
    <3>9. CASE Succeed
      <4>1. engine.pending_generation \in Nat
        BY DEF Engine
      <4>2. engine' \in Engine
        BY <3>9, <4>1, EngineMethods DEF Succeed
      <4> QED BY <3>9, <4>2 DEF Succeed
    <3>10. CASE Fail
      <4>1. engine' \in Engine
        BY <3>10, EngineMethods DEF Fail
      <4> QED BY <3>10, <4>1 DEF Fail
    <3> QED BY <2>2, <3>1, <3>2, <3>3, <3>4, <3>5, <3>6, <3>7, <3>8, <3>9, <3>10
            DEF Worker
  <2>3. CASE Tick
    BY <2>3 DEF Tick, Older
  <2>4. CASE Reboot
    <3> USE <2>4 DEF Reboot
    <3>1. /\ SRAM_ENABLED' \in BOOLEAN /\ SAVE_DIRTY' \in BOOLEAN
          /\ window' \in BOOLEAN /\ ram_enabled' \in BOOLEAN /\ dirty' \in BOOLEAN
          /\ quiet' \in BOOLEAN /\ stored' \in BOOLEAN /\ raced' \in BOOLEAN
      BY Zenon
    <3>2. /\ SAVE_GENERATION' \in Nat /\ gen' \in Nat
          /\ activityAge' \in 0..QuietPeriod /\ disableAge' \in 0..QuietPeriod
      OBVIOUS
    <3>3. engine' \in Engine /\ crc' \in Image \cup {NoCrc}
      BY DEF NewEngine, Engine
    <3>4. mpc' \in MapperPc /\ wpc' \in WorkerPc
      OBVIOUS
    <3> QED BY <3>1, <3>2, <3>3, <3>4
  <2>5. CASE UNCHANGED vars
    BY <2>5 DEF vars
  <2> QED BY <2>1, <2>2, <2>3, <2>4, <2>5 DEF Next
<1> QED BY <1>1, <1>2, PTL DEF Spec

-----------------------------------------------------------------------------

\* Why no finished session is forgotten: on top of NothingForgotten itself, the
\* engine and the worker's local only ever hold published generations, so that
\* taking the newest one over really makes the engine's pending one the newest.
SessionInv ==
  /\ GenerationsOrdered
  /\ wpc = "poll" => gen <= SAVE_GENERATION
  /\ NothingForgotten

LEMMA SessionInvInit == Init => SessionInv
  BY DEF Init, SessionInv, GenerationsOrdered, NothingForgotten, NewEngine

LEMMA SessionInvStep == TypeOK /\ TypeOK' /\ SessionInv /\ [Next]_vars => SessionInv'
<1> SUFFICES ASSUME TypeOK, TypeOK', SessionInv, [Next]_vars PROVE SessionInv'
  OBVIOUS
<1> USE DEF TypeOK, Engine, SessionInv, GenerationsOrdered, NothingForgotten,
            atomics, mapperVars, localVars, clockVars
<1>1. CASE Mapper
  <2>1. ASSUME NEW on \in BOOLEAN, GateWrite(on) PROVE SessionInv'
    BY <2>1 DEF GateWrite
  <2>2. CASE StoreEnabled
    BY <2>2 DEF StoreEnabled
  <2>3. CASE StoreDisabled
    BY <2>3 DEF StoreDisabled
  <2>4. CASE BumpGeneration
    BY <2>4 DEF BumpGeneration
  <2>5. CASE MarkDirty
    BY <2>5 DEF MarkDirty
  <2> QED BY <1>1, <2>1, <2>2, <2>3, <2>4, <2>5 DEF Mapper, Publish
<1>2. CASE Worker
  <2>1. ASSUME NEW c \in Image, Restored(c) PROVE SessionInv'
    BY <2>1 DEF Restored, OnRestored
  <2>2. ASSUME NEW c \in Image, StartPersist(c) PROVE SessionInv'
    <3>1. /\ engine'.pending_generation = engine.pending_generation
          /\ engine'.disk_generation \in {engine.disk_generation,
                                         engine.pending_generation}
      <4>1. CASE ShouldSkipIdentical(engine, c)
        BY <2>2, <4>1 DEF StartPersist, OnSuccess, BeginPersist
      <4>2. CASE ~ShouldSkipIdentical(engine, c)
        BY <2>2, <4>2 DEF StartPersist, BeginPersist
      <4> QED BY <4>1, <4>2
    <3>2. /\ UNCHANGED <<SRAM_ENABLED, SAVE_GENERATION, SAVE_DIRTY, mpc>>
          /\ wpc = "crc" /\ wpc' \in {"top", "store"}
      BY <2>2 DEF StartPersist
    <3> QED BY <3>1, <3>2
  <2>3. CASE TakeDirty
    BY <2>3 DEF TakeDirty
  <2>4. CASE LoadGeneration
    BY <2>4 DEF LoadGeneration
  <2>5. CASE Poll
    BY <2>5 DEF Poll, IngestDirty
  <2>6. CASE Recheck
    BY <2>6 DEF Recheck
  <2>7. ASSUME NEW ok \in BOOLEAN, FinishStore(ok) PROVE SessionInv'
    BY <2>7 DEF FinishStore
  <2>8. CASE StillDisabled
    BY <2>8 DEF StillDisabled
  <2>9. CASE Succeed
    BY <2>9 DEF Succeed, OnSuccess
  <2>10. CASE Fail
    BY <2>10 DEF Fail, OnFailure
  <2> QED BY <1>2, <2>1, <2>2, <2>3, <2>4, <2>5, <2>6, <2>7, <2>8, <2>9, <2>10
          DEF Worker
<1>3. CASE Tick
  BY <1>3 DEF Tick
<1>4. CASE Reboot
  BY <1>4 DEF Reboot, NewEngine
<1>5. CASE UNCHANGED vars
  BY <1>5 DEF vars
<1> QED BY <1>1, <1>2, <1>3, <1>4, <1>5 DEF Next

LEMMA SessionInvariant == Spec => []SessionInv
  BY SessionInvInit, SessionInvStep, TypeCorrect, PTL DEF Spec

\* A finished SRAM session always reaches the engine: the two cores' orders of
\* flag and generation leave no interleaving in which it is dropped.
THEOREM NoSessionForgotten == Spec => []NothingForgotten
<1>1. SessionInv => NothingForgotten
  BY DEF SessionInv
<1> QED BY <1>1, SessionInvariant, PTL

\* The engine is in flight exactly while a store is under way or its outcome has
\* not been taken over.
FlightInv == engine.in_flight <=> wpc \in {"store", "still", "success", "failure"}

LEMMA FlightStep == TypeOK /\ FlightInv /\ [Next]_vars => FlightInv'
<1> SUFFICES ASSUME TypeOK, FlightInv, [Next]_vars PROVE FlightInv'
  OBVIOUS
<1>0. engine \in Engine /\ wpc \in WorkerPc
  BY DEF TypeOK
<1>1. CASE Mapper \/ Tick
  <2>1. UNCHANGED <<engine, wpc>>
    BY <1>1 DEF Mapper, Publish, GateWrite, StoreEnabled, StoreDisabled, BumpGeneration,
                MarkDirty, Tick
  <2> QED BY <2>1 DEF FlightInv
<1>2. CASE Worker
  <2>1. ASSUME NEW c \in Image, Restored(c) PROVE FlightInv'
    <3>1. engine'.in_flight = engine.in_flight
      BY <1>0, <2>1 DEF Restored, OnRestored, Engine
    <3> QED BY <2>1, <3>1 DEF Restored, FlightInv
  <2>2. ASSUME NEW c \in Image, StartPersist(c) PROVE FlightInv'
    <3>1. CASE ShouldSkipIdentical(engine, c)
      <4>1. engine'.in_flight = FALSE
        BY <1>0, <2>2, <3>1 DEF StartPersist, OnSuccess, BeginPersist, Engine
      <4>2. wpc' = "top"
        BY <2>2, <3>1 DEF StartPersist
      <4> QED BY <4>1, <4>2 DEF FlightInv
    <3>2. CASE ~ShouldSkipIdentical(engine, c)
      <4>1. engine'.in_flight = TRUE
        BY <1>0, <2>2, <3>2 DEF StartPersist, BeginPersist, Engine
      <4>2. wpc' = "store"
        BY <2>2, <3>2 DEF StartPersist
      <4> QED BY <4>1, <4>2 DEF FlightInv
    <3> QED BY <3>1, <3>2
  <2>3. CASE TakeDirty \/ LoadGeneration \/ Recheck
    BY <2>3 DEF TakeDirty, LoadGeneration, Recheck, FlightInv
  <2>4. CASE Poll
    <3>1. engine'.in_flight = engine.in_flight
      BY <1>0, <2>4 DEF Poll, IngestDirty, Engine
    <3> QED BY <2>4, <3>1 DEF Poll, FlightInv
  <2>5. ASSUME NEW ok \in BOOLEAN, FinishStore(ok) PROVE FlightInv'
    BY <2>5 DEF FinishStore, FlightInv
  <2>6. CASE StillDisabled
    BY <2>6 DEF StillDisabled, FlightInv
  <2>7. CASE Succeed
    <3>1. engine'.in_flight = FALSE
      BY <1>0, <2>7 DEF Succeed, OnSuccess, Engine
    <3> QED BY <2>7, <3>1 DEF Succeed, FlightInv
  <2>8. CASE Fail
    <3>1. engine'.in_flight = FALSE
      BY <1>0, <2>8 DEF Fail, OnFailure, Engine
    <3> QED BY <2>8, <3>1 DEF Fail, FlightInv
  <2> QED BY <1>2, <2>1, <2>2, <2>3, <2>4, <2>5, <2>6, <2>7, <2>8 DEF Worker
<1>3. CASE Reboot
  BY <1>3 DEF Reboot, NewEngine, FlightInv
<1>4. CASE UNCHANGED vars
  BY <1>4 DEF vars, FlightInv
<1> QED BY <1>1, <1>2, <1>3, <1>4 DEF Next

\* From the decision to persist until its outcome is taken over, the session the
\* attempt is for is not on the card.
AttemptInv ==
  wpc \in {"recheck", "crc", "store", "still", "success", "failure"}
    => engine.pending_generation > engine.disk_generation

LEMMA AttemptStep == AttemptInv /\ [Next]_vars => AttemptInv'
<1> SUFFICES ASSUME AttemptInv, [Next]_vars PROVE AttemptInv'
  OBVIOUS
<1>1. CASE Mapper \/ Tick
  <2>1. UNCHANGED <<engine, wpc>>
    BY <1>1 DEF Mapper, Publish, GateWrite, StoreEnabled, StoreDisabled, BumpGeneration,
                MarkDirty, Tick
  <2> QED BY <2>1 DEF AttemptInv
<1>2. CASE Worker
  <2>1. ASSUME NEW c \in Image, Restored(c) PROVE AttemptInv'
    BY <2>1 DEF Restored, AttemptInv
  <2>2. ASSUME NEW c \in Image, StartPersist(c) PROVE AttemptInv'
    <3>1. CASE ShouldSkipIdentical(engine, c)
      BY <2>2, <3>1 DEF StartPersist, AttemptInv
    <3>2. CASE ~ShouldSkipIdentical(engine, c)
      <4>1. wpc = "crc" /\ engine' = [engine EXCEPT !.in_flight = TRUE]
        BY <2>2, <3>2 DEF StartPersist, BeginPersist
      <4>2. /\ engine'.pending_generation = engine.pending_generation
            /\ engine'.disk_generation = engine.disk_generation
        BY <4>1
      <4> QED BY <4>1, <4>2 DEF AttemptInv
    <3> QED BY <3>1, <3>2
  <2>3. CASE TakeDirty \/ LoadGeneration \/ Recheck
    BY <2>3 DEF TakeDirty, LoadGeneration, Recheck, AttemptInv, localVars
  <2>4. CASE Poll
    BY <2>4 DEF Poll, DecidesPersist, AttemptInv
  <2>5. ASSUME NEW ok \in BOOLEAN, FinishStore(ok) PROVE AttemptInv'
    BY <2>5 DEF FinishStore, AttemptInv
  <2>6. CASE StillDisabled \/ Succeed \/ Fail
    BY <2>6 DEF StillDisabled, Succeed, Fail, AttemptInv
  <2> QED BY <1>2, <2>1, <2>2, <2>3, <2>4, <2>5, <2>6 DEF Worker
<1>3. CASE Reboot
  BY <1>3 DEF Reboot, AttemptInv
<1>4. CASE UNCHANGED vars
  BY <1>4 DEF vars, AttemptInv
<1> QED BY <1>1, <1>2, <1>3, <1>4 DEF Next

LEMMA AttemptInvariant == Spec => []AttemptInv
<1>1. Init => AttemptInv
  BY DEF Init, AttemptInv
<1> QED BY <1>1, AttemptStep, PTL DEF Spec

\* The worker begins its loop, nothing is marked dirty or about to be, and there
\* is a session that is not on the card.
Owing ==
  /\ wpc = "top" /\ ~SAVE_DIRTY /\ mpc # "dirty"
  /\ engine.disk_generation # SAVE_GENERATION

\* The safety half of EventuallyRecorded: the engine never waits for something
\* that does not come.  Whenever it owes a session to the card, and no edge is on
\* its way to it, it has all that decide asks of it; only SRAM_ENABLED and the
\* quiet period hold the store back.
THEOREM EngineIsNeverStuck == Spec => [](Owing => DecidesPersist(engine, TRUE, TRUE))
<1>1. Init => FlightInv
  BY DEF Init, NewEngine, FlightInv
<1>2. TypeOK /\ SessionInv /\ FlightInv => (Owing => DecidesPersist(engine, TRUE, TRUE))
  <2> SUFFICES ASSUME TypeOK, SessionInv, FlightInv, Owing
               PROVE  DecidesPersist(engine, TRUE, TRUE)
    OBVIOUS
  <2> USE DEF Owing
  <2>1. ~engine.in_flight
    BY DEF FlightInv
  <2>2. engine.pending_generation = SAVE_GENERATION
    BY DEF SessionInv, NothingForgotten
  <2>3. /\ engine.disk_generation <= engine.pending_generation
        /\ engine.disk_generation \in Nat /\ engine.pending_generation \in Nat
    BY DEF SessionInv, GenerationsOrdered, TypeOK, Engine
  <2>4. engine.pending_generation > engine.disk_generation
    BY <2>2, <2>3
  <2> QED BY <2>1, <2>4 DEF DecidesPersist
<1> QED BY <1>1, <1>2, FlightStep, TypeCorrect, SessionInvariant, PTL DEF Spec

\* The generations on the card, in the engine and published are ordered.
THEOREM GenerationsAreOrdered == Spec => []GenerationsOrdered
<1>1. SessionInv => GenerationsOrdered
  BY DEF SessionInv
<1> QED BY <1>1, SessionInvariant, PTL

-----------------------------------------------------------------------------

\* Why an attempt follows a quiet period: the engine's activity is never older
\* than the last disable edge, unless that edge has still to reach the engine
\* through the dirty flag.
QuietInv ==
  /\ disableAge >= activityAge \/ mpc \in {"bump", "dirty"} \/ SAVE_DIRTY
  /\ wpc \in {"gen", "poll"} /\ quiet => disableAge >= QuietPeriod \/ raced
  /\ QuietUnlessRaced

LEMMA QuietInvInit == Init => QuietInv
  BY DEF Init, QuietInv, QuietUnlessRaced

LEMMA QuietInvStep == TypeOK /\ TypeOK' /\ QuietInv /\ [Next]_vars => QuietInv'
<1> SUFFICES ASSUME TypeOK, TypeOK', QuietInv, [Next]_vars PROVE QuietInv'
  OBVIOUS
<1> USE DEF TypeOK, QuietInv, QuietUnlessRaced, atomics, mapperVars, localVars, clockVars
<1>1. CASE Mapper
  <2>1. ASSUME NEW on \in BOOLEAN, GateWrite(on) PROVE QuietInv'
    BY <2>1 DEF GateWrite
  <2>2. CASE StoreEnabled
    BY <2>2 DEF StoreEnabled
  <2>3. CASE StoreDisabled
    BY <2>3 DEF StoreDisabled
  <2>4. CASE BumpGeneration
    BY <2>4 DEF BumpGeneration
  <2>5. CASE MarkDirty
    BY <2>5 DEF MarkDirty
  <2> QED BY <1>1, <2>1, <2>2, <2>3, <2>4, <2>5 DEF Mapper, Publish
<1>2. CASE Worker
  <2>1. ASSUME NEW c \in Image, Restored(c) PROVE QuietInv'
    BY <2>1 DEF Restored
  <2>2. ASSUME NEW c \in Image, StartPersist(c) PROVE QuietInv'
    BY <2>2 DEF StartPersist
  <2>3. CASE TakeDirty
    BY <2>3 DEF TakeDirty
  <2>4. CASE LoadGeneration
    BY <2>4 DEF LoadGeneration
  <2>5. CASE Poll
    BY <2>5 DEF Poll, DecidesPersist
  <2>6. CASE Recheck
    BY <2>6 DEF Recheck
  <2>7. ASSUME NEW ok \in BOOLEAN, FinishStore(ok) PROVE QuietInv'
    BY <2>7 DEF FinishStore
  <2>8. CASE StillDisabled
    BY <2>8 DEF StillDisabled
  <2>9. CASE Succeed
    BY <2>9 DEF Succeed
  <2>10. CASE Fail
    BY <2>10 DEF Fail
  <2> QED BY <1>2, <2>1, <2>2, <2>3, <2>4, <2>5, <2>6, <2>7, <2>8, <2>9, <2>10
          DEF Worker
<1>3. CASE Tick
  BY <1>3 DEF Tick, Older
<1>4. CASE Reboot
  BY <1>4 DEF Reboot
<1>5. CASE UNCHANGED vars
  BY <1>5 DEF vars
<1> QED BY <1>1, <1>2, <1>3, <1>4, <1>5 DEF Next

\* No attempt starts within the quiet period of a disable edge that had been
\* fully published when the worker last looked.
THEOREM AttemptsFollowQuiet == Spec => []QuietUnlessRaced
<1>1. QuietInv => QuietUnlessRaced
  BY DEF QuietInv
<1> QED BY <1>1, QuietInvInit, QuietInvStep, TypeCorrect, PTL DEF Spec

=============================================================================
