-------------------------- MODULE SaveFileRefinement --------------------------
(***************************************************************************)
(* SaveFile keeps the promise DurableSave states.  On a card whose         *)
(* clusters hold a whole save it does so without the gap.                  *)
(***************************************************************************)
EXTENDS SaveFile

Promise == INSTANCE DurableSave WITH
  Gapless  <- FileLen <= ClusterUnits,
  durable  <- BootImage(card),
  exposed  <- ~Readable("SAV"),
  target   <- IF pc \in {"boot", "idle"} THEN NoImage ELSE sram,
  reported <- pc = "ok"

\* Every behaviour of the two files is one of the promised save.
KeepsPromise == Promise!Spec

=============================================================================
