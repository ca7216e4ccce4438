----------------------------- MODULE DurableSave ------------------------------
(***************************************************************************)
(* What a save on the card promises: a boot gets one whole image.  A store *)
(* replaces it by the image it was given in one step, and reports success  *)
(* only once that image is there and survives the start of another store.  *)
(* While the only copy is the one the next store overwrites first, that    *)
(* store may lose it.                                                      *)
(***************************************************************************)
CONSTANTS
  Image,    \* what may be stored
  NoImage,  \* nothing to restore
  Gapless   \* whether a store never leaves the card unreadable

VARIABLES
  durable,  \* what a boot restores
  exposed,  \* whether the next store starts by overwriting the only copy
  target,   \* the image being stored, or NoImage
  reported  \* whether the store has reported success

vars == <<durable, exposed, target, reported>>

Init == durable = NoImage /\ exposed = TRUE /\ target = NoImage /\ reported = FALSE

Begin(i) ==
  /\ target = NoImage
  /\ target' = i
  /\ UNCHANGED <<durable, exposed, reported>>

Storing == target # NoImage /\ ~reported

\* The image replaces the old one, or gets its second copy.
Take ==
  /\ Storing
  /\ durable' = target /\ exposed' \in BOOLEAN
  /\ UNCHANGED <<target, reported>>

Lose ==
  /\ Storing /\ exposed
  /\ durable' \in Image \cup {NoImage}
  /\ UNCHANGED <<exposed, target, reported>>

Gap ==
  /\ Storing /\ ~Gapless
  /\ durable' = NoImage /\ exposed' = TRUE
  /\ UNCHANGED <<target, reported>>

Succeed ==
  /\ Storing
  /\ durable = target
  /\ exposed' = FALSE /\ reported' = TRUE
  /\ UNCHANGED <<durable, target>>

\* Success has been reported, or the store has failed, or the power is gone.
End ==
  /\ target # NoImage
  /\ target' = NoImage /\ reported' = FALSE
  /\ UNCHANGED <<durable, exposed>>

Next == (\E i \in Image : Begin(i)) \/ Take \/ Lose \/ Gap \/ Succeed \/ End

Spec == Init /\ [][Next]_vars

=============================================================================
