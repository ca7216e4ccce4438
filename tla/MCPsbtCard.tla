----------------------------- MODULE MCPsbtCard -----------------------------
(***************************************************************************)
(* Instances of PsbtCard: every directory of four slots or less, of parts  *)
(* of a name of two slots and one of one, for two aliases.                 *)
(***************************************************************************)
EXTENDS PsbtCard

MCAlias == 0 .. 3
MCSum == [a \in MCAlias |-> a + 1]
MCPieces == {11, 12, 13}
\* Alias 3 has no extension of its own.
MCUnoffered == {<<3>>}

Blank == [Entry(0) EXCEPT !.is = "deleted"]
Part(index, last, sum, piece) ==
  [Entry(0) EXCEPT !.is = "part", !.index = index, !.last = last, !.sum = sum, !.piece = piece]

MCSlots == {
  Blank,
  Part(2, TRUE, 3, 12), Part(1, FALSE, 3, 11), Part(1, TRUE, 3, 13), Part(1, TRUE, 4, 11),
  Part(0, TRUE, 3, 11),
  Entry(0), Entry(2), Entry(3), [Entry(1) EXCEPT !.plain = FALSE]}

MCAliases(dir) == {dir[i].alias : i \in {j \in DOMAIN dir : dir[j].is = "entry"}}
\* No directory has two entries of an alias.
MCDirectories ==
  UNION {{dir \in [1 .. n -> MCSlots] : Cardinality(MCAliases(dir)) = Cardinality(Entries(dir))}
         : n \in 0 .. 4}

=============================================================================
