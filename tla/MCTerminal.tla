------------------------------ MODULE MCTerminal ------------------------------
(***************************************************************************)
(* A small instance of Terminal: two letters, three words, phrases of one  *)
(* and of two words, two files, and PSBTs that differ from a good one in   *)
(* one respect or two.                                                     *)
(***************************************************************************)
EXTENDS Terminal, TLC

CONSTANTS a, b, p, f, g

MCLetter == {a, b}
MCWordList == << <<a, a>>, <<a, b>>, <<b>> >>
MCPrefixLimit == 2
MCWordCounts == {1, 2}
MCValidPhrases == {<<1>>, <<2>>, <<2, 0>>}
MCPassChar == {p}
MCFile == {f, g}
MCNamePages(file) == IF file = f THEN 2 ELSE 1

\* Two phrases have the same fingerprint.
MCFingerprint(secret) == IF secret.phrase = <<2>> THEN 2 ELSE 1

Phrases == {<<1>>, <<2, 0>>}
Owner(phrase) == [phrase |-> phrase, pass |-> <<>>]
At(coin, chain, index) == [root |-> "bip84", coin |-> coin, chain |-> chain, index |-> index]
Paths == {At(1, 0, 0), At(1, 1, 1), At(0, 0, 0), At(1, 2, 0), At(1, 0, 2),
          [At(1, 0, 0) EXCEPT !.root = "other"]}
Keys == {Key(Owner(phrase), path) : phrase \in Phrases, path \in Paths}
Good(coin, chain, index) == Key(Owner(<<1>>), At(coin, chain, index))

\* Claims, true and false, about the keys of the first phrase.
Claims == {Origin(key, print, path) :
             key \in Keys, print \in {1, 2}, path \in {At(1, 0, 0), At(1, 1, 1)}}
            \cup {Origin(key, 1, key.path) : key \in Keys}

Coin(key) == [value |-> 3, script |-> P2wpkh(key)]
Pay(value, key, origins) == [value |-> value, script |-> P2wpkh(key), origins |-> origins]
Stranger == Key(Owner(<<2, 0>>), At(1, 0, 0))

Base(key) ==
  [form |-> "v0", inputs |-> 1, sighash |-> "all", signed |-> FALSE,
   origins |-> {Origin(key, 1, key.path)}, utxo |-> Coin(key), previous |-> "agrees",
   outputs |-> <<Pay(2, Stranger, {})>>]

BadForms ==
  LET good == Base(Good(1, 0, 0)) IN
  {[good EXCEPT !.form = "other"], [good EXCEPT !.inputs = 2],
   [good EXCEPT !.sighash = "unset"], [good EXCEPT !.sighash = "other"],
   [good EXCEPT !.signed = TRUE], [good EXCEPT !.previous = "differs"],
   [good EXCEPT !.utxo = None], [good EXCEPT !.utxo.value = 4],
   [good EXCEPT !.origins = {}], [good EXCEPT !.outputs = <<>>],
   [good EXCEPT !.utxo = Coin(Stranger)],
   [good EXCEPT !.origins = @ \cup {Origin(Stranger, 2, At(1, 0, 0))}]}

Inputs == {[Base(claim.key) EXCEPT !.origins = {claim}] : claim \in Claims}

\* The output of the claimed key, and a second that takes the rest or more.
Outputs ==
  {[Base(Good(1, 0, 0)) EXCEPT !.outputs = <<Pay(value, claim.key, {claim})>>] :
     value \in {2, 3}, claim \in Claims}
  \cup {[Base(Good(1, 0, 0)) EXCEPT
          !.outputs = <<Pay(v, Good(1, 1, 1), {Origin(Good(1, 1, 1), 1, At(1, 1, 1))}),
                        Pay(w, Stranger, {})>>] : v \in 0 .. 4, w \in 0 .. 3}
  \cup {[Base(Good(1, 0, 0)) EXCEPT
          !.outputs = <<[value |-> 2, script |-> [kind |-> "other"], origins |-> {}]>>],
        [Base(Good(1, 0, 0)) EXCEPT
          !.outputs = <<Pay(2, Good(1, 1, 1), {Origin(Good(1, 1, 1), 1, At(1, 1, 1)),
                                               Origin(Stranger, 2, At(1, 0, 0))})>>]}

MCPsbts == BadForms \cup Inputs \cup Outputs \cup {Base(key) : key \in Keys}

=============================================================================
