------------------------------ MODULE PsbtPolicy ------------------------------
(***************************************************************************)
(* What the signer of the Crystal menu is ready to sign                    *)
(* (signer-probe/src/seed.rs): review_psbt turns a PSBT into the review    *)
(* the user sees, sign_psbt signs what was reviewed.                       *)
(*                                                                         *)
(* Keys, scripts and addresses are the data they are derived from: hashes  *)
(* and derivations do not collide.  Fingerprints, four bytes, may.         *)
(***************************************************************************)
EXTENDS Integers, FiniteSets, SequencesExt

CONSTANTS
  Fingerprint(_),   \* the master fingerprint of a secret (mnemonic, passphrase)
  MaxMoney,         \* 2_100_000_000_000_000 sat
  MaxFee,           \* MAX_FEE_SAT
  MaxAddressIndex   \* MAX_ADDRESS_INDEX

Network == {"main", "test"}

\* The keys below one mnemonic and passphrase.  "root" is "bip84" for the five
\* steps m/84'/coin'/0'/chain/index and "other" for every other path.
Path == [root : {"bip84", "other"}, coin : Nat, chain : Nat, index : Nat]
Key(secret, path) == [secret |-> secret, path |-> path]
P2wpkh(key) == [kind |-> "p2wpkh", key |-> key]

\* A BIP32 origin of the PSBT: a claim that "key" is at "path" of "print".
Origin(key, print, path) == [key |-> key, print |-> print, path |-> path]

None == [none |-> TRUE]

CoinType(network) == IF network = "main" THEN 0 ELSE 1

-----------------------------------------------------------------------------
\* SeedSession

\* What public_at refuses ("Wrong account/path").
OwnPath(seed, path) ==
  /\ path.root = "bip84" /\ path.coin = CoinType(seed.network)
  /\ path.chain \in {0, 1} /\ path.index <= MaxAddressIndex

OwnKey(seed, origin) ==
  /\ OwnPath(seed, origin.path)
  /\ origin.key = Key(seed.secret, origin.path)

ReceiveAddress(seed, index) ==
  [network |-> seed.network,
   script |-> P2wpkh(Key(seed.secret,
     [root |-> "bip84", coin |-> CoinType(seed.network), chain |-> 0, index |-> index]))]

-----------------------------------------------------------------------------
\* review_psbt

\* Mutant: the fingerprint is taken for proof of the key.
InputAccepted_TrustsFingerprint(seed, psbt) ==
  /\ psbt.inputs = 1
  /\ psbt.sighash \in {"unset", "all"} /\ ~psbt.signed
  /\ Cardinality(psbt.origins) = 1
  /\ \A origin \in psbt.origins :
       /\ origin.print = Fingerprint(seed.secret)
       /\ psbt.utxo # None /\ psbt.utxo.value <= MaxMoney
       /\ psbt.utxo.script = P2wpkh(origin.key)
  /\ psbt.previous # "differs"

InputAccepted(seed, psbt) ==
  /\ psbt.inputs = 1
  /\ psbt.sighash \in {"unset", "all"} /\ ~psbt.signed
  /\ Cardinality(psbt.origins) = 1
  /\ \A origin \in psbt.origins :
       /\ origin.print = Fingerprint(seed.secret) /\ OwnKey(seed, origin)
       /\ psbt.utxo # None /\ psbt.utxo.value <= MaxMoney
       /\ psbt.utxo.script = P2wpkh(origin.key)
  /\ psbt.previous # "differs"

OutputAccepted(seed, output) ==
  /\ output.value <= MaxMoney
  /\ output.script.kind = "p2wpkh"
  /\ Cardinality(output.origins) <= 1
  /\ \A origin \in output.origins :
       origin.print = Fingerprint(seed.secret) =>
         OwnKey(seed, origin) /\ output.script = P2wpkh(origin.key)

\* Mutant: the change chain is believed without looking at whose key it is.
IsChange_AnyOrigin(seed, output) ==
  \E origin \in output.origins : origin.path.chain = 1

IsChange(seed, output) ==
  \E origin \in output.origins :
    origin.print = Fingerprint(seed.secret) /\ origin.path.chain = 1

Total(psbt) == FoldLeft(LAMBDA sum, output : sum + output.value, 0, psbt.outputs)
Fee(psbt) == psbt.utxo.value - Total(psbt)

Accepted(seed, psbt) ==
  /\ psbt.form = "v0"
  /\ Len(psbt.outputs) \in 1 .. 2
  /\ InputAccepted(seed, psbt)
  /\ \A i \in 1 .. Len(psbt.outputs) : OutputAccepted(seed, psbt.outputs[i])
  /\ Fee(psbt) \in 0 .. MaxFee

\* The reviewed transaction: what is to be displayed and the key to sign with.
Review(seed, psbt) ==
  [psbt |-> psbt,
   outputs |-> [i \in 1 .. Len(psbt.outputs) |->
     [address |-> [network |-> seed.network, script |-> psbt.outputs[i].script],
      amount |-> psbt.outputs[i].value,
      change |-> IsChange(seed, psbt.outputs[i])]],
   fee |-> Fee(psbt),
   origin |-> CHOOSE origin \in psbt.origins : TRUE]

-----------------------------------------------------------------------------
\* sign_psbt: the key derived at the reviewed path must be the reviewed key.
SigningKey(seed, review) == Key(seed.secret, review.origin.path)
Signs(seed, review) == SigningKey(seed, review) = review.origin.key

=============================================================================
