SPECIFICATION Spec
CONSTANTS
  a = a
  b = b
  p = p
  f = f
  g = g
  Letter <- MCLetter
  WordList <- MCWordList
  PrefixLimit <- MCPrefixLimit
  WordCounts <- MCWordCounts
  ValidPhrases <- MCValidPhrases
  PassChar <- MCPassChar
  MaxPass = 1
  AddressCount = 2
  File <- MCFile
  NamePages <- MCNamePages
  MaxFiles = 2
  Psbts <- MCPsbts
  Fingerprint <- MCFingerprint
  MaxMoney = 3
  MaxFee = 1
  MaxAddressIndex = 1
INVARIANTS
  TypeOK
  NothingOutlivesItsScreen
  EntryIsSound
  IdentityIsTheSeeds
  OpensWhatItShows
  ApprovedIsSigned
  SignedAsShown
  ChangeComesBack
