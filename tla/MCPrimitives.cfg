SPECIFICATION Spec
CONSTANTS
  Q = 43
  A = 38
  D = 34
  ORDER = 56
  B8 <- MCB8
  DigestBits = 6
  Params <- MCParams
  Matrices <- MCMatrices
  Setups <- MCSetups
  States <- MCStates
  HashInputs <- MCHashInputs
  Scalars = {0, 1, 2, 3, 5, 6, 7, 8, 13}
  Keys = {0, 8, 12, 23, 32, 49, 63}
  Nonces = {0, 1, 2, 3, 6, 7, 8, 62, 63}
  Messages <- MCMessages
  Addresses <- MCAddresses
  AddressTexts <- MCAddressTexts
  Paths <- MCPaths
  PathTexts <- MCPathTexts
  Names <- MCNames
  TypeBits = 2
  IdBits = 3
  NETWORK_ID_XOR_KEY <- Mask
  MAX_DERIVATION_DEPTH = 3
  U32Max = 19
  BASE = 3
  U128Max = 50
  MAX_DECODED_LEN = 4
CHECK_DEADLOCK FALSE
INVARIANT InverseExact
INVARIANT PermutationExact
INVARIANT MulScalarExact
INVARIANT SignatureVerifies
INVARIANT SharedKeysAgree
INVARIANT AddressesExact
INVARIANT PathsExact
INVARIANT NamesExact
