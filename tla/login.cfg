SPECIFICATION Spec
CONSTANTS
  SHA1 <- MCSHA1
  SHA256 <- MCSHA256
  Nonce <- MCNonce
  Password <- MCPassword
  Users <- MCUsers
  Transmissions <- MCTransmissions
  MaxMessages = 4
INVARIANTS LoginIsUnderstood
PROPERTIES ImplementsHandshake RefusalIsReported
CHECK_DEADLOCK FALSE
