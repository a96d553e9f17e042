SPECIFICATION AnyPeerFairSpec
CONSTANTS
  Nonces = {n1, n2}
  Passwords = {"right", "wrong"}
  ServerCaps <- GreetingCaps
  MaxMessages = 4
  MaxQueued = 1
INVARIANTS TypeOK NoPlaintextPassword RequireHonoured EstablishedIsUsable GoodCredentialsAccepted SuccessMeansLoggedIn
PROPERTIES HandshakeEnds
CHECK_DEADLOCK FALSE
