SPECIFICATION HandshakeSpec
CONSTANTS
  ServerVersions = {0, 3003, 3004, 3005, 3006, 3007, 3008, 3014, 3016, 3889, 4001}
  SecurityTypes = {"None", "VncAuth", "TLS", "VeNCrypt", "ARD", "Ultra", "Tight", "Other"}
  VeNCryptTypes = {"None", "VncAuth", "Plain", "TLSNone", "TLSVNC", "X509Plain", "Other"}
  VeNCryptVersions = {2, 101}
  MaxTypes = 2
INVARIANTS
  InStep
  Agreed
  TLSFromCleanBuffer
  EncryptedWhenOffered
  FailsOnlyForReason
PROPERTY HandshakeEnds
CHECK_DEADLOCK FALSE
