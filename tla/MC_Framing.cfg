CONSTANTS
  Messages <- MCMessages
SPECIFICATION Spec
INVARIANT RoundTrip
INVARIANT DamageDetected
INVARIANT ChecksumIsCrc32
