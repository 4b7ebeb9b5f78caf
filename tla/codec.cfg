SPECIFICATION Spec
CONSTANT WIDTH = 10
INVARIANTS WordRoundTrip TryteAgreesWithWord FormatAgreesWithWord CanonicalEncoding
