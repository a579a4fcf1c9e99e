CONSTANTS
    v1 = v1
    v2 = v2
    Verifier <- Verifiers
    Raw <- Objects
    Credential <- Credentials
    NoCredential = NoCredential
    NoCall = NoCall
    Character = {"a", "b", "n", "m"}
    Colon = ":"
    MaxIdentifier = 2
    MinNonce = 1
    MaxNonce = 2
    MaxArguments = 1
    Skew = 1
    TTL = 4
    Lateness = 1
    MaxTime = 3
    PolicyDoc <- PlainDoc
    RiskInput <- Inputs
SPECIFICATION AuthorizeSpec
SYMMETRY VerifierSymmetry
INVARIANTS
    AllowIsAuthorized
    ReplayHasOriginal
PROPERTIES
    VerifiedOnce
    EvaluatedOnce
