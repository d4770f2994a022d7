CONSTANTS
    Name = {"k", "v", "srv", "enable_dns_srv", "localhost", "toString"}
    Inherited = {"toString"}
    Tokens = {"k", "=", "&", "?", "%3D", "srv", "toString"}
    MaxTokens = 3
    Texts <- AllTexts
SPECIFICATION Spec
INVARIANT TypeOK
INVARIANT RoundTrip
INVARIANT MatcherIsReset
INVARIANT ParseIsComplete
CHECK_DEADLOCK FALSE
