CONSTANT Inputs <- Calls
CONSTANT Names <- SomeNames
CONSTANT Ports <- SomePorts
SPECIFICATION Spec
INVARIANT TypeOK
INVARIANT TimeoutsAreNotMixed
INVARIANT ConnectionStringWins
INVARIANT OneTrust
INVARIANT BadDnsRefused
INVARIANT DnsArrives
INVARIANT OptionsReachCore
CHECK_DEADLOCK FALSE
