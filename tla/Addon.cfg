CONSTANT Env <- Environments
CONSTANT Queries <- QueriesOf
CONSTANT Failures <- FailuresOf
CONSTANT Metadatas <- SomeMetadata
CONSTANT Releases <- ReleasesOf
CONSTANT LogLevels <- Levels
SPECIFICATION Spec
INVARIANT TypeOK
INVARIANT OwnClass
INVARIANT AnswerSettles
INVARIANT ErrorKeepsItsMeaning
INVARIANT RequestSaysWhatWasAsked
INVARIANT MetadataArrives
INVARIANT LogsGoSomewhere
PROPERTY DeadEnvironmentUntouched
CHECK_DEADLOCK FALSE
