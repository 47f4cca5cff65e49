CONSTANTS
    Initial = 2
    MaxBackoff = 6
    Threshold = 4
    MaxTeardown = 0
    Horizon = 20
SPECIFICATION Spec
CONSTRAINT BeforeHorizon
INVARIANT TypeOK
PROPERTIES
    AttemptsSpaced
    BackoffRespected
