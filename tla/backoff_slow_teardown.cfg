CONSTANTS
    Initial = 2
    MaxBackoff = 6
    Threshold = 4
    MaxTeardown = 4
    Horizon = 20
SPECIFICATION Spec
CONSTRAINT BeforeHorizon
PROPERTY BackoffRespected
