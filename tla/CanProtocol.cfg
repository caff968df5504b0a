\* Every kind of frame, alone and between a request and its answer.
SPECIFICATION SnifferSpec
CONSTANTS
    Traffic <- MCTraffic
    Services <- MCServices
INVARIANTS
    SnifferNeverPanics
    ShownIsWhatWasSent
PROPERTIES
    AnswersPair
