\* Distances: 100 mm of free track, 60 mm to the roof of a car, a few mm of noise.
CONSTANTS
    Raws = {0, 4000, 4095}
    MaxPulses = 20
    ClearReadings = {98, 102}
    CarReadings = {58, 60}
    WordSize = 1000
    MillisSize = 26
    MinGap = 8
    MaxDropout = 3
    MaxPassages = 3
    MaxUpsets = 1
SPECIFICATION Spec
VIEW Live
INVARIANTS
    SensorInv
    OneLapPerPulse
    LapPerPassage
    UpsetsEnd
    NeedsFreeTrack
CHECK_DEADLOCK FALSE
