\* Ticks that take no time, less than a base_time, or three heart beats.
SPECIFICATION Spec
CONSTANTS
    HeartBeat = 5
    Unit = 2
    Grain = 20
    Period = 12
    Works = {0, 1, 3, 30}
    Jitters = {0, 1}
INVARIANTS
    ReportedTimeIsClose
PROPERTIES
    ScheduledTicksGoOn
    PaceRecovers
