SPECIFICATION ClockSpec
CONSTANTS
    MARGIN = 7
    RATE = 38
    Years <- MCYears
    Hours <- MCHours
INVARIANTS
    ReadingIsOneTime
    TimestampExact
PROPERTIES
    ReadReturns
