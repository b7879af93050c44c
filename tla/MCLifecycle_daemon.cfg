\* Daemons from their settings to their exit.
CONSTANTS
    missing = missing
    noDuration = noDuration
    Setting <- Intervals
    Default <- Seconds
    Switch <- Switches
    Missing = missing
    NoDuration = noDuration
    User <- Users
SPECIFICATION FairSpec
INVARIANTS CommandLineWins BadIntervalsComeFromFile CollectorComplete NobodyBlocksOnErrors
PROPERTIES SignalEndsDaemon FailureEndsDaemon
