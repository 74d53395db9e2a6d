CONSTANTS
    None = None
    Nothing = Nothing
    LateCycle = 1
    Worlds <- MCWorlds
    Wishes <- MCWishes
    Rating <- MCRating
    Width = 3
    Polynomial = 3
    Preset = 2
    Delimiter = 6
    MinLength = 3
    MaxLength = 5
    Bodies <- MCBodies
    Junk <- MCJunk
    Pieces = 3
    Chunk = 3
    SampleTime = 2
    Gap = 3
    Shortest = 4
    Hour = 5
    Longest = 7
    FastRise = 1
    Steepest = 6
    Hottest = 6
    StaleAfter = 2
    Waters = {0, 2}
    Horizon = 8
    Upsets = 1
SPECIFICATION LabSpec
INVARIANT
    LabInv
PROPERTIES
    CommandsDoWhatIsPlanned
    LearnsFromWholeSegments
CHECK_DEADLOCK FALSE
