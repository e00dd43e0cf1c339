SPECIFICATION EditSpec
CONSTANTS
    a = a
    b = b
    cr = cr
    Bare <- MCBare
    Empty = Empty
    Hash <- MCHash
    Files <- MCFiles
    Contents <- MCContents
    ContextLines = 1
    MaxPreview = 3
    MaxEdits = 2
    MaxLines = 6
    MaxWrites = 1
CHECK_DEADLOCK FALSE
INVARIANTS
    WritesWhatWasShown
    EditsAsMeant
    LabelsAreTrue
