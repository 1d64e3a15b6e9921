SPECIFICATION Spec
CONSTANTS
    n1 = n1
    n2 = n2
    n3 = n3
    b1 = b1
    b2 = b2
    b3 = b3
    None = None
    Corrupt = Corrupt
    Notes = {n1, n2}
    Notebooks = {b1, b2}
    RawNames = {"q", "p", "q1", "Trash"}
    Safe <- MCSafe
    Trash = "Trash"
    NotebookTables <- MCNotebookTables
    Contents <- MCContents
    NoteTables <- MCNoteTables
    Tagged = {n1}
    Times <- MCTimes
    FileSystems <- MCFileSystems
    MaxDay = 24855
    Overwrite = FALSE
    MaxCommands = 1
    MaxChanges = 1
    MaxFaults = 1
CHECK_DEADLOCK FALSE
INVARIANTS
    TypeOK
    ExportComplete
    ContentKept
    DatesRight
    ListComplete
    CheckMarks
PROPERTIES
    OldFilesKept
    GivenUpAsRead
