SPECIFICATION Spec
CONSTANTS
    n1 = n1
    n2 = n2
    n3 = n3
    b1 = b1
    b2 = b2
    b3 = b3
    None = None
    Corrupt = Corrupt
    Notes = {n1, n2, n3}
    Notebooks = {b1, b2, b3}
    RawNames = {"q", "p", "q1", "Trash"}
    Safe <- MCSafe
    Trash = "Trash"
    NotebookTables <- MCLosingNotebooks
    Contents <- MCPlainContents
    NoteTables <- MCLosingNotes
    Tagged = {n1}
    Times <- MCTimes
    FileSystems <- MCFileSystems
    MaxDay = 24855
    Overwrite = TRUE
    MaxCommands = 1
    MaxChanges = 0
    MaxFaults = 0
CHECK_DEADLOCK FALSE
INVARIANT
    AllExported
