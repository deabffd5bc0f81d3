CONSTANTS
    MaxFiles = 3
    FileLimit = 2
    TotalLimit = 4
    LargestFile = 4
    MostFiles = 4
    Forms <- MCForms
SPECIFICATION UploadsSpec
INVARIANTS AcceptsExactly MemoryBounded ReadFilesClosed
