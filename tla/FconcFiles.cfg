SPECIFICATION FairSpec
CONSTANTS
    x = x
    y = y
    z = z
    Names = {x, y, z}
    Inodes = {1, 2, 3, 4}
    NoInode = 0
    Bytes = {1, 2, 3, 4, 5, 6}
    Directories <- MCDirectories
    Contents <- MCContents
    Programs = {"fconc", "fconc2", "unchecked", "testin"}
    MaxInputs = 3
    BufSize = 2
    Capacity = 7
INVARIANTS CopiesInOrder KeepsFiles
PROPERTIES AlwaysEnds
CHECK_DEADLOCK FALSE
