\* Word is 3 where the code has 4: the contents hold characters of every width up to
\* it.  Five addresses leave two for streams the program opens, on either side of the
\* standard ones.  A blocked read waits for a peer that may never write.
SPECIFICATION Spec
CONSTANTS
    Word = 3
    Bytes <- MCBytes
    Kinds = {"file", "byte", "channel", "tcp", "pipe", "http"}
    Ids = {1, 2, 3, 4, 5}
    StdIn = 1
    StdOut = 3
    StdErr = 4
    Names = {"a"}
    Careful = TRUE
INVARIANTS
    ReadsExactly
    ReadsReturn
    StoreConsistent
    EnumerationExact
CHECK_DEADLOCK FALSE
