CONSTANTS
    Conns = {c1}
    Chunks <- MCChunks
    Window = 1
    SamePort = {TRUE, FALSE}
SPECIFICATION LiveSpec
INVARIANTS TypeOK NothingLeaks WholeTransfers
PROPERTIES RelaysStreams CancelIsNoError HalfCloseArrives RelayEnds Returns
