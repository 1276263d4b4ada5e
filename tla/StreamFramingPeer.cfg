\* The read task of a peer.
CONSTANTS
    Readers = {"peer"}
    Base = 5  BufSize = 9
    Sizes = {1, 6}
    MaxBatches = 4
SPECIFICATION StreamSpec
CHECK_DEADLOCK FALSE
INVARIANT
    FragmentedDataStored
