SPECIFICATION DSpec
CONSTANTS
    Chunk = 2
    Retries = 1
    Word = 8
    MaxDevices = 2
    Sizes = {0, 1, 4, 5}
    Build = {"kr", "nvs", "nvs_nof00d"}
    SecureBlocks = 2
    PlainBlocks = 2
INVARIANTS DumpFaithful NvsPaired NvsFileTrue DumpTrue LeftTold
PROPERTIES Ends
CHECK_DEADLOCK FALSE
