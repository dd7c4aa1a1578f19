CONSTANTS
    MapSize <- MCMapSize
    RealMapSizes <- MCRealMapSizes
    U32Bytes <- MCU32Bytes
    Maps <- MCMaps
    Dsts <- MCDsts
SPECIFICATION Spec
CHECK_DEADLOCK FALSE
INVARIANT TypeOK
INVARIANT CountBitsIsPopcount
INVARIANT MinimizeBitsPacksNonZero
