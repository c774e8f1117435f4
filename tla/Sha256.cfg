\* Blocks of 12 bytes and a length field that overflows at 32.
CONSTANTS
    BlockSize = 12
    ByteValues = 4
    Chunks = {0, 1, 2, 3, 4, 5, 8, 11, 12, 13, 24, 25, 31}
    MaxLength = 42
SPECIFICATION Spec
INVARIANTS
    TypeOK
    HashesPaddedMessage
