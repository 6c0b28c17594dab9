CONSTANTS
    Configs <- Computed8
    Bytes <- Patterns
    BufferSize = 1
    MaxBytes = 1
SPECIFICATION Spec
INVARIANT
    TransferIsAsDocumented
