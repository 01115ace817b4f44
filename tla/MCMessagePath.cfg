\* Lines of 0 to 520 fill bytes and one of 600, plain or ending in /quit or
\* /stats; a fill of NUL bytes, which strlen cuts off, and a printable one.
\* /quit ends the process, so the path may stop.
CONSTANTS
    Key = 7
    Fills = {0, 200}
    TypedLens <- LineLens
    Words <- Endings
    TtlArgs = {1, 2, 256}
    Nonces <- ZeroNonce
    Ids <- SomeId
    Offsets <- FieldOffsets
SPECIFICATION Spec
CHECK_DEADLOCK FALSE
INVARIANTS TypeOK DeliversWhatWasTyped NoForgedOutput RelayLowersTtl
