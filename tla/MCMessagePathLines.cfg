\* A 600-byte line, which fgets takes in two pieces of 511 and 89 bytes plus
\* the newline.
CONSTANTS
    Key = 7
    Fills = {200}
    TypedLens <- SplitLens
    Words <- PlainEnding
    TtlArgs = {2}
    Nonces <- ZeroNonce
    Ids <- SomeId
    Offsets = {}
SPECIFICATION Spec
CHECK_DEADLOCK FALSE
INVARIANT LineRoutedWhole
