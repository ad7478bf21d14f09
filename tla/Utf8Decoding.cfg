SPECIFICATION Spec
CONSTANT ByteStrings <- ShortByteStrings
INVARIANT TypeOK
INVARIANT Utf8IsDecoded
INVARIANT OnlyKnownGaps
