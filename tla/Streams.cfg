\* Bytes NUL and another, pieces of up to two bytes.
CONSTANTS
    Byte = {0, 1}
    Kinds = {"file", "memory", "string", "file_in", "memory_in"}
    MaxChunk = 2
    MaxLen = 6
    MaxAsk = 3
    Junk <- NothingOrOne
SPECIFICATION StreamSpec
INVARIANT StringAppends
PROPERTIES
    ImplementsSink
    ImplementsSource
