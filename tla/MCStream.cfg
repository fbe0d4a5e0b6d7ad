SPECIFICATION Spec
CONSTANTS
    Length = 3
    Width = 1
    Values = {0, 1}
    Sizes = {1, 3}
    MaxSeek = 4
    Exporters <- MCExporters
    NoCall = NoCall
    NoStrides = NoStrides
CHECK_DEADLOCK FALSE
INVARIANT LayoutRight
PROPERTY StreamIsFile
