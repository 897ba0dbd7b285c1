CONSTANTS
    Lines <- MCLines
    MaxLines = 5
    MaxChunkSize = 6
    ChunkOverlap = 2
    MinSize = 3
    Wrapper = 1
    TitleSize = 1
    Arrow = 1
    None = None
SPECIFICATION Spec
INVARIANTS TypeOK NothingIsLost ChunksFit WordsStayWhole PathsAreHeadings ChunksAreNumbered
CHECK_DEADLOCK FALSE
