SPECIFICATION Spec
CONSTANTS
    Majors = {1, 2, 3}
    MaxFile = 5
    Dwords = 8
    MaxText = 2
INVARIANT
    BrowserIsImitated
    HeadersAgree
    MapArrives
    ProbedFileIsCovered
    OffsetArrives
