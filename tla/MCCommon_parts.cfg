CONSTANTS
    Words = {v, w}
    NoWord = NoWord
    MaxSecs = 2
    MaxWordNum = 2
    WordCap = 2
    TaskCap = 1
    MaxTime = 3
    MaxAdds = 3
    Chars = {"a", "b", "c", "*"}
    Mask = "*"
    List <- MCList
    MaxTextLen = 5
    Getters = {g1, g2, g3, g4}
    MaxSecond = 3
    ChNum = 2
    RollSize = 2
    DayLen = 2
    MaxNow = 3
    MaxLines = 4
    MaxFailed = 2

SPECIFICATION CommonSpec
SYMMETRY MCSymmetry
CHECK_DEADLOCK FALSE

INVARIANTS
    TopIsTop
    ClashesStayInTheirSecond
    LinesAreKept

PROPERTIES
    AnswersForTheseSeconds
    FilterCleans
