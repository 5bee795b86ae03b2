SPECIFICATION Spec
CONSTANTS
    short = short
    long = long
    Note = Note
    Texts = {long, Note}
    LineLen <- MCLineLen
    LINE_LENGTH = 4
    Limit = 4
    Message = Message
    MessageLen = 2
    NoCore = NoCore
    NoCoreLen = 3
    NoLine = NoLine
    d1 = d1
    Dirs = {d1}
    NoDir = NoDir
    MaxKids = 3
    MaxFds = 3
    MaxOutput = 6
INVARIANTS
    TypeOK
    BufferSound
    ChildrenConserved
    DirKept
    AideDbWhole
PROPERTIES
    AnswersTrue
    CallsReturn
\* The suvlet ends.
CHECK_DEADLOCK FALSE
