\* Every input up to the bound of its subject.
SPECIFICATION Spec
CONSTANTS
    NULL = NULL
    EXT_MAX = 3
    Subjects <- MCSubjects
    MaxLen <- MCMaxLen
    Letters <- MCLetters
INVARIANTS CodedWhole KeysWhole Fetchable CookieAsSent NumbersShown
\* An input of full length does not grow.
CHECK_DEADLOCK FALSE
