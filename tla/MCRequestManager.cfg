SPECIFICATION FairSpec
CONSTANTS
    r1 = r1
    b1 = b1
    b2 = b2
    fw = fw
    m1 = m1
    m2 = m2
    Requester <- MCRequester
    Callback <- MCCallback
    Recovery = fw
    Cell <- MCCell
    NoCell = NoCell
    MaxCookie = 2
    MaxAnswers = 2
    MaxForced = 1
INVARIANTS
    IInv
    NoDangling
    AnswerIsMine
PROPERTIES
    EventuallyFreed
CHECK_DEADLOCK FALSE
