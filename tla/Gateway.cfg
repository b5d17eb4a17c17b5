SPECIFICATION FairSpec
CONSTANTS
    Workers = {w1, w2}
    Calls = {c1, c2}
INVARIANTS TypeOK AtMostOncePerWorker GivesUpLast AnswerIsOfCandidate
PROPERTIES OnlyFailuresMarked EveryCallAnswered
