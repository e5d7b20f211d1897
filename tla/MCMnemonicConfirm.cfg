SPECIFICATION CMSpec
CONSTANTS
    w1 = w1
    w2 = w2
    w3 = w3
    N = 5
    Word <- Words
    Phrase <- ShortPhrase
INVARIANTS
    EveryWordOnce
    ConfirmedSpellPhrase
    NoDeadEnd
    CrashOnlyAfterSwipe
