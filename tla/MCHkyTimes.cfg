CONSTANTS
    Slots = 3
    Texts = 2
    Updaters = {u1, u2}
    Readers = {r}
    Moments <- Clock
    NULL = NULL
SPECIFICATION Spec
SYMMETRY UpdaterSymmetry
INVARIANTS PublishedStable CachedTimesAgree ReadRight
