CONSTANTS
    mem = mem
    a = a
    b = b
    c = c
    Objects <- MCObjects
    Memory = mem
    Parent <- MCParent
    Offset <- MCOffset
    Width <- MCWidth
    Words <- MCWords
    Top = 8
    Switched <- MCSwitched
    CallbackKinds <- Separately
    Observed <- MCObserved
SPECIFICATION TreeSpec
INVARIANTS
    HeldWordsNeedNoOne
    TablesAreCurrent
    EveryCallbackRuns
