CONSTANTS
    Bits <- MCBits
    Fields <- MCFields
    BitsOf <- MCBitsOf
    Parent <- MCParent
    Register = "register"
    Walk <- MCWalk
    Masks <- MCMasks
    PutsElsewhere = FALSE
    MaxChanges = 5
SPECIFICATION Spec
INVARIANTS CallbacksAreReached EveryBitGoesToOnePlace TheResultIsWhole PostWritesFollow
