SPECIFICATION LiveSpec
CONSTANT W = 3
INVARIANTS SquareAndMultiplyInvariant PulsesAreCollected
PROPERTIES OperandsHeld ImplementsDecryption
