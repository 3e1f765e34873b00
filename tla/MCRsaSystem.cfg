SPECIFICATION LiveSpec
CONSTANTS K = 4 NBlocks = 3
INVARIANTS FileIsPlaintext NoOverrun
PROPERTIES HeldWhileStalled OperandsHeld HostFinishes
