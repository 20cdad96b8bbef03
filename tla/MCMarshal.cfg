\* Every JNI function, after every other.
CONSTANTS
    Lengths = {0, 1, 3, 4}
    Signatures <- MCSignatures
    ElementTypes = {"Int", "Byte", "Long", "Boolean"}
    Garbage = {0, 64}
SPECIFICATION Spec
INVARIANTS FunctionReached ArgumentsArrive ResultArrives StaysInBlocks
PROPERTY BlocksFreedOnce
CHECK_DEADLOCK FALSE
