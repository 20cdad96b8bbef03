\* One app thread, two calls one after the other.
CONSTANTS
    t1 = t1
    t2 = t2
    c1 = c1
    c2 = c2
    b1 = b1
    b2 = b2
    FindClass = FindClass
    CallMethod = CallMethod
    Null = Null
    Thread = {t1}
    Call = {c1, c2}
    ThreadOf <- OneThread
    Function = {FindClass, CallMethod}
    MaxJni = 2
    Binder = {b1, b2}
    MaxNative = 2
    Reentrant = FALSE
SPECIFICATION FairSpec
PROPERTIES ImplementsLocalCall NativeEnds
