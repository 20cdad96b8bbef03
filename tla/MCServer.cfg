\* Two app threads, one of them with two calls in a row, two binder threads.
CONSTANTS
    t1 = t1
    t2 = t2
    c1 = c1
    c2 = c2
    c3 = c3
    b1 = b1
    b2 = b2
    FindClass = FindClass
    CallMethod = CallMethod
    Null = Null
    Thread = {t1, t2}
    Call = {c1, c2, c3}
    ThreadOf <- ThreeCalls
    Function = {FindClass, CallMethod}
    MaxJni = 1
    Binder = {b1, b2}
    MaxNative = 3
SPECIFICATION Spec
SYMMETRY Symmetry
INVARIANTS IInv AnswerIsOwn NoInterference MailboxExclusive
