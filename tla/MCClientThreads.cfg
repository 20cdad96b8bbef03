\* Two app threads share the one BpWrapper object.
CONSTANTS
    t1 = t1
    t2 = t2
    c1 = c1
    c2 = c2
    b1 = b1
    b2 = b2
    FindClass = FindClass
    CallMethod = CallMethod
    Null = Null
    Thread = {t1, t2}
    Call = {c1, c2}
    ThreadOf <- TwoThreads
    Function = {FindClass, CallMethod}
    MaxJni = 1
    Binder = {b1}
    MaxNative = 2
    Reentrant = FALSE
SPECIFICATION FairSpec
INVARIANTS FinishedMeansDone MailboxExclusive
PROPERTY CallReturns
