\* Two deaths of the service; native methods ask for two strings or arrays.
CONSTANTS
    Addresses = {1, 2, 3}
    Refs = {1, 2}
    Arrays = {11, 12}
    MaxGets = 2
    Libs = {"a", "b", "broken"}
    Broken = {"broken"}
    MaxDeaths = 2
    MaxTable = 3
SPECIFICATION Spec
INVARIANTS ReferencesHold HandsBackOwn
PROPERTY WaitEnds
CHECK_DEADLOCK FALSE
