CONSTANTS
    Client <- MC_Client
    TimersPerClient = 1
    Plat = {"virt", "rpi4"}
    Freq = 2
    NsPerS = 3
    Width = 4
    Ns <- MC_Ns
    TimerId <- MC_TimerId
    MaxCount = 6
SPECIFICATION Spec
INVARIANTS
    HeadIsArmed
PROPERTIES
    NotifiedForDueTimer
    DueTimersExpire
CHECK_DEADLOCK FALSE
