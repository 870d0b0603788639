SPECIFICATION MCSpec
CHECK_DEADLOCK FALSE
CONSTANTS
    Size = {1, 2}
    MaxBytes = 3
    ReadLimit = 2
    MaxChunks = 4
    Reader = {r1}
    Asks = {0, 1}
    Waiter = {w1}
    ChanCap = 1
    Pub = {p1, p2}
    Sub = {s1}
    GlobalSub = {g1}
    MaxReplay = 1
    LiveBuffer = 1
    MaxSeq = 3
    MaxRestarts = 1
    MaxWriteFaults = 1
    Alphabets <- MCAlphabets
    Secret <- MCSecret
    MaxPending = 4
    MaxInput <- MCMaxInput
    MaxChunk = 2
    open1 = open1
    open2 = open2
    openKey = openKey
    NoSession = NoSession
    Open = {open1, open2}
    OpenKey = {openKey}
    OpenKeyOf <- OneKey
    MaxWrites = 1
    MaxCloses = 1
    MaxShutdowns = 1
    Modes = {"calm", "late", "failing"}
INVARIANTS
    ReadersServed
    NoLostWakeup
    HubHolds
    ChunkingIsInvisible
    ChannelsAreReaped
    TerminalIsDurable
