SPECIFICATION Spec
CONSTANTS
    s1 = s1  p1 = p1  p2 = p2
    None = None
    Page = "i2v"
    Shots = {s1}
    Assets = {p1, p2}
    Kind <- KindOf
    Pixels <- SizeOf
    Prompts = {"short", "long"}
    TooLong = {"long"}
    SeedLimit = 8
    AspectChips = {"16:9"}
    PresetChips = {"0.98"}
    Forms <- FrameForms
    Stored <- FrameShots
    Knobs = {"steps"}
    SettingValues = {20, 30}
    RandomSeeds = {3}
    Clocks = {1, 2}
    ApiRequests <- OtherClients
    MaxTasks = 1
    MaxStarts = 2
    MaxAttempts = 2
INVARIANT TypeOK
INVARIANT FramesAsShown
INVARIANT SlotsAsShown
INVARIANT AttemptsAgree
INVARIANT RecordedIsReproducible
INVARIANT SizeFormulasAgree
CHECK_DEADLOCK FALSE
