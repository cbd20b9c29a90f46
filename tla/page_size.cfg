SPECIFICATION Spec
CONSTANTS
    s1 = s1  p1 = p1  p2 = p2
    None = None
    Page = "t2v"
    Shots = {s1}
    Assets = {p1, p2}
    Kind <- KindOf
    Pixels <- SizeOf
    Prompts = {"short"}
    TooLong = {}
    SeedLimit = 8
    AspectChips = {"16:9", "9:16"}
    PresetChips = {"0.98", "0.5"}
    Forms <- TextForms
    Stored <- TextShots
    Knobs = {"steps"}
    SettingValues = {20, 30}
    RandomSeeds = {3}
    Clocks = {1, 2}
    ApiRequests <- NoClients
    MaxTasks = 1
    MaxStarts = 2
    MaxAttempts = 2
INVARIANT SizeAsShown
CHECK_DEADLOCK FALSE
