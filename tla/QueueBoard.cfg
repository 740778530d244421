\* Two clients, three requests in all, on two tabs, two runs and one task.
SPECIFICATION Spec
CONSTANTS
    Tab = {Main, Side}
    DefaultTab = Main
    r1 = r1
    r2 = r2
    x = x
    y = y
    Run = {r1, r2}
    Slug = {x, y}
    SameTask <- OneTask
    Package <- Packages
    Prompt = {p, q}
    FirstPrompt = p
    NoRun = NoRun
    ActiveTab = ActiveTab
    Clients = 2
    MaxRequests = 3
    Restless = {"run", "append", "update", "remove", "clear", "tab", "tab-rows", "stop"}
INVARIANTS
    TypeOK
    UnfinishedTaskInOneRun
    StartedItemKeepsItsPlan
    SuccessMeansAllDone
PROPERTIES
    TabsShowTheirRuns
    ClearedRunsWindDown
CHECK_DEADLOCK FALSE
