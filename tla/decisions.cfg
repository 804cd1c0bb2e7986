SPECIFICATION MCSpec
CONSTANTS
    MaxDepth = 1
    MaxChildren = 4
    MaxSteps = 4
    MaxRefs = 2
    Tests = {t1, t2, t3}
    Root = t1
    Unset = Unset
    ParamOrder <- MCParamOrder
    KeyOrder <- MCKeyOrder
    ServiceAccounts = {"ci"}
    AllowHostPath = FALSE
    TestPool <- MCTests
    TemplatePool <- MCTemplates
    ConfigPool <- MCConfigs
    PodPool <- MCPods
    OperatorEnv <- MCEnv
    Objects = {"users", "keys"}
    MaxParallelWorkers = 6
    MaxServiceReplicas = 4
    ListMayFail = TRUE
    MaxEdits = 2
    MaxRunEdits = 1
    MaxTokens = 3
    MaxValues = 4
    MatrixKeys = {"os", "spec"}
    ShardKeys = {"os", "spec"}
    ConfigTexts <- SpellingTexts
INVARIANTS CompositionSound PodsAsPromised ValuesReadOnce WorkersCoverLists
PROPERTIES ReadyUnlessMissed
CHECK_DEADLOCK FALSE
