SPECIFICATION MCSpec
CONSTANTS
    MaxDepth = 1
    MaxChildren = 1
    MaxSteps = 1
    MaxRefs = 2
    Tests = {t1}
    Root = t1
    Unset = Unset
    ParamOrder <- MCParamOrder
    KeyOrder <- MCKeyOrder
    ServiceAccounts = {"ci"}
    AllowHostPath = FALSE
    TestPool <- MCTests
    TemplatePool <- MCTemplates
    ConfigPool <- MCConfigs
    PodPool <- MCPods
    OperatorEnv <- MCEnv
    Objects = {"users", "keys"}
    MaxParallelWorkers = 6
    MaxServiceReplicas = 4
    ListMayFail = TRUE
    MaxEdits = 0
    MaxRunEdits = 0
    MaxTokens = 1
    MaxValues = 1
    MatrixKeys = {"os", "spec"}
    ShardKeys = {"os", "spec"}
    ConfigTexts <- SpellingTexts
INVARIANTS ValuesLandVerbatim
CHECK_DEADLOCK FALSE
