CONSTANTS
    Samples = {1, 2}
    Agent <- AgentMC
    Prompts <- PromptsMC
    Answers <- AnswersMC
    PromptLength = 2
    ResponseLength = 4
    Configurations <- ConfigurationsMC
    MaxParallelCalls = 2
    MaxCalls = 2
    MaxVersion = 1
SPECIFICATION FairSpec
CHECK_DEADLOCK FALSE
INVARIANTS
    BatchInv
    RowsExact
    StepsCover
PROPERTIES
    BatchEnds
