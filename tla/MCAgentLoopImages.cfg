CONSTANTS
    Samples = {1, 2}
    Agent <- AgentMC
    Prompts <- PromptsMC
    Answers <- ImagesMC
    PromptLength = 2
    ResponseLength = 4
    Configurations <- ConfigurationsMC
    MaxParallelCalls = 2
    MaxCalls = 2
    MaxVersion = 1
SPECIFICATION Spec
CHECK_DEADLOCK FALSE
INVARIANT ImagesAligned
