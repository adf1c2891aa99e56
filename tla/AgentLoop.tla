----------------------------- MODULE AgentLoop ------------------------------
(***************************************************************************)
(* One AgentLoopWorker.generate_sequences call: a task per sample runs a   *)
(* ToolAgentLoop or a SingleTurnAgentLoop, pads what it returned, asks for *)
(* its score, and the rows of all samples become one batch.                *)
(*                                                                         *)
(* A token is reduced to its origin: "p" prompt text, "i" image            *)
(* placeholder, "g" generated, "t" tool response, "0" padding.  The server *)
(* (the cap that SGLangHttpServer.generate sets), the tools and the reward *)
(* worker answer at any time; other actors synchronise new weights         *)
(* meanwhile.  Text, tool names, argument values and rewards are left out. *)
(***************************************************************************)
EXTENDS Integers, Sequences, FiniteSets

CONSTANTS
    Samples,          \* 1..n, in batch order
    Agent,            \* agent_name per sample
    Prompts,          \* per sample: what the chat template may make of its messages
    Answers,          \* what a tool may return, see Answer
    PromptLength,     \* rollout.prompt_length
    ResponseLength,   \* rollout.response_length
    Configurations,   \* see Configuration
    MaxParallelCalls, \* multi_turn.max_parallel_calls
    MaxCalls,         \* bound: tool calls in one response
    MaxVersion        \* bound: weight versions

\* vision: the processor has an image_processor; async_reward: there are
\* reward loop workers to ask during the rollout; limits: max_assistant_turns
\* and max_user_turns, 0 for None.
Configuration ==
    [logprobs : BOOLEAN, vision : BOOLEAN, async_reward : BOOLEAN,
     limits : Nat \X Nat, max_model_len : Nat, format : {"hermes", "gpt-oss", "gemma4"}]

\* ToolResponse: image is a list in which None may stand for an image.
Answer == [image : Seq({"img", "None"}), video : BOOLEAN]

ASSUME AgentLoopAssumption ==
    /\ IsFiniteSet(Samples) /\ Samples = 1..Cardinality(Samples) /\ Samples # {}
    /\ Agent \in [Samples -> {"tool_agent", "single_turn_agent"}]
    /\ \A s \in Samples : Prompts[s] \subseteq Seq({"p", "i"}) \ {<<>>}
    /\ Answers \subseteq Answer
    /\ PromptLength \in Nat \ {0} /\ ResponseLength \in Nat \ {0}
    /\ Configurations \subseteq Configuration
    /\ MaxParallelCalls \in Nat \ {0} /\ MaxCalls \in Nat /\ MaxVersion \in Nat

VARIABLES
    conf,       \* chosen at the start, one of Configurations
    version,    \* global_steps of the servers
    agent,      \* per sample: AgentData and the state of its task
    instances,  \* <<sample, call>> of tool instances created and not released
    batch,      \* "running", "returned", or what failed
    first,      \* history: the prompt of a sample
    said        \* history: its generated and tool tokens, with their version

vars == <<conf, version, agent, instances, batch, first, said>>

None == <<>>

NewAgent ==
    [state |-> "PENDING", prompt_ids |-> <<>>, response_mask |-> <<>>,
     response_logprobs |-> <<>>, images |-> 0, assistant_turns |-> 0,
     user_turns |-> 0, steps |-> None, since |-> 0, tool_calls |-> <<>>,
     row |-> None, info |-> {}]

Init ==
    /\ conf \in Configurations
    /\ version = 0
    /\ agent = [s \in Samples |-> NewAgent]
    /\ instances = {}
    /\ batch = "running"
    /\ first = [s \in Samples |-> <<>>]
    /\ said = [s \in Samples |-> <<>>]

Repeat(x, n) == [i \in 1..n |-> x]

Count(x, seq) == Cardinality({i \in DOMAIN seq : seq[i] = x})

Upto(seq, n) == SubSeq(seq, 1, IF n < Len(seq) THEN n ELSE Len(seq))

\* seq[-n:] in Python: all of seq when n is 0.
LastOf(seq, n) == IF n = 0 THEN seq ELSE SubSeq(seq, Len(seq) - n + 1, Len(seq))

\* An exception leaves the task, of which only its tools' tasks go on.
Raise(s) ==
    /\ agent' = [agent EXCEPT ![s] = [NewAgent EXCEPT !.state = "raised",
                                         !.tool_calls = agent[s].tool_calls]]
    /\ first' = [first EXCEPT ![s] = <<>>]
    /\ said' = [said EXCEPT ![s] = <<>>]

-----------------------------------------------------------------------------
(* apply_chat_template                                                      *)

TooLong(ids) == Len(ids) > PromptLength /\ Count("i", ids) > 0

Truncate(ids) == IF Len(ids) > PromptLength THEN LastOf(ids, PromptLength) ELSE ids

\* _handle_pending_state, and the start of the single turn loop's run.
Pending(s) ==
    /\ agent[s].state = "PENDING"
    /\ \E ids \in Prompts[s] :
          /\ Count("i", ids) > 0 => conf.vision
          /\ \/ TooLong(ids) /\ Raise(s)
             \/ /\ ~TooLong(ids)
                /\ agent' = [agent EXCEPT ![s].state = "GENERATING", ![s].since = version,
                                          ![s].prompt_ids = Truncate(ids),
                                          ![s].images = Count("i", ids)]
                /\ first' = [first EXCEPT ![s] = ids]
                /\ UNCHANGED said
    /\ UNCHANGED <<conf, version, instances, batch>>

-----------------------------------------------------------------------------
(* _handle_generating_state                                                 *)

Smallest(S) == CHOOSE x \in S : \A y \in S : x <= y

\* The tokens a server may generate; below zero the prompt is rejected.
MaxPossible(len) == conf.max_model_len - len - 1

MaxNewTokens(len) ==
    LET cap == Smallest({ResponseLength, PromptLength + ResponseLength - len,
                         MaxPossible(len)})
    IN  IF cap < 0 THEN 0 ELSE cap

\* Fault: only the first call's versions are kept.
MergeStepsFirst(steps, lo, hi) == IF steps = None THEN <<lo, hi>> ELSE steps

\* extra_fields: the first call sets min and max_global_steps, later ones max
\* only, unless it is 0.
MergeSteps(steps, lo, hi) ==
    IF steps = None THEN <<lo, hi>>
    ELSE IF hi # 0 THEN <<steps[1], hi>> ELSE steps

Terminates(a) ==
    \/ Len(a.response_mask) >= ResponseLength
    \/ conf.limits[1] # 0 /\ a.assistant_turns >= conf.limits[1]
    \/ conf.limits[2] # 0 /\ a.user_turns >= conf.limits[2]

\* AgentData with n more generated tokens, the oldest from version lo.
Extended(a, n, lo) ==
    [a EXCEPT !.prompt_ids = @ \o Repeat("g", n),
              !.response_mask = @ \o Repeat(1, n),
              !.response_logprobs = IF conf.logprobs THEN @ \o Repeat("lp", n) ELSE @,
              !.assistant_turns = @ + 1,
              !.steps = MergeSteps(@, lo, version)]

NewCall == [at |-> "called", answer |-> None]

\* The tool parser finds any number of calls in a response that is not empty.
AfterTurn(a, n, calls) ==
    IF Terminates(a) \/ n = 0 \/ calls = 0 THEN [a EXCEPT !.state = "TERMINATED"]
    ELSE [a EXCEPT !.state = "PROCESSING_TOOLS",
                   !.tool_calls = Repeat(NewCall, Smallest({calls, MaxParallelCalls}))]

\* A request that was interrupted by a synchronisation has tokens of several
\* versions; one that was aborted for good may have none.
Generate(s) ==
    LET len == Len(agent[s].prompt_ids) IN
    /\ agent[s].state = "GENERATING" /\ MaxPossible(len) >= 0
    /\ \E n \in 0..MaxNewTokens(len), lo \in agent[s].since..version,
          calls \in 0..MaxCalls :
          LET a == Extended(agent[s], n, lo) IN
          /\ agent' = [agent EXCEPT ![s] =
                IF Agent[s] = "tool_agent" THEN AfterTurn(a, n, calls)
                ELSE [a EXCEPT !.state = "TERMINATED"]]
          /\ said' = [said EXCEPT ![s] = @ \o
                [i \in 1..n |-> <<"g", IF i = 1 THEN lo ELSE version>>]]
    /\ UNCHANGED <<conf, version, instances, batch, first>>

ServerRejects(s) ==
    /\ agent[s].state = "GENERATING" /\ MaxPossible(Len(agent[s].prompt_ids)) < 0
    /\ Raise(s)
    /\ UNCHANGED <<conf, version, instances, batch>>

-----------------------------------------------------------------------------
(* _call_tool, one task per call                                            *)

ErrorAnswer == [image |-> <<>>, video |-> FALSE]

\* The tasks of a raised trajectory go on.
Tooling(s) == agent[s].state \in {"PROCESSING_TOOLS", "raised"}

SetCall(s, k, at, answer) ==
    agent' = [agent EXCEPT ![s].tool_calls[k] = [at |-> at, answer |-> answer]]

\* An unknown tool or bad JSON is answered at once, a FunctionTool is called,
\* a BaseTool is created; any of them may raise, which is answered too.
CallTool(s, k) ==
    /\ Tooling(s) /\ agent[s].tool_calls[k].at = "called"
    /\ \/ /\ \E answer \in Answers \cup {ErrorAnswer} : SetCall(s, k, "answered", answer)
          /\ UNCHANGED instances
       \/ /\ SetCall(s, k, "created", None)
          /\ instances' = instances \cup {<<s, k>>}
    /\ UNCHANGED <<conf, version, batch, first, said>>

\* Fault: an instance whose execute raised is not released.
ExecuteToolLeaks(s, k) ==
    /\ Tooling(s) /\ agent[s].tool_calls[k].at = "created"
    /\ \/ \E answer \in Answers : SetCall(s, k, "executed", answer)
       \/ SetCall(s, k, "answered", ErrorAnswer)
    /\ UNCHANGED <<conf, version, instances, batch, first, said>>

ExecuteTool(s, k) ==
    /\ Tooling(s) /\ agent[s].tool_calls[k].at = "created"
    /\ \E answer \in Answers \cup {ErrorAnswer} : SetCall(s, k, "executed", answer)
    /\ UNCHANGED <<conf, version, instances, batch, first, said>>

\* The finally block: what release raises is not caught.
ReleaseTool(s, k) ==
    /\ Tooling(s) /\ agent[s].tool_calls[k].at = "executed"
    /\ \E at \in {"answered", "raised"} : SetCall(s, k, at, agent[s].tool_calls[k].answer)
    /\ instances' = instances \ {<<s, k>>}
    /\ UNCHANGED <<conf, version, batch, first, said>>

-----------------------------------------------------------------------------
(* _handle_processing_tools_state                                           *)

\* Fault: gather waits for as many answers as calls may run in parallel.
AnsweredAll(a) ==
    Len(a.tool_calls) = MaxParallelCalls
    /\ \A k \in DOMAIN a.tool_calls : a.tool_calls[k].at = "answered"

Answered(a) == \A k \in DOMAIN a.tool_calls : a.tool_calls[k].at = "answered"

HasImage(answer) == answer.image # <<>>

HasVideo(a) == \E k \in DOMAIN a.tool_calls : a.tool_calls[k].answer.video

\* Where the list of an answer has images.
ImagesOf(answer) == {i \in DOMAIN answer.image : answer.image[i] # "None"}

\* Every image of every answer is taken.
NewImages(a) ==
    Cardinality(UNION {{k} \X ImagesOf(a.tool_calls[k].answer) : k \in DOMAIN a.tool_calls})

\* Tokens of the tool messages: one placeholder for an answer with images, as
\* many as they are.  gpt-oss and gemma4 format the text only.
MessageIds(a) ==
    [k \in DOMAIN a.tool_calls |->
        IF HasImage(a.tool_calls[k].answer) /\ conf.format = "hermes" THEN "i" ELSE "t"]

\* Media without an image processor, video, and messages with images that
\* would have to be cut, raise.
MediaRaises(a) ==
    \/ ~conf.vision /\ \E k \in DOMAIN a.tool_calls : HasImage(a.tool_calls[k].answer)
    \/ HasVideo(a)
    \/ conf.format = "hermes" /\ NewImages(a) > 0 /\ Len(MessageIds(a)) > PromptLength

\* The processor of some models refuses more or fewer images than placeholders,
\* that of others does not.
ProcessorMayRaise(a) ==
    conf.format = "hermes" /\ Count("i", MessageIds(a)) # NewImages(a)

ToolIds(a) == IF conf.format = "hermes" THEN Truncate(MessageIds(a)) ELSE MessageIds(a)

ToolResponseFits(a) == Len(a.response_mask) + Len(ToolIds(a)) < ResponseLength

ToolMask(n) == Repeat(0, n)

ToolLogprobs(a, n) ==
    IF a.response_logprobs = <<>> THEN <<>> ELSE a.response_logprobs \o Repeat("0", n)

Observed(a) ==
    LET ids == ToolIds(a) IN
    [a EXCEPT !.state = "GENERATING", !.since = version,
              !.prompt_ids = @ \o ids, !.response_mask = @ \o ToolMask(Len(ids)),
              !.response_logprobs = ToolLogprobs(a, Len(ids)),
              !.images = @ + NewImages(a), !.user_turns = @ + 1,
              !.tool_calls = <<>>]

\* The calls have returned; a response that does not fit ends the trajectory
\* without it.
ProcessTools(s) ==
    LET a == agent[s] IN
    /\ a.state = "PROCESSING_TOOLS" /\ Answered(a)
    /\ \/ (MediaRaises(a) \/ ProcessorMayRaise(a)) /\ Raise(s)
       \/ /\ ~MediaRaises(a) /\ ~ToolResponseFits(a)
          /\ agent' = [agent EXCEPT ![s].state = "TERMINATED", ![s].tool_calls = <<>>]
          /\ UNCHANGED <<first, said>>
       \/ /\ ~MediaRaises(a) /\ ToolResponseFits(a)
          /\ agent' = [agent EXCEPT ![s] = Observed(a)]
          /\ said' = [said EXCEPT ![s] = @ \o
                [i \in DOMAIN ToolIds(a) |-> <<ToolIds(a)[i], version>>]]
          /\ UNCHANGED first
    /\ UNCHANGED <<conf, version, instances, batch>>

\* gather passes on the first exception and leaves the other calls running.
GatherRaises(s) ==
    /\ agent[s].state = "PROCESSING_TOOLS"
    /\ \E k \in DOMAIN agent[s].tool_calls : agent[s].tool_calls[k].at = "raised"
    /\ Raise(s)
    /\ UNCHANGED <<conf, version, instances, batch>>

-----------------------------------------------------------------------------
(* The end of run, and _agent_loop_postprocess                              *)

\* What run returns.  The tool agent cuts prompt_ids by the length of the mask.
ResponseIds(s) ==
    LET a == agent[s] IN
    IF Agent[s] = "tool_agent" THEN LastOf(a.prompt_ids, Len(a.response_mask))
    ELSE SubSeq(a.prompt_ids, Len(a.prompt_ids) - Len(a.response_mask) + 1,
                Len(a.prompt_ids))

PromptIds(s) ==
    SubSeq(agent[s].prompt_ids, 1, Len(agent[s].prompt_ids) - Len(agent[s].response_mask))

\* tokenizer.pad: longer inputs stay as they are; of an empty one it makes no
\* tensor, which the caller does not expect.
PadRight(ids, pad, n) == ids \o Repeat(pad, n - Len(ids))

PadLeft(ids, pad, n) == Repeat(pad, n - Len(ids)) \o ids

\* Fault: an empty list is padded like any other.
PadAccepts(ids) == FALSE

PadRaises(ids) == ids = <<>>

Row(s) ==
    LET a == agent[s]
        response == Upto(ResponseIds(s), ResponseLength)
        attention == PadRight(Repeat(1, Len(response)), 0, ResponseLength)
        mask == PadRight(Upto(a.response_mask, ResponseLength), 0, ResponseLength)
    IN  [prompts |-> PadLeft(PromptIds(s), "0", PromptLength),
         responses |-> PadRight(response, "0", ResponseLength),
         response_mask |-> [i \in DOMAIN mask |-> mask[i] * attention[i]],
         logprobs |-> IF a.response_logprobs = <<>> THEN None
                      ELSE PadRight(Upto(a.response_logprobs, ResponseLength), "0",
                                    ResponseLength),
         scored |-> IF conf.async_reward THEN Len(response) ELSE 0]

Finalize(s) ==
    LET raises == PadRaises(ResponseIds(s)) \/ PadRaises(agent[s].response_mask) IN
    /\ agent[s].state = "TERMINATED"
    /\ \/ raises /\ Raise(s)
       \/ /\ ~raises
          /\ agent' = [agent EXCEPT ![s] = [NewAgent EXCEPT
                !.state = IF conf.async_reward THEN "scoring" ELSE "done",
                !.images = agent[s].images, !.steps = agent[s].steps, !.row = Row(s)]]
          /\ UNCHANGED <<first, said>>
    /\ UNCHANGED <<conf, version, instances, batch>>

\* _compute_score: a reward worker returns a score with the keys of
\* compute_score or of a failed call, or raises.
Score(s) ==
    /\ agent[s].state = "scoring"
    /\ \/ /\ \E keys \in {{"score"}, {"timeout", "acc"}} :
                agent' = [agent EXCEPT ![s].state = "done", ![s].info = keys]
          /\ UNCHANGED <<first, said>>
       \/ Raise(s)
    /\ UNCHANGED <<conf, version, instances, batch>>

-----------------------------------------------------------------------------
(* gather in generate_sequences, and _postprocess                           *)

\* torch.cat takes rows of one width; log-probabilities are taken from all
\* samples if the first has them.
Concatenates ==
    \A s \in Samples :
        LET row == agent[s].row
            row1 == agent[1].row
        IN  /\ Len(row.prompts) = Len(row1.prompts)
            /\ Len(row.responses) = Len(row1.responses)
            /\ row1.logprobs # None => Len(row.logprobs) = Len(row1.logprobs)

KeysFound == \A s \in Samples : agent[1].info \subseteq agent[s].info

Postprocess ==
    /\ batch = "running" /\ \A s \in Samples : agent[s].state = "done"
    /\ batch' = IF ~Concatenates THEN "shape" ELSE IF KeysFound THEN "returned" ELSE "keys"
    /\ UNCHANGED <<conf, version, agent, instances, first, said>>

BatchRaises ==
    /\ batch = "running" /\ \E s \in Samples : agent[s].state = "raised"
    /\ batch' = "raised"
    /\ UNCHANGED <<conf, version, agent, instances, first, said>>

\* Elsewhere: a synchronisation gives the servers new weights.
NewWeights ==
    /\ batch = "running" /\ version < MaxVersion
    /\ version' = version + 1
    /\ UNCHANGED <<conf, agent, instances, batch, first, said>>

ToolStep(s) ==
    \E k \in DOMAIN agent[s].tool_calls :
        CallTool(s, k) \/ ExecuteTool(s, k) \/ ReleaseTool(s, k)

SampleStep(s) ==
    \/ Pending(s) \/ Generate(s) \/ ServerRejects(s) \/ ProcessTools(s)
    \/ GatherRaises(s) \/ Finalize(s) \/ Score(s)

Next ==
    \/ Postprocess \/ BatchRaises \/ NewWeights
    \/ \E s \in Samples : ToolStep(s) \/ SampleStep(s)

Spec == Init /\ [][Next]_vars

\* Every awaited call returns or raises: the loop sets no time limit on the
\* server, on a tool or on a reward worker and relies on theirs.
Fairness ==
    /\ WF_vars(Postprocess) /\ WF_vars(BatchRaises)
    /\ \A s \in Samples : WF_vars(ToolStep(s)) /\ WF_vars(SampleStep(s))

FairSpec == Spec /\ Fairness

-----------------------------------------------------------------------------
\* Every variable has its type; a trajectory never exceeds prompt_length and
\* response_length together, and every generated or tool token is masked.
TypeOK ==
    /\ version \in 0..MaxVersion
    /\ batch \in {"running", "returned", "shape", "keys", "raised"}
    /\ instances \subseteq Samples \X (1..MaxParallelCalls)
    /\ \A s \in Samples :
          LET a == agent[s] IN
          /\ a.state \in {"PENDING", "GENERATING", "PROCESSING_TOOLS", "TERMINATED",
                          "scoring", "done", "raised"}
          /\ a.prompt_ids \in Seq({"p", "i", "g", "t"})
          /\ a.response_mask \in Seq({0, 1}) /\ a.response_logprobs \in Seq({"lp", "0"})
          /\ a.images \in Nat
          /\ Len(a.prompt_ids) <= PromptLength + ResponseLength
          /\ a.state \in {"GENERATING", "PROCESSING_TOOLS"} =>
                Len(a.response_mask) < ResponseLength

\* Turns alternate, respect the configured limits, and without limits are
\* bounded by response_length, since a turn that calls a tool has a token.
TurnsBounded ==
    \A s \in Samples :
        LET a == agent[s] IN
        /\ a.assistant_turns - a.user_turns \in 0..1
        /\ a.assistant_turns <= ResponseLength
        /\ conf.limits[1] # 0 => a.assistant_turns <= conf.limits[1]
        /\ conf.limits[2] # 0 => a.user_turns <= conf.limits[2]

Origins(s) == [i \in DOMAIN said[s] |-> said[s][i][1]]

\* A returned row is the prompt, then the first response_length tokens that
\* were generated or observed; mask and log-probabilities mark exactly the
\* generated ones, and the score sits on the last token.
RowsExact ==
    batch = "returned" =>
        \A s \in Samples :
            LET row == agent[s].row
                generated == {i \in 1..ResponseLength : row.responses[i] = "g"}
            IN
            /\ row.prompts =
                  PadLeft(LastOf(first[s], Smallest({PromptLength, Len(first[s])})),
                          "0", PromptLength)
            /\ row.responses =
                  PadRight(Upto(Origins(s), ResponseLength), "0", ResponseLength)
            /\ {i \in 1..ResponseLength : row.response_mask[i] = 1} = generated
            /\ IF conf.logprobs
               THEN {i \in 1..ResponseLength : row.logprobs[i] = "lp"} = generated
               ELSE row.logprobs = None
            /\ conf.async_reward => row.scored = Smallest({Len(said[s]), ResponseLength})

\* Rows of one batch always fit together: no failure in torch.cat.
NoShapeError == batch # "shape"

\* A batch that is returned has left no tool instance behind.
ReturnedClean == batch = "returned" => instances = {}

\* Samples stay within their limits and leave nothing behind, and their rows fit
\* together.
BatchInv == TypeOK /\ TurnsBounded /\ NoShapeError /\ ReturnedClean

\* The images that go to the server, or into the batch, are as many as the
\* placeholders in the tokens that go with them, as apply_chat_template says
\* they must be.
ImagesAligned ==
    \A s \in Samples :
        LET a == agent[s] IN
        /\ a.state = "GENERATING" => Count("i", a.prompt_ids) = a.images
        /\ a.state = "done" => Count("i", a.row.prompts \o a.row.responses) = a.images

\* The versions reported with a sample span the versions of its tokens.
StepsCover ==
    \A s \in Samples :
        agent[s].state = "done" =>
            \A i \in DOMAIN said[s] :
                said[s][i][1] = "g" =>
                    said[s][i][2] \in agent[s].steps[1]..agent[s].steps[2]

\* The batch is returned or fails: no trajectory goes on for ever.
BatchEnds == <>(batch # "running")
=============================================================================
