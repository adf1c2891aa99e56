---------------------------- MODULE MCAgentLoop -----------------------------
(* A tool agent and a single turn agent in one batch, prompts that fit, that *)
(* are cut and that cannot be cut, text, image and video answers, and two    *)
(* calls that run at once.                                                   *)
EXTENDS AgentLoop

AgentMC == <<"tool_agent", "single_turn_agent">>
PromptsMC == <<{<<"i", "p">>, <<"p", "p", "p">>, <<"i", "p", "p">>}, {<<"p">>}>>
TextMC == [image |-> <<>>, video |-> FALSE]
ImageMC(list) == [image |-> list, video |-> FALSE]
VideoMC == [image |-> <<>>, video |-> TRUE]
AnswersMC == {TextMC, ImageMC(<<"None">>), ImageMC(<<"img", "img">>), VideoMC}
ImagesMC == {TextMC, ImageMC(<<"img">>), ImageMC(<<"img", "img">>)}
Setting(logprobs, vision, reward, limits, len, format) ==
    [logprobs |-> logprobs, vision |-> vision, async_reward |-> reward,
     limits |-> limits, max_model_len |-> len, format |-> format]
ConfigurationsMC ==
    {Setting(TRUE, TRUE, TRUE, <<0, 0>>, 7, "hermes"),
     Setting(FALSE, TRUE, FALSE, <<1, 0>>, 7, "hermes"),
     Setting(TRUE, FALSE, FALSE, <<0, 1>>, 7, "hermes"),
     Setting(TRUE, FALSE, FALSE, <<0, 0>>, 5, "gpt-oss"),
     Setting(FALSE, TRUE, FALSE, <<1, 0>>, 5, "gemma4")}
=============================================================================
