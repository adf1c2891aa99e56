--------------------------- MODULE AgentLoopProofs ---------------------------
(***************************************************************************)
(* A trajectory is what its history says, token by token: prompt_ids is    *)
(* the prompt followed by the generated and observed tokens, the mask and  *)
(* the log-probabilities mark the generated ones, and the row made of them *)
(* is the row the trainer should get.  The parts of the invariant are      *)
(* constant operators of one sample's values, so that a step of a sample   *)
(* is a lemma about values and leaves the other samples alone.             *)
(***************************************************************************)
EXTENDS AgentLoop, FiniteSetTheorems, FunctionTheorems, SequenceTheorems, TLAPS

USE DEF None

Texts == {"p", "i", "g", "t"}
Results == Answers \cup {ErrorAnswer}
Calls ==
    [at : {"called", "created", "executed", "answered", "raised"},
     answer : {None} \cup Results]
Rows ==
    [prompts : Seq(Texts \cup {"0"}), responses : Seq(Texts \cup {"0"}),
     response_mask : Seq({0, 1}), logprobs : Seq({"lp", "0"}), scored : Nat]
States ==
    {"PENDING", "GENERATING", "PROCESSING_TOOLS", "TERMINATED", "scoring",
     "done", "raised"}
AgentStates ==
    [state : States, prompt_ids : Seq(Texts), response_mask : Seq({0, 1}),
     response_logprobs : Seq({"lp", "0"}), images : Nat, assistant_turns : Nat,
     user_turns : Nat, steps : {None} \cup (Nat \X Nat), since : Nat,
     tool_calls : Seq(Calls), row : {None} \cup Rows,
     info : SUBSET {"score", "timeout", "acc"}]

Types ==
    /\ conf \in Configurations
    /\ version \in 0..MaxVersion
    /\ agent \in [Samples -> AgentStates]
    /\ instances \subseteq Samples \X (1..MaxParallelCalls)
    /\ batch \in {"running", "returned", "shape", "keys", "raised"}
    /\ first \in [Samples -> Seq({"p", "i"})]
    /\ said \in [Samples -> Seq(Texts \X Nat)]

\* The states of a trajectory between its prompt and its row.
Active == {"GENERATING", "PROCESSING_TOOLS", "TERMINATED"}

\* Of the tokens d said so far only generated ones lie past the limit.
SaidOK(d) ==
    \A i \in 1..Len(d) :
        /\ d[i][1] \in {"g", "i", "t"}
        /\ d[i][1] # "g" => i < ResponseLength

\* prompt_ids is the prompt f, cut, and then what was said.
IdsOK(ids, f, d) ==
    /\ Len(ids) = Len(Truncate(f)) + Len(d)
    /\ Len(ids) <= PromptLength + ResponseLength
    /\ \A i \in 1..Len(Truncate(f)) : ids[i] = Truncate(f)[i]
    /\ \A i \in 1..Len(d) : ids[Len(Truncate(f)) + i] = d[i][1]

\* The mark x lies on the generated tokens and on no others.
Marks(x, marks, d) ==
    /\ Len(marks) = Len(d)
    /\ \A i \in 1..Len(d) : (marks[i] = x) <=> (d[i][1] = "g")

\* Images and placeholders stay together if the chat template writes the tool
\* messages and no tool returns several images, or None for one.
SingleImages == \A x \in Answers : x.image \in {<<>>, <<"img">>}

Alignable(c) == SingleImages /\ c.format = "hermes"

TextOK(c, a, f, d) ==
    /\ f # <<>>
    /\ SaidOK(d)
    /\ IdsOK(a.prompt_ids, f, d)
    /\ Marks(1, a.response_mask, d)
    /\ IF c.logprobs THEN Marks("lp", a.response_logprobs, d)
                     ELSE a.response_logprobs = <<>>
    /\ Alignable(c) => Count("i", a.prompt_ids) = a.images

\* A trajectory that goes on is below its limits; one that calls tools has
\* had a token for each of its turns.
TurnsOK(c, a) ==
    /\ a.assistant_turns <= ResponseLength
    /\ a.assistant_turns >= a.user_turns /\ a.assistant_turns <= a.user_turns + 1
    /\ c.limits[1] # 0 => a.assistant_turns <= c.limits[1]
    /\ c.limits[2] # 0 => a.user_turns <= c.limits[2]
    /\ a.state = "GENERATING" => a.assistant_turns = a.user_turns
    /\ a.state = "PROCESSING_TOOLS" =>
          /\ a.assistant_turns = a.user_turns + 1
          /\ c.limits[2] # 0 => a.user_turns < c.limits[2]
    /\ a.state \in {"GENERATING", "PROCESSING_TOOLS"} =>
          /\ Len(a.response_mask) < ResponseLength
          /\ a.assistant_turns <= Len(a.response_mask)
          /\ c.limits[1] # 0 => a.assistant_turns < c.limits[1]
    /\ a.state \notin Active => a.assistant_turns = 0 /\ a.user_turns = 0

\* The versions of the generated tokens lie between the two reported, and
\* nothing later than the server's version v has been reported.
Covered(steps, d) ==
    \A i \in 1..Len(d) :
        d[i][1] = "g" =>
            steps # None /\ steps[1] <= d[i][2] /\ d[i][2] <= steps[2]

StepsOK(v, a, d) ==
    /\ a.since <= v
    /\ a.steps # None => a.steps[1] <= a.steps[2] /\ a.steps[2] <= v
    /\ a.steps # None /\ a.state = "GENERATING" => a.steps[1] <= a.since
    /\ Covered(a.steps, d)

\* Calls are there while their tools run; one that has been executed has a
\* result.
CallsOK(a) ==
    /\ Len(a.tool_calls) <= MaxParallelCalls
    /\ a.state \notin {"PROCESSING_TOOLS", "raised"} => a.tool_calls = <<>>
    /\ a.state = "PROCESSING_TOOLS" => a.response_mask # <<>>
    /\ \A k \in 1..Len(a.tool_calls) :
          a.tool_calls[k].at \in {"executed", "answered", "raised"} =>
              a.tool_calls[k].answer \in Results

\* The row is the one the history calls for.
RowOK(c, a, f, d) ==
    /\ f # <<>> /\ d # <<>>
    /\ a.row \in Rows
    /\ a.row.prompts = PadLeft(Truncate(f), "0", PromptLength)
    /\ a.row.responses =
          PadRight(Upto([i \in 1..Len(d) |-> d[i][1]], ResponseLength), "0", ResponseLength)
    /\ Len(a.row.response_mask) = ResponseLength
    /\ \A i \in 1..ResponseLength :
          (a.row.response_mask[i] = 1) <=> (a.row.responses[i] = "g")
    /\ IF c.logprobs
       THEN /\ Len(a.row.logprobs) = ResponseLength
            /\ \A i \in 1..ResponseLength :
                  (a.row.logprobs[i] = "lp") <=> (a.row.responses[i] = "g")
       ELSE a.row.logprobs = None
    /\ c.async_reward =>
          a.row.scored = IF Len(d) < ResponseLength THEN Len(d) ELSE ResponseLength
    /\ Alignable(c) => Count("i", a.row.prompts \o a.row.responses) = a.images

SampleOK(c, v, a, f, d) ==
    /\ TurnsOK(c, a) /\ StepsOK(v, a, d) /\ CallsOK(a)
    /\ a.state \notin Active =>
          a.prompt_ids = <<>> /\ a.response_mask = <<>> /\ a.response_logprobs = <<>>
    /\ a.state = "PENDING" => f = <<>> /\ d = <<>> /\ a.steps = None /\ a.images = 0
    /\ a.state \in Active => TextOK(c, a, f, d)
    /\ a.state \in {"scoring", "done"} => RowOK(c, a, f, d)

SamplesInv == \A s \in Samples : SampleOK(conf, version, agent[s], first[s], said[s])

\* A tool instance belongs to a call that is to release it.
InstancesInv ==
    \A e \in instances :
        /\ e[2] \in DOMAIN agent[e[1]].tool_calls
        /\ agent[e[1]].tool_calls[e[2]].at \in {"created", "executed"}

FinishedInv ==
    /\ batch # "shape"
    /\ batch = "returned" => \A s \in Samples : agent[s].state = "done"

RolloutInv == Types /\ SamplesInv /\ InstancesInv /\ FinishedInv

-----------------------------------------------------------------------------
(* Sequences                                                                *)

\* A function on 1..n is a sequence of length n.
LEMMA FunctionIsSeq ==
    ASSUME NEW T, NEW n \in Nat, NEW f \in [1..n -> T]
    PROVE  f \in Seq(T) /\ Len(f) = n
  BY LenProperties, IsASeq, SeqDef

\* Repeat, as the mask and the padding use it: n times the same value.
LEMMA RepeatFacts ==
    ASSUME NEW T, NEW x \in T, NEW n \in Nat
    PROVE  /\ Repeat(x, n) \in Seq(T)
           /\ Len(Repeat(x, n)) = n
           /\ \A i \in 1..n : Repeat(x, n)[i] = x
<1>1. Repeat(x, n) \in [1..n -> T]
  BY DEF Repeat
<1>2. QED
  BY <1>1, FunctionIsSeq DEF Repeat

\* A list that is extended: its old elements, then the new ones.
LEMMA ConcatFacts ==
    ASSUME NEW T, NEW a \in Seq(T), NEW b \in Seq(T)
    PROVE  /\ a \o b \in Seq(T)
           /\ Len(a \o b) = Len(a) + Len(b)
           /\ Len(a) \in Nat /\ Len(b) \in Nat
           /\ \A i \in 1..Len(a) : (a \o b)[i] = a[i]
           /\ \A i \in 1..Len(b) : (a \o b)[Len(a) + i] = b[i]
           /\ \A i \in Len(a) + 1..Len(a) + Len(b) : (a \o b)[i] = b[i - Len(a)]
  OBVIOUS

\* Sequences are equal when their elements are.
LEMMA SameSeq ==
    ASSUME NEW T, NEW a \in Seq(T), NEW b \in Seq(T), Len(a) = Len(b),
           \A i \in 1..Len(a) : a[i] = b[i]
    PROVE  a = b
  BY SeqEqual

\* Slices.
LEMMA SliceFacts ==
    ASSUME NEW T, NEW a \in Seq(T), NEW m \in 1..Len(a) + 1, NEW n \in 0..Len(a),
           m <= n + 1
    PROVE  /\ SubSeq(a, m, n) \in Seq(T)
           /\ Len(SubSeq(a, m, n)) = n - m + 1
           /\ \A i \in 1..n - m + 1 : SubSeq(a, m, n)[i] = a[m + i - 1]
<1>1. CASE m <= n
  BY <1>1
<1>2. CASE m = n + 1
  <2>1. SubSeq(a, m, n) = <<>>
    BY <1>2, SubSeqEmpty
  <2>2. QED
    BY <1>2, <2>1
<1>3. QED
  BY <1>1, <1>2

\* seq[:n]: at most n elements.
LEMMA UptoFacts ==
    ASSUME NEW T, NEW a \in Seq(T), NEW n \in Nat
    PROVE  /\ Upto(a, n) \in Seq(T)
           /\ Len(Upto(a, n)) = IF n < Len(a) THEN n ELSE Len(a)
           /\ Len(Upto(a, n)) <= n /\ Len(Upto(a, n)) <= Len(a)
           /\ \A i \in 1..Len(Upto(a, n)) : Upto(a, n)[i] = a[i]
<1> DEFINE m == IF n < Len(a) THEN n ELSE Len(a)
<1>1. m \in 0..Len(a) /\ m <= n /\ Len(a) \in Nat
  OBVIOUS
<1>2. Upto(a, n) = SubSeq(a, 1, m)
  BY DEF Upto
<1> HIDE DEF m
<1>3. /\ SubSeq(a, 1, m) \in Seq(T)
      /\ Len(SubSeq(a, 1, m)) = m
      /\ \A i \in 1..m : SubSeq(a, 1, m)[i] = a[i]
  BY <1>1, SliceFacts
<1>4. QED
  BY <1>1, <1>2, <1>3 DEF m

\* seq[-n:] of a longer list, for n above zero: its last n elements.
LEMMA LastOfFacts ==
    ASSUME NEW T, NEW a \in Seq(T), NEW n \in 1..Len(a)
    PROVE  /\ LastOf(a, n) \in Seq(T)
           /\ Len(LastOf(a, n)) = n
           /\ \A i \in 1..n : LastOf(a, n)[i] = a[Len(a) - n + i]
<1>1. /\ Len(a) - n + 1 \in 1..Len(a) + 1 /\ Len(a) \in 0..Len(a)
      /\ Len(a) - n + 1 <= Len(a) + 1 /\ Len(a) - (Len(a) - n + 1) + 1 = n
  OBVIOUS
<1>2. LastOf(a, n) = SubSeq(a, Len(a) - n + 1, Len(a))
  BY DEF LastOf
<1>3. /\ SubSeq(a, Len(a) - n + 1, Len(a)) \in Seq(T)
      /\ Len(SubSeq(a, Len(a) - n + 1, Len(a))) = n
      /\ \A i \in 1..n : SubSeq(a, Len(a) - n + 1, Len(a))[i] = a[(Len(a) - n + 1) + i - 1]
  BY <1>1, SliceFacts
<1>4. \A i \in 1..n : (Len(a) - n + 1) + i - 1 = Len(a) - n + i
  OBVIOUS
<1>5. QED
  BY <1>2, <1>3, <1>4

\* The chat template's cut leaves at most prompt_length tokens.
LEMMA TruncateFacts ==
    ASSUME NEW T, NEW a \in Seq(T)
    PROVE  /\ Truncate(a) \in Seq(T)
           /\ Len(Truncate(a)) <= PromptLength
           /\ a # <<>> => Truncate(a) # <<>>
           /\ Len(a) <= PromptLength => Truncate(a) = a
           /\ Len(a) > PromptLength =>
                 /\ Len(Truncate(a)) = PromptLength
                 /\ \A i \in 1..PromptLength :
                       Truncate(a)[i] = a[Len(a) - PromptLength + i]
<1> USE AgentLoopAssumption
<1>1. CASE Len(a) > PromptLength
  <2>1. Truncate(a) = LastOf(a, PromptLength) /\ PromptLength \in 1..Len(a)
    BY <1>1 DEF Truncate
  <2>2. QED
    BY <1>1, <2>1, LastOfFacts
<1>2. CASE ~(Len(a) > PromptLength)
  BY <1>2 DEF Truncate
<1>3. QED
  BY <1>1, <1>2

-----------------------------------------------------------------------------
(* Counting placeholders                                                    *)

LEMMA CountType ==
    ASSUME NEW T, NEW a \in Seq(T), NEW x
    PROVE  /\ IsFiniteSet({i \in DOMAIN a : a[i] = x})
           /\ Count(x, a) \in Nat
<1>1. Len(a) \in Nat /\ DOMAIN a = 1..Len(a)
  OBVIOUS
<1>2. IsFiniteSet(1..Len(a))
  BY <1>1, FS_Interval
<1>3. {i \in DOMAIN a : a[i] = x} \subseteq 1..Len(a)
  BY <1>1
<1>4. IsFiniteSet({i \in DOMAIN a : a[i] = x})
  BY <1>2, <1>3, FS_Subset
<1>5. QED
  BY <1>4, FS_CardinalityType DEF Count

\* A list counts zero exactly when the value is not in it.
LEMMA CountZero ==
    ASSUME NEW T, NEW a \in Seq(T), NEW x
    PROVE  (Count(x, a) = 0) <=> (\A i \in 1..Len(a) : a[i] # x)
<1>1. DOMAIN a = 1..Len(a)
  OBVIOUS
<1>2. IsFiniteSet({i \in DOMAIN a : a[i] = x})
  BY CountType
<1>3. (Cardinality({i \in DOMAIN a : a[i] = x}) = 0) <=> ({i \in DOMAIN a : a[i] = x} = {})
  BY <1>2, FS_EmptySet
<1>4. ({i \in DOMAIN a : a[i] = x} = {}) <=> (\A i \in 1..Len(a) : a[i] # x)
  BY <1>1
<1>5. QED
  BY <1>3, <1>4 DEF Count

\* The count of two lists joined is the sum of their counts.
LEMMA CountConcat ==
    ASSUME NEW T, NEW a \in Seq(T), NEW b \in Seq(T), NEW x
    PROVE  Count(x, a \o b) = Count(x, a) + Count(x, b)
<1> DEFINE A == {i \in DOMAIN a : a[i] = x}
           B == {i \in DOMAIN b : b[i] = x}
           C == {i \in DOMAIN (a \o b) : (a \o b)[i] = x}
           D == {i \in Len(a) + 1..Len(a) + Len(b) : b[i - Len(a)] = x}
           m == [i \in B |-> Len(a) + i]
<1>1. /\ Len(a) \in Nat /\ Len(b) \in Nat
      /\ DOMAIN a = 1..Len(a) /\ DOMAIN b = 1..Len(b)
      /\ DOMAIN (a \o b) = 1..Len(a) + Len(b)
      /\ \A i \in 1..Len(a) : (a \o b)[i] = a[i]
      /\ \A i \in Len(a) + 1..Len(a) + Len(b) : (a \o b)[i] = b[i - Len(a)]
  BY ConcatFacts
<1>2. IsFiniteSet(A) /\ IsFiniteSet(B)
  BY CountType
<1>3. C = A \cup D
  <2>1. ASSUME NEW i \in C PROVE i \in A \cup D
    <3>1. i \in 1..Len(a) \/ i \in Len(a) + 1..Len(a) + Len(b)
      BY <1>1, <2>1
    <3>2. QED
      BY <1>1, <2>1, <3>1
  <2>2. ASSUME NEW i \in A PROVE i \in C
    BY <1>1, <2>2
  <2>3. ASSUME NEW i \in D PROVE i \in C
    BY <1>1, <2>3
  <2>4. QED
    BY <2>1, <2>2, <2>3, Zenon
<1>4. A \cap D = {}
  BY <1>1
<1>5. m \in Bijection(B, D)
  <2>1. \A i \in B : i \in 1..Len(b) /\ b[i] = x
    BY <1>1
  <2>2. \A i \in B : Len(a) + i \in D
    BY <1>1, <2>1
  <2>3. \A i, j \in B : Len(a) + i = Len(a) + j => i = j
    BY <1>1, <2>1
  <2>4. \A k \in D : k - Len(a) \in B /\ Len(a) + (k - Len(a)) = k
    BY <1>1
  <2> HIDE DEF A, B, C, D
  <2>5. m \in [B -> D]
    BY <2>2
  <2>6. \A i, j \in B : m[i] = m[j] => i = j
    BY <2>3
  <2>7. \A k \in D : \E i \in B : m[i] = k
    <3>1. TAKE k \in D
    <3>2. k - Len(a) \in B /\ m[k - Len(a)] = k
      BY <2>4
    <3>3. QED
      BY <3>2
  <2>8. QED
    BY <2>5, <2>6, <2>7, Fun_IsBij
<1> HIDE DEF A, B, C, D, m
<1>6. IsFiniteSet(D) /\ Cardinality(D) = Cardinality(B)
  BY <1>2, <1>5, FS_Bijection DEF ExistsBijection
<1>7. Cardinality(A \cup D) = Cardinality(A) + Cardinality(D) - Cardinality(A \cap D)
  BY <1>2, <1>6, FS_Union
<1>8. Cardinality(A \cap D) = 0
  BY <1>4, FS_EmptySet
<1>9. Cardinality(A) \in Nat /\ Cardinality(D) \in Nat
  BY <1>2, <1>6, FS_CardinalityType
<1>10. Cardinality(C) = Cardinality(A) + Cardinality(B)
  BY <1>3, <1>6, <1>7, <1>8, <1>9
<1>11. QED
  BY <1>10 DEF Count, A, B, C

\* Padding and generated tokens hold no placeholder.
LEMMA CountRepeat ==
    ASSUME NEW x, NEW y, x # y, NEW n \in Nat
    PROVE  Count(x, Repeat(y, n)) = 0
<1>1. Repeat(y, n) \in Seq({y}) /\ Len(Repeat(y, n)) = n /\ \A i \in 1..n : Repeat(y, n)[i] = y
  BY RepeatFacts
<1>2. \A i \in 1..Len(Repeat(y, n)) : Repeat(y, n)[i] # x
  BY <1>1
<1>3. QED
  BY <1>1, <1>2, CountZero

-----------------------------------------------------------------------------
(* The record of a sample after each handler                                *)

TextIs(a, state, ids, mask, logprobs, images) ==
    /\ a.state = state /\ a.prompt_ids = ids /\ a.response_mask = mask
    /\ a.response_logprobs = logprobs /\ a.images = images

CountersAre(a, turns, users, steps, since) ==
    /\ a.assistant_turns = turns /\ a.user_turns = users
    /\ a.steps = steps /\ a.since = since

RestIs(a, calls, row, info) == a.tool_calls = calls /\ a.row = row /\ a.info = info

Steps == {None} \cup (Nat \X Nat)

LEMMA NewAgentFacts ==
    /\ NewAgent \in AgentStates
    /\ TextIs(NewAgent, "PENDING", <<>>, <<>>, <<>>, 0)
    /\ CountersAre(NewAgent, 0, 0, None, 0)
    /\ RestIs(NewAgent, <<>>, None, {})
<1>1. /\ <<>> \in Seq(Texts) /\ <<>> \in Seq({0, 1}) /\ <<>> \in Seq({"lp", "0"})
      /\ <<>> \in Seq(Calls) /\ {} \in SUBSET {"score", "timeout", "acc"}
      /\ "PENDING" \in States /\ <<>> \in {None} \cup (Nat \X Nat)
      /\ <<>> \in {None} \cup Rows /\ 0 \in Nat
  BY DEF States
<1>2. NewAgent \in AgentStates
  BY <1>1 DEF NewAgent, AgentStates
<1>3. QED
  BY <1>2 DEF NewAgent, TextIs, CountersAre, RestIs

\* What each handler leaves, on records of the type.
LEMMA StateAndCallsSet ==
    ASSUME NEW a \in AgentStates, NEW st \in States, NEW cs \in Seq(Calls),
           NEW b, b = [a EXCEPT !.state = st, !.tool_calls = cs]
    PROVE  /\ b \in AgentStates
           /\ TextIs(b, st, a.prompt_ids, a.response_mask, a.response_logprobs, a.images)
           /\ CountersAre(b, a.assistant_turns, a.user_turns, a.steps, a.since)
           /\ RestIs(b, cs, a.row, a.info)
<1>1. b \in AgentStates
  BY DEF AgentStates
<1>2. QED
  BY <1>1 DEF AgentStates, TextIs, CountersAre, RestIs

LEMMA StateSet ==
    ASSUME NEW a \in AgentStates, NEW st \in States, NEW b, b = [a EXCEPT !.state = st]
    PROVE  /\ b \in AgentStates
           /\ TextIs(b, st, a.prompt_ids, a.response_mask, a.response_logprobs, a.images)
           /\ CountersAre(b, a.assistant_turns, a.user_turns, a.steps, a.since)
           /\ RestIs(b, a.tool_calls, a.row, a.info)
<1>1. b \in AgentStates
  BY DEF AgentStates
<1>2. QED
  BY <1>1 DEF AgentStates, TextIs, CountersAre, RestIs

LEMMA StateAndInfoSet ==
    ASSUME NEW a \in AgentStates, NEW st \in States,
           NEW info \in SUBSET {"score", "timeout", "acc"},
           NEW b, b = [a EXCEPT !.state = st, !.info = info]
    PROVE  /\ b \in AgentStates
           /\ TextIs(b, st, a.prompt_ids, a.response_mask, a.response_logprobs, a.images)
           /\ CountersAre(b, a.assistant_turns, a.user_turns, a.steps, a.since)
           /\ RestIs(b, a.tool_calls, a.row, info)
<1>1. b \in AgentStates
  BY DEF AgentStates
<1>2. QED
  BY <1>1 DEF AgentStates, TextIs, CountersAre, RestIs

LEMMA CallsSet ==
    ASSUME NEW a \in AgentStates, NEW cs \in Seq(Calls),
           NEW b, b = [a EXCEPT !.tool_calls = cs]
    PROVE  /\ b \in AgentStates
           /\ TextIs(b, a.state, a.prompt_ids, a.response_mask, a.response_logprobs, a.images)
           /\ CountersAre(b, a.assistant_turns, a.user_turns, a.steps, a.since)
           /\ RestIs(b, cs, a.row, a.info)
<1>1. b \in AgentStates
  BY DEF AgentStates
<1>2. QED
  BY <1>1 DEF AgentStates, TextIs, CountersAre, RestIs

LEMMA PromptSet ==
    ASSUME NEW a \in AgentStates, NEW st \in States, NEW v \in Nat,
           NEW ids \in Seq(Texts), NEW im \in Nat,
           NEW b, b = [a EXCEPT !.state = st, !.since = v, !.prompt_ids = ids, !.images = im]
    PROVE  /\ b \in AgentStates
           /\ TextIs(b, st, ids, a.response_mask, a.response_logprobs, im)
           /\ CountersAre(b, a.assistant_turns, a.user_turns, a.steps, v)
           /\ RestIs(b, a.tool_calls, a.row, a.info)
<1>1. b \in AgentStates
  BY DEF AgentStates
<1>2. QED
  BY <1>1 DEF AgentStates, TextIs, CountersAre, RestIs

LEMMA TurnSet ==
    ASSUME NEW a \in AgentStates, NEW ids \in Seq(Texts), NEW mask \in Seq({0, 1}),
           NEW lp \in Seq({"lp", "0"}), NEW n \in Nat, NEW steps \in Steps,
           NEW b, b = [a EXCEPT !.prompt_ids = ids, !.response_mask = mask,
                                !.response_logprobs = lp, !.assistant_turns = n,
                                !.steps = steps]
    PROVE  /\ b \in AgentStates
           /\ TextIs(b, a.state, ids, mask, lp, a.images)
           /\ CountersAre(b, n, a.user_turns, steps, a.since)
           /\ RestIs(b, a.tool_calls, a.row, a.info)
<1>1. b \in AgentStates
  BY DEF AgentStates, Steps
<1>2. QED
  BY <1>1 DEF AgentStates, TextIs, CountersAre, RestIs

WithObservation(a, st, v, ids, mask, lp, im, n, cs) ==
    [a EXCEPT !.state = st, !.since = v, !.prompt_ids = ids, !.response_mask = mask,
              !.response_logprobs = lp, !.images = im, !.user_turns = n,
              !.tool_calls = cs]

LEMMA ObservationSet ==
    ASSUME NEW a \in AgentStates, NEW st \in States, NEW v \in Nat,
           NEW ids \in Seq(Texts), NEW mask \in Seq({0, 1}), NEW lp \in Seq({"lp", "0"}),
           NEW im \in Nat, NEW n \in Nat, NEW cs \in Seq(Calls),
           NEW b, b = WithObservation(a, st, v, ids, mask, lp, im, n, cs)
    PROVE  /\ b \in AgentStates
           /\ TextIs(b, st, ids, mask, lp, im)
           /\ CountersAre(b, a.assistant_turns, n, a.steps, v)
           /\ RestIs(b, cs, a.row, a.info)
<1>1. b \in AgentStates
  BY DEF AgentStates, WithObservation
<1>2. QED
  BY <1>1 DEF AgentStates, WithObservation, TextIs, CountersAre, RestIs

LEMMA RowSet ==
    ASSUME NEW a \in AgentStates, NEW st \in States, NEW im \in Nat, NEW steps \in Steps,
           NEW row \in Rows,
           NEW b, b = [a EXCEPT !.state = st, !.images = im, !.steps = steps, !.row = row]
    PROVE  /\ b \in AgentStates
           /\ TextIs(b, st, a.prompt_ids, a.response_mask, a.response_logprobs, im)
           /\ CountersAre(b, a.assistant_turns, a.user_turns, steps, a.since)
           /\ RestIs(b, a.tool_calls, row, a.info)
<1>1. b \in AgentStates
  BY DEF AgentStates, Steps
<1>2. QED
  BY <1>1 DEF AgentStates, TextIs, CountersAre, RestIs

\* What Raise leaves of a trajectory.
Raised(a) == [NewAgent EXCEPT !.state = "raised", !.tool_calls = a.tool_calls]

LEMMA RaisedFacts ==
    ASSUME NEW a \in AgentStates
    PROVE  /\ Raised(a) \in AgentStates
           /\ TextIs(Raised(a), "raised", <<>>, <<>>, <<>>, 0)
           /\ CountersAre(Raised(a), 0, 0, None, 0)
           /\ RestIs(Raised(a), a.tool_calls, None, {})
<1>1. a.tool_calls \in Seq(Calls) /\ "raised" \in States
  BY DEF AgentStates, States
<1>2. /\ Raised(a) \in AgentStates
      /\ TextIs(Raised(a), "raised", NewAgent.prompt_ids, NewAgent.response_mask,
                NewAgent.response_logprobs, NewAgent.images)
      /\ CountersAre(Raised(a), NewAgent.assistant_turns, NewAgent.user_turns,
                     NewAgent.steps, NewAgent.since)
      /\ RestIs(Raised(a), a.tool_calls, NewAgent.row, NewAgent.info)
  BY <1>1, NewAgentFacts, StateAndCallsSet DEF Raised
<1>3. QED
  BY <1>2, NewAgentFacts DEF TextIs, CountersAre, RestIs

LEMMA Bounds ==
    /\ PromptLength \in Nat \ {0} /\ ResponseLength \in Nat \ {0}
    /\ MaxParallelCalls \in Nat \ {0} /\ MaxCalls \in Nat /\ MaxVersion \in Nat
  BY AgentLoopAssumption

LEMMA AgentTypes ==
    ASSUME NEW a \in AgentStates
    PROVE  /\ a.state \in States /\ a.prompt_ids \in Seq(Texts)
           /\ a.response_mask \in Seq({0, 1}) /\ a.response_logprobs \in Seq({"lp", "0"})
           /\ a.images \in Nat /\ a.assistant_turns \in Nat /\ a.user_turns \in Nat
           /\ a.since \in Nat /\ a.steps \in Steps /\ a.tool_calls \in Seq(Calls)
           /\ Len(a.prompt_ids) \in Nat /\ Len(a.response_mask) \in Nat
           /\ Len(a.tool_calls) \in Nat
<1>1. /\ a.state \in States /\ a.prompt_ids \in Seq(Texts)
      /\ a.response_mask \in Seq({0, 1}) /\ a.response_logprobs \in Seq({"lp", "0"})
      /\ a.images \in Nat /\ a.assistant_turns \in Nat /\ a.user_turns \in Nat
      /\ a.since \in Nat /\ a.steps \in Steps /\ a.tool_calls \in Seq(Calls)
  BY DEF AgentStates, Steps
<1>2. QED
  BY <1>1, LenProperties

-----------------------------------------------------------------------------
(* One sample: every handler keeps SampleOK                                 *)

LEMMA LimitsType ==
    ASSUME NEW c \in Configuration
    PROVE  /\ c.limits[1] \in Nat /\ c.limits[2] \in Nat
           /\ c.logprobs \in BOOLEAN /\ c.async_reward \in BOOLEAN /\ c.vision \in BOOLEAN
           /\ c.max_model_len \in Nat
  BY DEF Configuration

\* A sample without text: before its prompt, and after an exception.
LEMMA BlankOK ==
    ASSUME NEW c \in Configuration, NEW v \in Nat, NEW a \in AgentStates,
           NEW st \in {"PENDING", "raised"}, CallsOK(a),
           TextIs(a, st, <<>>, <<>>, <<>>, 0),
           CountersAre(a, 0, 0, None, 0)
    PROVE  SampleOK(c, v, a, <<>>, <<>>)
<1> USE AgentLoopAssumption
<1>1. TurnsOK(c, a)
  BY LimitsType DEF TurnsOK, TextIs, CountersAre, Active
<1>2. StepsOK(v, a, <<>>)
  BY DEF StepsOK, Covered, CountersAre
<1>3. a.state \notin Active /\ a.state \notin {"scoring", "done"}
  BY DEF TextIs, Active
<1>4. QED
  BY <1>1, <1>2, <1>3 DEF SampleOK, TextIs, CountersAre

LEMMA NewAgentOK ==
    ASSUME NEW c \in Configuration, NEW v \in Nat
    PROVE  SampleOK(c, v, NewAgent, <<>>, <<>>)
<1> USE AgentLoopAssumption
<1>1. CallsOK(NewAgent)
  BY NewAgentFacts DEF CallsOK, TextIs, RestIs
<1>2. QED
  BY <1>1, NewAgentFacts, BlankOK

\* An exception: the calls go on, everything else is dropped.
LEMMA RaisedOK ==
    ASSUME NEW c \in Configuration, NEW v \in Nat, NEW a \in AgentStates, NEW f, NEW d,
           SampleOK(c, v, a, f, d)
    PROVE  SampleOK(c, v, Raised(a), <<>>, <<>>)
<1>1. CallsOK(a)
  BY DEF SampleOK
<1>2. CallsOK(Raised(a))
  BY <1>1, RaisedFacts DEF CallsOK, TextIs, RestIs
<1>3. QED
  BY <1>2, RaisedFacts, BlankOK

\* New weights only raise the version.
LEMMA VersionOK ==
    ASSUME NEW c, NEW v \in Nat, NEW w \in Nat, v <= w, NEW a \in AgentStates,
           NEW f, NEW d, SampleOK(c, v, a, f, d)
    PROVE  SampleOK(c, w, a, f, d)
<1>1. a.since \in Nat /\ a.steps \in {None} \cup (Nat \X Nat)
  BY DEF AgentStates
<1>2. StepsOK(w, a, d)
  <2>1. StepsOK(v, a, d)
    BY DEF SampleOK
  <2>2. a.steps # None => a.steps[1] \in Nat /\ a.steps[2] \in Nat
    BY <1>1
  <2>3. QED
    BY <1>1, <2>1, <2>2 DEF StepsOK
<1>3. QED
  BY <1>2 DEF SampleOK

\* apply_chat_template: the cut prompt, and no placeholder is cut.
LEMMA TruncateCount ==
    ASSUME NEW T, NEW ids \in Seq(T), ~TooLong(ids)
    PROVE  Count("i", Truncate(ids)) = Count("i", ids)
<1> USE AgentLoopAssumption
<1>1. CASE Len(ids) <= PromptLength
  BY <1>1, TruncateFacts
<1>2. CASE Len(ids) > PromptLength
  <2>1. Count("i", ids) \in Nat
    BY CountType
  <2>2. Count("i", ids) = 0
    BY <1>2, <2>1 DEF TooLong
  <2>3. \A j \in 1..Len(ids) : ids[j] # "i"
    BY <2>2, CountZero
  <2>4. /\ Truncate(ids) \in Seq(T) /\ Len(Truncate(ids)) = PromptLength
        /\ \A i \in 1..PromptLength : Truncate(ids)[i] = ids[Len(ids) - PromptLength + i]
    BY <1>2, TruncateFacts
  <2>5. \A i \in 1..PromptLength : Len(ids) - PromptLength + i \in 1..Len(ids)
    BY <1>2
  <2>6. \A i \in 1..Len(Truncate(ids)) : Truncate(ids)[i] # "i"
    BY <2>3, <2>4, <2>5
  <2>7. QED
    BY <2>2, <2>4, <2>6, CountZero
<1>3. QED
  BY <1>1, <1>2

LEMMA StartedOK ==
    ASSUME NEW c \in Configuration, NEW v \in Nat, NEW a \in AgentStates, NEW f, NEW d,
           SampleOK(c, v, a, f, d), a.state = "PENDING",
           NEW ids \in Seq({"p", "i"}) \ {<<>>}, ~TooLong(ids), NEW b \in AgentStates,
           TextIs(b, "GENERATING", Truncate(ids), a.response_mask, a.response_logprobs,
                  Count("i", ids)),
           CountersAre(b, a.assistant_turns, a.user_turns, a.steps, v),
           RestIs(b, a.tool_calls, a.row, a.info)
    PROVE  SampleOK(c, v, b, ids, d)
<1> USE AgentLoopAssumption
<1>1. /\ a.response_mask = <<>> /\ a.response_logprobs = <<>> /\ d = <<>>
      /\ a.steps = None /\ a.tool_calls = <<>>
      /\ a.assistant_turns = 0 /\ a.user_turns = 0
  BY DEF SampleOK, TurnsOK, CallsOK, Active
<1>2. /\ b.state = "GENERATING" /\ b.prompt_ids = Truncate(ids)
      /\ b.response_mask = <<>> /\ b.response_logprobs = <<>>
      /\ b.images = Count("i", ids) /\ b.assistant_turns = 0 /\ b.user_turns = 0
      /\ b.steps = None /\ b.since = v /\ b.tool_calls = <<>>
  BY <1>1 DEF TextIs, CountersAre, RestIs
<1>3. TurnsOK(c, b)
  BY <1>2, LimitsType DEF TurnsOK, Active
<1>4. StepsOK(v, b, d)
  BY <1>1, <1>2 DEF StepsOK, Covered
<1>5. CallsOK(b)
  BY <1>2 DEF CallsOK
<1>6. TextOK(c, b, ids, d)
  <2>1. Truncate(ids) \in Seq({"p", "i"}) /\ Len(Truncate(ids)) <= PromptLength
    BY TruncateFacts
  <2>2. IdsOK(b.prompt_ids, ids, d)
    BY <1>1, <1>2, <2>1 DEF IdsOK
  <2>3. SaidOK(d) /\ Marks(1, b.response_mask, d) /\ Marks("lp", b.response_logprobs, d)
    BY <1>1, <1>2 DEF SaidOK, Marks
  <2>4. Count("i", b.prompt_ids) = b.images
    BY <1>2, TruncateCount
  <2>5. QED
    BY <1>2, <2>2, <2>3, <2>4 DEF TextOK
<1>7. QED
  BY <1>2, <1>3, <1>4, <1>5, <1>6 DEF SampleOK, Active

-----------------------------------------------------------------------------
(* A turn adds the tokens e to what was said                                *)

LEMMA SaidExtends ==
    ASSUME NEW d \in Seq(Texts \X Nat), NEW e \in Seq(Texts \X Nat), SaidOK(d),
           \A i \in 1..Len(e) :
               /\ e[i][1] \in {"g", "i", "t"}
               /\ e[i][1] # "g" => Len(d) + i < ResponseLength
    PROVE  SaidOK(d \o e)
<1> SUFFICES ASSUME NEW i \in 1..Len(d \o e)
             PROVE  /\ (d \o e)[i][1] \in {"g", "i", "t"}
                    /\ (d \o e)[i][1] # "g" => i < ResponseLength
  BY DEF SaidOK
<1>1. /\ Len(d) \in Nat /\ Len(e) \in Nat /\ Len(d \o e) = Len(d) + Len(e)
      /\ i <= Len(d) => (d \o e)[i] = d[i]
      /\ i > Len(d) => (d \o e)[i] = e[i - Len(d)]
  BY ConcatFacts
<1>2. CASE i <= Len(d)
  BY <1>1, <1>2 DEF SaidOK
<1>3. CASE i > Len(d)
  <2>1. i - Len(d) \in 1..Len(e) /\ Len(d) + (i - Len(d)) = i
    BY <1>1, <1>3
  <2>2. QED
    BY <1>1, <1>3, <2>1
<1>4. QED
  BY <1>1, <1>2, <1>3

LEMMA IdsExtend ==
    ASSUME NEW ids \in Seq(Texts), NEW t \in Seq(Texts), NEW f \in Seq({"p", "i"}),
           NEW d \in Seq(Texts \X Nat), NEW e \in Seq(Texts \X Nat),
           IdsOK(ids, f, d), Len(t) = Len(e), \A i \in 1..Len(e) : t[i] = e[i][1],
           Len(ids) + Len(t) <= PromptLength + ResponseLength
    PROVE  IdsOK(ids \o t, f, d \o e)
<1> DEFINE m == Len(Truncate(f))
<1>1. m \in Nat
  BY TruncateFacts
<1>2. /\ Len(d) \in Nat /\ Len(e) \in Nat
      /\ Len(d \o e) = Len(d) + Len(e)
      /\ \A i \in 1..Len(d) : (d \o e)[i] = d[i]
      /\ \A i \in Len(d) + 1..Len(d) + Len(e) : (d \o e)[i] = e[i - Len(d)]
  BY ConcatFacts
<1>8. /\ Len(ids) \in Nat /\ Len(ids \o t) = Len(ids) + Len(t)
      /\ \A i \in 1..Len(ids) : (ids \o t)[i] = ids[i]
      /\ \A i \in Len(ids) + 1..Len(ids) + Len(t) : (ids \o t)[i] = t[i - Len(ids)]
  <2>1. \A x, y \in Seq(Texts) :
           /\ Len(x) \in Nat /\ Len(x \o y) = Len(x) + Len(y)
           /\ \A i \in 1..Len(x) : (x \o y)[i] = x[i]
           /\ \A i \in Len(x) + 1..Len(x) + Len(y) : (x \o y)[i] = y[i - Len(x)]
    BY ConcatFacts, SMT
  <2>2. QED
    BY <2>1, Zenon
<1>3. /\ Len(ids) = m + Len(d)
      /\ \A i \in 1..m : ids[i] = Truncate(f)[i]
      /\ \A i \in 1..Len(d) : ids[m + i] = d[i][1]
  BY DEF IdsOK
<1>4. /\ Len(ids \o t) = m + Len(d \o e)
      /\ Len(ids \o t) <= PromptLength + ResponseLength
  BY <1>1, <1>2, <1>3, <1>8
<1>5. \A i \in 1..m : (ids \o t)[i] = Truncate(f)[i]
  BY <1>1, <1>2, <1>3, <1>8
<1>6. ASSUME NEW i \in 1..Len(d \o e)
      PROVE  (ids \o t)[m + i] = (d \o e)[i][1]
  <2>1. CASE i <= Len(d)
    BY <1>1, <1>2, <1>3, <1>8, <2>1, SMTT(30)
  <2>2. CASE i > Len(d)
    <3>1. i - Len(d) \in 1..Len(e) /\ m + i = Len(ids) + (i - Len(d))
      BY <1>1, <1>2, <1>3, <2>2
    <3>2. (ids \o t)[m + i] = t[i - Len(d)]
      <4>1. m + i \in Len(ids) + 1..Len(ids) + Len(t) /\ (m + i) - Len(ids) = i - Len(d)
        BY <1>1, <1>2, <1>8, <3>1
      <4>2. QED
        BY <1>8, <4>1
    <3>3. (d \o e)[i] = e[i - Len(d)]
      BY <1>2, <2>2
    <3>4. QED
      BY <3>1, <3>2, <3>3
  <2>3. i <= Len(d) \/ i > Len(d)
    BY <1>2
  <2>4. QED
    BY <2>1, <2>2, <2>3, Zenon
<1>7. QED
  BY <1>4, <1>5, <1>6 DEF IdsOK

LEMMA MarksExtend ==
    ASSUME NEW T, NEW x \in T, NEW marks \in Seq(T), NEW more \in Seq(T),
           NEW d \in Seq(Texts \X Nat), NEW e \in Seq(Texts \X Nat),
           Marks(x, marks, d), Len(more) = Len(e),
           \A i \in 1..Len(e) : (more[i] = x) <=> (e[i][1] = "g")
    PROVE  Marks(x, marks \o more, d \o e)
<1>1. /\ Len(d) \in Nat /\ Len(e) \in Nat
      /\ Len(d \o e) = Len(d) + Len(e)
      /\ \A i \in 1..Len(d) : (d \o e)[i] = d[i]
      /\ \A i \in Len(d) + 1..Len(d) + Len(e) : (d \o e)[i] = e[i - Len(d)]
  BY ConcatFacts
<1>2. Len(marks) = Len(d) /\ \A i \in 1..Len(d) : (marks[i] = x) <=> (d[i][1] = "g")
  BY DEF Marks
<1>3. /\ Len(marks \o more) = Len(d) + Len(e)
      /\ \A i \in 1..Len(d) : (marks \o more)[i] = marks[i]
      /\ \A i \in Len(d) + 1..Len(d) + Len(e) : (marks \o more)[i] = more[i - Len(d)]
  <2>1. /\ Len(marks \o more) = Len(marks) + Len(more)
        /\ \A i \in 1..Len(marks) : (marks \o more)[i] = marks[i]
        /\ \A i \in Len(marks) + 1..Len(marks) + Len(more) :
              (marks \o more)[i] = more[i - Len(marks)]
    BY ConcatFacts, ZenonT(60)
  <2>2. QED
    BY <1>2, <2>1
<1>4. ASSUME NEW i \in 1..Len(d \o e)
      PROVE  ((marks \o more)[i] = x) <=> ((d \o e)[i][1] = "g")
  <2>1. CASE i <= Len(d)
    BY <1>1, <1>2, <1>3, <2>1
  <2>2. CASE i > Len(d)
    <3>1. i \in Len(d) + 1..Len(d) + Len(e) /\ i - Len(d) \in 1..Len(e)
      BY <1>1, <2>2
    <3>2. (marks \o more)[i] = more[i - Len(d)] /\ (d \o e)[i] = e[i - Len(d)]
      BY <1>1, <1>3, <3>1
    <3>3. QED
      BY <3>1, <3>2
  <2>3. i <= Len(d) \/ i > Len(d)
    BY <1>1
  <2>4. QED
    BY <2>1, <2>2, <2>3, Zenon
<1>5. QED
  BY <1>1, <1>3, <1>4 DEF Marks

\* The versions reported go on covering what was said.
LEMMA CoveredExtends ==
    ASSUME NEW d \in Seq(Texts \X Nat), NEW e \in Seq(Texts \X Nat), NEW steps,
           Covered(steps, d), Covered(steps, e)
    PROVE  Covered(steps, d \o e)
<1>1. /\ Len(d) \in Nat /\ Len(e) \in Nat
      /\ Len(d \o e) = Len(d) + Len(e)
      /\ \A i \in 1..Len(d) : (d \o e)[i] = d[i]
      /\ \A i \in Len(d) + 1..Len(d) + Len(e) : (d \o e)[i] = e[i - Len(d)]
  BY ConcatFacts
<1>2. SUFFICES ASSUME NEW i \in 1..Len(d \o e), (d \o e)[i][1] = "g"
               PROVE  /\ steps # None /\ steps[1] <= (d \o e)[i][2]
                      /\ (d \o e)[i][2] <= steps[2]
  BY DEF Covered
<1>3. CASE i <= Len(d)
  BY <1>1, <1>2, <1>3 DEF Covered
<1>4. CASE i > Len(d)
  <2>1. i \in Len(d) + 1..Len(d) + Len(e) /\ i - Len(d) \in 1..Len(e)
    BY <1>1, <1>4
  <2>2. (d \o e)[i] = e[i - Len(d)]
    BY <1>1, <2>1
  <2>3. QED
    BY <1>2, <2>1, <2>2 DEF Covered
<1>5. QED
  BY <1>1, <1>3, <1>4

-----------------------------------------------------------------------------
(* _handle_generating_state                                                 *)

LEMMA SmallestOfThree ==
    ASSUME NEW x \in Int, NEW y \in Int, NEW z \in Int
    PROVE  /\ Smallest({x, y, z}) \in {x, y, z}
           /\ Smallest({x, y, z}) <= x /\ Smallest({x, y, z}) <= y
           /\ Smallest({x, y, z}) <= z
<1>1. \E m \in {x, y, z} : \A w \in {x, y, z} : m <= w
  OBVIOUS
<1>2. QED
  BY <1>1 DEF Smallest

LEMMA SmallestOfTwo ==
    ASSUME NEW x \in Int, NEW y \in Int
    PROVE  Smallest({x, y}) = IF x < y THEN x ELSE y
<1> DEFINE m == IF x < y THEN x ELSE y
<1>1. m \in {x, y} /\ \A w \in {x, y} : m <= w
  OBVIOUS
<1> HIDE DEF m
<1>2. Smallest({x, y}) \in {x, y} /\ \A w \in {x, y} : Smallest({x, y}) <= w
  BY <1>1 DEF Smallest
<1>3. Smallest({x, y}) = m
  BY <1>1, <1>2
<1>4. QED
  BY <1>3 DEF m

\* Prompt and response together stay below prompt_length + response_length.
LEMMA MaxNewTokensBound ==
    ASSUME conf \in Configuration, NEW len \in Nat, len <= PromptLength + ResponseLength,
           NEW n \in 0..MaxNewTokens(len)
    PROVE  n \in Nat /\ len + n <= PromptLength + ResponseLength
<1> USE AgentLoopAssumption
<1> DEFINE cap == Smallest({ResponseLength, PromptLength + ResponseLength - len,
                            MaxPossible(len)})
<1>1. MaxPossible(len) \in Int
  BY LimitsType DEF MaxPossible
<1>2. cap \in Int /\ cap <= PromptLength + ResponseLength - len
  <2> DEFINE x == ResponseLength
             y == PromptLength + ResponseLength - len
             z == MaxPossible(len)
  <2>1. x \in Int /\ y \in Int /\ z \in Int
    BY <1>1
  <2> HIDE DEF x, y, z
  <2>2. /\ Smallest({x, y, z}) \in {x, y, z}
        /\ Smallest({x, y, z}) <= y
    BY <2>1, SmallestOfThree
  <2>3. Smallest({x, y, z}) \in Int
    BY <2>1, <2>2
  <2>4. QED
    BY <2>2, <2>3 DEF x, y, z
<1>3. MaxNewTokens(len) = IF cap < 0 THEN 0 ELSE cap
  BY DEF MaxNewTokens
<1> HIDE DEF cap
<1>4. QED
  BY <1>2, <1>3

\* The tokens of one answer with their versions.
Generated(n, lo, v) == [i \in 1..n |-> <<"g", IF i = 1 THEN lo ELSE v>>]

LEMMA GeneratedFacts ==
    ASSUME NEW n \in Nat, NEW lo \in Nat, NEW v \in Nat, lo <= v
    PROVE  /\ Generated(n, lo, v) \in Seq(Texts \X Nat)
           /\ Len(Generated(n, lo, v)) = n
           /\ \A i \in 1..n : /\ Generated(n, lo, v)[i][1] = "g"
                              /\ lo <= Generated(n, lo, v)[i][2]
                              /\ Generated(n, lo, v)[i][2] <= v
<1>1. \A i \in 1..n : <<"g", IF i = 1 THEN lo ELSE v>> \in Texts \X Nat
  BY DEF Texts
<1>2. Generated(n, lo, v) \in [1..n -> Texts \X Nat]
  BY <1>1 DEF Generated
<1>3. QED
  BY <1>2, FunctionIsSeq DEF Generated

\* The mask grows by the number of new tokens, whatever mark they get.
LEMMA MaskGrows ==
    ASSUME NEW mask \in Seq({0, 1}), NEW n \in Nat, NEW x \in {0, 1}
    PROVE  /\ mask \o Repeat(x, n) \in Seq({0, 1})
           /\ Len(mask \o Repeat(x, n)) = Len(mask) + n
<1>1. Repeat(x, n) \in Seq({0, 1}) /\ Len(Repeat(x, n)) = n
  BY RepeatFacts
<1>2. QED
  BY <1>1, ConcatFacts

\* AgentData after the answer, before the next state is chosen.
LEMMA ExtendedFacts ==
    ASSUME conf \in Configuration, version \in Nat, NEW a \in AgentStates, NEW n \in Nat,
           NEW lo \in Nat
    PROVE  /\ Extended(a, n, lo) \in AgentStates
           /\ TextIs(Extended(a, n, lo), a.state, a.prompt_ids \o Repeat("g", n),
                     a.response_mask \o Repeat(1, n),
                     IF conf.logprobs THEN a.response_logprobs \o Repeat("lp", n)
                     ELSE a.response_logprobs, a.images)
           /\ CountersAre(Extended(a, n, lo), a.assistant_turns + 1, a.user_turns,
                          MergeSteps(a.steps, lo, version), a.since)
           /\ RestIs(Extended(a, n, lo), a.tool_calls, a.row, a.info)
<1> DEFINE ids == a.prompt_ids \o Repeat("g", n)
           mask == a.response_mask \o Repeat(1, n)
           lp == IF conf.logprobs THEN a.response_logprobs \o Repeat("lp", n)
                 ELSE a.response_logprobs
           steps == MergeSteps(a.steps, lo, version)
<1>1. /\ a.prompt_ids \in Seq(Texts) /\ a.response_mask \in Seq({0, 1})
      /\ a.response_logprobs \in Seq({"lp", "0"}) /\ a.assistant_turns \in Nat
      /\ a.steps \in {None} \cup (Nat \X Nat)
  BY DEF AgentStates
<1>2. ids \in Seq(Texts)
  <2>1. Repeat("g", n) \in Seq(Texts)
    BY RepeatFacts DEF Texts
  <2>2. QED
    BY <1>1, <2>1, ConcatFacts
<1>3. mask \in Seq({0, 1})
  <2>1. Repeat(1, n) \in Seq({0, 1})
    BY RepeatFacts
  <2>2. QED
    BY <1>1, <2>1, ConcatFacts
<1>4. lp \in Seq({"lp", "0"})
  <2>1. Repeat("lp", n) \in Seq({"lp", "0"})
    BY RepeatFacts
  <2>2. a.response_logprobs \o Repeat("lp", n) \in Seq({"lp", "0"})
    BY <1>1, <2>1, ConcatFacts
  <2>3. QED
    BY <1>1, <2>2
<1>5. steps \in Steps
  <2>1. <<lo, version>> \in Steps
    BY DEF Steps
  <2>2. a.steps # None => <<a.steps[1], version>> \in Steps
    BY <1>1 DEF Steps
  <2>3. QED
    BY <1>1, <2>1, <2>2 DEF MergeSteps, Steps
<1>6. Extended(a, n, lo) =
        [a EXCEPT !.prompt_ids = ids, !.response_mask = mask, !.response_logprobs = lp,
                  !.assistant_turns = a.assistant_turns + 1, !.steps = steps]
  BY DEF Extended, AgentStates
<1> HIDE DEF ids, mask, lp, steps
<1>7. a.assistant_turns + 1 \in Nat
  BY <1>1
<1>8. /\ Extended(a, n, lo) \in AgentStates
      /\ TextIs(Extended(a, n, lo), a.state, ids, mask, lp, a.images)
      /\ CountersAre(Extended(a, n, lo), a.assistant_turns + 1, a.user_turns, steps, a.since)
      /\ RestIs(Extended(a, n, lo), a.tool_calls, a.row, a.info)
  BY <1>2, <1>3, <1>4, <1>5, <1>6, <1>7, TurnSet
<1>9. QED
  BY <1>8 DEF ids, mask, lp, steps

LEMMA ExtendedText ==
    ASSUME conf \in Configuration, version \in Nat, NEW a \in AgentStates,
           NEW f \in Seq({"p", "i"}), NEW d \in Seq(Texts \X Nat), TextOK(conf, a, f, d),
           NEW n \in Nat, NEW lo \in Nat, lo <= version,
           Len(a.prompt_ids) + n <= PromptLength + ResponseLength
    PROVE  TextOK(conf, Extended(a, n, lo), f, d \o Generated(n, lo, version))
<1> DEFINE e == Generated(n, lo, version)
           b == Extended(a, n, lo)
<1>1. /\ a.prompt_ids \in Seq(Texts) /\ a.response_mask \in Seq({0, 1})
      /\ a.response_logprobs \in Seq({"lp", "0"}) /\ a.images \in Nat
  BY DEF AgentStates
<1>2. e \in Seq(Texts \X Nat) /\ Len(e) = n /\ \A i \in 1..n : e[i][1] = "g"
  BY GeneratedFacts
<1>3. /\ b.prompt_ids = a.prompt_ids \o Repeat("g", n)
      /\ b.response_mask = a.response_mask \o Repeat(1, n)
      /\ b.response_logprobs = IF conf.logprobs THEN a.response_logprobs \o Repeat("lp", n)
                               ELSE a.response_logprobs
      /\ b.images = a.images
  BY ExtendedFacts DEF TextIs
<1> HIDE DEF e, b
<1>4. SaidOK(d \o e)
  BY <1>2, SaidExtends DEF TextOK
<1>5. IdsOK(b.prompt_ids, f, d \o e)
  <2>1. /\ Repeat("g", n) \in Seq(Texts) /\ Len(Repeat("g", n)) = n
        /\ \A i \in 1..n : Repeat("g", n)[i] = "g"
    BY RepeatFacts DEF Texts
  <2>2. IdsOK(a.prompt_ids, f, d)
    BY DEF TextOK
  <2>3. QED
    BY <1>1, <1>2, <1>3, <2>1, <2>2, IdsExtend, ZenonT(60)
<1>6. Marks(1, b.response_mask, d \o e)
  <2>1. /\ Repeat(1, n) \in Seq({0, 1}) /\ Len(Repeat(1, n)) = n
        /\ \A i \in 1..n : Repeat(1, n)[i] = 1
    BY RepeatFacts
  <2>2. Marks(1, a.response_mask, d)
    BY DEF TextOK
  <2>3. QED
    <3>1. 1 \in {0, 1} /\ \A i \in 1..Len(e) : (Repeat(1, n)[i] = 1) <=> (e[i][1] = "g")
      BY <1>2, <2>1
    <3>2. Len(Repeat(1, n)) = Len(e)
      BY <1>2, <2>1
    <3>3. Marks(1, a.response_mask \o Repeat(1, n), d \o e)
      BY <1>1, <1>2, <2>1, <2>2, <3>1, <3>2, MarksExtend, Zenon
    <3>4. QED
      BY <1>3, <3>3
<1>7. IF conf.logprobs THEN Marks("lp", b.response_logprobs, d \o e)
      ELSE b.response_logprobs = <<>>
  <2>1. CASE conf.logprobs
    <3>1. /\ Repeat("lp", n) \in Seq({"lp", "0"}) /\ Len(Repeat("lp", n)) = n
          /\ \A i \in 1..n : Repeat("lp", n)[i] = "lp"
      BY RepeatFacts
    <3>2. Marks("lp", a.response_logprobs, d)
      BY <2>1 DEF TextOK
    <3>3. Marks("lp", a.response_logprobs \o Repeat("lp", n), d \o e)
      BY <1>1, <1>2, <3>1, <3>2, MarksExtend
    <3>4. QED
      BY <1>3, <2>1, <3>3
  <2>2. CASE ~conf.logprobs
    BY <1>3, <2>2 DEF TextOK
  <2>3. QED
    BY <2>1, <2>2
<1>8. ASSUME Alignable(conf) PROVE Count("i", b.prompt_ids) = b.images
  <2>1. Count("i", a.prompt_ids) = a.images
    BY <1>8 DEF TextOK
  <2>2. Repeat("g", n) \in Seq(Texts)
    BY RepeatFacts DEF Texts
  <2>3. Count("i", a.prompt_ids \o Repeat("g", n)) =
           Count("i", a.prompt_ids) + Count("i", Repeat("g", n))
    BY <1>1, <2>2, CountConcat
  <2>4. Count("i", Repeat("g", n)) = 0
    BY CountRepeat
  <2>5. QED
    BY <1>1, <1>3, <2>1, <2>3, <2>4
<1>9. TextOK(conf, b, f, d \o e)
  BY <1>4, <1>5, <1>6, <1>7, <1>8 DEF TextOK
<1>10. QED
  BY <1>9 DEF e, b

\* min and max_global_steps after the merge: the first call's oldest version,
\* and the latest.
LEMMA MergedSteps ==
    ASSUME version \in Nat, NEW a \in AgentStates, NEW d \in Seq(Texts \X Nat),
           StepsOK(version, a, d), a.state = "GENERATING",
           NEW n \in Nat, NEW lo \in Nat, a.since <= lo, lo <= version,
           NEW steps, steps = MergeSteps(a.steps, lo, version)
    PROVE  /\ steps # None /\ steps[1] <= steps[2] /\ steps[2] <= version
           /\ Covered(steps, d \o Generated(n, lo, version))
<1> DEFINE e == Generated(n, lo, version)
<1>1. a.since \in Nat /\ a.steps \in {None} \cup (Nat \X Nat)
  BY DEF AgentStates
<1>2. /\ e \in Seq(Texts \X Nat) /\ Len(e) = n
      /\ \A i \in 1..n : lo <= e[i][2] /\ e[i][2] <= version
  BY GeneratedFacts
<1>3. \A i \in 1..n : e[i][2] \in Nat
  BY <1>2
<1>4. \A i \in 1..Len(d) : d[i][2] \in Nat
  OBVIOUS
<1> HIDE DEF e
<1>5. CASE a.steps = None
  <2>1. steps = <<lo, version>>
    BY <1>5 DEF MergeSteps
  <2>2. Covered(steps, d)
    BY <1>5 DEF StepsOK, Covered
  <2>3. Covered(steps, e)
    BY <1>2, <2>1 DEF Covered
  <2>4. steps # None /\ steps[1] <= steps[2] /\ steps[2] <= version
    BY <2>1
  <2>5. QED
    BY <1>2, <2>2, <2>3, <2>4, CoveredExtends DEF e
<1>6. CASE a.steps # None
  <2>1. /\ a.steps[1] \in Nat /\ a.steps[2] \in Nat
        /\ a.steps[1] <= a.steps[2] /\ a.steps[2] <= version /\ a.steps[1] <= a.since
    BY <1>1, <1>6 DEF StepsOK
  <2>2. steps[1] = a.steps[1] /\ steps[2] = version /\ steps # None
    <3>1. CASE version # 0
      BY <1>6, <3>1 DEF MergeSteps
    <3>2. CASE version = 0
      <4>1. steps = a.steps
        BY <1>6, <3>2 DEF MergeSteps
      <4>2. QED
        BY <1>6, <2>1, <3>2, <4>1
    <3>3. QED
      BY <3>1, <3>2
  <2>3. Covered(steps, d)
    <3>1. SUFFICES ASSUME NEW i \in 1..Len(d), d[i][1] = "g"
                   PROVE  steps # None /\ steps[1] <= d[i][2] /\ d[i][2] <= steps[2]
      BY DEF Covered
    <3>2. a.steps[1] <= d[i][2] /\ d[i][2] <= a.steps[2]
      BY <3>1 DEF StepsOK, Covered
    <3>3. QED
      BY <1>4, <2>1, <2>2, <3>2
  <2>4. Covered(steps, e)
    <3>1. SUFFICES ASSUME NEW i \in 1..n
                   PROVE  steps # None /\ steps[1] <= e[i][2] /\ e[i][2] <= steps[2]
      BY <1>2 DEF Covered
    <3>2. QED
      BY <1>1, <1>2, <1>3, <2>1, <2>2
  <2>5. Covered(steps, d \o e)
    BY <1>2, <2>3, <2>4, CoveredExtends
  <2>6. steps # None /\ steps[1] <= steps[2] /\ steps[2] <= version
    BY <2>1, <2>2
  <2>7. QED
    BY <2>5, <2>6 DEF e
<1>7. QED
  BY <1>5, <1>6

\* The turn counters and the limits after an answer of n tokens.
LEMMA TurnCounts ==
    ASSUME conf \in Configuration, NEW a \in AgentStates, NEW b \in AgentStates,
           NEW n \in Nat, TurnsOK(conf, a), a.state = "GENERATING",
           b.assistant_turns = a.assistant_turns + 1, b.user_turns = a.user_turns,
           Len(b.response_mask) = Len(a.response_mask) + n,
           \/ b.state = "TERMINATED"
           \/ b.state = "PROCESSING_TOOLS" /\ n # 0 /\ ~Terminates(b)
    PROVE  TurnsOK(conf, b)
<1> USE Bounds
<1>1. /\ a.assistant_turns \in Nat /\ a.user_turns \in Nat
      /\ Len(a.response_mask) \in Nat
      /\ conf.limits[1] \in Nat /\ conf.limits[2] \in Nat
  BY AgentTypes, LimitsType
<1>2. /\ a.assistant_turns = a.user_turns
      /\ a.assistant_turns <= Len(a.response_mask) /\ Len(a.response_mask) < ResponseLength
      /\ conf.limits[1] # 0 => a.assistant_turns < conf.limits[1]
      /\ conf.limits[2] # 0 => a.user_turns <= conf.limits[2]
  BY DEF TurnsOK
<1>3. CASE b.state = "TERMINATED"
  BY <1>1, <1>2, <1>3 DEF TurnsOK, Active
<1>4. CASE b.state = "PROCESSING_TOOLS" /\ n # 0 /\ ~Terminates(b)
  <2>1. /\ Len(b.response_mask) < ResponseLength
        /\ conf.limits[1] # 0 => b.assistant_turns < conf.limits[1]
        /\ conf.limits[2] # 0 => b.user_turns < conf.limits[2]
    BY <1>1, <1>4, SMTT(30) DEF Terminates
  <2>2. b.assistant_turns <= Len(b.response_mask)
    BY <1>1, <1>2, <1>4
  <2>3. QED
    BY <1>1, <1>2, <1>4, <2>1, <2>2 DEF TurnsOK, Active
<1>5. QED
  BY <1>3, <1>4

LEMMA TurnOK ==
    ASSUME conf \in Configuration, version \in Nat, NEW a \in AgentStates,
           NEW f \in Seq({"p", "i"}), NEW d \in Seq(Texts \X Nat),
           SampleOK(conf, version, a, f, d), a.state = "GENERATING",
           NEW n \in 0..MaxNewTokens(Len(a.prompt_ids)), NEW lo \in a.since..version,
           NEW x, x = Extended(a, n, lo), NEW b \in AgentStates, NEW st, NEW cs \in Seq(Calls),
           TextIs(b, st, x.prompt_ids, x.response_mask, x.response_logprobs, x.images),
           CountersAre(b, x.assistant_turns, x.user_turns, x.steps, x.since),
           RestIs(b, cs, x.row, x.info),
           \/ st = "TERMINATED" /\ cs = x.tool_calls
           \/ /\ st = "PROCESSING_TOOLS" /\ ~Terminates(x) /\ n # 0
              /\ Len(cs) <= MaxParallelCalls
              /\ \A k \in 1..Len(cs) : cs[k].at = "called"
    PROVE  SampleOK(conf, version, b, f, d \o Generated(n, lo, version))
<1> USE Bounds
<1> DEFINE e == Generated(n, lo, version)
<1>1. /\ a.prompt_ids \in Seq(Texts) /\ a.response_mask \in Seq({0, 1})
      /\ a.assistant_turns \in Nat /\ a.user_turns \in Nat /\ a.since \in Nat
      /\ Len(a.prompt_ids) \in Nat /\ Len(a.response_mask) \in Nat
  BY AgentTypes
<1>2. /\ TurnsOK(conf, a) /\ StepsOK(version, a, d) /\ CallsOK(a) /\ TextOK(conf, a, f, d)
  BY DEF SampleOK, Active
<1>3. lo \in Nat /\ a.since <= lo /\ lo <= version
  BY <1>1
<1>4. n \in Nat /\ Len(a.prompt_ids) + n <= PromptLength + ResponseLength
  <2>1. Len(a.prompt_ids) <= PromptLength + ResponseLength
    BY <1>2 DEF TextOK, IdsOK
  <2>2. QED
    BY <1>1, <2>1, MaxNewTokensBound
<1>5. /\ x.response_mask = a.response_mask \o Repeat(1, n)
      /\ x.assistant_turns = a.assistant_turns + 1 /\ x.user_turns = a.user_turns
      /\ x.steps = MergeSteps(a.steps, lo, version) /\ x.since = a.since
      /\ x.tool_calls = a.tool_calls
  <2>1. /\ TextIs(x, a.state, a.prompt_ids \o Repeat("g", n),
                  a.response_mask \o Repeat(1, n),
                  IF conf.logprobs THEN a.response_logprobs \o Repeat("lp", n)
                  ELSE a.response_logprobs, a.images)
        /\ CountersAre(x, a.assistant_turns + 1, a.user_turns,
                       MergeSteps(a.steps, lo, version), a.since)
        /\ RestIs(x, a.tool_calls, a.row, a.info)
    BY <1>3, <1>4, ExtendedFacts
  <2>2. QED
    BY <2>1 DEF TextIs, CountersAre, RestIs
<1>6. /\ b.state = st /\ b.prompt_ids = x.prompt_ids /\ b.response_mask = x.response_mask
      /\ b.response_logprobs = x.response_logprobs /\ b.images = x.images
      /\ b.assistant_turns = a.assistant_turns + 1 /\ b.user_turns = a.user_turns
      /\ b.steps = MergeSteps(a.steps, lo, version) /\ b.since = a.since
      /\ b.tool_calls = cs
  BY <1>5 DEF TextIs, CountersAre, RestIs
<1>7. Len(x.response_mask) = Len(a.response_mask) + n
  BY <1>1, <1>4, <1>5, MaskGrows
<1>8. TextOK(conf, b, f, d \o e)
  <2>1. TextOK(conf, x, f, d \o e)
    BY <1>2, <1>3, <1>4, ExtendedText
  <2>2. QED
    BY <1>6, <2>1 DEF TextOK
<1>9. StepsOK(version, b, d \o e)
  <2>1. /\ b.steps # None /\ b.steps[1] <= b.steps[2] /\ b.steps[2] <= version
        /\ Covered(b.steps, d \o e)
    BY <1>2, <1>3, <1>4, <1>6, MergedSteps
  <2>2. b.state # "GENERATING" /\ b.since <= version
    BY <1>1, <1>3, <1>6
  <2>3. QED
    BY <2>1, <2>2 DEF StepsOK
<1>10. a.tool_calls = <<>>
  BY <1>2 DEF CallsOK
<1>11. CallsOK(b)
  <2>1. CASE st = "TERMINATED" /\ cs = x.tool_calls
    <3>1. b.tool_calls = <<>> /\ b.state = "TERMINATED"
      BY <1>5, <1>6, <1>10, <2>1
    <3>2. QED
      BY <3>1 DEF CallsOK
  <2>2. CASE /\ st = "PROCESSING_TOOLS" /\ n # 0 /\ Len(cs) <= MaxParallelCalls
             /\ \A k \in 1..Len(cs) : cs[k].at = "called"
    <3>1. b.response_mask # <<>>
      <4>1. Len(b.response_mask) > 0
        BY <1>1, <1>4, <1>6, <1>7, <2>2
      <4>2. QED
        BY <4>1
    <3>2. QED
      BY <1>6, <2>2, <3>1 DEF CallsOK
  <2>3. QED
    BY <2>1, <2>2
<1>12. TurnsOK(conf, b)
  <2>1. b.user_turns = a.user_turns /\ b.assistant_turns = a.assistant_turns + 1
    BY <1>6
  <2>2. Len(b.response_mask) = Len(a.response_mask) + n
    BY <1>6, <1>7
  <2>3. \/ b.state = "TERMINATED"
        \/ b.state = "PROCESSING_TOOLS" /\ n # 0 /\ ~Terminates(b)
    <3>1. Terminates(b) <=> Terminates(x)
      BY <1>5, <1>6 DEF Terminates
    <3>2. QED
      BY <1>6, <3>1
  <2>4. QED
    BY <1>2, <1>4, <2>1, <2>2, <2>3, TurnCounts
<1>13. b.state \in {"TERMINATED", "PROCESSING_TOOLS"}
  BY <1>6
<1>14. QED
  BY <1>8, <1>9, <1>11, <1>12, <1>13 DEF SampleOK, Active

\* What Generate leaves of the record, for both loops.
TurnResult(s, a, n, calls) ==
    IF Agent[s] = "tool_agent" THEN AfterTurn(a, n, calls)
    ELSE [a EXCEPT !.state = "TERMINATED"]

LEMMA GenerateOK ==
    ASSUME conf \in Configuration, version \in Nat, NEW a \in AgentStates, NEW s,
           NEW f \in Seq({"p", "i"}), NEW d \in Seq(Texts \X Nat),
           SampleOK(conf, version, a, f, d), a.state = "GENERATING",
           NEW n \in 0..MaxNewTokens(Len(a.prompt_ids)), NEW lo \in a.since..version,
           NEW calls \in 0..MaxCalls,
           NEW b, b = TurnResult(s, Extended(a, n, lo), n, calls)
    PROVE  /\ b \in AgentStates
           /\ SampleOK(conf, version, b, f, d \o Generated(n, lo, version))
           /\ \A k \in 1..Len(b.tool_calls) : b.tool_calls[k].at = "called"
<1> USE Bounds
<1> DEFINE x == Extended(a, n, lo)
<1>1. n \in Nat /\ lo \in Nat
  <2>1. /\ a.since \in Nat /\ Len(a.prompt_ids) \in Nat
    BY DEF AgentStates
  <2>2. Len(a.prompt_ids) <= PromptLength + ResponseLength
    BY DEF SampleOK, Active, TextOK, IdsOK
  <2>3. n \in Nat
    BY <2>1, <2>2, MaxNewTokensBound
  <2>4. QED
    BY <2>1, <2>3
<1>2. x \in AgentStates /\ x.tool_calls = a.tool_calls
  BY <1>1, ExtendedFacts DEF RestIs
<1>3. x.tool_calls \in Seq(Calls) /\ a.tool_calls = <<>>
  BY <1>2 DEF AgentStates, SampleOK, CallsOK
<1> HIDE DEF x
<1>4. "TERMINATED" \in States /\ "PROCESSING_TOOLS" \in States
  BY DEF States
<1>5. CASE b = [x EXCEPT !.state = "TERMINATED"]
  <2>1. /\ b \in AgentStates
        /\ TextIs(b, "TERMINATED", x.prompt_ids, x.response_mask, x.response_logprobs, x.images)
        /\ CountersAre(b, x.assistant_turns, x.user_turns, x.steps, x.since)
        /\ RestIs(b, x.tool_calls, x.row, x.info)
    BY <1>2, <1>4, <1>5, StateSet
  <2>2. SampleOK(conf, version, b, f, d \o Generated(n, lo, version))
    BY <1>3, <2>1, TurnOK DEF x
  <2>3. b.tool_calls = <<>>
    BY <1>2, <1>3, <2>1 DEF RestIs
  <2>4. QED
    BY <2>1, <2>2, <2>3
<1>6. CASE ~(b = [x EXCEPT !.state = "TERMINATED"])
  <2> DEFINE m == Smallest({calls, MaxParallelCalls})
             cs == Repeat(NewCall, m)
  <2>1. /\ ~Terminates(x) /\ n # 0 /\ calls # 0
        /\ b = [x EXCEPT !.state = "PROCESSING_TOOLS", !.tool_calls = cs]
    BY <1>6 DEF TurnResult, AfterTurn, x
  <2>2. m \in Nat /\ m <= MaxParallelCalls
    <3>1. calls \in Int /\ MaxParallelCalls \in Int
      OBVIOUS
    <3>2. m = IF calls < MaxParallelCalls THEN calls ELSE MaxParallelCalls
      BY <3>1, SmallestOfTwo
    <3>3. QED
      BY <3>2
  <2>3. NewCall \in Calls /\ NewCall.at = "called"
    BY DEF NewCall, Calls
  <2>4. cs \in Seq(Calls) /\ Len(cs) = m /\ \A k \in 1..m : cs[k] = NewCall
    BY <2>2, <2>3, RepeatFacts
  <2> HIDE DEF m, cs
  <2>5. \A k \in 1..Len(cs) : cs[k].at = "called"
    BY <2>3, <2>4
  <2>6. /\ b \in AgentStates
        /\ TextIs(b, "PROCESSING_TOOLS", x.prompt_ids, x.response_mask,
                  x.response_logprobs, x.images)
        /\ CountersAre(b, x.assistant_turns, x.user_turns, x.steps, x.since)
        /\ RestIs(b, cs, x.row, x.info)
    BY <1>2, <1>4, <2>1, <2>4, StateAndCallsSet
  <2>7. Len(cs) <= MaxParallelCalls
    BY <2>2, <2>4
  <2>8. SampleOK(conf, version, b, f, d \o Generated(n, lo, version))
    BY <2>1, <2>4, <2>5, <2>6, <2>7, TurnOK DEF x
  <2>9. QED
    BY <2>5, <2>6, <2>8 DEF RestIs
<1>7. QED
  BY <1>5, <1>6

-----------------------------------------------------------------------------
(* _handle_processing_tools_state                                           *)

Answering(a) == CallsOK(a) /\ Answered(a)

LEMMA AnswersGiven ==
    ASSUME NEW a \in AgentStates, Answering(a)
    PROVE  /\ Len(a.tool_calls) \in Nat /\ DOMAIN a.tool_calls = 1..Len(a.tool_calls)
           /\ \A k \in 1..Len(a.tool_calls) : a.tool_calls[k].answer \in Results
<1>1. a.tool_calls \in Seq(Calls)
  BY AgentTypes
<1>2. Len(a.tool_calls) \in Nat /\ DOMAIN a.tool_calls = 1..Len(a.tool_calls)
  BY <1>1, LenProperties
<1>3. \A k \in 1..Len(a.tool_calls) : a.tool_calls[k].at = "answered"
  BY <1>2 DEF Answering, Answered
<1>4. QED
  BY <1>2, <1>3 DEF Answering, CallsOK

\* What an answer is.
LEMMA ResultFacts ==
    ASSUME NEW x \in Results
    PROVE  /\ x \in Answer /\ IsFiniteSet(ImagesOf(x))
           /\ SingleImages => ImagesOf(x) = IF HasImage(x) THEN {1} ELSE {}
<1>1. ErrorAnswer \in Answer /\ ErrorAnswer.image = <<>>
  <2>1. <<>> \in Seq({"img", "None"}) /\ FALSE \in BOOLEAN
    OBVIOUS
  <2>2. QED
    BY <2>1 DEF ErrorAnswer, Answer
<1>2. x \in Answer
  BY <1>1, AgentLoopAssumption DEF Results
<1>3. x.image \in Seq({"img", "None"})
  BY <1>2 DEF Answer
<1>4. Len(x.image) \in Nat /\ DOMAIN x.image = 1..Len(x.image)
  BY <1>3, LenProperties
<1>5. IsFiniteSet(ImagesOf(x))
  <2>1. IsFiniteSet(1..Len(x.image))
    BY <1>4, FS_Interval
  <2>2. ImagesOf(x) \subseteq 1..Len(x.image)
    BY <1>4 DEF ImagesOf
  <2>3. QED
    BY <2>1, <2>2, FS_Subset
<1>6. ASSUME SingleImages PROVE ImagesOf(x) = IF HasImage(x) THEN {1} ELSE {}
  <2>1. x.image \in {<<>>, <<"img">>}
    BY <1>1, <1>6 DEF Results, SingleImages
  <2>2. CASE x.image = <<>>
    BY <2>2 DEF ImagesOf, HasImage
  <2>3. CASE x.image = <<"img">>
    <3>1. DOMAIN <<"img">> = {1} /\ <<"img">>[1] = "img" /\ <<"img">> # <<>>
      OBVIOUS
    <3>2. ImagesOf(x) = {1}
      BY <2>3, <3>1 DEF ImagesOf
    <3>3. QED
      BY <2>3, <3>1, <3>2 DEF HasImage
  <2>4. QED
    BY <2>1, <2>2, <2>3
<1>7. QED
  BY <1>2, <1>5, <1>6

\* The images of all answers.
Taken(a) == UNION {{k} \X ImagesOf(a.tool_calls[k].answer) : k \in DOMAIN a.tool_calls}

LEMMA NewImagesType ==
    ASSUME NEW a \in AgentStates, Answering(a)
    PROVE  NewImages(a) \in Nat
<1> DEFINE n == Len(a.tool_calls)
           Of(k) == {k} \X ImagesOf(a.tool_calls[k].answer)
           S == {Of(k) : k \in DOMAIN a.tool_calls}
           g == [k \in 1..n |-> Of(k)]
<1>1. /\ n \in Nat /\ DOMAIN a.tool_calls = 1..n
      /\ \A k \in 1..n : a.tool_calls[k].answer \in Results
  BY AnswersGiven
<1>2. ASSUME NEW k \in 1..n PROVE IsFiniteSet(Of(k))
  <2>1. IsFiniteSet({k}) /\ IsFiniteSet(ImagesOf(a.tool_calls[k].answer))
    BY <1>1, ResultFacts, FS_Singleton
  <2>2. QED
    BY <2>1, FS_Product
<1>3. S = UNION {S} /\ NewImages(a) = Cardinality(UNION S)
  BY DEF NewImages
<1>4. \A T \in S : IsFiniteSet(T)
  BY <1>1, <1>2
<1>5. IsFiniteSet(S)
  <2>1. \A T \in S : \E k \in 1..n : g[k] = T
    BY <1>1
  <2>2. \A k \in 1..n : g[k] \in S
    BY <1>1
  <2> HIDE DEF S, n
  <2>3. g \in [1..n -> S]
    BY <2>2
  <2>4. g \in Surjection(1..n, S)
    BY <2>1, <2>3, Fun_IsSurj
  <2>5. IsFiniteSet(1..n)
    BY <1>1, FS_Interval
  <2>6. QED
    BY <2>4, <2>5, FS_Surjection DEF ExistsSurjection
<1> HIDE DEF S
<1>6. IsFiniteSet(UNION S)
  BY <1>4, <1>5, FS_UNION
<1>7. QED
  BY <1>3, <1>6, FS_CardinalityType

\* With single images there is one for every placeholder.
LEMMA SingleCount ==
    ASSUME NEW a \in AgentStates, Answering(a), SingleImages
    PROVE  NewImages(a) = Cardinality({k \in DOMAIN a.tool_calls : HasImage(a.tool_calls[k].answer)})
<1> DEFINE D == DOMAIN a.tool_calls
           I == {k \in D : HasImage(a.tool_calls[k].answer)}
           U == Taken(a)
           m == [k \in I |-> <<k, 1>>]
<1>1. /\ Len(a.tool_calls) \in Nat /\ D = 1..Len(a.tool_calls)
      /\ \A k \in D : a.tool_calls[k].answer \in Results
  BY AnswersGiven
<1>2. \A k \in D : ImagesOf(a.tool_calls[k].answer) =
                      IF HasImage(a.tool_calls[k].answer) THEN {1} ELSE {}
  BY <1>1, ResultFacts
<1>3. ASSUME NEW u \in U PROVE \E k \in I : u = <<k, 1>>
  <2>1. PICK k \in D : u \in {k} \X ImagesOf(a.tool_calls[k].answer)
    BY DEF Taken
  <2>2. HasImage(a.tool_calls[k].answer) /\ u = <<k, 1>>
    BY <1>2, <2>1
  <2>3. QED
    BY <2>2
<1>4. ASSUME NEW k \in I PROVE <<k, 1>> \in U
  <2>1. <<k, 1>> \in {k} \X ImagesOf(a.tool_calls[k].answer)
    BY <1>2
  <2>2. QED
    BY <2>1 DEF Taken
<1>5. IsFiniteSet(I)
  <2>1. IsFiniteSet(D)
    BY <1>1, FS_Interval
  <2>2. QED
    BY <2>1, FS_Subset
<1> HIDE DEF U, I
<1>6. m \in [I -> U] /\ \A k \in I : m[k] = <<k, 1>>
  BY <1>4
<1>7. \A k, l \in I : m[k] = m[l] => k = l
  BY <1>6
<1>8. \A u \in U : \E k \in I : m[k] = u
  BY <1>3, <1>6
<1> HIDE DEF m
<1>9. m \in Bijection(I, U)
  BY <1>6, <1>7, <1>8, Fun_IsBij
<1>10. Cardinality(U) = Cardinality(I)
  BY <1>5, <1>9, FS_Bijection DEF ExistsBijection
<1>11. NewImages(a) = Cardinality(U)
  BY DEF NewImages, Taken, U
<1>12. QED
  BY <1>10, <1>11 DEF I

LEMMA MessageIdsFacts ==
    ASSUME NEW a \in AgentStates, Answering(a)
    PROVE  /\ MessageIds(a) \in Seq({"i", "t"})
           /\ Alignable(conf) => Count("i", MessageIds(a)) = NewImages(a)
<1>1. Len(a.tool_calls) \in Nat /\ DOMAIN a.tool_calls = 1..Len(a.tool_calls)
  BY AnswersGiven
<1>2. MessageIds(a) \in [1..Len(a.tool_calls) -> {"i", "t"}]
  BY <1>1 DEF MessageIds
<1>3. ASSUME conf.format = "hermes"
      PROVE  {k \in DOMAIN MessageIds(a) : MessageIds(a)[k] = "i"} =
                {k \in DOMAIN a.tool_calls : HasImage(a.tool_calls[k].answer)}
  <2>1. DOMAIN MessageIds(a) = DOMAIN a.tool_calls
    BY DEF MessageIds
  <2>2. \A k \in DOMAIN a.tool_calls :
           MessageIds(a)[k] = IF HasImage(a.tool_calls[k].answer) THEN "i" ELSE "t"
    BY <1>3 DEF MessageIds
  <2>3. \A k \in DOMAIN a.tool_calls :
           (MessageIds(a)[k] = "i") <=> HasImage(a.tool_calls[k].answer)
    <3>1. "i" # "t" /\ \A k \in DOMAIN a.tool_calls : HasImage(a.tool_calls[k].answer) \in BOOLEAN
      BY DEF HasImage
    <3>2. QED
      BY <2>2, <3>1
  <2>4. QED
    BY <2>1, <2>3, Zenon
<1>4. ASSUME Alignable(conf) PROVE Count("i", MessageIds(a)) = NewImages(a)
  BY <1>3, <1>4, SingleCount DEF Count, Alignable
<1>5. QED
  BY <1>1, <1>2, <1>4, FunctionIsSeq

LEMMA ToolIdsFacts ==
    ASSUME NEW a \in AgentStates, Answering(a), ~MediaRaises(a)
    PROVE  /\ ToolIds(a) \in Seq({"i", "t"})
           /\ Alignable(conf) => Count("i", ToolIds(a)) = NewImages(a)
<1>1. MessageIds(a) \in Seq({"i", "t"})
  BY MessageIdsFacts
<1>2. ToolIds(a) \in Seq({"i", "t"})
  BY <1>1, TruncateFacts DEF ToolIds
<1>3. ASSUME Alignable(conf) PROVE Count("i", ToolIds(a)) = NewImages(a)
  <2>1. Count("i", MessageIds(a)) = NewImages(a)
    BY <1>3, MessageIdsFacts
  <2>2. ToolIds(a) = Truncate(MessageIds(a)) /\ ~TooLong(MessageIds(a))
    BY <1>3, <2>1 DEF Alignable, ToolIds, MediaRaises, TooLong
  <2>3. QED
    BY <1>1, <2>1, <2>2, TruncateCount
<1>4. QED
  BY <1>2, <1>3

\* The tokens of the tool messages with the version at which they came.
Heard(ids, v) == [i \in DOMAIN ids |-> <<ids[i], v>>]

LEMMA HeardFacts ==
    ASSUME NEW ids \in Seq({"i", "t"}), NEW v \in Nat
    PROVE  /\ Heard(ids, v) \in Seq(Texts \X Nat)
           /\ Len(Heard(ids, v)) = Len(ids)
           /\ ids \in Seq(Texts)
           /\ \A i \in 1..Len(ids) :
                 Heard(ids, v)[i][1] = ids[i] /\ ids[i] \in {"i", "t"}
<1>1. Len(ids) \in Nat /\ DOMAIN ids = 1..Len(ids) /\ \A i \in 1..Len(ids) : ids[i] \in {"i", "t"}
  OBVIOUS
<1>2. {"i", "t"} \subseteq Texts
  BY DEF Texts
<1>3. \A i \in 1..Len(ids) : <<ids[i], v>> \in Texts \X Nat
  BY <1>1, <1>2
<1>4. Heard(ids, v) \in [1..Len(ids) -> Texts \X Nat]
  BY <1>1, <1>3 DEF Heard
<1>5. ids \in Seq(Texts)
  BY <1>2, SeqMonotonic
<1>6. QED
  BY <1>1, <1>4, <1>5, FunctionIsSeq DEF Heard

LEMMA ToolLogprobsType ==
    ASSUME NEW a \in AgentStates, NEW n \in Nat
    PROVE  ToolLogprobs(a, n) \in Seq({"lp", "0"})
<1>1. a.response_logprobs \in Seq({"lp", "0"}) /\ <<>> \in Seq({"lp", "0"})
  BY AgentTypes
<1>2. Repeat("0", n) \in Seq({"lp", "0"})
  BY RepeatFacts
<1>3. a.response_logprobs \o Repeat("0", n) \in Seq({"lp", "0"})
  BY <1>1, <1>2, ConcatFacts
<1>4. QED
  BY <1>1, <1>3 DEF ToolLogprobs

\* AgentData after the tool messages were taken.
LEMMA ObservedFacts ==
    ASSUME version \in Nat, NEW a \in AgentStates, Answering(a), ToolIds(a) \in Seq({"i", "t"}),
           NEW n, n = Len(ToolIds(a)), NEW b, b = Observed(a)
    PROVE  /\ n \in Nat /\ b \in AgentStates
           /\ TextIs(b, "GENERATING", a.prompt_ids \o ToolIds(a),
                     a.response_mask \o ToolMask(n), ToolLogprobs(a, n),
                     a.images + NewImages(a))
           /\ CountersAre(b, a.assistant_turns, a.user_turns + 1, a.steps, version)
           /\ RestIs(b, <<>>, a.row, a.info)
<1>1. n \in Nat /\ ToolIds(a) \in Seq(Texts)
  BY HeardFacts
<1>2. /\ a.prompt_ids \in Seq(Texts) /\ a.response_mask \in Seq({0, 1})
      /\ a.images \in Nat /\ a.user_turns \in Nat
  BY AgentTypes
<1>3. a.prompt_ids \o ToolIds(a) \in Seq(Texts)
  BY <1>1, <1>2, ConcatFacts
<1>4. a.response_mask \o ToolMask(n) \in Seq({0, 1})
  BY <1>1, <1>2, MaskGrows DEF ToolMask
<1>5. a.images + NewImages(a) \in Nat /\ a.user_turns + 1 \in Nat
  BY <1>2, NewImagesType
<1>6. ToolLogprobs(a, n) \in Seq({"lp", "0"})
  BY <1>1, ToolLogprobsType
<1>7. "GENERATING" \in States /\ <<>> \in Seq(Calls)
  BY DEF States
<1> DEFINE ids == a.prompt_ids \o ToolIds(a)
           mask == a.response_mask \o ToolMask(n)
           lp == ToolLogprobs(a, n)
           im == a.images + NewImages(a)
           users == a.user_turns + 1
           st == "GENERATING"
           cs == <<>>
<1>8. b = WithObservation(a, st, version, ids, mask, lp, im, users, cs)
  BY DEF Observed, AgentStates, WithObservation
<1> HIDE DEF ids, mask, lp, im, users, st, cs
<1>9. /\ b \in AgentStates
      /\ TextIs(b, st, ids, mask, lp, im)
      /\ CountersAre(b, a.assistant_turns, users, a.steps, version)
      /\ RestIs(b, cs, a.row, a.info)
  <2>1. /\ ids \in Seq(Texts) /\ mask \in Seq({0, 1}) /\ lp \in Seq({"lp", "0"})
        /\ im \in Nat /\ users \in Nat /\ st \in States /\ cs \in Seq(Calls)
    BY <1>3, <1>4, <1>5, <1>6, <1>7 DEF ids, mask, lp, im, users, st, cs
  <2>2. QED
    BY <1>8, <2>1, ObservationSet
<1>10. QED
  BY <1>1, <1>9 DEF ids, mask, lp, im, users, st, cs

LEMMA ObservedText ==
    ASSUME conf \in Configuration, version \in Nat, NEW a \in AgentStates,
           NEW f \in Seq({"p", "i"}), NEW d \in Seq(Texts \X Nat), TextOK(conf, a, f, d),
           a.response_mask # <<>>, Answering(a), ~MediaRaises(a), ToolResponseFits(a)
    PROVE  TextOK(conf, Observed(a), f, d \o Heard(ToolIds(a), version))
<1> USE Bounds
<1> DEFINE ids == ToolIds(a)
           n == Len(ids)
           e == Heard(ids, version)
           b == Observed(a)
<1>1. /\ a.prompt_ids \in Seq(Texts) /\ a.response_mask \in Seq({0, 1})
      /\ a.response_logprobs \in Seq({"lp", "0"}) /\ a.images \in Nat
      /\ Len(a.prompt_ids) \in Nat /\ Len(a.response_mask) \in Nat
  BY AgentTypes
<1>2. ids \in Seq({"i", "t"}) /\ (Alignable(conf) => Count("i", ids) = NewImages(a))
  BY ToolIdsFacts
<1>3. n \in Nat
  BY <1>2, LenProperties
<1>4. /\ b.prompt_ids = a.prompt_ids \o ids
      /\ b.response_mask = a.response_mask \o ToolMask(n)
      /\ b.response_logprobs = ToolLogprobs(a, n)
      /\ b.images = a.images + NewImages(a)
  BY <1>2, ObservedFacts DEF TextIs
<1>5. Len(a.response_mask) + n < ResponseLength
  BY DEF ToolResponseFits
<1> HIDE DEF ids, n, b
<1>6. /\ e \in Seq(Texts \X Nat) /\ Len(e) = n /\ ids \in Seq(Texts)
      /\ \A i \in 1..n : e[i][1] = ids[i] /\ ids[i] \in {"i", "t"}
  BY <1>2, HeardFacts DEF n
<1> HIDE DEF e
<1>7. \A i \in 1..n : e[i][1] # "g" /\ e[i][1] \in {"g", "i", "t"} /\ ids[i] = e[i][1]
  BY <1>6
<1>8. Len(a.response_mask) = Len(d) /\ Len(d) \in Nat
  BY <1>1 DEF TextOK, Marks
<1>9. SaidOK(d \o e)
  <2>1. \A i \in 1..Len(e) : /\ e[i][1] \in {"g", "i", "t"}
                             /\ e[i][1] # "g" => Len(d) + i < ResponseLength
    BY <1>3, <1>5, <1>6, <1>7, <1>8
  <2>2. SaidOK(d)
    BY DEF TextOK
  <2>3. QED
    BY <1>6, <2>1, <2>2, SaidExtends
<1>10. IdsOK(b.prompt_ids, f, d \o e)
  <2>1. IdsOK(a.prompt_ids, f, d)
    BY DEF TextOK
  <2>2. Len(Truncate(f)) \in Nat /\ Len(Truncate(f)) <= PromptLength
    <3>1. Truncate(f) \in Seq({"p", "i"}) /\ Len(Truncate(f)) <= PromptLength
      BY TruncateFacts
    <3>2. QED
      BY <3>1, LenProperties
  <2>3. Len(a.prompt_ids) = Len(Truncate(f)) + Len(d)
    BY <2>1 DEF IdsOK
  <2>4. Len(a.prompt_ids) + n <= PromptLength + ResponseLength
    BY <1>3, <1>5, <1>8, <2>2, <2>3
  <2>5. Len(ids) = Len(e) /\ \A i \in 1..Len(e) : ids[i] = e[i][1]
    BY <1>6, <1>7 DEF n
  <2>6. Len(a.prompt_ids) + Len(ids) <= PromptLength + ResponseLength
    BY <2>4 DEF n
  <2>7. IdsOK(a.prompt_ids \o ids, f, d \o e)
    BY <1>1, <1>6, <2>1, <2>5, <2>6, IdsExtend
  <2>8. QED
    BY <1>4, <2>7
<1>11. Marks(1, b.response_mask, d \o e)
  <2>1. /\ Repeat(0, n) \in Seq({0, 1}) /\ Len(Repeat(0, n)) = n
        /\ \A i \in 1..n : Repeat(0, n)[i] = 0
    BY <1>3, RepeatFacts
  <2>2. Marks(1, a.response_mask, d)
    BY DEF TextOK
  <2>3. 1 \in {0, 1} /\ \A i \in 1..Len(e) : (Repeat(0, n)[i] = 1) <=> (e[i][1] = "g")
    BY <1>6, <1>7, <2>1
  <2>4. Len(Repeat(0, n)) = Len(e)
    BY <1>6, <2>1
  <2>5. Marks(1, a.response_mask \o Repeat(0, n), d \o e)
    BY <1>1, <1>6, <2>1, <2>2, <2>3, <2>4, MarksExtend, Zenon
  <2>6. QED
    BY <1>4, <2>5 DEF ToolMask
<1>12. IF conf.logprobs THEN Marks("lp", b.response_logprobs, d \o e)
       ELSE b.response_logprobs = <<>>
  <2>1. CASE conf.logprobs
    <3>1. /\ Repeat("0", n) \in Seq({"lp", "0"}) /\ Len(Repeat("0", n)) = n
          /\ \A i \in 1..n : Repeat("0", n)[i] = "0"
      BY <1>3, RepeatFacts
    <3>2. Marks("lp", a.response_logprobs, d)
      BY <2>1 DEF TextOK
    <3>3. "lp" \in {"lp", "0"} /\ \A i \in 1..Len(e) : (Repeat("0", n)[i] = "lp") <=> (e[i][1] = "g")
      BY <1>6, <1>7, <3>1
    <3>4. Len(Repeat("0", n)) = Len(e)
      BY <1>6, <3>1
    <3>5. Marks("lp", a.response_logprobs \o Repeat("0", n), d \o e)
      BY <1>1, <1>6, <3>1, <3>2, <3>3, <3>4, MarksExtend, Zenon
    <3>6. a.response_logprobs # <<>>
      <4>1. Len(a.response_logprobs) = Len(d)
        BY <3>2 DEF Marks
      <4>2. Len(a.response_mask) # 0
        BY <1>1
      <4>3. QED
        BY <1>8, <4>1, <4>2
    <3>7. QED
      BY <1>4, <2>1, <3>5, <3>6 DEF ToolLogprobs
  <2>2. CASE ~conf.logprobs
    BY <1>4, <2>2 DEF TextOK, ToolLogprobs
  <2>3. QED
    BY <2>1, <2>2
<1>13. ASSUME Alignable(conf) PROVE Count("i", b.prompt_ids) = b.images
  <2>1. Count("i", a.prompt_ids) = a.images
    BY <1>13 DEF TextOK
  <2>2. Count("i", a.prompt_ids \o ids) = Count("i", a.prompt_ids) + Count("i", ids)
    BY <1>1, <1>6, CountConcat
  <2>3. QED
    BY <1>2, <1>4, <1>13, <2>1, <2>2
<1>14. f # <<>>
  BY DEF TextOK
<1>15. TextOK(conf, b, f, d \o e)
  BY <1>9, <1>10, <1>11, <1>12, <1>13, <1>14 DEF TextOK
<1>16. QED
  BY <1>15 DEF e, b, ids

LEMMA ObservedOK ==
    ASSUME conf \in Configuration, version \in Nat, NEW a \in AgentStates,
           NEW f \in Seq({"p", "i"}), NEW d \in Seq(Texts \X Nat),
           SampleOK(conf, version, a, f, d), a.state = "PROCESSING_TOOLS",
           Answered(a), ~MediaRaises(a), ToolResponseFits(a), NEW b, b = Observed(a)
    PROVE  /\ b \in AgentStates /\ b.tool_calls = <<>>
           /\ Heard(ToolIds(a), version) \in Seq(Texts \X Nat)
           /\ SampleOK(conf, version, b, f, d \o Heard(ToolIds(a), version))
<1> USE Bounds
<1> DEFINE n == Len(ToolIds(a))
           e == Heard(ToolIds(a), version)
<1>1. /\ TurnsOK(conf, a) /\ StepsOK(version, a, d) /\ CallsOK(a) /\ TextOK(conf, a, f, d)
      /\ Answering(a) /\ a.response_mask # <<>>
  BY DEF SampleOK, Active, Answering, CallsOK
<1>2. ToolIds(a) \in Seq({"i", "t"})
  BY <1>1, ToolIdsFacts
<1>3. /\ n \in Nat /\ b \in AgentStates
      /\ TextIs(b, "GENERATING", a.prompt_ids \o ToolIds(a),
                a.response_mask \o ToolMask(n), ToolLogprobs(a, n), a.images + NewImages(a))
      /\ CountersAre(b, a.assistant_turns, a.user_turns + 1, a.steps, version)
      /\ RestIs(b, <<>>, a.row, a.info)
  BY <1>1, <1>2, ObservedFacts
<1>4. /\ b.state = "GENERATING" /\ b.response_mask = a.response_mask \o ToolMask(n)
      /\ b.assistant_turns = a.assistant_turns /\ b.user_turns = a.user_turns + 1
      /\ b.steps = a.steps /\ b.since = version /\ b.tool_calls = <<>>
  BY <1>3 DEF TextIs, CountersAre, RestIs
<1>5. /\ e \in Seq(Texts \X Nat) /\ Len(e) = n
      /\ \A i \in 1..n : e[i][1] # "g"
  <2>1. /\ e \in Seq(Texts \X Nat) /\ Len(e) = n
        /\ \A i \in 1..n : e[i][1] \in {"i", "t"}
    BY <1>2, HeardFacts
  <2>2. QED
    BY <2>1
<1>6. TextOK(conf, b, f, d \o e)
  BY <1>1, ObservedText
<1>7. /\ a.assistant_turns \in Nat /\ a.user_turns \in Nat /\ a.steps \in Steps
      /\ a.response_mask \in Seq({0, 1}) /\ Len(a.response_mask) \in Nat
  BY AgentTypes
<1>8. StepsOK(version, b, d \o e)
  <2>1. Covered(a.steps, d)
    BY <1>1 DEF StepsOK
  <2>2. Covered(a.steps, e)
    BY <1>5 DEF Covered
  <2>3. Covered(a.steps, d \o e)
    BY <1>5, <2>1, <2>2, CoveredExtends
  <2>4. a.steps # None => /\ a.steps[1] \in Nat /\ a.steps[2] \in Nat
                          /\ a.steps[1] <= a.steps[2] /\ a.steps[2] <= version
    BY <1>1, <1>7 DEF StepsOK, Steps
  <2>5. a.steps # None => a.steps[1] <= version
    BY <2>4
  <2> HIDE DEF e, n
  <2>6. QED
    BY <1>4, <2>3, <2>4, <2>5 DEF StepsOK
<1>9. CallsOK(b)
  BY <1>4 DEF CallsOK
<1>10. TurnsOK(conf, b)
  <2>1. Len(b.response_mask) = Len(a.response_mask) + n
    BY <1>3, <1>4, <1>7, MaskGrows DEF ToolMask
  <2>2. Len(a.response_mask) + n < ResponseLength
    BY DEF ToolResponseFits
  <2> HIDE DEF e, n
  <2>3. conf.limits[1] \in Nat /\ conf.limits[2] \in Nat
    BY LimitsType
  <2>4. /\ a.assistant_turns = a.user_turns + 1
        /\ a.assistant_turns <= Len(a.response_mask)
        /\ conf.limits[1] # 0 => a.assistant_turns < conf.limits[1]
        /\ conf.limits[2] # 0 => a.user_turns < conf.limits[2]
    BY <1>1 DEF TurnsOK
  <2>5. /\ b.assistant_turns = b.user_turns /\ b.assistant_turns \in Nat
        /\ b.assistant_turns <= Len(b.response_mask) /\ Len(b.response_mask) < ResponseLength
        /\ Len(b.response_mask) \in Nat
        /\ conf.limits[1] # 0 => b.assistant_turns < conf.limits[1]
        /\ conf.limits[2] # 0 => b.user_turns <= conf.limits[2]
    <3>1. n \in Nat
      BY <1>3
    <3>2. b.assistant_turns = a.assistant_turns /\ b.user_turns = a.user_turns + 1
      BY <1>4
    <3>3. Len(b.response_mask) \in Nat /\ Len(b.response_mask) >= Len(a.response_mask)
      BY <1>7, <2>1, <3>1
    <3>4. Len(b.response_mask) < ResponseLength
      BY <2>1, <2>2
    <3>5. b.assistant_turns <= Len(b.response_mask)
      BY <1>7, <2>4, <3>2, <3>3
    <3>6. QED
      BY <1>7, <2>3, <2>4, <3>2, <3>3, <3>4, <3>5
  <2>6. QED
    BY <1>4, <2>3, <2>5 DEF TurnsOK, Active
<1>11. SampleOK(conf, version, b, f, d \o e)
  BY <1>4, <1>6, <1>8, <1>9, <1>10 DEF SampleOK, Active
<1>12. QED
  BY <1>3, <1>4, <1>5, <1>11

\* A response that does not fit is dropped and the trajectory ends.
LEMMA DroppedOK ==
    ASSUME NEW c \in Configuration, NEW v \in Nat, NEW a \in AgentStates, NEW f, NEW d,
           SampleOK(c, v, a, f, d), a.state = "PROCESSING_TOOLS", NEW b \in AgentStates,
           TextIs(b, "TERMINATED", a.prompt_ids, a.response_mask, a.response_logprobs,
                  a.images),
           CountersAre(b, a.assistant_turns, a.user_turns, a.steps, a.since),
           RestIs(b, <<>>, a.row, a.info)
    PROVE  SampleOK(c, v, b, f, d)
<1> USE Bounds
<1>1. /\ b.state = "TERMINATED" /\ b.tool_calls = <<>>
      /\ b.prompt_ids = a.prompt_ids /\ b.response_mask = a.response_mask
      /\ b.response_logprobs = a.response_logprobs /\ b.images = a.images
      /\ b.assistant_turns = a.assistant_turns /\ b.user_turns = a.user_turns
      /\ b.steps = a.steps /\ b.since = a.since
  BY DEF TextIs, CountersAre, RestIs
<1>2. TurnsOK(c, a) /\ StepsOK(v, a, d) /\ TextOK(c, a, f, d)
  BY DEF SampleOK, Active
<1>3. TurnsOK(c, b)
  BY <1>1, <1>2 DEF TurnsOK, Active
<1>4. StepsOK(v, b, d)
  BY <1>1, <1>2 DEF StepsOK
<1>5. TextOK(c, b, f, d)
  BY <1>1, <1>2 DEF TextOK
<1>6. CallsOK(b)
  BY <1>1 DEF CallsOK
<1>7. QED
  BY <1>1, <1>3, <1>4, <1>5, <1>6 DEF SampleOK, Active

\* _call_tool: one call moves on.
Moved(calls, k, x) == [calls EXCEPT ![k] = x]

OnlyMoved(cs, calls, k, x) ==
    /\ cs \in Seq(Calls) /\ Len(cs) = Len(calls) /\ cs[k] = x
    /\ \A j \in 1..Len(cs) : j # k => cs[j] = calls[j]

LEMMA CallOK ==
    ASSUME NEW c \in Configuration, NEW v \in Nat, NEW a \in AgentStates, NEW f, NEW d,
           SampleOK(c, v, a, f, d), a.state \in {"PROCESSING_TOOLS", "raised"},
           NEW k \in 1..Len(a.tool_calls), NEW x \in Calls,
           x.at \in {"executed", "answered", "raised"} => x.answer \in Results,
           NEW cs, cs = Moved(a.tool_calls, k, x),
           NEW b, b = [a EXCEPT !.tool_calls = cs]
    PROVE  /\ b \in AgentStates /\ b.state = a.state /\ b.tool_calls = cs
           /\ OnlyMoved(cs, a.tool_calls, k, x) /\ SampleOK(c, v, b, f, d)
<1> USE Bounds
<1>1. a.tool_calls \in Seq(Calls) /\ Len(a.tool_calls) \in Nat
  BY AgentTypes
<1>2. /\ cs \in Seq(Calls) /\ Len(cs) = Len(a.tool_calls)
      /\ cs[k] = x /\ \A j \in 1..Len(cs) : j # k => cs[j] = a.tool_calls[j]
  BY <1>1, ExceptSeq DEF Moved
<1>3. /\ b \in AgentStates
      /\ TextIs(b, a.state, a.prompt_ids, a.response_mask, a.response_logprobs, a.images)
      /\ CountersAre(b, a.assistant_turns, a.user_turns, a.steps, a.since)
      /\ RestIs(b, cs, a.row, a.info)
  BY <1>2, CallsSet
<1>4. /\ b.state = a.state /\ b.tool_calls = cs
      /\ b.prompt_ids = a.prompt_ids /\ b.response_mask = a.response_mask
      /\ b.response_logprobs = a.response_logprobs /\ b.images = a.images
      /\ b.assistant_turns = a.assistant_turns /\ b.user_turns = a.user_turns
      /\ b.steps = a.steps /\ b.since = a.since
  BY <1>3 DEF TextIs, CountersAre, RestIs
<1>5. TurnsOK(c, a) /\ StepsOK(v, a, d) /\ CallsOK(a)
  BY DEF SampleOK
<1>6. TurnsOK(c, b)
  BY <1>4, <1>5 DEF TurnsOK
<1>7. StepsOK(v, b, d)
  BY <1>4, <1>5 DEF StepsOK
<1>8. CallsOK(b)
  <2>1. \A j \in 1..Len(cs) :
           cs[j].at \in {"executed", "answered", "raised"} => cs[j].answer \in Results
    BY <1>2, <1>5 DEF CallsOK
  <2>2. QED
    BY <1>2, <1>4, <1>5, <2>1 DEF CallsOK
<1>9. a.state \in Active => TextOK(c, b, f, d)
  <2>1. a.state \in Active => TextOK(c, a, f, d)
    BY DEF SampleOK
  <2>2. QED
    BY <1>4, <2>1 DEF TextOK
<1>10. /\ a.state \notin Active =>
             a.prompt_ids = <<>> /\ a.response_mask = <<>> /\ a.response_logprobs = <<>>
  BY DEF SampleOK
<1>11. a.state \notin {"PENDING", "scoring", "done"}
  OBVIOUS
<1>12. SampleOK(c, v, b, f, d)
  BY <1>4, <1>6, <1>7, <1>8, <1>9, <1>10, <1>11 DEF SampleOK
<1>13. QED
  BY <1>2, <1>3, <1>4, <1>12 DEF OnlyMoved

\* _compute_score: the row stays as it is.
LEMMA ScoredOK ==
    ASSUME NEW c \in Configuration, NEW v \in Nat, NEW a \in AgentStates, NEW f, NEW d,
           SampleOK(c, v, a, f, d), a.state = "scoring",
           NEW keys \in SUBSET {"score", "timeout", "acc"},
           NEW b, b = [a EXCEPT !.state = "done", !.info = keys]
    PROVE  /\ b \in AgentStates /\ b.state = "done" /\ b.tool_calls = <<>>
           /\ SampleOK(c, v, b, f, d)
<1> USE Bounds
<1>1. "done" \in States
  BY DEF States
<1>2. /\ b \in AgentStates
      /\ TextIs(b, "done", a.prompt_ids, a.response_mask, a.response_logprobs, a.images)
      /\ CountersAre(b, a.assistant_turns, a.user_turns, a.steps, a.since)
      /\ RestIs(b, a.tool_calls, a.row, keys)
  BY <1>1, StateAndInfoSet
<1>3. /\ b.state = "done" /\ b.tool_calls = a.tool_calls
      /\ b.prompt_ids = a.prompt_ids /\ b.response_mask = a.response_mask
      /\ b.response_logprobs = a.response_logprobs /\ b.images = a.images
      /\ b.assistant_turns = a.assistant_turns /\ b.user_turns = a.user_turns
      /\ b.steps = a.steps /\ b.since = a.since /\ b.row = a.row
  BY <1>2 DEF TextIs, CountersAre, RestIs
<1>4. TurnsOK(c, a) /\ StepsOK(v, a, d) /\ CallsOK(a) /\ RowOK(c, a, f, d)
  BY DEF SampleOK
<1>5. TurnsOK(c, b)
  BY <1>3, <1>4 DEF TurnsOK, Active
<1>6. StepsOK(v, b, d)
  BY <1>3, <1>4 DEF StepsOK
<1>7. CallsOK(b) /\ b.tool_calls = <<>>
  BY <1>3, <1>4 DEF CallsOK
<1>8. RowOK(c, b, f, d)
  BY <1>3, <1>4 DEF RowOK
<1>9. a.prompt_ids = <<>> /\ a.response_mask = <<>> /\ a.response_logprobs = <<>>
  BY DEF SampleOK, Active
<1>10. SampleOK(c, v, b, f, d)
  BY <1>3, <1>5, <1>6, <1>7, <1>8, <1>9 DEF SampleOK, Active
<1>11. QED
  BY <1>2, <1>3, <1>7, <1>10

-----------------------------------------------------------------------------
(* _agent_loop_postprocess                                                  *)

\* A row of n elements: the first len of ids, and padding.
IsPadded(row, ids, len, pad, n) ==
    /\ Len(row) = n
    /\ \A i \in 1..n : row[i] = IF i <= len THEN ids[i] ELSE pad

LEMMA PadRightFacts ==
    ASSUME NEW T, NEW pad \in T, NEW ids \in Seq(T), NEW n \in Nat, Len(ids) <= n
    PROVE  /\ PadRight(ids, pad, n) \in Seq(T)
           /\ IsPadded(PadRight(ids, pad, n), ids, Len(ids), pad, n)
<1> DEFINE r == n - Len(ids)
           more == Repeat(pad, r)
<1>1. r \in Nat /\ Len(ids) \in Nat
  OBVIOUS
<1> HIDE DEF r
<1>2. more \in Seq(T) /\ Len(more) = r /\ \A i \in 1..r : more[i] = pad
  BY <1>1, RepeatFacts
<1>3. PadRight(ids, pad, n) = ids \o more
  BY DEF PadRight, r
<1> HIDE DEF more
<1>4. /\ ids \o more \in Seq(T) /\ Len(ids \o more) = Len(ids) + Len(more)
      /\ \A i \in 1..Len(ids) : (ids \o more)[i] = ids[i]
      /\ \A i \in Len(ids) + 1..Len(ids) + Len(more) : (ids \o more)[i] = more[i - Len(ids)]
  BY <1>2, ConcatFacts, ZenonT(60)
<1>5. Len(ids) + Len(more) = n
  BY <1>1, <1>2 DEF r
<1>6. ASSUME NEW i \in 1..n
      PROVE  (ids \o more)[i] = IF i <= Len(ids) THEN ids[i] ELSE pad
  <2>1. CASE i <= Len(ids)
    BY <1>1, <1>4, <2>1
  <2>2. CASE ~(i <= Len(ids))
    <3>1. i \in Len(ids) + 1..Len(ids) + Len(more) /\ i - Len(ids) \in 1..r
      BY <1>1, <1>2, <1>5, <2>2
    <3>2. (ids \o more)[i] = more[i - Len(ids)]
      BY <1>4, <3>1
    <3>3. QED
      BY <1>2, <2>2, <3>1, <3>2
  <2>3. QED
    BY <2>1, <2>2
<1>7. QED
  BY <1>3, <1>4, <1>5, <1>6 DEF IsPadded

\* Padding adds no placeholder, on either side.
LEMMA PadCounts ==
    ASSUME NEW T, NEW ids \in Seq(T), "0" \in T, NEW n \in Nat, Len(ids) <= n
    PROVE  /\ PadLeft(ids, "0", n) \in Seq(T) /\ Len(PadLeft(ids, "0", n)) = n
           /\ Count("i", PadLeft(ids, "0", n)) = Count("i", ids)
           /\ Count("i", PadRight(ids, "0", n)) = Count("i", ids)
<1> DEFINE r == n - Len(ids)
           more == Repeat("0", r)
<1>1. r \in Nat /\ Len(ids) \in Nat /\ Len(ids) + r = n /\ r + Len(ids) = n
  OBVIOUS
<1>2. PadLeft(ids, "0", n) = more \o ids /\ PadRight(ids, "0", n) = ids \o more
  BY DEF PadLeft, PadRight
<1> HIDE DEF r
<1>3. more \in Seq(T) /\ Len(more) = r
  BY <1>1, RepeatFacts
<1>4. Count("i", more) = 0
  BY <1>1, CountRepeat
<1> HIDE DEF more
<1>5. Count("i", ids) \in Nat
  BY CountType
<1>6. Count("i", more \o ids) = Count("i", more) + Count("i", ids)
  BY <1>3, CountConcat
<1>7. Count("i", ids \o more) = Count("i", ids) + Count("i", more)
  BY <1>3, CountConcat
<1>8. more \o ids \in Seq(T) /\ Len(more \o ids) = Len(more) + Len(ids)
  BY <1>3, ConcatFacts
<1>9. Count("i", more \o ids) = Count("i", ids) /\ Count("i", ids \o more) = Count("i", ids)
  BY <1>4, <1>5, <1>6, <1>7
<1>10. Len(more \o ids) = n
  <2>1. Len(more) + Len(ids) = n
    BY <1>1, <1>3
  <2>2. QED
    BY <1>8, <2>1, Zenon
<1>11. QED
  BY <1>2, <1>8, <1>9, <1>10, Zenon

\* The tokens said, without their versions.
OriginsOf(d) == [i \in 1..Len(d) |-> d[i][1]]

LEMMA OriginsFacts ==
    ASSUME NEW d \in Seq(Texts \X Nat)
    PROVE  /\ OriginsOf(d) \in Seq(Texts) /\ Len(OriginsOf(d)) = Len(d)
           /\ \A i \in 1..Len(d) : OriginsOf(d)[i] = d[i][1]
<1>1. Len(d) \in Nat /\ \A i \in 1..Len(d) : d[i][1] \in Texts
  OBVIOUS
<1>2. OriginsOf(d) \in [1..Len(d) -> Texts]
  BY <1>1 DEF OriginsOf
<1>3. QED
  BY <1>1, <1>2, FunctionIsSeq DEF OriginsOf

\* prompt_ids as a whole, and the two parts into which run cuts it.
LEMMA IdsSplit ==
    ASSUME NEW ids \in Seq(Texts), NEW f \in Seq({"p", "i"}), NEW d \in Seq(Texts \X Nat),
           IdsOK(ids, f, d)
    PROVE  /\ Truncate(f) \in Seq(Texts)
           /\ ids = Truncate(f) \o OriginsOf(d)
           /\ SubSeq(ids, 1, Len(ids) - Len(d)) = Truncate(f)
           /\ SubSeq(ids, Len(ids) - Len(d) + 1, Len(ids)) = OriginsOf(d)
<1> DEFINE t == Truncate(f)
           o == OriginsOf(d)
           m == Len(t)
           k == Len(d)
<1>1. t \in Seq({"p", "i"})
  BY TruncateFacts
<1>2. {"p", "i"} \subseteq Texts
  BY DEF Texts
<1>3. t \in Seq(Texts)
  BY <1>1, <1>2, SeqMonotonic
<1>4. m \in Nat /\ k \in Nat /\ Len(ids) \in Nat
  BY <1>3, LenProperties
<1>5. o \in Seq(Texts) /\ Len(o) = k /\ \A i \in 1..k : o[i] = d[i][1]
  BY OriginsFacts
<1>6. /\ Len(ids) = m + k
      /\ \A i \in 1..m : ids[i] = t[i]
      /\ \A i \in 1..k : ids[m + i] = d[i][1]
  BY DEF IdsOK
<1> HIDE DEF t, o, m, k
<1>7. ids = t \o o
  <2>1. /\ t \o o \in Seq(Texts) /\ Len(t \o o) = m + k
        /\ \A i \in 1..m : (t \o o)[i] = t[i]
        /\ \A i \in m + 1..m + k : (t \o o)[i] = o[i - m]
    <3>1. o \in Seq(Texts)
      BY <1>5
    <3>2. /\ t \o o \in Seq(Texts) /\ Len(t \o o) = Len(t) + Len(o)
          /\ \A i \in 1..Len(t) : (t \o o)[i] = t[i]
          /\ \A i \in Len(t) + 1..Len(t) + Len(o) : (t \o o)[i] = o[i - Len(t)]
      BY <1>3, <3>1, ConcatFacts
    <3>3. QED
      BY <1>5, <3>2 DEF m
  <2>2. ASSUME NEW i \in 1..Len(ids) PROVE ids[i] = (t \o o)[i]
    <3>1. CASE i <= m
      BY <1>4, <1>6, <2>1, <3>1
    <3>2. CASE i > m
      <4>1. i - m \in 1..k /\ m + (i - m) = i /\ i \in m + 1..m + k
        BY <1>4, <1>6, <3>2
      <4>2. ids[i] = d[i - m][1]
        BY <1>6, <4>1
      <4>3. QED
        BY <1>5, <2>1, <4>1, <4>2
    <3>3. i <= m \/ i > m
      BY <1>4
    <3>4. QED
      BY <3>1, <3>2, <3>3, Zenon
  <2>3. QED
    BY <1>6, <2>1, <2>2, SameSeq
<1>8. SubSeq(ids, 1, Len(ids) - k) = t
  <2>1. Len(ids) - k = m
    BY <1>4, <1>6
  <2>2. 1 \in 1..Len(ids) + 1 /\ m \in 0..Len(ids) /\ 1 <= m + 1
    BY <1>4, <1>6
  <2>3. /\ SubSeq(ids, 1, m) \in Seq(Texts) /\ Len(SubSeq(ids, 1, m)) = m - 1 + 1
        /\ \A i \in 1..m - 1 + 1 : SubSeq(ids, 1, m)[i] = ids[1 + i - 1]
    BY <2>2, SliceFacts
  <2>4. m - 1 + 1 = m /\ \A i \in 1..m : 1 + i - 1 = i
    BY <1>4
  <2>5. \A i \in 1..m : SubSeq(ids, 1, m)[i] = t[i]
    BY <1>6, <2>3, <2>4
  <2>6. SubSeq(ids, 1, m) = t
    BY <1>3, <2>3, <2>4, <2>5, SameSeq DEF m
  <2>7. QED
    BY <2>1, <2>6
<1>9. SubSeq(ids, Len(ids) - k + 1, Len(ids)) = o
  <2>1. Len(ids) - k + 1 = m + 1
    BY <1>4, <1>6
  <2>2. /\ m + 1 \in 1..Len(ids) + 1 /\ Len(ids) \in 0..Len(ids) /\ m + 1 <= Len(ids) + 1
        /\ Len(ids) - (m + 1) + 1 = k
    BY <1>4, <1>6
  <2> DEFINE z == SubSeq(ids, m + 1, Len(ids))
  <2>3. /\ z \in Seq(Texts) /\ Len(z) = k
        /\ \A i \in 1..k : z[i] = ids[(m + 1) + i - 1]
    BY <2>2, SliceFacts
  <2> HIDE DEF z
  <2>4. \A i \in 1..k : (m + 1) + i - 1 = m + i
    BY <1>4
  <2>5. \A i \in 1..k : z[i] = o[i]
    BY <1>5, <1>6, <2>3, <2>4
  <2>6. z = o
    BY <1>5, <2>3, <2>5, SameSeq
  <2>7. QED
    BY <2>1, <2>6 DEF z
<1>10. QED
  BY <1>3, <1>7, <1>8, <1>9 DEF t, o, k

\* The limit cuts off generated tokens only.
LEMMA UptoCounts ==
    ASSUME NEW d \in Seq(Texts \X Nat), SaidOK(d)
    PROVE  Count("i", Upto(OriginsOf(d), ResponseLength)) = Count("i", OriginsOf(d))
<1> USE Bounds
<1> DEFINE o == OriginsOf(d)
           k == Len(d)
           u == SubSeq(o, 1, ResponseLength)
           w == SubSeq(o, ResponseLength + 1, k)
<1>1. o \in Seq(Texts) /\ Len(o) = k /\ k \in Nat /\ \A i \in 1..k : o[i] = d[i][1]
  BY OriginsFacts, LenProperties
<1> HIDE DEF o, k
<1>2. CASE ResponseLength < k
  <2>1. Upto(o, ResponseLength) = u
    BY <1>1, <1>2 DEF Upto
  <2>2. /\ ResponseLength + 1 \in 1..Len(o) + 1 /\ k \in 0..Len(o)
        /\ ResponseLength + 1 <= k + 1 /\ k - (ResponseLength + 1) + 1 = k - ResponseLength
        /\ 1 \in 1..Len(o) + 1 /\ ResponseLength \in 0..Len(o) /\ 1 <= ResponseLength + 1
        /\ ResponseLength - 1 + 1 = ResponseLength
    BY <1>1, <1>2
  <2>3. /\ w \in Seq(Texts) /\ Len(w) = k - ResponseLength
        /\ \A i \in 1..k - ResponseLength : w[i] = o[(ResponseLength + 1) + i - 1]
    BY <1>1, <2>2, SliceFacts
  <2>4. /\ u \in Seq(Texts) /\ Len(u) = ResponseLength
        /\ \A i \in 1..ResponseLength : u[i] = o[1 + i - 1]
    BY <1>1, <2>2, SliceFacts
  <2> HIDE DEF u, w
  <2>5. o = u \o w
    <3>1. /\ u \o w \in Seq(Texts) /\ Len(u \o w) = Len(u) + Len(w)
          /\ \A i \in 1..Len(u) : (u \o w)[i] = u[i]
          /\ \A i \in Len(u) + 1..Len(u) + Len(w) : (u \o w)[i] = w[i - Len(u)]
      <4>1. u \in Seq(Texts) /\ w \in Seq(Texts)
        BY <2>3, <2>4
      <4>2. QED
        BY <4>1, ConcatFacts
    <3>2. Len(u) + Len(w) = Len(o)
      BY <1>1, <2>3, <2>4
    <3>3. ASSUME NEW i \in 1..Len(o) PROVE o[i] = (u \o w)[i]
      <4>1. CASE i <= ResponseLength
        <5>1. i \in 1..ResponseLength /\ 1 + i - 1 = i
          BY <1>1, <4>1
        <5>2. QED
          BY <2>4, <3>1, <5>1
      <4>2. CASE i > ResponseLength
        <5>1. /\ i - ResponseLength \in 1..k - ResponseLength
              /\ i \in Len(u) + 1..Len(u) + Len(w)
              /\ (ResponseLength + 1) + (i - ResponseLength) - 1 = i
          BY <1>1, <2>3, <2>4, <4>2
        <5>2. QED
          BY <2>3, <2>4, <3>1, <5>1
      <4>3. i <= ResponseLength \/ i > ResponseLength
        BY <1>1
      <4>4. QED
        BY <4>1, <4>2, <4>3, Zenon
    <3>4. QED
      BY <1>1, <3>1, <3>2, <3>3, SameSeq
  <2>6. Count("i", w) = 0
    <3>1. ASSUME NEW i \in 1..Len(w) PROVE w[i] # "i"
      <4>1. /\ i \in 1..k - ResponseLength /\ (ResponseLength + 1) + i - 1 = ResponseLength + i
            /\ ResponseLength + i \in 1..k
        BY <1>1, <2>3
      <4>2. w[i] = d[ResponseLength + i][1]
        BY <1>1, <2>3, <4>1
      <4>3. d[ResponseLength + i][1] = "g"
        BY <4>1 DEF SaidOK, k
      <4>4. QED
        BY <4>2, <4>3
    <3>2. QED
      BY <2>3, <3>1, CountZero
  <2>7. Count("i", u \o w) = Count("i", u) + Count("i", w)
    BY <2>3, <2>4, CountConcat
  <2>8. Count("i", u) \in Nat
    BY <2>4, CountType
  <2>9. QED
    BY <2>1, <2>5, <2>6, <2>7, <2>8 DEF o
<1>3. CASE ~(ResponseLength < k)
  <2>1. Upto(o, ResponseLength) = SubSeq(o, 1, Len(o))
    BY <1>1, <1>3 DEF Upto
  <2>2. SubSeq(o, 1, Len(o)) = o
    BY <1>1, SubSeqFull
  <2>3. QED
    BY <2>1, <2>2 DEF o
<1>4. QED
  BY <1>2, <1>3

\* What fits of the tokens said, and the response made of them.
Kept(d) == IF ResponseLength < Len(d) THEN ResponseLength ELSE Len(d)
Response(d) == PadRight(Upto(OriginsOf(d), ResponseLength), "0", ResponseLength)

\* A list as long as d, cut and padded the same way.
LEMMA CutAndPadded ==
    ASSUME NEW T, NEW marks \in Seq(T), NEW pad \in T, NEW d \in Seq(Texts \X Nat),
           Len(marks) = Len(d), NEW row, row = PadRight(Upto(marks, ResponseLength), pad, ResponseLength)
    PROVE  /\ Len(Upto(marks, ResponseLength)) = Kept(d)
           /\ Kept(d) \in Nat /\ Kept(d) <= ResponseLength /\ Kept(d) <= Len(d)
           /\ row \in Seq(T) /\ IsPadded(row, marks, Kept(d), pad, ResponseLength)
<1> USE Bounds
<1> DEFINE u == Upto(marks, ResponseLength)
<1>1. /\ u \in Seq(T) /\ Len(u) = IF ResponseLength < Len(marks) THEN ResponseLength ELSE Len(marks)
      /\ Len(u) <= ResponseLength
      /\ \A i \in 1..Len(u) : u[i] = marks[i]
  BY UptoFacts
<1>2. Len(d) \in Nat
  OBVIOUS
<1> HIDE DEF u
<1>3. Len(u) = Kept(d) /\ Kept(d) \in Nat /\ Kept(d) <= ResponseLength /\ Kept(d) <= Len(d)
  BY <1>1, <1>2 DEF Kept
<1>4. /\ row \in Seq(T) /\ Len(row) = ResponseLength
      /\ \A i \in 1..ResponseLength : row[i] = IF i <= Len(u) THEN u[i] ELSE pad
  <2>1. row = PadRight(u, pad, ResponseLength)
    BY DEF u
  <2>2. ResponseLength \in Nat /\ u \in Seq(T) /\ Len(u) <= ResponseLength
    BY <1>1
  <2>3. /\ PadRight(u, pad, ResponseLength) \in Seq(T)
        /\ IsPadded(PadRight(u, pad, ResponseLength), u, Len(u), pad, ResponseLength)
    BY <2>2, PadRightFacts
  <2>4. QED
    BY <2>1, <2>3 DEF IsPadded
<1>5. ASSUME NEW i \in 1..ResponseLength
      PROVE  row[i] = IF i <= Kept(d) THEN marks[i] ELSE pad
  <2>1. CASE i <= Kept(d)
    <3>1. i \in 1..Len(u)
      BY <1>3, <2>1
    <3>2. QED
      BY <1>1, <1>3, <1>4, <2>1, <3>1
  <2>2. CASE ~(i <= Kept(d))
    BY <1>3, <1>4, <2>2
  <2>3. QED
    BY <2>1, <2>2
<1>6. QED
  BY <1>3, <1>4, <1>5 DEF u, IsPadded

LEMMA ResponseFacts ==
    ASSUME NEW d \in Seq(Texts \X Nat)
    PROVE  /\ Len(Upto(OriginsOf(d), ResponseLength)) = Kept(d)
           /\ Kept(d) \in Nat /\ Kept(d) <= ResponseLength /\ Kept(d) <= Len(d)
           /\ Upto(OriginsOf(d), ResponseLength) \in Seq(Texts)
           /\ Response(d) \in Seq(Texts \cup {"0"}) /\ Len(Response(d)) = ResponseLength
           /\ \A i \in 1..ResponseLength :
                 Response(d)[i] = IF i <= Kept(d) THEN d[i][1] ELSE "0"
<1> USE Bounds
<1>1. OriginsOf(d) \in Seq(Texts) /\ Len(OriginsOf(d)) = Len(d)
  BY OriginsFacts
<1>2. \A i \in 1..Len(d) : OriginsOf(d)[i] = d[i][1]
  BY OriginsFacts
<1>3. OriginsOf(d) \in Seq(Texts \cup {"0"})
  <2>1. Texts \subseteq Texts \cup {"0"}
    OBVIOUS
  <2>2. QED
    BY <1>1, <2>1, SeqMonotonic
<1>4. /\ Len(Upto(OriginsOf(d), ResponseLength)) = Kept(d)
      /\ Kept(d) \in Nat /\ Kept(d) <= ResponseLength /\ Kept(d) <= Len(d)
      /\ Response(d) \in Seq(Texts \cup {"0"}) /\ Len(Response(d)) = ResponseLength
      /\ \A i \in 1..ResponseLength :
            Response(d)[i] = IF i <= Kept(d) THEN OriginsOf(d)[i] ELSE "0"
  <2> DEFINE T == Texts \cup {"0"}
             o == OriginsOf(d)
  <2>3. o \in Seq(T) /\ "0" \in T /\ Len(o) = Len(d)
    BY <1>1, <1>3
  <2>4. Response(d) = PadRight(Upto(o, ResponseLength), "0", ResponseLength)
    BY DEF Response
  <2> HIDE DEF T, o
  <2>5. /\ Len(Upto(o, ResponseLength)) = Kept(d)
        /\ Kept(d) \in Nat /\ Kept(d) <= ResponseLength /\ Kept(d) <= Len(d)
        /\ Response(d) \in Seq(T)
        /\ IsPadded(Response(d), o, Kept(d), "0", ResponseLength)
    BY <2>3, <2>4, CutAndPadded
  <2>6. QED
    BY <2>5 DEF T, o, IsPadded
<1>5. Upto(OriginsOf(d), ResponseLength) \in Seq(Texts)
  BY <1>1, UptoFacts
<1>6. ASSUME NEW i \in 1..ResponseLength
      PROVE  Response(d)[i] = IF i <= Kept(d) THEN d[i][1] ELSE "0"
  <2>1. CASE i <= Kept(d)
    <3>1. i \in 1..Len(d)
      BY <1>4, <2>1
    <3>2. QED
      BY <1>2, <1>4, <2>1, <3>1
  <2>2. CASE ~(i <= Kept(d))
    BY <1>4, <2>2
  <2>3. QED
    BY <2>1, <2>2
<1>7. QED
  BY <1>4, <1>5, <1>6

\* The mark x lies on the generated tokens of the row and pad behind the last.
RowMarked(row, x, pad, d) ==
    /\ Len(row) = ResponseLength
    /\ \A i \in 1..ResponseLength :
          /\ (row[i] = x) <=> (Response(d)[i] = "g")
          /\ i > Kept(d) => row[i] = pad

LEMMA RowMarks ==
    ASSUME NEW T, NEW x \in T, NEW marks \in Seq(T), NEW pad \in T, pad # x,
           NEW d \in Seq(Texts \X Nat), Marks(x, marks, d),
           NEW row, row = PadRight(Upto(marks, ResponseLength), pad, ResponseLength)
    PROVE  row \in Seq(T) /\ RowMarked(row, x, pad, d)
<1> USE Bounds
<1>1. /\ Len(marks) = Len(d)
      /\ \A i \in 1..Len(d) : (marks[i] = x) <=> (d[i][1] = "g")
  BY DEF Marks
<1>2. /\ Kept(d) \in Nat /\ Kept(d) <= ResponseLength /\ Kept(d) <= Len(d)
      /\ row \in Seq(T) /\ Len(row) = ResponseLength
      /\ \A i \in 1..ResponseLength : row[i] = IF i <= Kept(d) THEN marks[i] ELSE pad
  <2>1. /\ Kept(d) \in Nat /\ Kept(d) <= ResponseLength /\ Kept(d) <= Len(d)
        /\ row \in Seq(T) /\ IsPadded(row, marks, Kept(d), pad, ResponseLength)
    BY <1>1, CutAndPadded
  <2>2. QED
    BY <2>1 DEF IsPadded
<1>3. \A i \in 1..ResponseLength : Response(d)[i] = IF i <= Kept(d) THEN d[i][1] ELSE "0"
  BY ResponseFacts
<1>4. ASSUME NEW i \in 1..ResponseLength
      PROVE  /\ (row[i] = x) <=> (Response(d)[i] = "g")
             /\ i > Kept(d) => row[i] = pad
  <2>1. CASE i <= Kept(d)
    <3>1. i \in 1..Len(d)
      BY <1>2, <2>1
    <3>2. row[i] = marks[i] /\ Response(d)[i] = d[i][1]
      BY <1>2, <1>3, <2>1
    <3>3. ~(i > Kept(d))
      BY <1>2, <2>1
    <3>4. QED
      BY <1>1, <3>1, <3>2, <3>3
  <2>2. CASE ~(i <= Kept(d))
    <3>1. row[i] = pad /\ Response(d)[i] = "0"
      BY <1>2, <1>3, <2>2
    <3>2. QED
      BY <3>1
  <2>3. QED
    BY <2>1, <2>2
<1>5. QED
  BY <1>2, <1>4 DEF RowMarked

\* What run returns is the cut prompt and the tokens said.
LEMMA ReturnedIds ==
    ASSUME NEW s \in Samples, NEW a \in AgentStates, a = agent[s],
           NEW f \in Seq({"p", "i"}), NEW d \in Seq(Texts \X Nat), TextOK(conf, a, f, d)
    PROVE  /\ PromptIds(s) = Truncate(f)
           /\ a.response_mask # <<>> => ResponseIds(s) = OriginsOf(d) /\ d # <<>>
<1>1. a.prompt_ids \in Seq(Texts) /\ a.response_mask \in Seq({0, 1})
  BY AgentTypes
<1>2. /\ SubSeq(a.prompt_ids, 1, Len(a.prompt_ids) - Len(d)) = Truncate(f)
      /\ SubSeq(a.prompt_ids, Len(a.prompt_ids) - Len(d) + 1, Len(a.prompt_ids)) = OriginsOf(d)
  BY <1>1, IdsSplit DEF TextOK
<1>3. Len(a.response_mask) = Len(d)
  BY DEF TextOK, Marks
<1>4. PromptIds(s) = Truncate(f)
  BY <1>2, <1>3 DEF PromptIds
<1>5. ASSUME a.response_mask # <<>> PROVE ResponseIds(s) = OriginsOf(d) /\ d # <<>>
  <2>1. Len(d) # 0 /\ d # <<>>
    BY <1>1, <1>3, <1>5
  <2>2. LastOf(a.prompt_ids, Len(d)) = OriginsOf(d)
    BY <1>2, <2>1 DEF LastOf
  <2>3. QED
    BY <1>2, <1>3, <2>1, <2>2 DEF ResponseIds
<1>6. QED
  BY <1>4, <1>5

\* The response mask of the row: the mask times the attention mask.
LEMMA MaskedRow ==
    ASSUME NEW mask \in Seq({0, 1}), NEW d \in Seq(Texts \X Nat), Marks(1, mask, d),
           NEW m, m = PadRight(Upto(mask, ResponseLength), 0, ResponseLength),
           NEW att, att = PadRight(Repeat(1, Kept(d)), 0, ResponseLength),
           NEW row, row = [i \in DOMAIN m |-> m[i] * att[i]]
    PROVE  row \in Seq({0, 1}) /\ RowMarked(row, 1, 0, d)
<1> USE Bounds
<1>1. /\ m \in Seq({0, 1}) /\ Len(m) = ResponseLength
      /\ \A i \in 1..ResponseLength :
            /\ (m[i] = 1) <=> (Response(d)[i] = "g")
            /\ i > Kept(d) => m[i] = 0
  <2>1. 1 \in {0, 1} /\ 0 \in {0, 1} /\ 0 # 1
    OBVIOUS
  <2>2. m \in Seq({0, 1}) /\ RowMarked(m, 1, 0, d)
    BY <2>1, RowMarks
  <2>3. QED
    BY <2>2 DEF RowMarked
<1>2. Kept(d) \in Nat /\ Kept(d) <= ResponseLength
  BY ResponseFacts
<1>3. \A i \in 1..ResponseLength : att[i] = IF i <= Kept(d) THEN 1 ELSE 0
  <2>1. /\ Repeat(1, Kept(d)) \in Seq({0, 1}) /\ Len(Repeat(1, Kept(d))) = Kept(d)
        /\ \A i \in 1..Kept(d) : Repeat(1, Kept(d))[i] = 1
    BY <1>2, RepeatFacts
  <2>2. IsPadded(att, Repeat(1, Kept(d)), Kept(d), 0, ResponseLength)
    BY <1>2, <2>1, PadRightFacts
  <2>3. QED
    BY <1>2, <2>1, <2>2 DEF IsPadded
<1>4. DOMAIN m = 1..ResponseLength /\ \A i \in 1..ResponseLength : m[i] \in {0, 1}
  BY <1>1
<1>5. ASSUME NEW i \in 1..ResponseLength PROVE m[i] * att[i] = m[i]
  <2>1. CASE i <= Kept(d)
    BY <1>3, <1>4, <2>1
  <2>2. CASE ~(i <= Kept(d))
    <3>1. m[i] = 0 /\ att[i] = 0
      BY <1>1, <1>2, <1>3, <2>2
    <3>2. QED
      BY <3>1
  <2>3. QED
    BY <2>1, <2>2
<1>6. row \in [1..ResponseLength -> {0, 1}] /\ \A i \in 1..ResponseLength : row[i] = m[i]
  BY <1>4, <1>5
<1>7. row \in Seq({0, 1}) /\ Len(row) = ResponseLength
  BY <1>6, FunctionIsSeq
<1>8. QED
  BY <1>1, <1>6, <1>7 DEF RowMarked

\* What the history calls for, of a row and of its log-probabilities.
RowIs(c, row, f, d) ==
    /\ row.prompts = PadLeft(Truncate(f), "0", PromptLength)
    /\ row.responses = Response(d)
    /\ RowMarked(row.response_mask, 1, 0, d)
    /\ IF c.logprobs THEN RowMarked(row.logprobs, "lp", "0", d) ELSE row.logprobs = None
    /\ c.async_reward => row.scored = Kept(d)

LEMMA RowFacts ==
    ASSUME conf \in Configuration, NEW s \in Samples, NEW a \in AgentStates, a = agent[s],
           NEW f \in Seq({"p", "i"}), NEW d \in Seq(Texts \X Nat), TextOK(conf, a, f, d),
           a.response_mask # <<>>, NEW row, row = Row(s)
    PROVE  row \in Rows /\ f # <<>> /\ d # <<>> /\ RowIs(conf, row, f, d)
<1> USE Bounds
<1> DEFINE m == PadRight(Upto(a.response_mask, ResponseLength), 0, ResponseLength)
           att == PadRight(Repeat(1, Kept(d)), 0, ResponseLength)
           masked == [i \in DOMAIN m |-> m[i] * att[i]]
           prompts == PadLeft(Truncate(f), "0", PromptLength)
           lps == IF a.response_logprobs = <<>> THEN None
                  ELSE PadRight(Upto(a.response_logprobs, ResponseLength), "0", ResponseLength)
           scored == IF conf.async_reward THEN Kept(d) ELSE 0
<1>1. /\ a.response_mask \in Seq({0, 1}) /\ a.response_logprobs \in Seq({"lp", "0"})
  BY AgentTypes
<1>2. PromptIds(s) = Truncate(f) /\ ResponseIds(s) = OriginsOf(d) /\ d # <<>> /\ f # <<>>
  <2>1. f # <<>>
    BY DEF TextOK
  <2>2. QED
    BY <2>1, ReturnedIds
<1>3. /\ Len(Upto(OriginsOf(d), ResponseLength)) = Kept(d)
      /\ Kept(d) \in Nat /\ Response(d) \in Seq(Texts \cup {"0"})
  BY ResponseFacts
<1>4. row = [prompts |-> prompts, responses |-> Response(d), response_mask |-> masked,
             logprobs |-> lps, scored |-> scored]
  BY <1>2, <1>3 DEF Row, Response
<1>5. prompts \in Seq(Texts \cup {"0"})
  <2>1. Truncate(f) \in Seq({"p", "i"}) /\ Len(Truncate(f)) <= PromptLength
    BY TruncateFacts
  <2>2. {"p", "i"} \subseteq Texts \cup {"0"} /\ "0" \in Texts \cup {"0"}
    BY DEF Texts
  <2>3. Truncate(f) \in Seq(Texts \cup {"0"})
    BY <2>1, <2>2, SeqMonotonic
  <2>4. QED
    BY <2>1, <2>2, <2>3, PadCounts
<1>6. masked \in Seq({0, 1}) /\ RowMarked(masked, 1, 0, d)
  <2>1. Marks(1, a.response_mask, d)
    BY DEF TextOK
  <2>2. m = PadRight(Upto(a.response_mask, ResponseLength), 0, ResponseLength)
    OBVIOUS
  <2>3. att = PadRight(Repeat(1, Kept(d)), 0, ResponseLength)
    OBVIOUS
  <2>4. masked = [i \in DOMAIN m |-> m[i] * att[i]]
    OBVIOUS
  <2> HIDE DEF m, att, masked
  <2>5. QED
    BY <1>1, <2>1, <2>2, <2>3, <2>4, MaskedRow, ZenonT(60)
<1>7. /\ lps \in Seq({"lp", "0"})
      /\ IF conf.logprobs THEN RowMarked(lps, "lp", "0", d) ELSE lps = None
  <2>1. CASE conf.logprobs
    <3>1. Marks("lp", a.response_logprobs, d)
      BY <2>1 DEF TextOK
    <3>2. a.response_logprobs # <<>>
      <4>1. Len(a.response_logprobs) = Len(d)
        BY <3>1 DEF Marks
      <4>2. QED
        BY <1>2, <4>1
    <3>3. lps = PadRight(Upto(a.response_logprobs, ResponseLength), "0", ResponseLength)
      BY <3>2
    <3>4. "lp" \in {"lp", "0"} /\ "0" \in {"lp", "0"} /\ "0" # "lp"
      OBVIOUS
    <3> HIDE DEF lps
    <3>5. lps \in Seq({"lp", "0"}) /\ RowMarked(lps, "lp", "0", d)
      BY <1>1, <3>1, <3>3, <3>4, RowMarks
    <3>6. QED
      BY <2>1, <3>5, Zenon
  <2>2. CASE ~conf.logprobs
    <3>1. lps = <<>>
      BY <2>2 DEF TextOK
    <3> HIDE DEF lps
    <3>2. lps \in Seq({"lp", "0"})
      BY <3>1
    <3>3. QED
      BY <2>2, <3>1, <3>2, Zenon
  <2> HIDE DEF lps
  <2>3. QED
    BY <2>1, <2>2, Zenon
<1>8. scored \in Nat /\ (conf.async_reward => scored = Kept(d))
  BY <1>3
<1> HIDE DEF m, att, masked, prompts, lps, scored
<1>9. row \in Rows
  BY <1>3, <1>4, <1>5, <1>6, <1>7, <1>8 DEF Rows
<1>10. /\ row.prompts = prompts /\ row.responses = Response(d) /\ row.response_mask = masked
       /\ row.logprobs = lps /\ row.scored = scored
  BY <1>4
<1>11. RowIs(conf, row, f, d)
  <2>1. row.prompts = PadLeft(Truncate(f), "0", PromptLength)
    BY <1>10 DEF prompts
  <2>2. RowMarked(row.response_mask, 1, 0, d)
    BY <1>6, <1>10, Zenon
  <2>3. IF conf.logprobs THEN RowMarked(row.logprobs, "lp", "0", d) ELSE row.logprobs = None
    BY <1>7, <1>10, Zenon
  <2>4. conf.async_reward => row.scored = Kept(d)
    BY <1>8, <1>10, Zenon
  <2>5. QED
    BY <1>10, <2>1, <2>2, <2>3, <2>4 DEF RowIs
<1>12. QED
  BY <1>2, <1>9, <1>11

\* The row keeps the placeholders of the whole trajectory: what is cut off was
\* generated.
LEMMA RowCounts ==
    ASSUME NEW ids \in Seq(Texts), NEW f \in Seq({"p", "i"}), NEW d \in Seq(Texts \X Nat),
           IdsOK(ids, f, d), SaidOK(d), NEW p, p = PadLeft(Truncate(f), "0", PromptLength)
    PROVE  Count("i", p \o Response(d)) = Count("i", ids)
<1> USE Bounds
<1> DEFINE T == Texts \cup {"0"}
           t == Truncate(f)
           o == OriginsOf(d)
           u == Upto(o, ResponseLength)
<1>1. t \in Seq(Texts) /\ ids = t \o o /\ o \in Seq(Texts)
  BY IdsSplit, OriginsFacts
<1>2. Len(t) <= PromptLength
  BY TruncateFacts
<1>3. u \in Seq(Texts) /\ Len(u) <= ResponseLength /\ Response(d) \in Seq(T)
  <2>1. u \in Seq(Texts) /\ Response(d) \in Seq(T)
    BY ResponseFacts
  <2>2. Len(u) <= ResponseLength
    BY <1>1, UptoFacts
  <2>3. QED
    BY <2>1, <2>2
<1>4. Count("i", u) = Count("i", o)
  BY UptoCounts
<1>5. Response(d) = PadRight(u, "0", ResponseLength)
  BY DEF Response
<1>6. "0" \in T /\ Texts \subseteq T
  OBVIOUS
<1> HIDE DEF T, t, o, u
<1>7. t \in Seq(T) /\ u \in Seq(T)
  BY <1>1, <1>3, <1>6, SeqMonotonic
<1>8. p \in Seq(T) /\ Count("i", p) = Count("i", t)
  <2>1. /\ PadLeft(t, "0", PromptLength) \in Seq(T)
        /\ Count("i", PadLeft(t, "0", PromptLength)) = Count("i", t)
    BY <1>2, <1>6, <1>7, PadCounts
  <2>2. QED
    BY <2>1 DEF t
<1>9. Count("i", PadRight(u, "0", ResponseLength)) = Count("i", u)
  BY <1>3, <1>6, <1>7, PadCounts
<1>10. Count("i", p \o Response(d)) = Count("i", p) + Count("i", Response(d))
  BY <1>3, <1>8, CountConcat
<1>11. Count("i", ids) = Count("i", t) + Count("i", o)
  BY <1>1, CountConcat
<1>12. QED
  BY <1>4, <1>5, <1>8, <1>9, <1>10, <1>11

LEMMA RowIsOK ==
    ASSUME NEW c \in Configuration, NEW a \in AgentStates, NEW f \in Seq({"p", "i"}),
           NEW d \in Seq(Texts \X Nat), TextOK(c, a, f, d), NEW row \in Rows,
           f # <<>>, d # <<>>, RowIs(c, row, f, d),
           NEW b, b.row = row, b.images = a.images
    PROVE  RowOK(c, b, f, d)
<1> USE Bounds
<1>1. /\ row.prompts = PadLeft(Truncate(f), "0", PromptLength)
      /\ row.responses = Response(d)
      /\ RowMarked(row.response_mask, 1, 0, d)
      /\ c.async_reward => row.scored = Kept(d)
  BY DEF RowIs
<1>2. IF c.logprobs THEN RowMarked(row.logprobs, "lp", "0", d) ELSE row.logprobs = None
  BY DEF RowIs
<1>3. Response(d) =
         PadRight(Upto([i \in 1..Len(d) |-> d[i][1]], ResponseLength), "0", ResponseLength)
  BY DEF Response, OriginsOf
<1>4. /\ Len(row.response_mask) = ResponseLength
      /\ \A i \in 1..ResponseLength : (row.response_mask[i] = 1) <=> (row.responses[i] = "g")
  BY <1>1 DEF RowMarked
<1>5. c.logprobs => /\ Len(row.logprobs) = ResponseLength
                    /\ \A i \in 1..ResponseLength :
                          (row.logprobs[i] = "lp") <=> (row.responses[i] = "g")
  BY <1>1, <1>2 DEF RowMarked
<1>6. Kept(d) = IF Len(d) < ResponseLength THEN Len(d) ELSE ResponseLength
  <2>1. Len(d) \in Nat
    OBVIOUS
  <2>2. QED
    BY <2>1 DEF Kept
<1>7. Alignable(c) => Count("i", row.prompts \o row.responses) = b.images
  <2>1. SUFFICES ASSUME Alignable(c)
                 PROVE  Count("i", row.prompts \o row.responses) = b.images
    OBVIOUS
  <2>2. Count("i", a.prompt_ids) = a.images /\ IdsOK(a.prompt_ids, f, d) /\ SaidOK(d)
    BY <2>1 DEF TextOK
  <2>3. a.prompt_ids \in Seq(Texts)
    BY AgentTypes
  <2>4. Count("i", row.prompts \o Response(d)) = Count("i", a.prompt_ids)
    BY <1>1, <2>2, <2>3, RowCounts
  <2>5. QED
    BY <1>1, <2>2, <2>4
<1>8. c.logprobs \in BOOLEAN
  BY LimitsType
<1>9. IF c.logprobs
      THEN /\ Len(row.logprobs) = ResponseLength
           /\ \A i \in 1..ResponseLength :
                 (row.logprobs[i] = "lp") <=> (row.responses[i] = "g")
      ELSE row.logprobs = None
  BY <1>2, <1>5, <1>8, Zenon
<1>10. c.async_reward =>
          row.scored = IF Len(d) < ResponseLength THEN Len(d) ELSE ResponseLength
  BY <1>1, <1>6, Zenon
<1>11. row.responses =
          PadRight(Upto([i \in 1..Len(d) |-> d[i][1]], ResponseLength), "0", ResponseLength)
  BY <1>1, <1>3, Zenon
<1>12. QED
  BY <1>1, <1>4, <1>7, <1>9, <1>10, <1>11, Zenon DEF RowOK

Finalized(a, st, row) ==
    [NewAgent EXCEPT !.state = st, !.images = a.images, !.steps = a.steps, !.row = row]

LEMMA FinalizedFacts ==
    ASSUME NEW a \in AgentStates, NEW st \in States, NEW row \in Rows,
           NEW b, b = Finalized(a, st, row)
    PROVE  /\ b \in AgentStates /\ b.state = st /\ b.tool_calls = <<>> /\ b.row = row
           /\ b.prompt_ids = <<>> /\ b.response_mask = <<>> /\ b.response_logprobs = <<>>
           /\ b.assistant_turns = 0 /\ b.user_turns = 0 /\ b.since = 0
           /\ b.steps = a.steps /\ b.images = a.images
<1> DEFINE new == NewAgent
           im == a.images
           steps == a.steps
<1>1. im \in Nat /\ steps \in Steps /\ new \in AgentStates
  BY AgentTypes, NewAgentFacts
<1>2. b = [new EXCEPT !.state = st, !.images = im, !.steps = steps, !.row = row]
  BY DEF Finalized
<1> HIDE DEF new, im, steps
<1>3. /\ b \in AgentStates
      /\ TextIs(b, st, new.prompt_ids, new.response_mask, new.response_logprobs, im)
      /\ CountersAre(b, new.assistant_turns, new.user_turns, steps, new.since)
      /\ RestIs(b, new.tool_calls, row, new.info)
  BY <1>1, <1>2, RowSet
<1>4. QED
  BY <1>3, NewAgentFacts DEF TextIs, CountersAre, RestIs, new, im, steps

\* The end of run and _agent_loop_postprocess: the row replaces the trajectory.
LEMMA FinalizedOK ==
    ASSUME conf \in Configuration, version \in Nat, NEW s \in Samples,
           agent[s] \in AgentStates, NEW f \in Seq({"p", "i"}), NEW d \in Seq(Texts \X Nat),
           SampleOK(conf, version, agent[s], f, d), agent[s].state = "TERMINATED",
           ~PadRaises(agent[s].response_mask), NEW st \in {"scoring", "done"}
    PROVE  /\ Finalized(agent[s], st, Row(s)) \in AgentStates
           /\ SampleOK(conf, version, Finalized(agent[s], st, Row(s)), f, d)
<1> USE Bounds
<1> DEFINE a == agent[s]
           row == Row(s)
           b == Finalized(a, st, row)
<1>1. TurnsOK(conf, a) /\ StepsOK(version, a, d) /\ TextOK(conf, a, f, d)
  BY DEF SampleOK, Active
<1>2. a.response_mask # <<>> /\ a = agent[s] /\ row = Row(s) /\ b = Finalized(a, st, row)
  BY DEF PadRaises
<1>3. a \in AgentStates /\ st \in States
  BY DEF States
<1> HIDE DEF a, row, b
<1>4. row \in Rows /\ f # <<>> /\ d # <<>> /\ RowIs(conf, row, f, d)
  BY <1>1, <1>2, <1>3, RowFacts
<1>5. /\ b \in AgentStates /\ b.state = st /\ b.tool_calls = <<>> /\ b.row = row
      /\ b.prompt_ids = <<>> /\ b.response_mask = <<>> /\ b.response_logprobs = <<>>
      /\ b.assistant_turns = 0 /\ b.user_turns = 0 /\ b.since = 0
      /\ b.steps = a.steps /\ b.images = a.images
  BY <1>2, <1>3, <1>4, FinalizedFacts
<1>6. TurnsOK(conf, b)
  BY <1>5, LimitsType DEF TurnsOK, Active
<1>7. StepsOK(version, b, d)
  BY <1>1, <1>5 DEF StepsOK
<1>8. CallsOK(b)
  BY <1>5 DEF CallsOK
<1>9. RowOK(conf, b, f, d)
  BY <1>1, <1>3, <1>4, <1>5, RowIsOK
<1>10. SampleOK(conf, version, b, f, d)
  BY <1>5, <1>6, <1>7, <1>8, <1>9 DEF SampleOK, Active
<1>11. QED
  BY <1>5, <1>10 DEF a, row, b

-----------------------------------------------------------------------------
(* A step of one sample                                                     *)

LEMMA Given ==
    ASSUME RolloutInv
    PROVE  /\ conf \in Configuration /\ version \in Nat
           /\ \A s \in Samples :
                 /\ agent[s] \in AgentStates /\ first[s] \in Seq({"p", "i"})
                 /\ said[s] \in Seq(Texts \X Nat)
                 /\ SampleOK(conf, version, agent[s], first[s], said[s])
<1>1. conf \in Configuration
  BY AgentLoopAssumption DEF RolloutInv, Types
<1>2. version \in Nat
  BY Bounds DEF RolloutInv, Types
<1>3. /\ agent \in [Samples -> AgentStates] /\ first \in [Samples -> Seq({"p", "i"})]
      /\ said \in [Samples -> Seq(Texts \X Nat)]
  BY DEF RolloutInv, Types
<1>4. QED
  BY <1>1, <1>2, <1>3 DEF RolloutInv, SamplesInv

\* The instances e hold of sample s belong to calls that are to release them.
Held(e, s, calls) ==
    e[1] = s => e[2] \in DOMAIN calls /\ calls[e[2]].at \in {"created", "executed"}

\* Sample s becomes b with the history f and d; the others stay as they are.
LEMMA OneSample ==
    ASSUME RolloutInv, NEW s \in Samples, NEW b \in AgentStates, NEW f \in Seq({"p", "i"}),
           NEW d \in Seq(Texts \X Nat), SampleOK(conf, version, b, f, d),
           agent' = [agent EXCEPT ![s] = b], first' = [first EXCEPT ![s] = f],
           said' = [said EXCEPT ![s] = d], conf' = conf, version' = version, batch' = batch,
           agent[s].state # "done", instances' \subseteq Samples \X (1..MaxParallelCalls),
           \A e \in instances' : e[1] # s => e \in instances,
           \A e \in instances' : Held(e, s, b.tool_calls)
    PROVE  RolloutInv'
<1>1. /\ agent \in [Samples -> AgentStates] /\ first \in [Samples -> Seq({"p", "i"})]
      /\ said \in [Samples -> Seq(Texts \X Nat)]
  BY DEF RolloutInv, Types
<1>2. /\ agent' \in [Samples -> AgentStates] /\ agent'[s] = b
      /\ \A r \in Samples : r # s => agent'[r] = agent[r]
  BY <1>1
<1>3. /\ first' \in [Samples -> Seq({"p", "i"})] /\ first'[s] = f
      /\ \A r \in Samples : r # s => first'[r] = first[r]
  BY <1>1
<1>4. /\ said' \in [Samples -> Seq(Texts \X Nat)] /\ said'[s] = d
      /\ \A r \in Samples : r # s => said'[r] = said[r]
  BY <1>1
<1>5. Types'
  BY <1>2, <1>3, <1>4 DEF RolloutInv, Types
<1>6. ASSUME NEW r \in Samples
      PROVE  SampleOK(conf', version', agent'[r], first'[r], said'[r])
  <2>1. SampleOK(conf, version, agent[r], first[r], said[r])
    BY DEF RolloutInv, SamplesInv
  <2>2. CASE r = s
    BY <1>2, <1>3, <1>4, <2>2
  <2>3. CASE r # s
    <3>1. agent'[r] = agent[r] /\ first'[r] = first[r] /\ said'[r] = said[r]
      BY <1>2, <1>3, <1>4, <2>3
    <3>2. QED
      BY <2>1, <3>1, Zenon
  <2>4. QED
    BY <2>2, <2>3
<1>7. SamplesInv'
  BY <1>6 DEF SamplesInv
<1>8. ASSUME NEW e \in instances'
      PROVE  /\ e[2] \in DOMAIN agent'[e[1]].tool_calls
             /\ agent'[e[1]].tool_calls[e[2]].at \in {"created", "executed"}
  <2>1. e[1] \in Samples
    OBVIOUS
  <2>2. CASE e[1] = s
    BY <1>2, <2>2 DEF Held
  <2>3. CASE e[1] # s
    <3>1. e \in instances /\ agent'[e[1]] = agent[e[1]]
      BY <1>2, <2>1, <2>3
    <3>2. QED
      BY <3>1 DEF RolloutInv, InstancesInv
  <2>4. QED
    BY <2>2, <2>3
<1>9. InstancesInv'
  BY <1>8 DEF InstancesInv
<1>10. batch # "shape" /\ batch # "returned"
  BY DEF RolloutInv, FinishedInv
<1>11. FinishedInv'
  BY <1>10 DEF FinishedInv
<1>12. QED
  BY <1>5, <1>7, <1>9, <1>11 DEF RolloutInv

\* A step that leaves the instances alone leaves each with its call.
LEMMA InstancesStay ==
    ASSUME RolloutInv, NEW s \in Samples, instances' = instances, NEW cs,
           \/ cs = agent[s].tool_calls
           \/ agent[s].state \notin {"PROCESSING_TOOLS", "raised"}
           \/ Answered(agent[s])
    PROVE  /\ instances' \subseteq Samples \X (1..MaxParallelCalls)
           /\ \A e \in instances' : e[1] # s => e \in instances
           /\ \A e \in instances' : Held(e, s, cs)
<1>1. instances \subseteq Samples \X (1..MaxParallelCalls)
  BY DEF RolloutInv, Types
<1>2. ASSUME NEW e \in instances, e[1] = s
      PROVE  e[2] \in DOMAIN cs /\ cs[e[2]].at \in {"created", "executed"}
  <2>1. /\ e[2] \in DOMAIN agent[s].tool_calls
        /\ agent[s].tool_calls[e[2]].at \in {"created", "executed"}
    BY <1>2 DEF RolloutInv, InstancesInv
  <2>2. agent[s].state \in {"PROCESSING_TOOLS", "raised"}
    <3>1. CallsOK(agent[s])
      BY Given DEF SampleOK
    <3>2. SUFFICES ASSUME agent[s].state \notin {"PROCESSING_TOOLS", "raised"} PROVE FALSE
      OBVIOUS
    <3>3. agent[s].tool_calls = <<>>
      BY <3>1, <3>2 DEF CallsOK
    <3>4. QED
      BY <2>1, <3>3
  <2>3. ~Answered(agent[s])
    BY <2>1 DEF Answered
  <2>4. QED
    BY <2>1, <2>2, <2>3
<1>3. \A e \in instances : Held(e, s, cs)
  BY <1>2 DEF Held
<1>4. QED
  BY <1>1, <1>3

LEMMA SameAt ==
    ASSUME NEW S, NEW T, NEW g \in [S -> T], NEW s \in S
    PROVE  g = [g EXCEPT ![s] = g[s]]
  OBVIOUS

LEMMA HistoryStays ==
    ASSUME RolloutInv, NEW s \in Samples
    PROVE  first = [first EXCEPT ![s] = first[s]] /\ said = [said EXCEPT ![s] = said[s]]
<1>1. first \in [Samples -> Seq({"p", "i"})] /\ said \in [Samples -> Seq(Texts \X Nat)]
  BY DEF RolloutInv, Types
<1>2. QED
  BY <1>1, SameAt

LEMMA RaiseStep ==
    ASSUME RolloutInv, NEW s \in Samples, Raise(s), agent[s].state # "done",
           UNCHANGED <<conf, version, instances, batch>>
    PROVE  RolloutInv'
<1>1. conf \in Configuration /\ version \in Nat /\ agent[s] \in AgentStates
  BY Given
<1>2. SampleOK(conf, version, Raised(agent[s]), <<>>, <<>>)
  BY <1>1, Given, RaisedOK
<1>3. /\ Raised(agent[s]) \in AgentStates
      /\ Raised(agent[s]).tool_calls = agent[s].tool_calls
  BY <1>1, RaisedFacts DEF RestIs
<1>4. /\ agent' = [agent EXCEPT ![s] = Raised(agent[s])]
      /\ first' = [first EXCEPT ![s] = <<>>] /\ said' = [said EXCEPT ![s] = <<>>]
  BY DEF Raise, Raised
<1>5. <<>> \in Seq({"p", "i"}) /\ <<>> \in Seq(Texts \X Nat)
  OBVIOUS
<1>6. /\ instances' \subseteq Samples \X (1..MaxParallelCalls)
      /\ \A e \in instances' : e[1] # s => e \in instances
      /\ \A e \in instances' : Held(e, s, Raised(agent[s]).tool_calls)
  BY <1>3, InstancesStay
<1>7. QED
  BY <1>2, <1>3, <1>4, <1>5, <1>6, OneSample

-----------------------------------------------------------------------------
(* The steps of a sample's task                                             *)

LEMMA PendingStep ==
    ASSUME RolloutInv, NEW s \in Samples, Pending(s)
    PROVE  RolloutInv'
<1>1. agent[s].state = "PENDING" /\ UNCHANGED <<conf, version, instances, batch>>
  BY DEF Pending
<1>2. PICK ids \in Prompts[s] :
         \/ TooLong(ids) /\ Raise(s)
         \/ /\ ~TooLong(ids)
            /\ agent' = [agent EXCEPT ![s].state = "GENERATING", ![s].since = version,
                                      ![s].prompt_ids = Truncate(ids),
                                      ![s].images = Count("i", ids)]
            /\ first' = [first EXCEPT ![s] = ids]
            /\ UNCHANGED said
  BY DEF Pending
<1>3. CASE Raise(s)
  BY <1>1, <1>3, RaiseStep
<1>4. CASE ~Raise(s)
  <2> DEFINE a == agent[s]
             t == Truncate(ids)
             n == Count("i", ids)
             b == [a EXCEPT !.state = "GENERATING", !.since = version, !.prompt_ids = t,
                            !.images = n]
  <2>1. /\ ~TooLong(ids)
        /\ agent' = [agent EXCEPT ![s].state = "GENERATING", ![s].since = version,
                                  ![s].prompt_ids = t, ![s].images = n]
        /\ first' = [first EXCEPT ![s] = ids] /\ said' = said
    BY <1>2, <1>4
  <2>2. ids \in Seq({"p", "i"}) \ {<<>>}
    BY AgentLoopAssumption
  <2>3. t \in Seq({"p", "i"}) /\ n \in Nat
    BY <2>2, TruncateFacts, CountType
  <2>4. t \in Seq(Texts)
    <3>1. {"p", "i"} \subseteq Texts
      BY DEF Texts
    <3>2. QED
      BY <2>3, <3>1, SeqMonotonic
  <2>5. /\ a \in AgentStates /\ first[s] \in Seq({"p", "i"}) /\ said[s] \in Seq(Texts \X Nat)
        /\ conf \in Configuration /\ version \in Nat /\ a.state = "PENDING"
        /\ SampleOK(conf, version, a, first[s], said[s])
    BY <1>1, Given
  <2>6. agent' = [agent EXCEPT ![s] = b]
    <3>1. agent \in [Samples -> AgentStates]
      BY DEF RolloutInv, Types
    <3> HIDE DEF t, n
    <3>2. QED
      BY <2>1, <3>1
  <2>7. "GENERATING" \in States
    BY DEF States
  <2>8. b = [a EXCEPT !.state = "GENERATING", !.since = version, !.prompt_ids = t, !.images = n]
    OBVIOUS
  <2>9. t = Truncate(ids) /\ n = Count("i", ids)
    OBVIOUS
  <2> HIDE DEF a, b, t, n
  <2>10. /\ b \in AgentStates
         /\ TextIs(b, "GENERATING", t, a.response_mask, a.response_logprobs, n)
         /\ CountersAre(b, a.assistant_turns, a.user_turns, a.steps, version)
         /\ RestIs(b, a.tool_calls, a.row, a.info)
    BY <2>3, <2>4, <2>5, <2>7, <2>8, PromptSet
  <2>11. SampleOK(conf, version, b, ids, said[s])
    BY <2>1, <2>2, <2>5, <2>9, <2>10, StartedOK
  <2>12. said' = [said EXCEPT ![s] = said[s]]
    BY <2>1, HistoryStays
  <2>13. /\ instances' \subseteq Samples \X (1..MaxParallelCalls)
         /\ \A e \in instances' : e[1] # s => e \in instances
         /\ \A e \in instances' : Held(e, s, b.tool_calls)
    BY <1>1, InstancesStay
  <2>14. agent[s].state # "done" /\ conf' = conf /\ version' = version /\ batch' = batch
    BY <1>1
  <2>15. ids \in Seq({"p", "i"})
    BY <2>2
  <2>16. QED
    BY <2>1, <2>5, <2>6, <2>10, <2>11, <2>12, <2>13, <2>14, <2>15, OneSample
<1>5. QED
  BY <1>3, <1>4

LEMMA GenerateStep ==
    ASSUME RolloutInv, NEW s \in Samples, Generate(s)
    PROVE  RolloutInv'
<1> DEFINE a == agent[s]
<1>1. a.state = "GENERATING" /\ UNCHANGED <<conf, version, instances, batch, first>>
  BY DEF Generate
<1>2. PICK n \in 0..MaxNewTokens(Len(a.prompt_ids)), lo \in a.since..version,
           calls \in 0..MaxCalls :
         /\ agent' = [agent EXCEPT ![s] = TurnResult(s, Extended(a, n, lo), n, calls)]
         /\ said' = [said EXCEPT ![s] = @ \o Generated(n, lo, version)]
  BY DEF Generate, TurnResult, Generated
<1>3. /\ a \in AgentStates /\ first[s] \in Seq({"p", "i"}) /\ said[s] \in Seq(Texts \X Nat)
      /\ conf \in Configuration /\ version \in Nat
      /\ SampleOK(conf, version, a, first[s], said[s])
  BY Given
<1> DEFINE b == TurnResult(s, Extended(a, n, lo), n, calls)
           e == Generated(n, lo, version)
<1>4. b = TurnResult(s, Extended(a, n, lo), n, calls)
  OBVIOUS
<1>5. agent' = [agent EXCEPT ![s] = b] /\ said' = [said EXCEPT ![s] = said[s] \o e]
  BY <1>2
<1>6. a.state # "done" /\ agent[s] = a
  BY <1>1
<1>7. a.since \in Nat /\ Len(a.prompt_ids) \in Nat
  BY <1>3, AgentTypes
<1> HIDE DEF a, b
<1>8. b \in AgentStates /\ SampleOK(conf, version, b, first[s], said[s] \o e)
  BY <1>1, <1>3, <1>4, GenerateOK
<1>9. said[s] \o e \in Seq(Texts \X Nat)
  <2>1. n \in Nat
    <3>1. Len(a.prompt_ids) <= PromptLength + ResponseLength
      BY <1>1, <1>3 DEF SampleOK, TextOK, IdsOK, Active
    <3>2. QED
      BY <1>3, <1>7, <3>1, MaxNewTokensBound
  <2>2. lo \in Nat /\ lo <= version
    BY <1>3, <1>7
  <2>3. e \in Seq(Texts \X Nat)
    BY <1>3, <2>1, <2>2, GeneratedFacts
  <2> HIDE DEF e
  <2>4. QED
    BY <1>3, <2>3, ConcatFacts
<1> HIDE DEF e
<1>10. first' = [first EXCEPT ![s] = first[s]]
  BY <1>1, HistoryStays
<1>11. /\ instances' \subseteq Samples \X (1..MaxParallelCalls)
       /\ \A x \in instances' : x[1] # s => x \in instances
       /\ \A x \in instances' : Held(x, s, b.tool_calls)
  BY <1>1, <1>6, InstancesStay
<1>12. agent[s].state # "done" /\ conf' = conf /\ version' = version /\ batch' = batch
  BY <1>1, <1>6
<1>13. QED
  BY <1>3, <1>5, <1>8, <1>9, <1>10, <1>11, <1>12, OneSample

LEMMA ServerRejectsStep ==
    ASSUME RolloutInv, NEW s \in Samples, ServerRejects(s)
    PROVE  RolloutInv'
<1>1. agent[s].state # "done" /\ Raise(s) /\ UNCHANGED <<conf, version, instances, batch>>
  BY DEF ServerRejects
<1>2. QED
  BY <1>1, RaiseStep

LEMMA GatherRaisesStep ==
    ASSUME RolloutInv, NEW s \in Samples, GatherRaises(s)
    PROVE  RolloutInv'
<1>1. agent[s].state # "done" /\ Raise(s) /\ UNCHANGED <<conf, version, instances, batch>>
  BY DEF GatherRaises
<1>2. QED
  BY <1>1, RaiseStep

LEMMA ProcessToolsStep ==
    ASSUME RolloutInv, NEW s \in Samples, ProcessTools(s)
    PROVE  RolloutInv'
<1> DEFINE a == agent[s]
<1>1. /\ a.state = "PROCESSING_TOOLS" /\ Answered(a)
      /\ UNCHANGED <<conf, version, instances, batch>>
  BY DEF ProcessTools
<1>2. /\ a \in AgentStates /\ first[s] \in Seq({"p", "i"}) /\ said[s] \in Seq(Texts \X Nat)
      /\ conf \in Configuration /\ version \in Nat
      /\ SampleOK(conf, version, a, first[s], said[s])
  BY Given
<1>3. agent[s].state # "done" /\ conf' = conf /\ version' = version /\ batch' = batch
  BY <1>1
<1>4. first = [first EXCEPT ![s] = first[s]] /\ said = [said EXCEPT ![s] = said[s]]
  BY HistoryStays
<1>5. CASE Raise(s)
  BY <1>1, <1>3, <1>5, RaiseStep
<1>6. CASE /\ ~MediaRaises(a) /\ ~ToolResponseFits(a)
           /\ agent' = [agent EXCEPT ![s].state = "TERMINATED", ![s].tool_calls = <<>>]
           /\ UNCHANGED <<first, said>>
  <2> DEFINE b == [a EXCEPT !.state = "TERMINATED", !.tool_calls = <<>>]
  <2>1. agent' = [agent EXCEPT ![s] = b]
    <3>1. agent \in [Samples -> AgentStates]
      BY DEF RolloutInv, Types
    <3>2. QED
      BY <1>6, <3>1
  <2>2. "TERMINATED" \in States /\ <<>> \in Seq(Calls)
    BY DEF States
  <2>3. b = [a EXCEPT !.state = "TERMINATED", !.tool_calls = <<>>]
    OBVIOUS
  <2> HIDE DEF b
  <2>4. /\ b \in AgentStates
        /\ TextIs(b, "TERMINATED", a.prompt_ids, a.response_mask, a.response_logprobs, a.images)
        /\ CountersAre(b, a.assistant_turns, a.user_turns, a.steps, a.since)
        /\ RestIs(b, <<>>, a.row, a.info)
    BY <1>2, <2>2, <2>3, StateAndCallsSet
  <2>5. SampleOK(conf, version, b, first[s], said[s])
    BY <1>1, <1>2, <2>4, DroppedOK
  <2>6. /\ instances' \subseteq Samples \X (1..MaxParallelCalls)
        /\ \A x \in instances' : x[1] # s => x \in instances
        /\ \A x \in instances' : Held(x, s, b.tool_calls)
    BY <1>1, InstancesStay
  <2>7. first' = [first EXCEPT ![s] = first[s]] /\ said' = [said EXCEPT ![s] = said[s]]
    BY <1>4, <1>6
  <2>8. QED
    BY <1>2, <1>3, <2>1, <2>4, <2>5, <2>6, <2>7, OneSample
<1>7. CASE /\ ~MediaRaises(a) /\ ToolResponseFits(a)
           /\ agent' = [agent EXCEPT ![s] = Observed(a)]
           /\ said' = [said EXCEPT ![s] = @ \o
                          [i \in DOMAIN ToolIds(a) |-> <<ToolIds(a)[i], version>>]]
           /\ UNCHANGED first
  <2> DEFINE b == Observed(a)
             e == Heard(ToolIds(a), version)
  <2>1. agent' = [agent EXCEPT ![s] = b] /\ said' = [said EXCEPT ![s] = said[s] \o e]
    BY <1>7 DEF Heard
  <2>2. b = Observed(a) /\ ~MediaRaises(a) /\ ToolResponseFits(a)
    BY <1>7
  <2> HIDE DEF b
  <2>3. /\ b \in AgentStates /\ e \in Seq(Texts \X Nat)
        /\ SampleOK(conf, version, b, first[s], said[s] \o e)
    BY <1>1, <1>2, <2>2, ObservedOK
  <2> HIDE DEF e
  <2>4. said[s] \o e \in Seq(Texts \X Nat)
    BY <1>2, <2>3, ConcatFacts
  <2>5. /\ instances' \subseteq Samples \X (1..MaxParallelCalls)
        /\ \A x \in instances' : x[1] # s => x \in instances
        /\ \A x \in instances' : Held(x, s, b.tool_calls)
    BY <1>1, InstancesStay
  <2>6. first' = [first EXCEPT ![s] = first[s]]
    BY <1>4, <1>7
  <2>7. QED
    BY <1>2, <1>3, <2>1, <2>3, <2>4, <2>5, <2>6, OneSample
<1>8. QED
  BY <1>5, <1>6, <1>7 DEF ProcessTools

LEMMA FinalizeStep ==
    ASSUME RolloutInv, NEW s \in Samples, Finalize(s)
    PROVE  RolloutInv'
<1> DEFINE a == agent[s]
           st == IF conf.async_reward THEN "scoring" ELSE "done"
           row == Row(s)
           b == Finalized(a, st, row)
<1>1. a.state = "TERMINATED" /\ UNCHANGED <<conf, version, instances, batch>>
  BY DEF Finalize
<1>2. \/ Raise(s)
      \/ /\ ~PadRaises(a.response_mask)
         /\ agent' = [agent EXCEPT ![s] = b] /\ UNCHANGED <<first, said>>
  BY DEF Finalize, Finalized
<1>3. CASE Raise(s)
  <2>1. agent[s].state # "done"
    BY <1>1
  <2>2. QED
    BY <1>1, <1>3, <2>1, RaiseStep
<1>4. CASE ~Raise(s)
  <2>1. /\ ~PadRaises(a.response_mask) /\ agent' = [agent EXCEPT ![s] = b]
        /\ first' = first /\ said' = said
    BY <1>2, <1>4
  <2>2. /\ a \in AgentStates /\ first[s] \in Seq({"p", "i"}) /\ said[s] \in Seq(Texts \X Nat)
        /\ conf \in Configuration /\ version \in Nat
        /\ SampleOK(conf, version, a, first[s], said[s])
    BY Given
  <2>3. st \in {"scoring", "done"} /\ row = Row(s) /\ a = agent[s]
    OBVIOUS
  <2>5. agent[s].state # "done" /\ agent[s].state \notin {"PROCESSING_TOOLS", "raised"}
    BY <1>1
  <2> HIDE DEF st
  <2>6. b \in AgentStates /\ SampleOK(conf, version, b, first[s], said[s])
    BY <1>1, <2>1, <2>2, <2>3, FinalizedOK
  <2> HIDE DEF a, row, b
  <2>7. /\ instances' \subseteq Samples \X (1..MaxParallelCalls)
        /\ \A x \in instances' : x[1] # s => x \in instances
        /\ \A x \in instances' : Held(x, s, b.tool_calls)
    BY <1>1, <2>5, InstancesStay
  <2>8. first' = [first EXCEPT ![s] = first[s]] /\ said' = [said EXCEPT ![s] = said[s]]
    BY <2>1, HistoryStays
  <2>9. conf' = conf /\ version' = version /\ batch' = batch
    BY <1>1
  <2>10. QED
    BY <2>1, <2>2, <2>5, <2>6, <2>7, <2>8, <2>9, OneSample
<1>5. QED
  BY <1>3, <1>4

LEMMA ScoreStep ==
    ASSUME RolloutInv, NEW s \in Samples, Score(s)
    PROVE  RolloutInv'
<1> DEFINE a == agent[s]
<1>1. a.state = "scoring" /\ UNCHANGED <<conf, version, instances, batch>>
  BY DEF Score
<1>2. CASE Raise(s)
  <2>1. agent[s].state # "done"
    BY <1>1
  <2>2. QED
    BY <1>1, <1>2, <2>1, RaiseStep
<1>3. CASE ~Raise(s)
  <2>1. PICK keys \in {{"score"}, {"timeout", "acc"}} :
            agent' = [agent EXCEPT ![s].state = "done", ![s].info = keys]
    BY <1>3 DEF Score
  <2>2. first' = first /\ said' = said
    BY <1>3 DEF Score
  <2> DEFINE b == [a EXCEPT !.state = "done", !.info = keys]
  <2>3. agent' = [agent EXCEPT ![s] = b]
    <3>1. agent \in [Samples -> AgentStates]
      BY DEF RolloutInv, Types
    <3>2. QED
      BY <2>1, <3>1
  <2>4. keys \in SUBSET {"score", "timeout", "acc"}
    OBVIOUS
  <2>5. /\ a \in AgentStates /\ first[s] \in Seq({"p", "i"}) /\ said[s] \in Seq(Texts \X Nat)
        /\ conf \in Configuration /\ version \in Nat
        /\ SampleOK(conf, version, a, first[s], said[s])
    BY Given
  <2>6. b = [a EXCEPT !.state = "done", !.info = keys]
    OBVIOUS
  <2>7. agent[s].state # "done" /\ agent[s].state \notin {"PROCESSING_TOOLS", "raised"}
    BY <1>1
  <2> HIDE DEF a, b
  <2>8. b \in AgentStates /\ SampleOK(conf, version, b, first[s], said[s])
    BY <1>1, <2>4, <2>5, <2>6, ScoredOK, ZenonT(60)
  <2>9. /\ instances' \subseteq Samples \X (1..MaxParallelCalls)
        /\ \A x \in instances' : x[1] # s => x \in instances
        /\ \A x \in instances' : Held(x, s, b.tool_calls)
    BY <1>1, <2>7, InstancesStay
  <2>10. first' = [first EXCEPT ![s] = first[s]] /\ said' = [said EXCEPT ![s] = said[s]]
    BY <2>2, HistoryStays
  <2>11. conf' = conf /\ version' = version /\ batch' = batch
    BY <1>1
  <2>12. QED
    BY <2>3, <2>5, <2>7, <2>8, <2>9, <2>10, <2>11, OneSample
<1>4. QED
  BY <1>2, <1>3

-----------------------------------------------------------------------------
(* The steps of its tools                                                   *)

\* Call k of sample s becomes x; an instance of it is there only while x is to
\* release it.
LEMMA SetCallStep ==
    ASSUME RolloutInv, NEW s \in Samples, NEW k \in DOMAIN agent[s].tool_calls, Tooling(s),
           NEW x \in Calls, x.at \in {"executed", "answered", "raised"} => x.answer \in Results,
           agent' = [agent EXCEPT ![s].tool_calls[k] = x],
           UNCHANGED <<conf, version, batch, first, said>>,
           instances' \subseteq instances \cup {<<s, k>>},
           <<s, k>> \in instances' => x.at \in {"created", "executed"}
    PROVE  RolloutInv'
<1> DEFINE a == agent[s]
           cs == Moved(a.tool_calls, k, x)
           b == [a EXCEPT !.tool_calls = cs]
<1>1. /\ a \in AgentStates /\ first[s] \in Seq({"p", "i"}) /\ said[s] \in Seq(Texts \X Nat)
      /\ conf \in Configuration /\ version \in Nat
      /\ SampleOK(conf, version, a, first[s], said[s])
  BY Given
<1>2. agent' = [agent EXCEPT ![s] = b]
  <2>1. agent \in [Samples -> AgentStates]
    BY DEF RolloutInv, Types
  <2>2. QED
    BY <2>1 DEF Moved
<1>3. a.tool_calls \in Seq(Calls) /\ k \in 1..Len(a.tool_calls)
  <2>1. a.tool_calls \in Seq(Calls)
    BY <1>1, AgentTypes
  <2>2. QED
    BY <2>1
<1>4. a.state \in {"PROCESSING_TOOLS", "raised"} /\ a = agent[s]
  BY DEF Tooling
<1>5. cs = Moved(a.tool_calls, k, x) /\ b = [a EXCEPT !.tool_calls = cs]
  OBVIOUS
<1> HIDE DEF a, cs, b
<1>6. /\ b \in AgentStates /\ b.tool_calls = cs /\ cs \in Seq(Calls)
      /\ Len(cs) = Len(a.tool_calls)
      /\ cs[k] = x /\ \A j \in 1..Len(cs) : j # k => cs[j] = a.tool_calls[j]
      /\ SampleOK(conf, version, b, first[s], said[s])
  <2>1. /\ b \in AgentStates /\ b.tool_calls = cs
        /\ OnlyMoved(cs, a.tool_calls, k, x)
        /\ SampleOK(conf, version, b, first[s], said[s])
    BY <1>1, <1>3, <1>4, <1>5, CallOK
  <2>2. QED
    BY <2>1 DEF OnlyMoved
<1>7. Len(a.tool_calls) <= MaxParallelCalls /\ MaxParallelCalls \in Nat
  BY <1>1, Bounds DEF SampleOK, CallsOK
<1>8. instances \subseteq Samples \X (1..MaxParallelCalls)
  BY DEF RolloutInv, Types
<1>9. instances' \subseteq Samples \X (1..MaxParallelCalls)
  <2>1. Len(a.tool_calls) \in Nat
    BY <1>3
  <2>2. k \in 1..MaxParallelCalls
    BY <1>3, <1>7, <2>1
  <2>3. QED
    BY <1>8, <2>2
<1>10. \A e \in instances' : e[1] # s => e \in instances
  OBVIOUS
<1>11. ASSUME NEW e \in instances' PROVE Held(e, s, b.tool_calls)
  <2>1. SUFFICES ASSUME e[1] = s
                 PROVE  e[2] \in DOMAIN cs /\ cs[e[2]].at \in {"created", "executed"}
    BY <1>6 DEF Held
  <2>2. e = <<s, e[2]>>
    BY <1>9, <2>1
  <2>3. DOMAIN cs = 1..Len(a.tool_calls) /\ DOMAIN a.tool_calls = 1..Len(a.tool_calls)
    BY <1>3, <1>6
  <2>4. CASE e[2] = k
    BY <1>3, <1>6, <2>2, <2>3, <2>4
  <2>5. CASE e[2] # k
    <3>1. e \in instances
      BY <2>5
    <3>2. /\ e[2] \in DOMAIN a.tool_calls
          /\ a.tool_calls[e[2]].at \in {"created", "executed"}
      BY <1>4, <2>1, <3>1 DEF RolloutInv, InstancesInv
    <3>3. QED
      BY <1>6, <2>3, <2>5, <3>2
  <2>6. QED
    BY <2>4, <2>5
<1>12. first' = [first EXCEPT ![s] = first[s]] /\ said' = [said EXCEPT ![s] = said[s]]
  BY HistoryStays
<1>13. agent[s].state # "done" /\ conf' = conf /\ version' = version /\ batch' = batch
  BY <1>4
<1>14. QED
  BY <1>1, <1>2, <1>6, <1>9, <1>10, <1>11, <1>12, <1>13, OneSample

LEMMA ToolSteps ==
    ASSUME RolloutInv, NEW s \in Samples, ToolStep(s)
    PROVE  RolloutInv'
<1>1. PICK k \in DOMAIN agent[s].tool_calls :
         CallTool(s, k) \/ ExecuteTool(s, k) \/ ReleaseTool(s, k)
  BY DEF ToolStep
<1>2. Answers \cup {ErrorAnswer} \subseteq Results
  BY DEF Results
<1>3. ~(<<s, k>> \in instances) \/ agent[s].tool_calls[k].at \in {"created", "executed"}
  BY DEF RolloutInv, InstancesInv
<1>4. CASE CallTool(s, k)
  <2>1. /\ Tooling(s) /\ <<s, k>> \notin instances
        /\ UNCHANGED <<conf, version, batch, first, said>>
    BY <1>3, <1>4 DEF CallTool
  <2>2. CASE /\ \E answer \in Answers \cup {ErrorAnswer} : SetCall(s, k, "answered", answer)
             /\ UNCHANGED instances
    <3>1. PICK answer \in Answers \cup {ErrorAnswer} : SetCall(s, k, "answered", answer)
      BY <2>2
    <3> DEFINE x == [at |-> "answered", answer |-> answer]
    <3>2. x \in Calls /\ x.at = "answered" /\ x.answer \in Results
      BY <1>2 DEF Calls
    <3>3. agent' = [agent EXCEPT ![s].tool_calls[k] = x]
      BY <3>1 DEF SetCall
    <3> HIDE DEF x
    <3>4. QED
      BY <2>1, <2>2, <3>2, <3>3, SetCallStep
  <2>3. CASE SetCall(s, k, "created", None) /\ instances' = instances \cup {<<s, k>>}
    <3> DEFINE x == [at |-> "created", answer |-> None]
    <3>1. x \in Calls /\ x.at = "created"
      BY DEF Calls
    <3>2. agent' = [agent EXCEPT ![s].tool_calls[k] = x]
      BY <2>3 DEF SetCall
    <3> HIDE DEF x
    <3>3. QED
      BY <2>1, <2>3, <3>1, <3>2, SetCallStep
  <2>4. QED
    BY <1>4, <2>2, <2>3 DEF CallTool
<1>5. CASE ExecuteTool(s, k)
  <2>1. Tooling(s) /\ UNCHANGED <<conf, version, instances, batch, first, said>>
    BY <1>5 DEF ExecuteTool
  <2>2. PICK answer \in Answers \cup {ErrorAnswer} : SetCall(s, k, "executed", answer)
    BY <1>5 DEF ExecuteTool
  <2> DEFINE x == [at |-> "executed", answer |-> answer]
  <2>3. x \in Calls /\ x.at = "executed" /\ x.answer \in Results
    BY <1>2 DEF Calls
  <2>4. agent' = [agent EXCEPT ![s].tool_calls[k] = x]
    BY <2>2 DEF SetCall
  <2> HIDE DEF x
  <2>5. QED
    BY <2>1, <2>3, <2>4, SetCallStep
<1>6. CASE ReleaseTool(s, k)
  <2>1. /\ Tooling(s) /\ UNCHANGED <<conf, version, batch, first, said>>
        /\ instances' = instances \ {<<s, k>>} /\ agent[s].tool_calls[k].at = "executed"
    BY <1>6 DEF ReleaseTool
  <2>2. PICK at \in {"answered", "raised"} :
           SetCall(s, k, at, agent[s].tool_calls[k].answer)
    BY <1>6 DEF ReleaseTool
  <2> DEFINE y == agent[s].tool_calls[k].answer
             x == [at |-> at, answer |-> y]
  <2>3. y \in Results
    <3>1. CallsOK(agent[s]) /\ agent[s].tool_calls \in Seq(Calls)
      BY Given, AgentTypes DEF SampleOK
    <3>2. k \in 1..Len(agent[s].tool_calls)
      BY <3>1
    <3>3. QED
      BY <2>1, <3>1, <3>2 DEF CallsOK
  <2>4. agent' = [agent EXCEPT ![s].tool_calls[k] = x]
    BY <2>2 DEF SetCall
  <2> HIDE DEF y
  <2>5. x \in Calls /\ x.answer \in Results
    BY <2>3 DEF Calls
  <2> HIDE DEF x
  <2>6. instances' \subseteq instances \cup {<<s, k>>} /\ <<s, k>> \notin instances'
    BY <2>1
  <2>7. QED
    BY <2>1, <2>4, <2>5, <2>6, SetCallStep
<1>7. QED
  BY <1>1, <1>4, <1>5, <1>6

-----------------------------------------------------------------------------
(* The batch                                                                *)

LEMMA FirstSample == 1 \in Samples
<1>1. /\ IsFiniteSet(Samples) /\ Samples = 1..Cardinality(Samples) /\ Samples # {}
  BY AgentLoopAssumption
<1>2. Cardinality(Samples) \in Nat
  BY <1>1, FS_CardinalityType
<1>3. QED
  BY <1>1, <1>2

LEMMA RowWidths ==
    ASSUME NEW c \in Configuration, NEW a, NEW f \in Seq({"p", "i"}),
           NEW d \in Seq(Texts \X Nat), RowOK(c, a, f, d)
    PROVE  /\ Len(a.row.prompts) = PromptLength /\ Len(a.row.responses) = ResponseLength
           /\ c.logprobs => Len(a.row.logprobs) = ResponseLength
           /\ ~c.logprobs => a.row.logprobs = None
<1> USE Bounds
<1>1. /\ a.row.prompts = PadLeft(Truncate(f), "0", PromptLength)
      /\ a.row.responses = Response(d)
  BY DEF RowOK, Response, OriginsOf
<1>2. Len(PadLeft(Truncate(f), "0", PromptLength)) = PromptLength
  <2> DEFINE T == {"p", "i", "0"}
             t == Truncate(f)
  <2>1. t \in Seq({"p", "i"}) /\ Len(t) <= PromptLength
    BY TruncateFacts
  <2>2. {"p", "i"} \subseteq T /\ "0" \in T
    OBVIOUS
  <2> HIDE DEF T, t
  <2>3. t \in Seq(T)
    BY <2>1, <2>2, SeqMonotonic
  <2>4. Len(PadLeft(t, "0", PromptLength)) = PromptLength
    BY <2>1, <2>2, <2>3, PadCounts
  <2>5. QED
    BY <2>4 DEF t
<1>3. Len(Response(d)) = ResponseLength
  BY ResponseFacts
<1>4. /\ c.logprobs => Len(a.row.logprobs) = ResponseLength
      /\ ~c.logprobs => a.row.logprobs = None
  BY DEF RowOK
<1>5. QED
  BY <1>1, <1>2, <1>3, <1>4

\* torch.cat: rows of finished samples have one width.
LEMMA RowsConcatenate ==
    ASSUME RolloutInv, \A s \in Samples : agent[s].state = "done"
    PROVE  Concatenates
<1>1. conf \in Configuration /\ conf.logprobs \in BOOLEAN
  BY Given, LimitsType
<1>2. ASSUME NEW s \in Samples
      PROVE  /\ Len(agent[s].row.prompts) = PromptLength
             /\ Len(agent[s].row.responses) = ResponseLength
             /\ conf.logprobs => Len(agent[s].row.logprobs) = ResponseLength
             /\ ~conf.logprobs => agent[s].row.logprobs = None
  <2>1. first[s] \in Seq({"p", "i"}) /\ said[s] \in Seq(Texts \X Nat)
    BY Given
  <2>2. RowOK(conf, agent[s], first[s], said[s])
    BY Given DEF SampleOK
  <2>3. QED
    BY <1>1, <2>1, <2>2, RowWidths
<1>3. ASSUME NEW s \in Samples
      PROVE  /\ Len(agent[s].row.prompts) = Len(agent[1].row.prompts)
             /\ Len(agent[s].row.responses) = Len(agent[1].row.responses)
             /\ agent[1].row.logprobs # None =>
                   Len(agent[s].row.logprobs) = Len(agent[1].row.logprobs)
  BY <1>1, <1>2, FirstSample
<1>4. QED
  BY <1>3 DEF Concatenates

LEMMA PostprocessStep ==
    ASSUME RolloutInv, Postprocess
    PROVE  RolloutInv'
<1>1. /\ \A s \in Samples : agent[s].state = "done"
      /\ UNCHANGED <<conf, version, agent, instances, first, said>>
  BY DEF Postprocess
<1>2. batch' \in {"returned", "keys"}
  BY <1>1, RowsConcatenate DEF Postprocess
<1>3. Types'
  BY <1>1, <1>2 DEF RolloutInv, Types
<1>4. SamplesInv' /\ InstancesInv'
  BY <1>1 DEF RolloutInv, SamplesInv, InstancesInv
<1>5. FinishedInv'
  BY <1>1, <1>2 DEF FinishedInv
<1>6. QED
  BY <1>3, <1>4, <1>5 DEF RolloutInv

LEMMA BatchRaisesStep ==
    ASSUME RolloutInv, BatchRaises
    PROVE  RolloutInv'
<1>1. batch' = "raised" /\ UNCHANGED <<conf, version, agent, instances, first, said>>
  BY DEF BatchRaises
<1>2. Types'
  BY <1>1 DEF RolloutInv, Types
<1>3. SamplesInv' /\ InstancesInv'
  BY <1>1 DEF RolloutInv, SamplesInv, InstancesInv
<1>4. FinishedInv'
  BY <1>1 DEF FinishedInv
<1>5. QED
  BY <1>2, <1>3, <1>4 DEF RolloutInv

LEMMA NewWeightsStep ==
    ASSUME RolloutInv, NewWeights
    PROVE  RolloutInv'
<1>1. /\ version' = version + 1 /\ version < MaxVersion
      /\ UNCHANGED <<conf, agent, instances, batch, first, said>>
  BY DEF NewWeights
<1>2. version \in Nat /\ version + 1 \in 0..MaxVersion /\ version <= version + 1
  BY <1>1, Given, Bounds
<1>3. Types'
  BY <1>1, <1>2 DEF RolloutInv, Types
<1>4. ASSUME NEW s \in Samples
      PROVE  SampleOK(conf, version + 1, agent[s], first[s], said[s])
  <2>1. /\ agent[s] \in AgentStates /\ version + 1 \in Nat
        /\ SampleOK(conf, version, agent[s], first[s], said[s])
    BY <1>2, Given
  <2>2. QED
    BY <1>2, <2>1, VersionOK
<1>5. SamplesInv'
  BY <1>1, <1>4 DEF SamplesInv
<1>6. InstancesInv' /\ FinishedInv'
  BY <1>1 DEF RolloutInv, InstancesInv, FinishedInv
<1>7. QED
  BY <1>3, <1>5, <1>6 DEF RolloutInv

LEMMA Begins ==
    ASSUME Init
    PROVE  RolloutInv
<1>1. conf \in Configuration
  BY AgentLoopAssumption DEF Init
<1>2. agent \in [Samples -> AgentStates] /\ \A s \in Samples : agent[s] = NewAgent
  BY NewAgentFacts DEF Init
<1>3. Types
  <2>1. <<>> \in Seq({"p", "i"}) /\ <<>> \in Seq(Texts \X Nat) /\ 0 \in 0..MaxVersion
    BY Bounds
  <2>2. QED
    BY <1>2, <2>1 DEF Types, Init
<1>4. SampleOK(conf, 0, NewAgent, <<>>, <<>>)
  BY <1>1, NewAgentOK
<1>5. SamplesInv
  <2>1. \A s \in Samples : first[s] = <<>> /\ said[s] = <<>>
    BY DEF Init
  <2>2. version = 0
    BY DEF Init
  <2>3. QED
    BY <1>2, <1>4, <2>1, <2>2 DEF SamplesInv
<1>6. InstancesInv /\ FinishedInv
  BY DEF Init, InstancesInv, FinishedInv
<1>7. QED
  BY <1>3, <1>5, <1>6 DEF RolloutInv

\* Every step of a generate_sequences call keeps each trajectory what its
\* history says: prompt_ids is the cut prompt and the tokens said, the mask and
\* the log-probabilities mark the generated ones, and a finished row is made of
\* them; the tool instances that are left belong to calls that will release them.
THEOREM RolloutInvariant == Spec => []RolloutInv
<1>1. Init => RolloutInv
  BY Begins
<1>2. RolloutInv /\ [Next]_vars => RolloutInv'
  <2>1. SUFFICES ASSUME RolloutInv, [Next]_vars PROVE RolloutInv'
    OBVIOUS
  <2>2. CASE UNCHANGED vars
    BY <2>1, <2>2 DEF vars, RolloutInv, Types, SamplesInv, InstancesInv, FinishedInv
  <2>3. CASE Postprocess
    BY <2>1, <2>3, PostprocessStep
  <2>4. CASE BatchRaises
    BY <2>1, <2>4, BatchRaisesStep
  <2>5. CASE NewWeights
    BY <2>1, <2>5, NewWeightsStep
  <2>6. ASSUME NEW s \in Samples, ToolStep(s) PROVE RolloutInv'
    BY <2>1, <2>6, ToolSteps
  <2>7. ASSUME NEW s \in Samples, SampleStep(s) PROVE RolloutInv'
    <3>1. CASE Pending(s)
      BY <2>1, <3>1, PendingStep
    <3>2. CASE Generate(s)
      BY <2>1, <3>2, GenerateStep
    <3>3. CASE ServerRejects(s)
      BY <2>1, <3>3, ServerRejectsStep
    <3>4. CASE ProcessTools(s)
      BY <2>1, <3>4, ProcessToolsStep
    <3>5. CASE GatherRaises(s)
      BY <2>1, <3>5, GatherRaisesStep
    <3>6. CASE Finalize(s)
      BY <2>1, <3>6, FinalizeStep
    <3>7. CASE Score(s)
      BY <2>1, <3>7, ScoreStep
    <3>8. QED
      BY <2>7, <3>1, <3>2, <3>3, <3>4, <3>5, <3>6, <3>7, Zenon DEF SampleStep
  <2>8. QED
    BY <2>1, <2>2, <2>3, <2>4, <2>5, <2>6, <2>7, Zenon DEF Next
<1>3. QED
  BY <1>1, <1>2, PTL DEF Spec

-----------------------------------------------------------------------------
(* What the trainer gets                                                    *)

LEMMA InvGivesTypes ==
    ASSUME RolloutInv
    PROVE  TypeOK /\ TurnsBounded
<1> USE Bounds
<1>1. /\ version \in 0..MaxVersion /\ batch \in {"running", "returned", "shape", "keys", "raised"}
      /\ instances \subseteq Samples \X (1..MaxParallelCalls)
  BY DEF RolloutInv, Types
<1>2. ASSUME NEW s \in Samples
      PROVE  LET a == agent[s] IN
             /\ a.state \in {"PENDING", "GENERATING", "PROCESSING_TOOLS", "TERMINATED",
                             "scoring", "done", "raised"}
             /\ a.prompt_ids \in Seq({"p", "i", "g", "t"})
             /\ a.response_mask \in Seq({0, 1}) /\ a.response_logprobs \in Seq({"lp", "0"})
             /\ a.images \in Nat
             /\ Len(a.prompt_ids) <= PromptLength + ResponseLength
             /\ a.state \in {"GENERATING", "PROCESSING_TOOLS"} =>
                   Len(a.response_mask) < ResponseLength
  <2> DEFINE a == agent[s]
  <2>1. a \in AgentStates /\ SampleOK(conf, version, a, first[s], said[s])
    BY Given
  <2> HIDE DEF a
  <2>2. /\ a.state \in States /\ a.prompt_ids \in Seq(Texts)
        /\ a.response_mask \in Seq({0, 1}) /\ a.response_logprobs \in Seq({"lp", "0"})
        /\ a.images \in Nat
    BY <2>1, AgentTypes
  <2>3. Len(a.prompt_ids) <= PromptLength + ResponseLength
    <3>1. CASE a.state \in Active
      BY <2>1, <3>1 DEF SampleOK, TextOK, IdsOK
    <3>2. CASE a.state \notin Active
      <4>1. a.prompt_ids = <<>>
        BY <2>1, <3>2 DEF SampleOK
      <4>2. QED
        BY <4>1
    <3>3. QED
      BY <3>1, <3>2
  <2>4. a.state \in {"GENERATING", "PROCESSING_TOOLS"} => Len(a.response_mask) < ResponseLength
    BY <2>1 DEF SampleOK, TurnsOK
  <2>5. QED
    BY <2>2, <2>3, <2>4 DEF a, States, Texts
<1>3. ASSUME NEW s \in Samples
      PROVE  LET a == agent[s] IN
             /\ a.assistant_turns - a.user_turns \in 0..1
             /\ a.assistant_turns <= ResponseLength
             /\ conf.limits[1] # 0 => a.assistant_turns <= conf.limits[1]
             /\ conf.limits[2] # 0 => a.user_turns <= conf.limits[2]
  <2> DEFINE a == agent[s]
  <2>1. a \in AgentStates /\ SampleOK(conf, version, a, first[s], said[s])
    BY Given
  <2> HIDE DEF a
  <2>2. a.assistant_turns \in Nat /\ a.user_turns \in Nat
    BY <2>1, AgentTypes
  <2>3. TurnsOK(conf, a)
    BY <2>1 DEF SampleOK
  <2>4. /\ a.assistant_turns <= ResponseLength
        /\ a.assistant_turns >= a.user_turns /\ a.assistant_turns <= a.user_turns + 1
        /\ conf.limits[1] # 0 => a.assistant_turns <= conf.limits[1]
        /\ conf.limits[2] # 0 => a.user_turns <= conf.limits[2]
    BY <2>3 DEF TurnsOK
  <2>5. a.assistant_turns - a.user_turns \in 0..1
    BY <2>2, <2>4
  <2>6. QED
    BY <2>4, <2>5 DEF a
<1>4. TypeOK
  BY <1>1, <1>2 DEF TypeOK
<1>5. TurnsBounded
  BY <1>3 DEF TurnsBounded
<1>6. QED
  BY <1>4, <1>5

LEMMA InvGivesImages ==
    ASSUME RolloutInv, Alignable(conf)
    PROVE  ImagesAligned
<1>1. SUFFICES ASSUME NEW s \in Samples
               PROVE  /\ agent[s].state = "GENERATING" =>
                            Count("i", agent[s].prompt_ids) = agent[s].images
                      /\ agent[s].state = "done" =>
                            Count("i", agent[s].row.prompts \o agent[s].row.responses)
                            = agent[s].images
  BY DEF ImagesAligned
<1>2. SampleOK(conf, version, agent[s], first[s], said[s])
  BY Given
<1>3. agent[s].state = "GENERATING" => TextOK(conf, agent[s], first[s], said[s])
  BY <1>2 DEF SampleOK, Active
<1>4. agent[s].state = "done" => RowOK(conf, agent[s], first[s], said[s])
  BY <1>2 DEF SampleOK
<1>5. agent[s].state = "GENERATING" => Count("i", agent[s].prompt_ids) = agent[s].images
  BY <1>1, <1>3 DEF TextOK
<1>6. agent[s].state = "done" =>
         Count("i", agent[s].row.prompts \o agent[s].row.responses) = agent[s].images
  BY <1>1, <1>4 DEF RowOK
<1>7. QED
  BY <1>5, <1>6

LEMMA InvGivesClean ==
    ASSUME RolloutInv
    PROVE  ReturnedClean
<1>1. SUFFICES ASSUME batch = "returned", NEW e \in instances PROVE FALSE
  BY DEF ReturnedClean
<1>2. e[1] \in Samples
  BY DEF RolloutInv, Types
<1>3. agent[e[1]].state = "done"
  BY <1>1, <1>2 DEF RolloutInv, FinishedInv
<1>4. CallsOK(agent[e[1]])
  BY <1>2, Given DEF SampleOK
<1>5. agent[e[1]].tool_calls = <<>>
  BY <1>3, <1>4 DEF CallsOK
<1>6. e[2] \in DOMAIN agent[e[1]].tool_calls
  BY DEF RolloutInv, InstancesInv
<1>7. QED
  BY <1>5, <1>6

\* For any batch, prompts, limits and weight updates: trajectories stay within
\* prompt_length, response_length and the turn limits, torch.cat never meets rows
\* of different widths, and a returned batch leaves no tool instance behind.
THEOREM BatchSafe == Spec => []BatchInv
<1>1. RolloutInv => BatchInv
  <2>1. SUFFICES ASSUME RolloutInv PROVE BatchInv
    OBVIOUS
  <2>2. TypeOK /\ TurnsBounded
    BY <2>1, InvGivesTypes
  <2>3. ReturnedClean
    BY <2>1, InvGivesClean
  <2>4. NoShapeError
    BY <2>1 DEF RolloutInv, FinishedInv, NoShapeError
  <2>5. QED
    BY <2>2, <2>3, <2>4 DEF BatchInv
<1>2. QED
  BY <1>1, RolloutInvariant, PTL

\* The prompt of a row, in the two ways of cutting it.
LEMMA CutPrompt ==
    ASSUME NEW f \in Seq({"p", "i"}), f # <<>>
    PROVE  LastOf(f, Smallest({PromptLength, Len(f)})) = Truncate(f)
<1>1. PromptLength \in Nat /\ Len(f) \in Nat /\ Len(f) # 0
  BY Bounds
<1>2. Smallest({PromptLength, Len(f)}) = IF PromptLength < Len(f) THEN PromptLength ELSE Len(f)
  BY <1>1, SmallestOfTwo
<1>3. CASE PromptLength < Len(f)
  BY <1>1, <1>2, <1>3 DEF Truncate
<1>4. CASE ~(PromptLength < Len(f))
  <2>1. Smallest({PromptLength, Len(f)}) = Len(f) /\ Truncate(f) = f
    BY <1>1, <1>2, <1>4 DEF Truncate
  <2>2. LastOf(f, Len(f)) = SubSeq(f, 1, Len(f))
    BY <1>1 DEF LastOf
  <2>3. SubSeq(f, 1, Len(f)) = f
    OBVIOUS
  <2>4. QED
    BY <2>1, <2>2, <2>3
<1>5. QED
  BY <1>3, <1>4

LEMMA ExactRow ==
    ASSUME RolloutInv, NEW s \in Samples, agent[s].state = "done"
    PROVE  LET row == agent[s].row
               generated == {i \in 1..ResponseLength : row.responses[i] = "g"}
           IN
           /\ row.prompts =
                 PadLeft(LastOf(first[s], Smallest({PromptLength, Len(first[s])})),
                         "0", PromptLength)
           /\ row.responses = PadRight(Upto(Origins(s), ResponseLength), "0", ResponseLength)
           /\ {i \in 1..ResponseLength : row.response_mask[i] = 1} = generated
           /\ IF conf.logprobs
              THEN {i \in 1..ResponseLength : row.logprobs[i] = "lp"} = generated
              ELSE row.logprobs = None
           /\ conf.async_reward => row.scored = Smallest({Len(said[s]), ResponseLength})
<1> DEFINE row == agent[s].row
           f == first[s]
           d == said[s]
           generated == {i \in 1..ResponseLength : row.responses[i] = "g"}
<1>1. /\ f \in Seq({"p", "i"}) /\ d \in Seq(Texts \X Nat)
      /\ RowOK(conf, agent[s], f, d) /\ conf.logprobs \in BOOLEAN
  BY Given, LimitsType DEF SampleOK
<1>2. row.prompts = PadLeft(LastOf(f, Smallest({PromptLength, Len(f)})), "0", PromptLength)
  <2>1. f # <<>> /\ row.prompts = PadLeft(Truncate(f), "0", PromptLength)
    BY <1>1 DEF RowOK
  <2> HIDE DEF f
  <2>2. LastOf(f, Smallest({PromptLength, Len(f)})) = Truncate(f)
    BY <1>1, <2>1, CutPrompt
  <2>3. QED
    BY <2>1, <2>2
<1>3. row.responses = PadRight(Upto(Origins(s), ResponseLength), "0", ResponseLength)
  <2>1. Origins(s) = [i \in 1..Len(d) |-> d[i][1]]
    BY <1>1 DEF Origins
  <2>2. QED
    BY <1>1, <2>1 DEF RowOK
<1>4. {i \in 1..ResponseLength : row.response_mask[i] = 1} = generated
  <2>1. \A i \in 1..ResponseLength : (row.response_mask[i] = 1) <=> (row.responses[i] = "g")
    BY <1>1 DEF RowOK
  <2>2. QED
    BY <2>1
<1>5. conf.logprobs => {i \in 1..ResponseLength : row.logprobs[i] = "lp"} = generated
  <2>1. conf.logprobs =>
          \A i \in 1..ResponseLength : (row.logprobs[i] = "lp") <=> (row.responses[i] = "g")
    BY <1>1 DEF RowOK
  <2>2. QED
    BY <2>1
<1>6. ~conf.logprobs => row.logprobs = None
  BY <1>1 DEF RowOK
<1>7. conf.async_reward => row.scored = Smallest({Len(d), ResponseLength})
  <2>1. Len(d) \in Nat /\ ResponseLength \in Nat
    BY <1>1, Bounds
  <2>2. Smallest({Len(d), ResponseLength}) =
           IF Len(d) < ResponseLength THEN Len(d) ELSE ResponseLength
    BY <2>1, SmallestOfTwo
  <2>3. QED
    BY <1>1, <2>2 DEF RowOK
<1>8. IF conf.logprobs THEN {i \in 1..ResponseLength : row.logprobs[i] = "lp"} = generated
                       ELSE row.logprobs = None
  BY <1>1, <1>5, <1>6
<1>9. QED
  BY <1>2, <1>3, <1>4, <1>7, <1>8

\* What the trainer gets of a sample, for any prompts and limits: the prompt cut
\* from the left, then the first response_length tokens generated or observed,
\* with mask and log-probabilities on exactly the generated ones.
THEOREM RowsAreExact == Spec => []RowsExact
<1>1. RolloutInv => RowsExact
  <2>1. SUFFICES ASSUME RolloutInv, batch = "returned" PROVE RowsExact
    BY DEF RowsExact
  <2>2. \A s \in Samples : agent[s].state = "done"
    BY <2>1 DEF RolloutInv, FinishedInv
  <2>3. QED
    BY <2>1, <2>2, ExactRow DEF RowsExact
<1>2. QED
  BY <1>1, RolloutInvariant, PTL

\* However the weights change during a rollout, min_global_steps and
\* max_global_steps of a finished sample span the versions of its tokens.
THEOREM StepsAlwaysCover == Spec => []StepsCover
<1>1. RolloutInv => StepsCover
  <2>1. SUFFICES ASSUME RolloutInv, NEW s \in Samples, NEW i \in DOMAIN said[s],
                        said[s][i][1] = "g"
                 PROVE  said[s][i][2] \in agent[s].steps[1]..agent[s].steps[2]
    BY DEF StepsCover
  <2>2. /\ agent[s] \in AgentStates /\ said[s] \in Seq(Texts \X Nat)
        /\ SampleOK(conf, version, agent[s], first[s], said[s])
    BY <2>1, Given
  <2>3. agent[s].steps \in Steps
    BY <2>2, AgentTypes
  <2>4. i \in 1..Len(said[s]) /\ said[s][i] \in Texts \X Nat
    BY <2>1, <2>2
  <2>5. /\ agent[s].steps # None /\ agent[s].steps[1] <= said[s][i][2]
        /\ said[s][i][2] <= agent[s].steps[2]
    BY <2>1, <2>2, <2>4 DEF SampleOK, StepsOK, Covered
  <2>6. agent[s].steps[1] \in Nat /\ agent[s].steps[2] \in Nat /\ said[s][i][2] \in Nat
    BY <2>3, <2>4, <2>5 DEF Steps
  <2>7. QED
    BY <2>5, <2>6
<1>2. QED
  BY <1>1, RolloutInvariant, PTL

\* Where images and placeholders do stay aligned: with the tool messages written
\* by the chat template and tools that return at most one image at a time, every
\* prompt that goes to the server and every row has as many placeholders as
\* images, however prompts, tool messages and responses are cut.
THEOREM SingleImagesAlign ==
    ASSUME SingleImages
    PROVE  Spec => [](conf.format = "hermes" => ImagesAligned)
<1>1. RolloutInv => (conf.format = "hermes" => ImagesAligned)
  BY InvGivesImages DEF Alignable
<1>2. QED
  BY <1>1, RolloutInvariant, PTL
=============================================================================
