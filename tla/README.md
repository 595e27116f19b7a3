# macro-logbot: TLA+ models and proofs

macro-logbot is a FastAPI service that has an LLM agent analyse error logs. This
directory holds TLA+ models of it, their TLC runs and TLAPS proofs. Paths below are
relative to `src/macro_logbot/` unless they say otherwise.

## 1. The system

| Part | State | Operations | Works with |
|---|---|---|---|
| Agent graph, `agent/core.py` | messages, iteration, last response, report of a run | nodes intake, llm_call, execute_tools, crystallize_report, finalize; the route after llm_call | gateway, tools, truncation |
| Truncation, `agent/core.py` | none; works on a copy | `_build_tool_call_groups`, `_truncate_messages` | called by llm_call |
| LLM gateway, `gateway/client.py` | settings | `complete`: call, retry without tools, parse calls out of text | litellm |
| Tools, `tools/*` | an unlocked KB singleton of their own | nine tools, `execute_tool` | run in threads of execute_tools |
| Analyze endpoint, `app.py` | two lazy singletons | `agent_analyze`: load, await run, store, archive, answer | agent, both stores |
| Chat endpoint, `app.py` | none | `chat_completions`, raw or through the agent | agent, gateway |
| Session store, `session/store.py` | table `sessions` | create, get, update (upsert), delete | endpoint |
| Knowledge base, `knowledge_base/store.py` | table `archived_cases` | add, get, search | endpoint (add), tools (search) |
| Authentication, `auth.py`; log parser, `intake/` | none | pure | endpoint, intake node |
| Clients, `poc/scripts/` | a session id | demo conversation; evaluation loop over cases; baseline script | endpoint over HTTP |

What is hard in it:

* **A conversation is rebuilt over and over.** A hint is inserted, a request leaves out
  old rounds of tool calls, replies extend the whole list, system messages are filtered
  before it is stored, a persona is put in front again. Providers refuse a conversation
  whose tool calls and answers do not pair.
* **A loop of an LLM's choosing**, cut by `max_iters`, followed by an extraction loop
  with a retry in an `except` clause.
* **An await between the read and the write of a session**, with clients that time out
  while the handler goes on.
* **Two stores written one after the other**, failing or killed in between, and a
  container whose databases are on no volume.

`PROJECT.json` lists these hazards at their lines, with the properties that watch them.

## 2. Modules

| Module | Models | Extends |
|---|---|---|
| `Conversation` | messages, pairing, groups, what truncation keeps | |
| `TruncateLoop` | the loops of truncation, pop by pop | `Conversation` |
| `Crystallize` | the LLM exchanges of crystallize_report | |
| `AgentLoop` | a run of the agent | `Conversation`, `Crystallize` |
| `AgentSession` | consecutive turns of a session at the analyze endpoint | `AgentLoop` |
| `SessionLog` | abstract: what the endpoint promises about sessions | |
| `AnalyzeEndpoint` | the endpoint as a service, its clients, stores and crashes | `SessionLog` (refinement) |
| `KnowledgeBase` | the tool `retrieve_similar_cases` and the archiving, over one database | |
| `Gateway` | `LLMGateway`: settings, parameters, both fallbacks, headers | `Conversation` |
| `Tools` | the registry's dispatch, the path guard's order, what each tool answers | |
| `Evaluation` | invocations of `evaluate.py`, case by case, and what they leave on disk | |
| `Baseline` | `run-onprem-baseline.sh` around them, with its exit conditions | `Evaluation` |
| `MC...` | instances for TLC | the module of that name |
| `...Proofs` | theorems | the module of that name (`GatewayToolsProofs`: those two) |

How they correspond to the code:

* A **message** is a record of role, ids of the calls, answered id, size in tokens, and
  what its text is good for: empty, plain, naming a source line, or the `[INTAKE]` hint.
  A **request** is the set of positions of the conversation it keeps.
* `Group`, `Removable`, `Truncate` say in sets what the two functions of truncation
  compute. `failAt` is the call of `litellm.token_counter` that raises. If it is the first,
  the original list is sent, as the docstring says. If it is a recount (`RecountRaises`), the
  models follow the code, which sends what is left by then, and not the docstring (section 3).
  `HighWatermark` and `Target` are in whole numbers; the code cuts off a float
  (`int(limit * 0.70)`), which is one less for some limits (62 instead of 63 for 90), but not for
  those of the runs; the proofs use no more of either than that it is an integer.
  `TruncateLoop` has the code's own scan and index arithmetic.
* `AgentLoop` has one action for each way a node ends. `LlmReplies`, `LlmRepliesEmpty`
  and `LlmRaises` are the llm_call node; `ExecuteTools` answers each call of the last
  message, an error of a tool being an answer; `ExecuteToolsRaises` is what the registry
  lets through. A raising node ends the run (`aborted`): `ainvoke` raises, nothing is
  returned. The router is evaluated in the action of its node, as LangGraph does.
* `Crystallize` has an action for each exit of the two nested `try` statements.
  `exchanges` is a history of the calls made. The wording of a report is left out;
  whether its fields are parsed, which answer it restates and where its location comes
  from are kept.
* `AgentSession` runs `AgentLoop` inside the handler: `Opening` is the list the handler
  builds, `SaveTurn` the filter and `update`, `cuts` a history of the turns answered
  with "max_iters".
* In `AnalyzeEndpoint` a run is one step, and a session is the sequence of turns whose
  messages it holds. The handler awaits nowhere but at `run_agent`; the store calls are
  synchronous. So it has two atomic parts, `Load`, and `Save` with what follows it up to
  the answer; `LoopFree` keeps other handlers out of the second. The second part is
  several steps because the process can die, and the knowledge base fail, between them.
  `Crash` keeps the databases (each store call commits before it returns), `Replaced`
  loses them, as `docker-compose.yml` mounts no volume for them.
* `KnowledgeBase` has what `AnalyzeEndpoint` and `AgentLoop` leave open about cases: the
  steps of the tool in the threads of several runs (look for the unlocked singleton, make
  the directory, open, publish, search, and back in execute_tools the `json.dumps`), and
  the archiving of other runs between any two of them. `path` is the setting of
  `MACRO_LOGBOT_KB_PATH`, which the tool and the archiving read differently: without it
  the tool uses a default file and nothing is archived; for the empty string the archiving
  gets a temporary database per connection and fails, with a warning. `before` is a
  history: what had been archived when a retrieval began.
* `Gateway` is pure, as `complete` keeps no state. `Complete(kwargs, first, second)` is the
  whole of a call, for a provider that ends the first request with `first` and a repeated one
  with `second`: a reply, with what its header will say, or `Raised`. `MCAgentLoop` takes the
  replies of the agent from it, so that the run `agent_loop` is the agent over the gateway.
  `ServiceKwargs` are the parameters of every call the service makes.
* `Tools` is pure as well, but for the store of `retrieve_similar_cases`. A tool answers a
  record with an error, a record without one, or raises; `ToolCall` is the part of
  execute_tools for one call. A file is a sequence of lines; `ReadFile` has Python's slices.
  What grep and git print, and how a path is classified, are inputs.
* `Evaluation` has an action for an iteration of the loop over the cases (`EvaluateCase`, over
  everything `evaluate_case` may return), and one for the end. What may end an invocation before:
  an exception in a case or a kill (`CaseRaises`), a report that cannot be written, with the loss
  of an earlier one of the same case (`ReportRaises`), and the same of the table (`TableRaises`).
  `reports` and `comparison` are the directory; `unfinished` is a history of the
  directories whose last invocation did not return 0. `Baseline` starts invocations by hand,
  with any directory, or by the script: the next run after one that returned 0, the end after
  any other (`set -e`, `pipefail`), then the check.

Modelled from use, not from code: the token counter, the providers, SQLite's commit,
asyncio's scheduling of handlers.

## 3. Runs

| Run | Expect | What it shows |
|---|---|---|
| `agent_loop` | pass | requests are paired, recent context is sent, the conversation only grows; reason, report and fallback header are true; every step brings the end nearer, the LLM calls are bounded, and a run ends |
| `agent_loop_corrective` | violation | a JSON answer to the repetition is dropped, and the model told it was no JSON |
| `truncate_loop` | pass | the loops compute the groups they mean, on ill-formed lists too, and come to their end; where a recount raises, never the original list is returned |
| `agent_session` | pass | sessions accumulate, one persona and one hint, open calls only where a turn was cut |
| `agent_session_dangling` | violation | after a cut turn the next request has calls without answers |
| `analyze` | pass | a turn is lost only to a request that ran beside it; sessions are histories; cases belong to stored turns; with patient clients the endpoint implements `SessionLog`; clients are answered |
| `analyze_overlap` | violation | a client's timeout is enough to lose a turn |
| `analyze_kb_init` | violation | a knowledge base that cannot be opened fails a stored analysis |
| `knowledge_base` | pass | no thread searches without a table; no archived case is missed for a worse one |
| `knowledge_base_found` | violation | a retrieval that finds a case ends its run |
| `evaluation` | pass | cases are asked in the session that was meant; tables agree with the reports beside them; what was measured is on disk however an invocation ends; the script checks complete measurements only; no case and no run is taken twice; invocations and the script end |
| `baseline_summary` | violation | a measurement without infrastructure errors ends the script before its summary |

The six violations are findings, with quotations, in `PROJECT.json`. The seventh finding is shown
by a passing run:

* **A recount that raises.** The docstring of `_truncate_messages` says that when
  `litellm.token_counter` fails truncation is skipped and the original list is returned
  (`core.py:124`). The code does that for the first count (138-139). When a recount raises it
  leaves the loop (171-172) and returns the list without the groups popped so far (190).
  `LoopMatchesTruncate` and `RemovesNeitherLessNorMore` are therefore about the other calls, and
  `FailedRecountLeavesPart` says what happens in this one: never the original, always a list that
  is shorter by whole groups. That is a disagreement with the docstring, not a property one would
  ask for. `WorkingStaysPaired` is why it does no harm: that list can be sent. The agent's
  properties (`RequestsPaired`, `RecentContextSent`) are checked with such requests among the others.

`CostIsBounded` allows the report three LLM calls where a comment of `_crystallize_report_node`
counts at most two (`core.py:425`): a refused `response_format`, its repetition, and the second
attempt. `RunGetsShorter`, `LoopsAdvance` and `NothingIsRepeated` are variants: they say how far
each step gets, and hold without any fairness.

Bounds, and why they suffice:

* `agent_loop`: `MaxIters` 3 and an input with two finished rounds make up to four rounds,
  so that truncation has groups to remove, with some to spare, and both ends of the loop
  are reached; tool answers of size 1 or 4 around a limit of 16 put counts on both sides of
  the watermark (12) and the target (11). Two call ids, reused from round to round, as the
  ids of calls parsed out of text are. The replies are what `Complete` makes of eight behaviours
  of a provider: an answer, native calls, calls in a text, a refusal of the tools with or
  without calls in the text that follows, two refusals, a misnamed call, no choices.
  `EmptyChoices` is TRUE, for gateways that are substituted; `LLMGateway` itself raises then.
* `truncate_loop`: all lists of up to four blocks out of five kinds (user text, rounds of
  one and two calls, an unanswered call, stray answers), every failing count, and limits
  for which nothing, some and all removable groups go; with two groups kept, four blocks
  are two to remove, which is what an offset needs to go wrong.
* `agent_session`: three turns of at most two iterations: a turn, one that builds on what
  it left, and one that builds on a rebuilt list. One log text; its content is not used.
* `analyze`: three workloads. In Overlapping a client with three requests learns its session
  from the first and has two overlap in it; in Mixed an impatient client leaves requests
  behind beside one that waits; in Patient two clients that wait ask twice each, which is where
  the refinement of `SessionLog` is claimed. One crash, at any point.
* `evaluation`: two cases, two directories, two invocations. A list that names a case twice
  has its report overwritten within an invocation, the same directory in two invocations
  between them; the judge may fail on no axis or on one. Three cases in a session are
  what a wrong choice of the session to continue needs: an answered one, one with another id, one more.
* `knowledge_base`: three runs with one retrieval each: one archives while the tools of two
  others race for the singleton, or two archive and the third has to choose; up to two
  cases are asked for, of two confidences. A query matches any set of runs. The runs are
  interchangeable, and the properties are invariants, so that `Permutations` is sound.

No run uses a state constraint, and none but `knowledge_base` symmetry; none has `CHECK_DEADLOCK FALSE`: ends are explicit
stuttering actions (`Stopped`, `SStopped`, `AllAsked`, `AllEnded`), so that a deadlock is an error.

Fairness. `AgentLoop`: weak fairness of the step of a run; every await in it ends, LLM calls
by the HTTP client's timeout and tools by their own subprocess timeouts. `AnalyzeEndpoint`:
weak fairness of each handler's next step, which is what `EveryRunEnds` and the event loop
give, and of the receipt of an answer that was sent. A crash is never forced and a restart
not assumed: a dead process closes its connections. `Baseline`: weak fairness of the work of a
running invocation, where the backend, the judge and the triggered program are called with
timeouts, and of the steps of the script, a sequence of commands; that somebody starts an
invocation by hand is not assumed. `AgentSession` and `KnowledgeBase` have no
liveness property and no fairness.

## 4. Proofs

`tlapm` checks the proof modules to the last leaf. Those of the agent assume what `AgentLoop` assumes of
its constants: ids, sizes and texts of the right kinds, and inputs that are well formed
(`InputsAssumption`: `Paired(ms)`). That last one is needed: the loop keeps the pairing but
cannot create it, and `agent_session_dangling` is what happens without it.

`ConversationProofs`, on operators: `RemovingGroupsKeepsPairs` (leaving out whole groups of
a paired conversation leaves it paired), from it `TruncateKeepsPairs` for every limit and
failure; `PairingIsLocal` and `AppendKeepsPairs` (extending a paired conversation by a
message without calls), `AnswersPairTheCalls` (a head followed by its answers),
`OpenCallsUnpaired`, `OnlyOldGroupsGo`, `GroupsAreDisjoint`. For lists that lose messages, `Place(S, x)`
is the place of position x among the positions S that are kept: `KeptIs` (message x of the list is
message `Place(S, x)` of the shorter one, and these are all), `KeptIsPaired` (a set of positions
that is paired makes a paired list) and `CountOfKept` (the shorter list counts the tokens of what
was kept). The last one needs induction on the length. The library's induction theorems take an
operator, so the induction is done on the set of lengths for which the statement fails:
`SmallestNat` (a non-empty set of numbers has a least one, by `WFMin`) gives a first failure, and
the step leads it to an earlier one.

`TruncateLoopProofs`: the loops of truncation compute `Truncate`, for every list, well formed or
not, every limit and every count that raises (a recount that raises in a theorem of its own). The invariant `IInv` says of the scan that the groups
found so far are those of the calls it has passed, each at its number and in increasing order
(`GroupsFound`; `ScanFindsGroup`: what the inner loop collects is `Group`, and it passes no other
head); of the removal, that the working list is the conversation without the positions popped so
far, which are whole groups and the first members of the present one, and that no count before was
within the target (`Popping`); of the end, that the present group is the one at which `Truncate`
stops (`Returned`). The heart is `OffsetIsRight`: everything popped lies before the next member x,
because groups are in order and do not overlap, so that x stands at x minus the number of pops;
from it `PopTakes`, that a pop is never out of range and takes the message it means. Theorems:
`LoopIsTruncate`, `StaysPaired`, `NeitherLessNorMore`, `TypeCorrect`, `LoopsEnd`
(`LoopsAdvance`), and `FailedRecountReturnsPart` (`FailedRecountLeavesPart`), which needs that a
group has at least its head to lose (`GroupsTakeSome`).

`AgentLoopProofs`: the invariant `LoopInv` adds to `TypeOK` and `RequestsPaired`

* `ConversationPaired`: outside of execute_tools, and of a run that is cut, the
  conversation is paired; in execute_tools all but its last message is, and that message
  has the calls (`CallsOpen`). Without it nothing is known of the next request;
* `FirstRequestToCome`: before the first request none is on record;
* `OutcomeAgrees`: `last` is what the end of the conversation is, which is what makes the
  endpoint's reason, read off the last response, a fact about the messages.

One lemma per action shows that it keeps the invariant. Theorems: `TypeCorrect`,
`RequestsArePaired`, `ReasonIsTrue`, `HeaderIsTrue`, `RecentContextIsSent`, `ConversationGrows`,
for every `MaxIters`, context limit, set of inputs, replies and sizes. A second invariant,
`ExchangesInv`, is about the exchanges of crystallize_report: a refusal on record keeps the flag
`formatOk` down (`RefusalIsKept`), and what is parsed is of the last exchange, on every way out of
the two `try` statements (`LastIsParsed`, `ReportIsOfParsed`). Theorems: `FormatIsRefusedOnce`,
`ReportIsOfLastAnswer`. How a run comes to its end: `RunIsShortened` (`RunGetsShorter`), which counts
2 * max_iters + 2 nodes and at most three exchanges, and needs that a prompt-only repetition is made
only while the flag is down (`RepeatedAfterRefusal`); and `CostIsWithinBounds` (`CostIsBounded`), by
the invariant `CostInv`: the loop calls again only below `MaxIters`, and the exchanges made and
those left are three at most.

`AgentSessionProofs`, for any number of turns and everything `AgentLoopProofs` is for.
`InputsAssumption` covers only the first turn: from the second on, the stored session may have
open calls. So the invariant `SInv` does not start from `LoopInv`; it says

* where things stand: a run's conversation is the persona, the hint, then what is stored, then
  the log and what the run added (`Opened`, `HintGiven`, `Underway`), and what is stored has no
  system message (`SessionPlain`). So filtering takes exactly the first two (`StoredIsTail`), and
  what was stored is found again in front of what is stored next (`StoredGrows`);
* which calls are open: those at `cuts`, and no others (`StoredSound`), and in a run those two
  places on (`RunSound`). `ShiftedPairs` (pairing is the same in a list that is moved on) and
  `NeutralPairs` (messages of role system or user may be added) carry it through opening and
  filtering, and the lemmas on `PairedOn` of `ConversationProofs` through the loop;
* that `LoopInv` does hold as long as no turn was cut (`Uncut`).

Theorems: `SessionsGrow`, `PersonaAndHintOnce`, `OnlyCutsDangle`, `STypeCorrect`.

`AnalyzeEndpointProofs`, for every set of clients, workload and number of crashes. The invariant
`IInv` says of each request in progress what the store will need to know when it writes: what it
loaded is a history (`ContextsGood`) of turns of its own client (`OwnSessions`), two requests that
run on one session have met (`RunnersMet`), and a stored turn that one did not load ran beside it
(`LoadedAccount`). From that, `Save` keeps the same of the sessions (`SessionsGood`,
`StoreAccounts`). Theorems: `OnlyOverlapsLose`, `SessionsAreHistories`, `CasesAreOfStoredTurns`,
`TypeCorrect`, and the refinement `SessionsOfPatientAccumulate`: a client that waits has one
request in the service (`OneAtATime`), so what it loaded is still what is stored
(`LoadedIsStored`), and its `Save` appends one turn. `Load` maps to `Open`, an answer to
`Acknowledge`, `Replaced` to `StartOver`; whatever other clients do is a stutter.

`KnowledgeBaseProofs`, for every set of runs, confidences and bound on `top_k`: `BaseInv` adds
to the properties that a published store has a table (`TableBeforeStore`), that what was
archived is in the file the tool opens (`OneBase`, from which nothing takes rows), and that a
retrieval began no later than now (`BeforeWasArchived`). `BestLeavesOutTheWorse` is about the
LIMIT of a search. Theorems: `BaseTypeCorrect`, `SearchesHaveTheTable`, `SearchesFindTheBest`.

`GatewayToolsProofs`, on operators. Of the gateway, for every text and every answer of a provider: `CompleteReplies` (`complete`
raises, or makes calls with distinct ids and leaves the provider's own alone; this is what
`AgentLoop` assumes of `Replies`) and `ServiceIsAllowed` (no caller in the service passes a
parameter that `complete` refuses). They rest on `UsableIsFinite`, so that matches can be numbered.

Of the tools, for every file, window and limit: `WindowIsTrue` (the lines `read_file` shows are the
lines it names, and `truncated` is true exactly if asked lines are missing) and
`ReadingOnContinues`. `SliceIs` says what a slice is; the rest is arithmetic on its bounds.
A negative `end_line` is excluded, as it counts from the back and is reported as it came.

`BaselineProofs`, for every set of cases, every list, and every number of runs: `IInv` adds to the
properties that the id that goes on is that of the first answer (`ContinuedIsFirst`), that as long
as no write failed every result is on disk unless a later one of its case took its place
(`ReportsStand`; it is what `Finish` needs to make a table that agrees), that a running invocation's directory is unfinished
(`Open`), and that run k of the script writes in directory k and those before it are complete
(`ScriptRuns`). Theorems: `SessionIsEchoed`, `TableIsOfReports`, `MeasuredIsOnDisk`
(`ResultsOnDisk`), `OnlyCompleteIsChecked`, `TypeCorrect`, and `EachIsTakenOnce` (`NothingIsRepeated`), which needs that the script counts no
further than N (`WithinRuns`).

Only model-checked: liveness (`EveryRunEnds`, `ClientsAreAnswered`, `InvocationEnds`,
`ScriptEnds`). It rests on fairness, hence on `ENABLED`, which the prover does not handle. For
runs, truncation and the evaluation the half without fairness is proved: every step shortens what
is left. What remains to TLC is that a next step is always enabled. All other properties of
passing runs are theorems.

## 5. Not modelled

Authentication (a decision on one header) and the parser of logs (a pure function of a string).
Of the path guard, how a path is found to be outside, secret or a link: `Tools` has the order of
the decisions, over those attributes. The constant answer of `get_environment_info`, the texts of
prompts and reports, the gateway's headers for the in-house hub and its usage numbers. In the
evaluation, injecting, triggering and judging are I/O: their outcomes are all possible, and scores
are counted, not computed. The further counts of the script's check only word its summary.
`SQLiteSessionStore.delete`, `InMemorySessionStore` and `SQLiteKBStore.get` have no caller in
the service. LangGraph's recursion limit: a run of `max_iters` iterations takes
`2 * max_iters + 2` supersteps, 42 by default, and the library's default limit is 25 in older and
much higher in newer versions, both of which `pyproject.toml` admits. The models assume a limit that
is not reached; reaching it would be another way to "aborted". `RunIsShortened` proves the number of steps.

## 6. Plan

`KnowledgeBase` composed with `AnalyzeEndpoint`: crashes between the two stores, and a stale
report of a later turn that is archived and found.
