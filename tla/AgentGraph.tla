----------------------------- MODULE AgentGraph -----------------------------
(***************************************************************************)
(* One turn of a conversation: the run of the agent graph for a message,   *)
(* interactive or in the background, and the runs that continue it after   *)
(* the user has confirmed a tool call. The graph's nodes, the planner's    *)
(* order, the executor's checks and its audit, the pages fetched for a     *)
(* search and the choice of an answer are modelled; the message is the set *)
(* of things it asks for.                                                  *)
(*                                                                         *)
(* Each step ends at an await of the code. In between the registry of MCP  *)
(* tools may be replaced by a refresh, and the run may be stopped by a     *)
(* disconnect, a cancellation, its time budget or an error.                *)
(***************************************************************************)
EXTENDS ModelStream, Sequences

CONSTANTS
    Messages,       \* the messages to try: sets of Intents
    Registries,     \* the registries to try: functions from Tools to Manifests
    MaxRounds,      \* max_tool_rounds
    Pages,          \* how many pages a search result may name (at most 3 are used)
    MaxRefreshes    \* bound: refreshes of the registry in a turn

\* Tool families the planner tells apart. "other" is any other MCP tool that
\* the message names.
McpTools == {"github", "fetch", "huggingface", "other"}
LocalTools == {"read_file", "web_search"}
Tools == McpTools \cup LocalTools

\* What the registry says of a tool: not there, disabled, free to run, or
\* only after confirmation. Fetch, GitHub and Hugging Face have permission
\* "network" and so are never free; disabled MCP tools are not registered.
Manifests == {"absent", "off", "free", "guarded"}
MayBe(t) == CASE t \in LocalTools -> Manifests
              [] t = "other" -> {"absent", "free", "guarded"}
              [] OTHER -> {"absent", "guarded"}

\* "url" is any link, "fetch" words that ask to read it, "hub" a Hugging Face
\* question that selects no tool.
Intents == {"github", "read_file", "url", "fetch", "huggingface", "hub",
            "web_search", "inventory", "other"}

ASSUME GraphParameters ==
    /\ Messages \subseteq SUBSET Intents
    /\ \A r \in Registries : r \in [Tools -> Manifests] /\ \A t \in Tools : r[t] \in MayBe(t)
    /\ MaxRounds \in Nat /\ Pages \in Nat /\ MaxRefreshes \in Nat

VARIABLES
    registry, refreshes,
    mode,       \* "chat", "task" (chat graph in the background) or "confirmed"
    asks,       \* what the message asks for
    node,       \* the node that runs
    conv,       \* the conversation row: "missing", "flushed" or "stored"
    rounds, plan, calls, targets,   \* tool_rounds, plan, tool_calls, search_fetch_targets
    approved,   \* confirmed_tool_name, and confirmed_search_target as a page
    job,        \* the executor's call in progress
    answer,     \* final_answer
    saved,      \* what the turn saved: "user", "assistant", "approval"
    outcome,    \* how the run ended
    sent, rows  \* history of the turn: calls handed over, audit rows committed

graph == <<node, conv, rounds, plan, calls, targets, job>>
ends == <<answer, saved, outcome>>
history == <<sent, rows>>
turn == <<mode, asks, approved>>
world == <<registry, refreshes>>
vars == <<world, turn, graph, ends, history, streamVars>>

\* A plan says whether to ask; "seen" is what the registry said when it was made.
NoPlan == [tool |-> "none", guarded |-> FALSE, seen |-> "absent"]
Plans == {NoPlan} \cup [tool : Tools, guarded : BOOLEAN, seen : Manifests]
NoCall == [tool |-> "none", page |-> 0]
NoJob == [step |-> "none"]
Statuses == {"success", "failed", "blocked", "timeout", "missing"}

Running == outcome = "running"
At(n) == Running /\ node = n

TypeOK ==
    /\ StreamTypeOK
    /\ registry \in [Tools -> Manifests] /\ refreshes \in 0..MaxRefreshes
    /\ mode \in {"chat", "task", "confirmed"} /\ asks \subseteq Intents
    /\ conv \in {"missing", "flushed", "stored"}
    /\ rounds \in Nat /\ plan \in Plans
    /\ calls \in Seq([tool : Tools, page : 0..Pages, guarded : BOOLEAN,
                      mcp : BOOLEAN, status : Statuses])
    /\ targets \in Seq(1..Pages)
    /\ answer \in {"none", "inventory", "failure", "degraded", "model", "blank",
                   "tool", "canned", "crashed"}
    /\ saved \subseteq {"user", "assistant", "approval"}
    /\ outcome \in {"running", "done", "error", "gone"}

Init ==
    /\ StreamInit
    /\ registry \in Registries /\ refreshes = 0
    /\ mode \in {"chat", "task"} /\ asks \in Messages /\ approved = NoCall
    /\ node = "ensure_conversation" /\ conv \in {"missing", "stored"}
    /\ rounds = 0 /\ plan = NoPlan /\ calls = <<>> /\ targets = <<>> /\ job = NoJob
    /\ answer = "none" /\ saved = {} /\ outcome = "running"
    /\ sent = <<>> /\ rows = <<>>

-----------------------------------------------------------------------------
(* Planning.                                                               *)

Use(t) == [tool |-> t, guarded |-> registry[t] = "guarded", seen |-> registry[t]]
UseIfThere(t) == IF registry[t] = "absent" THEN NoPlan ELSE Use(t)

\* The branches of _plan_next_step in their order; the first that settles the
\* matter decides, with a tool or without.
Branches == <<"github", "read_file", "url", "huggingface", "hub", "web_search",
              "inventory", "other">>

Settles(i) ==
    /\ i \in asks
    /\ i = "url" => registry["fetch"] # "absent" \/ "fetch" \in asks
    /\ i = "hub" => registry["huggingface"] = "absent"
    /\ i = "other" => registry["other"] # "absent"

PlanFor(i) ==
    CASE i \in {"github", "huggingface"} -> UseIfThere(i)
      [] i = "url" -> UseIfThere("fetch")
      [] i \in {"read_file", "web_search", "other"} -> Use(i)
      [] OTHER -> NoPlan

AlreadyCalledButSearch ==
    \E k \in DOMAIN calls : calls[k].tool \notin {"web_search", "other"}

\* The tests _plan_next_step begins with. They do not look for other tools.
AlreadyCalled == \E k \in DOMAIN calls : calls[k].tool # "other"

NextPlan ==
    LET first == {k \in DOMAIN Branches :
                    Settles(Branches[k]) /\ \A j \in 1..(k - 1) : ~Settles(Branches[j])}
    IN  IF AlreadyCalled \/ first = {} THEN NoPlan
        ELSE PlanFor(Branches[CHOOSE k \in first : TRUE])

\* A Hugging Face question, with or without a tool that suits it.
AsksHub == asks \cap {"huggingface", "hub"} # {}

\* _plan_early_confirmable_tool: links whose tool needs confirmation skip the
\* retrieval, Hugging Face questions do not.
EarlyPlan ==
    LET p == CASE "github" \in asks -> UseIfThere("github")
               [] "github" \notin asks /\ ~AsksHub /\ Settles("url") -> UseIfThere("fetch")
               [] OTHER -> NoPlan
    IN  IF p.guarded THEN p ELSE NoPlan

\* A confirmed plan is not asked about again.
ConfirmedPlan == [Use(approved.tool) EXCEPT !.guarded = FALSE]

-----------------------------------------------------------------------------
(* Nodes up to the plan.                                                   *)

\* A conversation that is not there, or not the user's, is created but only
\* flushed.
EnsureConversation ==
    /\ At("ensure_conversation")
    /\ conv' = IF conv = "missing" THEN "flushed" ELSE conv
    /\ node' = "load_context"
    /\ UNCHANGED <<world, turn, rounds, plan, calls, targets, job, ends, history, streamVars>>

\* History, summaries and, for a new conversation, its title, which commits.
LoadContext ==
    /\ At("load_context")
    /\ conv' = "stored"
    /\ node' = IF mode = "confirmed" THEN "plan" ELSE "save_user_message"
    /\ UNCHANGED <<world, turn, rounds, plan, calls, targets, job, ends, history, streamVars>>

SaveUserMessage ==
    /\ At("save_user_message")
    /\ saved' = saved \cup {"user"}
    /\ node' = "preflight"
    /\ UNCHANGED <<world, turn, conv, rounds, plan, calls, targets, job, answer, outcome,
                   history, streamVars>>

Preflight ==
    /\ At("preflight")
    /\ plan' = EarlyPlan
    /\ node' = IF plan'.guarded THEN "execute_tool" ELSE "retrieve_context"
    /\ UNCHANGED <<world, turn, conv, rounds, calls, targets, job, ends, history, streamVars>>

\* Citations, resources and prompts; a time-out goes on without them.
RetrieveContext ==
    /\ At("retrieve_context")
    /\ node' = "plan"
    /\ UNCHANGED <<world, turn, conv, rounds, plan, calls, targets, job, ends, history,
                   streamVars>>

Plan ==
    /\ At("plan")
    /\ plan' = CASE mode = "confirmed" -> ConfirmedPlan
                 [] mode # "confirmed" /\ rounds >= MaxRounds -> NoPlan
                 [] OTHER -> NextPlan
    /\ node' = IF plan' = NoPlan THEN "generate_answer" ELSE "execute_tool"
    /\ UNCHANGED <<world, turn, conv, rounds, calls, targets, job, ends, history, streamVars>>

-----------------------------------------------------------------------------
(* The executor and the pages of a search.                                 *)

\* A call in progress: what it is, the manifest it was looked up with, and
\* whether it is one of the loop over search results.
Call(t, page, guarded, mcp) == [tool |-> t, page |-> page, guarded |-> guarded, mcp |-> mcp]
Job(step, call, kind, loop, status) ==
    [step |-> step, call |-> call, kind |-> kind, loop |-> loop, status |-> status]
Row(call, status) == [tool |-> call.tool, page |-> call.page, status |-> status]
Result(call, status) ==
    [tool |-> call.tool, page |-> call.page, guarded |-> call.guarded, mcp |-> call.mcp,
     status |-> status]

Refused(call, kind, loop, status) ==
    job' = Job("auditing", call, kind, loop, status) /\ UNCHANGED sent

\* The arguments do not fit the tool's schema, whatever it is.
BadArguments(call, kind, loop) == Refused(call, kind, loop, "failed")

\* ToolExecutor.run up to the dispatch: a disabled tool, a missing
\* confirmation, bad arguments or a lost lease end in an audit row at once.
RunExecutor(call, kind, seen, confirmed, loop) ==
    LET allowed == kind = "free" \/ (kind = "guarded" /\ confirmed)
    IN  \/ kind = "off" /\ Refused(call, kind, loop, "failed")
        \/ kind = "guarded" /\ ~confirmed /\ Refused(call, kind, loop, "blocked")
        \/ allowed /\ BadArguments(call, kind, loop)
        \/ /\ allowed
           /\ job' = Job("calling", call, kind, loop, "none")
           /\ sent' = Append(sent, [tool |-> call.tool, page |-> call.page, kind |-> kind,
                                    consent |-> mode = "confirmed" /\ ~loop,
                                    seen |-> seen])

\* _execute_tool_plan looks the tool up anew, but takes the confirmation from
\* the plan. The page is that of a confirmed search target.
ExecutePlan ==
    LET call == Call(plan.tool, approved.page, plan.guarded,
                     plan.tool \in McpTools /\ plan.seen # "absent")
    IN
    /\ At("execute_tool") /\ job = NoJob
    /\ IF registry[plan.tool] = "absent"
       THEN /\ calls' = Append(calls, Result(call, "missing"))
            /\ job' = Job("finished", call, "absent", FALSE, "missing")
            /\ UNCHANGED sent
       ELSE RunExecutor(call, registry[plan.tool], plan.seen, ~plan.guarded, FALSE) /\ UNCHANGED calls
    /\ UNCHANGED <<world, turn, node, conv, rounds, plan, targets, ends, rows, streamVars>>

\* The result, an error, an MCP error result or the tool's time limit.
Endings == {"success", "failed", "timeout"}

ToolReturns ==
    /\ Running /\ job.step = "calling"
    /\ \E status \in Endings :
          job' = [job EXCEPT !.step = "auditing", !.status = status]
    /\ UNCHANGED <<world, turn, node, conv, rounds, plan, calls, targets, ends, history,
                   streamVars>>

\* The audit row is committed before anybody sees the result.
RecordAudit ==
    /\ Running /\ job.step = "auditing"
    /\ rows' = Append(rows, Row(job.call, job.status))
    /\ calls' = Append(calls, Result(job.call, job.status))
    /\ job' = [job EXCEPT !.step = IF job.loop /\ job.status # "blocked"
                                   THEN "fetching" ELSE "finished"]
    /\ UNCHANGED <<world, turn, node, conv, rounds, plan, targets, ends, sent, streamVars>>

LastCall == calls[Len(calls)]

\* _search_results_fallback_answer: a search that worked, pages that did not.
SearchDegraded ==
    LET pages == {k \in DOMAIN calls : calls[k].page > 0} IN
    /\ \E k \in DOMAIN calls : calls[k].tool = "web_search" /\ calls[k].status = "success"
    /\ pages # {}
    /\ \A k \in pages : calls[k].status # "success"

RouteToPlanner == IF mode = "confirmed" THEN "generate_answer" ELSE "plan"

\* _route_after_execute_tool
RouteAfterExecute ==
    IF LastCall.guarded /\ LastCall.status = "blocked" THEN "await_confirmation"
    ELSE IF mode = "confirmed" THEN "generate_answer" ELSE "plan"

LeaveExecute ==
    /\ rounds' = rounds + 1
    /\ job' = NoJob
    /\ node' = RouteAfterExecute

\* A search that worked goes on to the pages it names, a confirmed page to the
\* pages behind it, if there is a tool to fetch them with.
Searched == LastCall.tool = "web_search" /\ LastCall.status = "success"
PageDone == ~Searched /\ LastCall.page > 0 /\ ~job.loop

StartFetching ==
    /\ At("execute_tool") /\ job.step = "finished"
    /\ registry["fetch"] # "absent"
    /\ \/ Searched /\ \E n \in 1..Pages : targets' = [k \in 1..n |-> k]
       \/ PageDone /\ UNCHANGED targets
    /\ job' = [job EXCEPT !.step = "fetching", !.kind = registry["fetch"], !.loop = TRUE]
    /\ UNCHANGED <<world, turn, node, conv, rounds, plan, calls, ends, history, streamVars>>

NothingToFetchButUrls == ~Searched /\ (PageDone => registry["fetch"] = "absent")

\* No URL among the results, no page left to continue with, or no tool for it.
NothingToFetch == PageDone => registry["fetch"] = "absent"

ExecuteEnds ==
    /\ At("execute_tool") /\ job.step = "finished"
    /\ NothingToFetch
    /\ targets' = IF PageDone THEN <<>> ELSE targets
    /\ LeaveExecute
    /\ UNCHANGED <<world, turn, conv, plan, calls, ends, history, streamVars>>

FetchConfirmed == TRUE

\* The search's pages are not covered by the confirmation of the search.
FetchUnconfirmed == FALSE

\* _fetch_search_targets keeps the tool it found when it began.
FetchPage ==
    /\ At("execute_tool") /\ job.step = "fetching" /\ targets # <<>>
    /\ targets' = Tail(targets)
    /\ RunExecutor(Call("fetch", Head(targets), job.kind = "guarded", TRUE),
                   job.kind, job.kind, FetchUnconfirmed, TRUE)
    /\ UNCHANGED <<world, turn, node, conv, rounds, plan, calls, ends, rows, streamVars>>

\* All pages tried: if none could be read the answer is made of the snippets.
FetchingEnds ==
    /\ At("execute_tool") /\ job.step = "fetching" /\ targets = <<>>
    /\ answer' = IF SearchDegraded THEN "degraded" ELSE answer
    /\ LeaveExecute
    /\ UNCHANGED <<world, turn, conv, plan, calls, targets, saved, outcome, history, streamVars>>

-----------------------------------------------------------------------------
(* The end of a run.                                                       *)

\* In the background the block is only reported.
AwaitConfirmation ==
    /\ At("await_confirmation")
    /\ saved' = IF mode = "task" THEN saved ELSE saved \cup {"approval"}
    /\ outcome' = "done"
    /\ UNCHANGED <<world, turn, graph, answer, history, streamVars>>

\* The message asks which tools there are.
AsksInventory == "inventory" \in asks

\* _tool_failure_answer: an MCP tool or a search that failed is admitted, not
\* papered over by the model.
FailureAdmitted ==
    /\ LastCall.status # "success"
    /\ (LastCall.mcp /\ LastCall.page = 0) \/ LastCall.tool = "web_search"

RuntimeAnswer ==
    IF answer # "none" THEN answer
    ELSE IF calls = <<>> THEN IF AsksInventory THEN "inventory" ELSE "none"
    ELSE IF SearchDegraded THEN "degraded"
    ELSE IF FailureAdmitted THEN "failure" ELSE "none"

GenerateAnswer ==
    /\ At("generate_answer")
    /\ answer' = RuntimeAnswer
    /\ IF answer' = "none" THEN node' = "streaming" /\ OpenStream
       ELSE node' = "save_assistant_message" /\ UNCHANGED streamVars
    /\ UNCHANGED <<world, turn, conv, rounds, plan, calls, targets, job, saved, outcome, history>>

Streaming ==
    /\ At("streaming")
    /\ StreamStep
    /\ UNCHANGED <<world, turn, graph, ends, history>>

\* _successful_tool_fallback_answer on an answer that was nothing but tool
\* markup. AgentRuntime overrides _tool_output_text, so that the text of any
\* tool but read_file is asked of an object without it, which raises.
Fallbacks ==
    LET good == {k \in DOMAIN calls : calls[k].status = "success"}
        last == CHOOSE k \in good : \A j \in good : j <= k
    IN  IF good = {} THEN {"canned"}
        ELSE IF calls[last].tool = "read_file" THEN {"tool", "canned"} ELSE {"crashed"}

\* _generate_answer collects everything before it looks at it.
AnswerCollected ==
    /\ At("streaming") /\ stream = "whole"
    /\ answer' \in IF emitters = {} THEN {"blank"} ELSE {"model"} \cup Fallbacks
    /\ IF answer' = "crashed" THEN outcome' = "error" /\ UNCHANGED node
       ELSE node' = "save_assistant_message" /\ UNCHANGED outcome
    /\ UNCHANGED <<world, turn, conv, rounds, plan, calls, targets, job, saved, history, streamVars>>

ModelFails ==
    /\ At("streaming") /\ stream = "failed"
    /\ outcome' = "error"
    /\ UNCHANGED <<world, turn, graph, answer, saved, history, streamVars>>

SaveAssistantMessage ==
    /\ At("save_assistant_message")
    /\ saved' = saved \cup {"assistant"}
    /\ node' = "update_memory"
    /\ UNCHANGED <<world, turn, conv, rounds, plan, calls, targets, job, answer, outcome,
                   history, streamVars>>

\* Compaction, see MemoryCompaction, then the done event.
UpdateMemory ==
    /\ At("update_memory")
    /\ outcome' = "done"
    /\ UNCHANGED <<world, turn, graph, answer, saved, history, streamVars>>

\* A disconnect, a cancellation, the run's time budget or an error of the
\* database. A call on the wire leaves a row "interrupted", written in a shield
\* that may fail too; a row being committed may or may not get there.
Stop ==
    /\ Running
    /\ outcome' \in {"error", "gone"}
    /\ \/ UNCHANGED rows
       \/ /\ job.step \in {"calling", "auditing"}
          /\ rows' = Append(rows, Row(job.call, IF job.step = "calling" THEN "interrupted"
                                                ELSE job.status))
    /\ job' = NoJob
    /\ UNCHANGED <<world, turn, node, conv, rounds, plan, calls, targets, answer, saved, sent,
                   streamVars>>

ContinuationForgets == <<>>

\* ToolApprovalStore.create stores the calls but the blocked one.
Continuation == SubSeq(calls, 1, Len(calls) - 1)

\* The user confirms the pending call; ToolApprovals has the races for it.
Confirm ==
    /\ outcome = "done" /\ "approval" \in saved
    /\ mode' = "confirmed" /\ approved' = [tool |-> LastCall.tool, page |-> LastCall.page]
    /\ node' = "load_context"
    /\ calls' = Continuation
    /\ rounds' = 0 /\ plan' = NoPlan /\ answer' = "none" /\ outcome' = "running"
    /\ saved' = saved \ {"approval"}
    /\ UNCHANGED <<world, asks, conv, targets, job, history, streamVars>>

\* CompositeToolRegistry.refresh_mcp_tools replaces the MCP tools in one step.
Refresh ==
    /\ refreshes < MaxRefreshes
    /\ refreshes' = refreshes + 1
    /\ registry' \in {r \in Registries \ {registry} :
                        \A t \in LocalTools : r[t] = registry[t]}
    /\ UNCHANGED <<turn, graph, ends, history, streamVars>>

RunStep ==
    \/ EnsureConversation \/ LoadContext \/ SaveUserMessage \/ Preflight
    \/ RetrieveContext \/ Plan
    \/ ExecutePlan \/ ToolReturns \/ RecordAudit
    \/ StartFetching \/ FetchPage \/ FetchingEnds \/ ExecuteEnds
    \/ AwaitConfirmation \/ GenerateAnswer \/ Streaming \/ AnswerCollected \/ ModelFails
    \/ SaveAssistantMessage \/ UpdateMemory

Next == RunStep \/ Stop \/ Confirm \/ Refresh

Spec == Init /\ [][Next]_vars

\* Every await of a run has a time limit of its own, and the run has one.
Fairness == WF_vars(RunStep)

FairSpec == Spec /\ Fairness

-----------------------------------------------------------------------------
(* Properties.                                                             *)

\* A tool that requires confirmation is handed over only when the user
\* confirmed that very call, or when it did not require it yet at the time it
\* was planned: neither the confirmation of a search nor that of another page
\* covers it.
GuardedCallsHaveConsent ==
    \A k \in DOMAIN sent : sent[k].kind = "guarded" => sent[k].consent \/ sent[k].seen # "guarded"

\* Over all rounds of a run and all confirmed runs that continue it, a tool the
\* planner knows is called once and a page of a search is fetched once.
KnownToolsCalledOnce ==
    \A j, k \in DOMAIN sent :
        j # k /\ sent[j].tool = sent[k].tool /\ sent[j].page = sent[k].page
            => sent[k].tool = "other"

\* Beside the pages of a search, a turn makes at most max_tool_rounds calls,
\* although a confirmation starts a run that counts from 0 again and although
\* the preflight does not look at the limit (it may block one call).
CallsWithinRounds ==
    LET direct == {k \in DOMAIN sent : sent[k].page = 0}
    IN  Cardinality(direct) <= IF MaxRounds = 0 THEN 1 ELSE MaxRounds

\* The calls of a turn are limited in both ways.
CallsAreLimited == TypeOK /\ KnownToolsCalledOnce /\ CallsWithinRounds

\* When a run reports "done", what it shows of the turn's tool calls is what
\* the audit has of them: every call that was handed over has its row, and a
\* confirmed run has not lost what was found before it.
Times(seq, row) ==
    Cardinality({k \in DOMAIN seq : Row(seq[k], seq[k].status) = row})
DoneMatchesAudit ==
    outcome = "done" =>
        \A t \in Tools, p \in 0..Pages, s \in Statuses \ {"missing", "blocked"} :
            LET row == [tool |-> t, page |-> p, status |-> s]
            IN  Times(calls, row) = Times(rows, row)

\* A run that reports "done" has left exactly one thing the user can go on
\* from: its answer or, if a call was blocked, the approval (in the background
\* the report itself), in a conversation that is stored.
DoneHasItsTrace ==
    outcome = "done" =>
        /\ conv = "stored" /\ "user" \in saved
        /\ saved \ {"user"} =
              IF calls # <<>> /\ LastCall.status = "blocked"
              THEN IF mode = "task" THEN {} ELSE {"approval"}
              ELSE {"assistant"}

\* The text collected from the model is that of one attempt: no retry repeats
\* what an earlier attempt had passed on.
TextOfOneAttempt == emitters \subseteq {attempt}

\* Every run ends, whatever it plans and whatever it waits for.
EveryRunEnds == Running ~> ~Running

\* An answer that is nothing but tool markup is replaced by the result of the
\* tool that was called, not by an error.
MarkupFallsBackToResult == answer # "crashed"
=============================================================================
