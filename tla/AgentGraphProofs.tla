-------------------------- MODULE AgentGraphProofs --------------------------
(***************************************************************************)
(* Theorems about AgentGraph, for every registry, message and limit.       *)
(***************************************************************************)
EXTENDS AgentGraph, FiniteSetTheorems, SequenceTheorems, TLAPS

\* The type of the request to the model, and that its text is of one attempt.
StreamInv == StreamTypeOK /\ TextOfOneAttempt

-----------------------------------------------------------------------------

\* A request to the model keeps the invariant in each of its steps: it is tried
\* again only while no attempt has passed anything on.
LEMMA StreamStepKeeps == StreamInv /\ StreamStep => StreamInv'
<1> SUFFICES ASSUME StreamInv, StreamStep PROVE StreamInv'
  OBVIOUS
<1> USE RetriesAssumption DEF StreamInv, StreamTypeOK, TextOfOneAttempt
<1>1. CASE Token
  BY <1>1 DEF Token
<1>2. CASE Completed
  BY <1>2 DEF Completed
<1>3. CASE ConnectionBreaks
  BY <1>3 DEF ConnectionBreaks, MayTryAgain
<1>4. CASE BadResponse
  BY <1>4 DEF BadResponse
<1>5. CASE Overdue
  BY <1>5 DEF Overdue
<1> QED
  BY <1>1, <1>2, <1>3, <1>4, <1>5 DEF StreamStep

\* Of the steps of a turn, only Streaming and GenerateAnswer, which opens a new
\* request, touch the request to the model.
LEMMA StreamNext == StreamInv /\ [Next]_vars => StreamInv'
<1> SUFFICES ASSUME StreamInv, [Next]_vars PROVE StreamInv'
  OBVIOUS
<1>0. ASSUME UNCHANGED streamVars PROVE StreamInv'
  BY <1>0 DEF streamVars, StreamInv, StreamTypeOK, TextOfOneAttempt
<1>1. CASE Streaming
  BY <1>1, StreamStepKeeps DEF Streaming
<1>2. CASE GenerateAnswer
  <2>1. CASE OpenStream
    BY <2>1, RetriesAssumption DEF OpenStream, StreamInv, StreamTypeOK, TextOfOneAttempt
  <2> QED
    BY <1>0, <1>2, <2>1 DEF GenerateAnswer
<1>3. CASE EnsureConversation \/ LoadContext \/ SaveUserMessage \/ Preflight
             \/ RetrieveContext \/ Plan
  BY <1>0, <1>3 DEF EnsureConversation, LoadContext, SaveUserMessage, Preflight,
     RetrieveContext, Plan
<1>4. CASE ExecutePlan \/ ToolReturns \/ RecordAudit \/ StartFetching \/ FetchPage
             \/ FetchingEnds \/ ExecuteEnds
  BY <1>0, <1>4 DEF ExecutePlan, ToolReturns, RecordAudit, StartFetching, FetchPage,
     FetchingEnds, ExecuteEnds
<1>5. CASE AwaitConfirmation \/ AnswerCollected \/ ModelFails \/ SaveAssistantMessage
             \/ UpdateMemory
  BY <1>0, <1>5 DEF AwaitConfirmation, AnswerCollected, ModelFails, SaveAssistantMessage,
     UpdateMemory
<1>6. CASE Stop \/ Confirm \/ Refresh
  BY <1>0, <1>6 DEF Stop, Confirm, Refresh
<1>7. CASE UNCHANGED vars
  BY <1>0, <1>7 DEF vars
<1> QED
  BY <1>1, <1>2, <1>3, <1>4, <1>5, <1>6, <1>7 DEF Next, RunStep

\* The text collected from the model is that of one attempt, for any number of
\* retries and through any number of confirmed runs (ModelGateway.stream_reply).
THEOREM TextIsOfOneAttempt == Spec => []TextOfOneAttempt
<1>1. Init => StreamInv
  BY RetriesAssumption DEF Init, StreamInit, StreamInv, StreamTypeOK, TextOfOneAttempt
<1>2. StreamInv /\ [Next]_vars => StreamInv'
  BY StreamNext
<1>3. StreamInv => TextOfOneAttempt
  BY DEF StreamInv
<1> QED
  BY <1>1, <1>2, <1>3, PTL DEF Spec
-----------------------------------------------------------------------------
(* Consent.                                                                *)

\* A plan made from the registry asks for confirmation if the registry said so.
Honest(p) == p.seen = "guarded" => p.guarded = TRUE

SentIsSeq == \E S : sent \in Seq(S)

\* Only the plan of a confirmed run may leave the question out.
ConsentInv ==
    /\ SentIsSeq
    /\ mode # "confirmed" => Honest(plan)
    /\ GuardedCallsHaveConsent

\* Whatever branch the planner takes, its plan is honest.
LEMMA PlansAreHonest ==
    Honest(NoPlan) /\ Honest(NextPlan) /\ Honest(EarlyPlan)
<1>1. Honest(NoPlan)
  BY DEF Honest, NoPlan
<1>2. ASSUME NEW t PROVE Honest(Use(t))
  BY DEF Honest, Use
<1>3. ASSUME NEW t PROVE Honest(UseIfThere(t))
  BY <1>1, <1>2 DEF UseIfThere
<1>4. ASSUME NEW i PROVE Honest(PlanFor(i))
  <2>1. CASE i \in {"github", "huggingface"}
    BY <1>3, <2>1 DEF PlanFor
  <2>2. CASE i = "url"
    BY <1>3, <2>2 DEF PlanFor
  <2>3. CASE i \in {"read_file", "web_search", "other"}
    BY <1>2, <2>3 DEF PlanFor
  <2>4. CASE i \notin {"github", "huggingface", "url", "read_file", "web_search", "other"}
    BY <1>1, <2>4 DEF PlanFor
  <2> QED
    BY <2>1, <2>2, <2>3, <2>4
<1>5. Honest(NextPlan)
  BY <1>1, <1>4 DEF NextPlan
<1>6. Honest(EarlyPlan)
  <2> DEFINE p == CASE "github" \in asks -> UseIfThere("github")
                    [] "github" \notin asks /\ ~AsksHub /\ Settles("url") -> UseIfThere("fetch")
                    [] OTHER -> NoPlan
  <2>1. Honest(p)
    <3>1. CASE "github" \in asks
      BY <1>3, <3>1
    <3>2. CASE "github" \notin asks /\ ~AsksHub /\ Settles("url")
      BY <1>3, <3>2
    <3>3. CASE ~("github" \in asks) /\ ~("github" \notin asks /\ ~AsksHub /\ Settles("url"))
      BY <1>1, <3>3
    <3> QED
      BY <3>1, <3>2, <3>3
  <2>2. EarlyPlan = p \/ EarlyPlan = NoPlan
    BY DEF EarlyPlan
  <2> QED
    BY <1>1, <2>1, <2>2
<1> QED
  BY <1>1, <1>5, <1>6

\* Appending a record that has consent, or needs none, keeps what is said of sent.
LEMMA AppendConsented ==
    ASSUME SentIsSeq, GuardedCallsHaveConsent, NEW r, sent' = Append(sent, r),
           r.kind = "guarded" => r.consent \/ r.seen # "guarded"
    PROVE  SentIsSeq' /\ GuardedCallsHaveConsent'
<1>1. PICK S : sent \in Seq(S)
  BY DEF SentIsSeq
<1>2. sent \in Seq(S \cup {r})
  BY <1>1, SeqDef
<1>3. /\ sent' \in Seq(S \cup {r})
      /\ DOMAIN sent' = 1..(Len(sent) + 1) /\ DOMAIN sent = 1..Len(sent)
      /\ \A k \in 1..Len(sent) : sent'[k] = sent[k]
      /\ sent'[Len(sent) + 1] = r /\ Len(sent) \in Nat
  BY <1>2
<1> QED
  BY <1>3 DEF SentIsSeq, GuardedCallsHaveConsent

LEMMA ConsentNext == ConsentInv /\ [Next]_vars => ConsentInv'
<1> SUFFICES ASSUME ConsentInv, [Next]_vars PROVE ConsentInv'
  OBVIOUS
<1>0. ASSUME UNCHANGED sent PROVE SentIsSeq' /\ GuardedCallsHaveConsent'
  BY <1>0 DEF ConsentInv, SentIsSeq, GuardedCallsHaveConsent
<1>1. ASSUME UNCHANGED <<mode, plan, sent>> PROVE ConsentInv'
  BY <1>0, <1>1 DEF ConsentInv, Honest
<1>2. CASE Preflight \/ Plan
  <2>1. UNCHANGED sent /\ UNCHANGED mode
    BY <1>2 DEF Preflight, Plan, history, turn
  <2>2. mode # "confirmed" => plan' \in {NoPlan, NextPlan, EarlyPlan}
    <3>1. CASE Preflight
      BY <3>1 DEF Preflight
    <3>2. CASE Plan
      BY <3>2, Zenon DEF Plan
    <3> QED
      BY <1>2, <3>1, <3>2
  <2>3. mode # "confirmed" => Honest(plan')
    BY <2>2, PlansAreHonest DEF Honest
  <2> QED
    BY <1>0, <2>1, <2>3 DEF ConsentInv, Honest
<1>3. CASE ExecutePlan
  <2>1. UNCHANGED <<mode, plan>>
    BY <1>3 DEF ExecutePlan, turn
  <2>2. CASE UNCHANGED sent
    BY <1>1, <2>1, <2>2
  <2>3. CASE ~UNCHANGED sent
    <3> DEFINE kind == registry[plan.tool]
    <3>1. PICK call : RunExecutor(call, kind, plan.seen, ~plan.guarded, FALSE)
      BY <1>3, <2>3 DEF ExecutePlan
    <3> DEFINE r == [tool |-> call.tool, page |-> call.page, kind |-> kind,
                     consent |-> mode = "confirmed" /\ ~FALSE, seen |-> plan.seen]
    <3>2. sent' = Append(sent, r) /\ (kind = "free" \/ (kind = "guarded" /\ ~plan.guarded))
      BY <3>1, <2>3 DEF RunExecutor, Refused, BadArguments
    <3>3. r.kind = "guarded" => r.consent \/ r.seen # "guarded"
      BY <3>2 DEF ConsentInv, Honest
    <3>4. SentIsSeq' /\ GuardedCallsHaveConsent'
      BY <3>2, <3>3, AppendConsented DEF ConsentInv
    <3> QED
      BY <2>1, <3>4 DEF ConsentInv, Honest
  <2> QED
    BY <2>2, <2>3
<1>4. CASE FetchPage
  <2>1. UNCHANGED <<mode, plan>>
    BY <1>4 DEF FetchPage, turn
  <2>2. CASE UNCHANGED sent
    BY <1>1, <2>1, <2>2
  <2>3. CASE ~UNCHANGED sent
    <3>1. PICK call : RunExecutor(call, job.kind, job.kind, FetchUnconfirmed, TRUE)
      BY <1>4 DEF FetchPage
    <3> DEFINE r == [tool |-> call.tool, page |-> call.page, kind |-> job.kind,
                     consent |-> mode = "confirmed" /\ ~TRUE, seen |-> job.kind]
    <3>2. sent' = Append(sent, r) /\ job.kind = "free"
      BY <3>1, <2>3 DEF RunExecutor, Refused, BadArguments, FetchUnconfirmed
    <3>3. r.kind = "guarded" => r.consent \/ r.seen # "guarded"
      BY <3>2
    <3>4. SentIsSeq' /\ GuardedCallsHaveConsent'
      BY <3>2, <3>3, AppendConsented DEF ConsentInv
    <3> QED
      BY <2>1, <3>4 DEF ConsentInv, Honest
  <2> QED
    BY <2>2, <2>3
<1>5. CASE Confirm
  BY <1>0, <1>5 DEF Confirm, history, ConsentInv
<1>6. CASE EnsureConversation \/ LoadContext \/ SaveUserMessage \/ RetrieveContext
  BY <1>1, <1>6 DEF EnsureConversation, LoadContext, SaveUserMessage, RetrieveContext,
     turn, history
<1>7. CASE ToolReturns \/ RecordAudit \/ StartFetching \/ FetchingEnds \/ ExecuteEnds
  BY <1>1, <1>7 DEF ToolReturns, RecordAudit, StartFetching, FetchingEnds, ExecuteEnds,
     turn, history
<1>8. CASE AwaitConfirmation \/ GenerateAnswer \/ Streaming \/ AnswerCollected \/ ModelFails
             \/ SaveAssistantMessage \/ UpdateMemory
  BY <1>1, <1>8 DEF AwaitConfirmation, GenerateAnswer, Streaming, AnswerCollected, ModelFails,
     SaveAssistantMessage, UpdateMemory, turn, graph, history
<1>9. CASE Stop \/ Refresh
  BY <1>1, <1>9 DEF Stop, Refresh, turn, graph, history
<1>10. CASE UNCHANGED vars
  BY <1>1, <1>10 DEF vars, turn, graph, history
<1> QED
  BY <1>2, <1>3, <1>4, <1>5, <1>6, <1>7, <1>8, <1>9, <1>10 DEF Next, RunStep

\* A tool that requires confirmation is handed over only with the user's consent
\* to that call, or if it did not require it yet when it was planned, for all
\* registries, refreshes, messages and searches (ToolExecutor.run,
\* AgentRuntime._execute_tool_plan and _fetch_search_targets).
THEOREM ConsentIsGiven == Spec => []GuardedCallsHaveConsent
<1>1. Init => ConsentInv
  <2> SUFFICES ASSUME Init PROVE ConsentInv
    OBVIOUS
  <2>1. sent = <<>> /\ plan = NoPlan
    BY DEF Init
  <2>2. SentIsSeq
    BY <2>1 DEF SentIsSeq
  <2> QED
    BY <2>1, <2>2, PlansAreHonest DEF ConsentInv, GuardedCallsHaveConsent
<1>2. ConsentInv /\ [Next]_vars => ConsentInv'
  BY ConsentNext
<1>3. ConsentInv => GuardedCallsHaveConsent
  BY DEF ConsentInv
<1> QED
  BY <1>1, <1>2, <1>3, PTL DEF Spec

-----------------------------------------------------------------------------
(* The course of a turn.                                                   *)

Nodes == {"ensure_conversation", "load_context", "save_user_message", "preflight",
          "retrieve_context", "plan", "execute_tool", "await_confirmation",
          "generate_answer", "streaming", "save_assistant_message", "update_memory"}

CallRecords == [tool : Tools, page : 0..Pages, guarded : BOOLEAN, mcp : BOOLEAN]
Results == [tool : Tools, page : 0..Pages, guarded : BOOLEAN, mcp : BOOLEAN, status : Statuses]
SentCalls == [tool : Tools, page : 0..Pages, kind : Manifests, consent : BOOLEAN,
              seen : Manifests]
AuditRows == [tool : Tools, page : 0..Pages, status : Statuses \cup {"interrupted"}]

Jobs == [step : {"calling"}, call : CallRecords, kind : Manifests, loop : BOOLEAN,
         status : {"none"}]
        \cup [step : {"auditing", "fetching", "finished"}, call : CallRecords,
              kind : Manifests, loop : BOOLEAN, status : Statuses]

\* The types that TypeOK leaves out.
RunTyped ==
    /\ node \in Nodes
    /\ job \in {NoJob} \cup Jobs
    /\ approved \in [tool : Tools \cup {"none"}, page : 0..Pages]
    /\ sent \in Seq(SentCalls) /\ rows \in Seq(AuditRows)

\* A run that goes on, or has reported "done". One that was stopped is not
\* continued, and what it leaves behind is not looked at.
Live == outcome \in {"running", "done"}

Fresh == {"ensure_conversation", "load_context", "save_user_message", "preflight"}

\* What has been stored and planned when a node runs.
Course ==
    /\ node \notin {"ensure_conversation", "load_context"} => conv = "stored"
    /\ mode = "confirmed" \/ node \notin Fresh \ {"preflight"} => "user" \in saved
    /\ "assistant" \in saved <=> node = "update_memory"
    /\ "approval" \in saved <=> outcome = "done" /\ node = "await_confirmation" /\ mode # "task"
    /\ outcome = "done" => node \in {"await_confirmation", "update_memory"}
    /\ job # NoJob => node = "execute_tool"
    /\ IF mode = "confirmed" THEN approved.tool \in Tools /\ node \notin Fresh \ {"load_context"}
                                  /\ node # "retrieve_context"
       ELSE approved = NoCall /\ (node \in Fresh => calls = <<>> /\ rounds = 0)
    /\ node = "execute_tool" /\ job = NoJob =>
          /\ plan.tool # "none"
          /\ mode = "confirmed" => plan.tool = approved.tool /\ plan.guarded = FALSE

JobBlocked == job.step \in {"auditing", "finished"} /\ job.status = "blocked"

\* Only the last call may be blocked, and then the run is about to end with the
\* question for it.
Blocked ==
    /\ \A k \in DOMAIN calls : calls[k].status = "blocked" =>
          k = Len(calls) /\ (node = "await_confirmation" \/ (job.step = "finished" /\ JobBlocked))
    /\ node = "await_confirmation" => calls # <<>> /\ LastCall.status = "blocked"
    /\ job.step \in {"finished", "fetching"} => calls # <<>>
    /\ job.step = "finished" => LastCall = Result(job.call, job.status)
    /\ JobBlocked => /\ job.call.guarded = TRUE
                     /\ job.call.page = 0 => mode # "confirmed"
                     /\ job.call.page # 0 => job.loop = TRUE

CourseInv == TypeOK /\ RunTyped /\ (Live => Course /\ Blocked)

Sent(t, p) == \E k \in DOMAIN sent : sent[k].tool = t /\ sent[k].page = p
OnlyOthersSent == \A k \in DOMAIN sent : sent[k].tool = "other"
NoPageSent == \A k \in DOMAIN sent : sent[k].tool = "fetch" => sent[k].page = 0

\* A call that would be the first of its kind.
MayCall(t, p) ==
    t # "other" => IF p = 0 THEN OnlyOthersSent
                   ELSE t = "fetch" /\ ~Sent("fetch", p) /\ \A k \in DOMAIN targets : targets[k] # p

\* The calls that are not handed over yet and may still be: the planned one, the
\* blocked one, the confirmed one and the pages of a search.
ToCome ==
    /\ node = "execute_tool" /\ job = NoJob => MayCall(plan.tool, approved.page)
    /\ JobBlocked => MayCall(job.call.tool, job.call.page)
    /\ node = "await_confirmation" => MayCall(LastCall.tool, LastCall.page)
    /\ mode = "confirmed" /\ node \in {"load_context", "plan"} =>
          MayCall(approved.tool, approved.page)
    /\ \A k \in DOMAIN targets : /\ ~Sent("fetch", targets[k])
                                 /\ \A j \in DOMAIN targets : targets[j] = targets[k] => j = k
    /\ job.step \in {"calling", "auditing", "finished"} /\ job.call.tool = "web_search" =>
          NoPageSent
    /\ /\ mode # "confirmed"
       /\ \A k \in DOMAIN calls : calls[k].tool = "other"
       /\ job.step \in {"calling", "auditing"} => job.call.tool = "other"
       => OnlyOthersSent

OnceInv == KnownToolsCalledOnce /\ (Live => ToCome)

Direct == Cardinality({k \in DOMAIN sent : sent[k].page = 0})
Most == IF MaxRounds = 0 THEN 1 ELSE MaxRounds

\* Room for a call that is no page, where one may still be handed over.
Room ==
    /\ mode # "confirmed" => Direct <= rounds + (IF job = NoJob THEN 0 ELSE 1)
    /\ \/ node = "execute_tool" /\ job = NoJob /\ approved.page = 0
       \/ JobBlocked /\ job.call.page = 0
       \/ node = "await_confirmation" /\ LastCall.page = 0
       \/ mode = "confirmed" /\ node \in {"load_context", "plan"} /\ approved.page = 0
       => Direct < Most

RoundsInv == CallsWithinRounds /\ (Live => Room)

AuditInv == Live =>
    \A t \in Tools, p \in 0..Pages, s \in Statuses \ {"missing", "blocked"} :
        Times(calls, [tool |-> t, page |-> p, status |-> s])
            = Times(rows, [tool |-> t, page |-> p, status |-> s])

TurnInv == CourseInv /\ OnceInv /\ RoundsInv /\ AuditInv

-----------------------------------------------------------------------------
(* Sequences, calls and plans.                                             *)

LEMMA AppendFacts ==
    ASSUME NEW S, NEW s \in Seq(S), NEW e \in S
    PROVE  /\ Append(s, e) \in Seq(S) /\ Append(s, e) # <<>>
           /\ Len(s) \in Nat /\ Len(Append(s, e)) = Len(s) + 1
           /\ DOMAIN s = 1..Len(s) /\ DOMAIN Append(s, e) = 1..(Len(s) + 1)
           /\ \A k \in 1..Len(s) : Append(s, e)[k] = s[k]
           /\ Append(s, e)[Len(s) + 1] = e
OBVIOUS

LEMMA FrontFacts ==
    ASSUME NEW S, NEW s \in Seq(S), s # <<>>
    PROVE  /\ SubSeq(s, 1, Len(s) - 1) \in Seq(S) /\ Len(s) \in Nat \ {0}
           /\ DOMAIN s = 1..Len(s) /\ DOMAIN SubSeq(s, 1, Len(s) - 1) = 1..(Len(s) - 1)
           /\ \A k \in 1..(Len(s) - 1) : SubSeq(s, 1, Len(s) - 1)[k] = s[k]
           /\ s[Len(s)] \in S
<1>1. Len(s) \in Nat \ {0} /\ DOMAIN s = 1..Len(s) /\ \A k \in 1..Len(s) : s[k] \in S
  BY EmptySeq
<1>2. PICK n \in Nat : n = Len(s) - 1 /\ n + 1 = Len(s)
  <2>1. Len(s) - 1 \in Nat /\ (Len(s) - 1) + 1 = Len(s)
    BY <1>1
  <2> QED
    BY <2>1, Zenon
<1>3. /\ SubSeq(s, 1, n) \in Seq(S)
      /\ Len(SubSeq(s, 1, n)) = IF 1 <= n THEN n - 1 + 1 ELSE 0
      /\ \A k \in 1..(n - 1 + 1) : SubSeq(s, 1, n)[k] = s[1 + k - 1]
  <2>1. \A k \in 1..n : s[k] \in S
    BY <1>1, <1>2
  <2> QED
    BY <2>1, SubSeqProperties, 1 \in Int, n \in Int
<1> QED
  BY <1>1, <1>2, <1>3

LEMMA TailFacts ==
    ASSUME NEW S, NEW s \in Seq(S), s # <<>>
    PROVE  /\ Head(s) \in S /\ Head(s) = s[1] /\ Tail(s) \in Seq(S)
           /\ Len(s) \in Nat \ {0} /\ DOMAIN s = 1..Len(s)
           /\ DOMAIN Tail(s) = 1..(Len(s) - 1)
           /\ \A k \in 1..(Len(s) - 1) : Tail(s)[k] = s[k + 1]
<1>1. Len(s) \in Nat \ {0} /\ DOMAIN s = 1..Len(s)
  BY EmptySeq
<1> QED
  BY <1>1, HeadTailProperties

\* What the planner may come up with; it does not go on where a tool it knows has
\* been called.
LEMMA PlansTyped ==
    ASSUME TypeOK
    PROVE  /\ NoPlan \in Plans /\ EarlyPlan \in Plans /\ NextPlan \in Plans
           /\ AlreadyCalled => NextPlan = NoPlan
           /\ approved.tool \in Tools =>
                 /\ ConfirmedPlan \in Plans /\ ConfirmedPlan.tool = approved.tool
                 /\ ConfirmedPlan.guarded = FALSE
           /\ EarlyPlan.guarded = TRUE => EarlyPlan.tool \in Tools
           /\ \A p \in Plans : p # NoPlan => p.tool \in Tools
           /\ \A p \in Plans : p.guarded \in BOOLEAN /\ p.seen \in Manifests
           /\ "none" \notin Tools
<1>0. NoPlan \in Plans /\ NoPlan.guarded = FALSE
  BY DEF Plans, NoPlan
<1>1. ASSUME NEW t \in Tools PROVE Use(t) \in Plans
  BY <1>1 DEF Use, Plans, TypeOK
<1>2. ASSUME NEW t \in Tools PROVE UseIfThere(t) \in Plans
  BY <1>0, <1>1, <1>2 DEF UseIfThere
<1>3. {"github", "huggingface", "fetch", "read_file", "web_search", "other"} \subseteq Tools
  BY DEF Tools, McpTools, LocalTools
<1>4. ASSUME NEW i PROVE PlanFor(i) \in Plans
  <2>1. CASE i \in {"github", "huggingface"}
    BY <1>2, <1>3, <2>1 DEF PlanFor
  <2>2. CASE i = "url"
    BY <1>2, <1>3, <2>2 DEF PlanFor
  <2>3. CASE i \in {"read_file", "web_search", "other"}
    BY <1>1, <1>3, <2>3 DEF PlanFor
  <2>4. CASE i \notin {"github", "huggingface", "url", "read_file", "web_search", "other"}
    BY <1>0, <2>4 DEF PlanFor
  <2> QED
    BY <2>1, <2>2, <2>3, <2>4
<1>5. NextPlan \in Plans /\ (AlreadyCalled => NextPlan = NoPlan)
  BY <1>0, <1>4 DEF NextPlan
<1>6. EarlyPlan \in Plans
  <2> DEFINE p == CASE "github" \in asks -> UseIfThere("github")
                    [] "github" \notin asks /\ ~AsksHub /\ Settles("url") -> UseIfThere("fetch")
                    [] OTHER -> NoPlan
  <2>1. p \in Plans
    <3>1. CASE "github" \in asks
      BY <1>2, <1>3, <3>1
    <3>2. CASE "github" \notin asks /\ ~AsksHub /\ Settles("url")
      BY <1>2, <1>3, <3>2
    <3>3. CASE ~("github" \in asks) /\ ~("github" \notin asks /\ ~AsksHub /\ Settles("url"))
      BY <1>0, <3>3
    <3> QED
      BY <3>1, <3>2, <3>3
  <2>2. EarlyPlan = p \/ EarlyPlan = NoPlan
    BY DEF EarlyPlan
  <2> QED
    BY <1>0, <2>1, <2>2
<1>7. ASSUME NEW p \in Plans, p # NoPlan PROVE p.tool \in Tools
  BY <1>7 DEF Plans
<1>8. ASSUME approved.tool \in Tools
      PROVE  /\ ConfirmedPlan \in Plans /\ ConfirmedPlan.tool = approved.tool
             /\ ConfirmedPlan.guarded = FALSE
  BY <1>8 DEF ConfirmedPlan, Use, Plans, TypeOK
<1>9. EarlyPlan.guarded = TRUE => EarlyPlan # NoPlan
  BY <1>0
<1>10. "none" \notin Tools
  BY DEF Tools, McpTools, LocalTools
<1>11. ASSUME NEW p \in Plans PROVE p.guarded \in BOOLEAN /\ p.seen \in Manifests
  <2>1. CASE p = NoPlan
    BY <2>1 DEF NoPlan, Manifests
  <2>2. CASE p \in [tool : Tools, guarded : BOOLEAN, seen : Manifests]
    BY <2>2
  <2> QED
    BY <2>1, <2>2 DEF Plans
<1> QED
  BY <1>0, <1>5, <1>6, <1>7, <1>8, <1>9, <1>10, <1>11

\* What the executor does with a call: it refuses it or hands it over.
LEMMA ExecutorEffect ==
    ASSUME NEW call, NEW kind, NEW seen, NEW confirmed, NEW loop,
           RunExecutor(call, kind, seen, confirmed, loop)
    PROVE  \/ job' = Job("auditing", call, kind, loop, "failed") /\ sent' = sent
           \/ /\ job' = Job("auditing", call, kind, loop, "blocked") /\ sent' = sent
              /\ kind = "guarded" /\ ~confirmed
           \/ /\ job' = Job("calling", call, kind, loop, "none")
              /\ sent' = Append(sent, [tool |-> call.tool, page |-> call.page, kind |-> kind,
                                        consent |-> mode = "confirmed" /\ ~loop, seen |-> seen])
BY DEF RunExecutor, Refused, BadArguments

LEMMA ExecutorJob ==
    ASSUME NEW call, NEW kind, NEW seen, NEW confirmed, NEW loop,
           RunExecutor(call, kind, seen, confirmed, loop)
    PROVE  /\ job' # NoJob /\ job'.step \in {"auditing", "calling"}
           /\ job'.call = call
           /\ job'.status = "blocked" => job'.step = "auditing" /\ sent' = sent
           /\ job'.status = "blocked" => kind = "guarded"
           /\ \/ job'.step = "auditing" /\ sent' = sent
              \/ /\ job'.step = "calling" /\ job'.status = "none"
                 /\ \E r : sent' = Append(sent, r) /\ r.tool = call.tool /\ r.page = call.page
<1>1. ASSUME NEW step, NEW status, job' = Job(step, call, kind, loop, status), step # "none"
      PROVE  /\ job' # NoJob /\ job'.step = step /\ job'.call = call /\ job'.status = status
  BY <1>1 DEF Job, NoJob
<1>2. CASE job' = Job("auditing", call, kind, loop, "failed") /\ sent' = sent
  BY <1>1, <1>2
<1>3. CASE job' = Job("auditing", call, kind, loop, "blocked") /\ sent' = sent /\ kind = "guarded"
  BY <1>1, <1>3
<1>4. ASSUME NEW consent, job' = Job("calling", call, kind, loop, "none"),
             sent' = Append(sent, [tool |-> call.tool, page |-> call.page, kind |-> kind,
                                   consent |-> consent, seen |-> seen])
      PROVE  /\ job' # NoJob /\ job'.call = call /\ job'.step = "calling" /\ job'.status = "none"
             /\ \E r : sent' = Append(sent, r) /\ r.tool = call.tool /\ r.page = call.page
  <2>1. PICK r : r = [tool |-> call.tool, page |-> call.page, kind |-> kind,
                      consent |-> consent, seen |-> seen]
    OBVIOUS
  <2>2. sent' = Append(sent, r) /\ r.tool = call.tool /\ r.page = call.page
    BY <1>4, <2>1
  <2> QED
    BY <1>1, <1>4, <2>2
<1>5. CASE /\ job' = Job("calling", call, kind, loop, "none")
           /\ \E consent : sent' = Append(sent, [tool |-> call.tool, page |-> call.page,
                                                 kind |-> kind, consent |-> consent, seen |-> seen])
  BY <1>4, <1>5
<1> QED
  BY <1>2, <1>3, <1>5, ExecutorEffect, Zenon

-----------------------------------------------------------------------------
(* Types.                                                                  *)

LEMMA JobFacts ==
    ASSUME RunTyped
    PROVE  /\ job # NoJob <=> job.step # "none"
           /\ job.step \in {"none", "calling", "auditing", "fetching", "finished"}
           /\ job # NoJob => /\ job.call \in CallRecords /\ job.kind \in Manifests
                             /\ job.loop \in BOOLEAN
           /\ job.step \in {"auditing", "fetching", "finished"} => job.status \in Statuses
<1>1. CASE job = NoJob
  BY <1>1 DEF NoJob
<1>2. CASE job \in Jobs
  BY <1>2 DEF Jobs, NoJob
<1> QED
  BY <1>1, <1>2 DEF RunTyped

LEMMA JobTyped ==
    ASSUME NEW call \in CallRecords, NEW kind \in Manifests, NEW loop \in BOOLEAN,
           NEW status \in Statuses
    PROVE  /\ \A step \in {"auditing", "fetching", "finished"} :
                 Job(step, call, kind, loop, status) \in Jobs
           /\ Job("calling", call, kind, loop, "none") \in Jobs
           /\ Result(call, status) \in Results
BY DEF Job, Jobs, Result, Results, CallRecords

\* The executor is given a typed call and leaves a typed job.
LEMMA ExecutorTyped ==
    ASSUME RunTyped, NEW call \in CallRecords, NEW kind \in Manifests, NEW seen \in Manifests,
           NEW confirmed, NEW loop \in BOOLEAN, RunExecutor(call, kind, seen, confirmed, loop)
    PROVE  job' \in Jobs /\ sent' \in Seq(SentCalls)
<1>1. "failed" \in Statuses /\ "blocked" \in Statuses
  BY DEF Statuses
<1>2. job' \in Jobs
  BY <1>1, ExecutorEffect, JobTyped
<1>3. ASSUME NEW b \in BOOLEAN
      PROVE  [tool |-> call.tool, page |-> call.page, kind |-> kind, consent |-> b,
              seen |-> seen] \in SentCalls
  BY DEF SentCalls, CallRecords
<1>4. (mode = "confirmed" /\ ~loop) \in BOOLEAN
  OBVIOUS
<1>5. PICK r \in SentCalls :
         r = [tool |-> call.tool, page |-> call.page, kind |-> kind,
              consent |-> mode = "confirmed" /\ ~loop, seen |-> seen]
  BY <1>3, <1>4
<1>6. sent' = sent \/ sent' = Append(sent, r)
  BY <1>5, ExecutorEffect
<1>7. sent \in Seq(SentCalls)
  BY DEF RunTyped
<1> QED
  BY <1>2, <1>6, <1>7, AppendFacts

\* The call of a plan, and a page.
LEMMA CallTyped ==
    ASSUME NEW t \in Tools, NEW p \in 0..Pages, NEW g \in BOOLEAN, NEW m \in BOOLEAN
    PROVE  Call(t, p, g, m) \in CallRecords
BY DEF Call, CallRecords

LEMMA TypesNext ==
    ASSUME CourseInv, StreamInv, [Next]_vars
    PROVE  TypeOK' /\ RunTyped'
<1> USE DEF CourseInv
<1>0. StreamTypeOK'
  BY StreamNext DEF StreamInv
<1>1. CASE EnsureConversation \/ LoadContext \/ SaveUserMessage \/ RetrieveContext
  BY <1>0, <1>1 DEF EnsureConversation, LoadContext, SaveUserMessage, RetrieveContext, TypeOK,
     RunTyped, Nodes, world, turn, ends, history
<1>2. CASE Preflight \/ Plan
  <2>1. plan' \in Plans
    <3>1. CASE Preflight
      BY <3>1, PlansTyped DEF Preflight
    <3>2. CASE Plan
      <4>1. mode = "confirmed" => approved.tool \in Tools
        BY <3>2 DEF Plan, At, Running, Live, Course
      <4>2. CASE mode = "confirmed"
        BY <3>2, <4>1, <4>2, PlansTyped DEF Plan
      <4>3. CASE mode # "confirmed" /\ rounds >= MaxRounds
        BY <3>2, <4>3, PlansTyped, Zenon DEF Plan
      <4>4. CASE mode # "confirmed" /\ ~(rounds >= MaxRounds)
        BY <3>2, <4>4, PlansTyped, Zenon DEF Plan
      <4> QED
        BY <4>2, <4>3, <4>4
    <3> QED
      BY <1>2, <3>1, <3>2
  <2>2. node' \in Nodes
    BY <1>2 DEF Preflight, Plan, Nodes
  <2> QED
    BY <1>0, <1>2, <2>1, <2>2 DEF Preflight, Plan, TypeOK, RunTyped, world, turn, ends, history
<1>3. CASE ExecutePlan
  <2>1. plan.tool \in Tools /\ plan \in Plans /\ plan # NoPlan
    <3>1. plan.tool # "none" /\ plan \in Plans
      BY <1>3 DEF ExecutePlan, At, Running, Live, Course, TypeOK
    <3>2. plan # NoPlan
      BY <3>1 DEF NoPlan
    <3> QED
      BY <3>1, <3>2, PlansTyped
  <2>2. plan.guarded \in BOOLEAN /\ plan.seen \in Manifests
    BY <2>1 DEF Plans
  <2>3. (plan.tool \in McpTools /\ plan.seen # "absent") \in BOOLEAN
    OBVIOUS
  <2>4. PICK call \in CallRecords :
           call = Call(plan.tool, approved.page, plan.guarded,
                       plan.tool \in McpTools /\ plan.seen # "absent")
    <3>1. approved.page \in 0..Pages
      BY DEF RunTyped
    <3> QED
      BY <2>1, <2>2, <2>3, <3>1, CallTyped
  <2>5. registry[plan.tool] \in Manifests /\ "absent" \in Manifests /\ "missing" \in Statuses
    BY <2>1 DEF TypeOK, Manifests, Statuses
  <2>6. calls \in Seq(Results) /\ sent \in Seq(SentCalls)
    BY DEF TypeOK, Results, RunTyped
  <2>7. job' \in Jobs /\ sent' \in Seq(SentCalls) /\ calls' \in Seq(Results)
    <3>1. CASE registry[plan.tool] = "absent"
      <4>1. /\ calls' = Append(calls, Result(call, "missing")) /\ sent' = sent
            /\ job' = Job("finished", call, "absent", FALSE, "missing")
        BY <1>3, <2>4, <3>1 DEF ExecutePlan
      <4>2. Result(call, "missing") \in Results /\ job' \in Jobs
        BY <2>5, <4>1, JobTyped
      <4> QED
        BY <2>6, <4>1, <4>2, AppendFacts
    <3>2. CASE registry[plan.tool] # "absent"
      <4>1. RunExecutor(call, registry[plan.tool], plan.seen, ~plan.guarded, FALSE)
            /\ calls' = calls
        BY <1>3, <2>4, <3>2 DEF ExecutePlan
      <4> QED
        BY <2>2, <2>5, <2>6, <4>1, ExecutorTyped
    <3> QED
      BY <3>1, <3>2
  <2> QED
    BY <1>0, <1>3, <2>7 DEF ExecutePlan, TypeOK, RunTyped, Results, world, turn, ends
<1>4. CASE ToolReturns
  <2>1. job' \in Jobs
    <3>1. job \in Jobs /\ job.step = "calling"
      BY <1>4 DEF ToolReturns, RunTyped, NoJob
    <3>2. PICK status \in Statuses : job' = [job EXCEPT !.step = "auditing", !.status = status]
      BY <1>4 DEF ToolReturns, Endings, Statuses
    <3> QED
      BY <3>1, <3>2 DEF Jobs
  <2> QED
    BY <1>0, <1>4, <2>1 DEF ToolReturns, TypeOK, RunTyped, world, turn, ends, history
<1>5. CASE RecordAudit
  <2>1. job \in Jobs /\ job.step = "auditing"
    BY <1>5 DEF RecordAudit, RunTyped, NoJob
  <2>2. job.call \in CallRecords /\ job.status \in Statuses
    BY <2>1 DEF Jobs
  <2>3. job' \in Jobs
    BY <1>5, <2>1 DEF RecordAudit, Jobs
  <2>4. Result(job.call, job.status) \in Results
    BY <2>2 DEF Result, Results, CallRecords
  <2>5. Row(job.call, job.status) \in AuditRows
    BY <2>2 DEF Row, AuditRows, CallRecords
  <2>6. calls \in Seq(Results) /\ rows \in Seq(AuditRows)
    BY DEF TypeOK, Results, RunTyped
  <2>7. calls' \in Seq(Results)
    BY <1>5, <2>4, <2>6, AppendFacts DEF RecordAudit
  <2>8. rows' \in Seq(AuditRows)
    BY <1>5, <2>5, <2>6, AppendFacts DEF RecordAudit
  <2> QED
    BY <1>0, <1>5, <2>3, <2>7, <2>8 DEF RecordAudit, TypeOK, RunTyped, Results, world, turn, ends
<1>6. CASE StartFetching
  <2>1. job \in Jobs /\ job.step = "finished" /\ registry["fetch"] \in Manifests
    BY <1>6 DEF StartFetching, RunTyped, NoJob, TypeOK, Tools, McpTools
  <2>2. job' = [job EXCEPT !.step = "fetching", !.kind = registry["fetch"], !.loop = TRUE]
    BY <1>6 DEF StartFetching
  <2>3. job' \in Jobs
    BY <2>1, <2>2 DEF Jobs
  <2>4. targets' \in Seq(1..Pages)
    <3>1. CASE UNCHANGED targets
      BY <3>1 DEF TypeOK
    <3>2. ASSUME NEW n \in 1..Pages, targets' = [k \in 1..n |-> k] PROVE targets' \in Seq(1..Pages)
      <4>1. n \in Nat /\ targets' \in [1..n -> 1..Pages]
        BY <3>2, GraphParameters
      <4> QED
        BY <4>1, SeqDef
    <3> QED
      BY <1>6, <3>1, <3>2 DEF StartFetching
  <2> QED
    BY <1>0, <1>6, <2>3, <2>4 DEF StartFetching, TypeOK, RunTyped, world, turn, ends, history
<1>7. CASE FetchPage
  <2>1. targets \in Seq(1..Pages) /\ targets # <<>> /\ job.step = "fetching"
    BY <1>7 DEF FetchPage, TypeOK
  <2>2. Head(targets) \in 1..Pages /\ targets' \in Seq(1..Pages)
    BY <1>7, <2>1, TailFacts DEF FetchPage
  <2>3. job.kind \in Manifests
    BY <2>1, JobFacts
  <2>4. PICK call \in CallRecords :
           call = Call("fetch", Head(targets), job.kind = "guarded", TRUE)
    <3>1. "fetch" \in Tools /\ Head(targets) \in 0..Pages /\ (job.kind = "guarded") \in BOOLEAN
      BY <2>2 DEF Tools, McpTools
    <3> QED
      BY <3>1, CallTyped
  <2>5. RunExecutor(call, job.kind, job.kind, FetchUnconfirmed, TRUE)
    BY <1>7, <2>4 DEF FetchPage
  <2>6. job' \in Jobs /\ sent' \in Seq(SentCalls)
    BY <2>3, <2>5, ExecutorTyped
  <2> QED
    BY <1>0, <1>7, <2>2, <2>6 DEF FetchPage, TypeOK, RunTyped, world, turn, ends
<1>8. CASE FetchingEnds \/ ExecuteEnds
  <2>1. rounds' = rounds + 1 /\ job' = NoJob /\ node' \in Nodes
    BY <1>8 DEF FetchingEnds, ExecuteEnds, LeaveExecute, RouteAfterExecute, Nodes
  <2>2. targets' = targets \/ targets' = <<>>
    BY <1>8 DEF FetchingEnds, ExecuteEnds
  <2>3. targets' \in Seq(1..Pages)
    <3>1. targets \in Seq(1..Pages) /\ <<>> \in Seq(1..Pages)
      BY DEF TypeOK
    <3> QED
      BY <2>2, <3>1
  <2>4. answer' = answer \/ answer' = "degraded"
    BY <1>8 DEF FetchingEnds, ExecuteEnds, ends
  <2>5. UNCHANGED <<world, turn, conv, plan, calls, saved, outcome, history>>
    BY <1>8 DEF FetchingEnds, ExecuteEnds, ends
  <2> QED
    BY <1>0, <2>1, <2>3, <2>4, <2>5 DEF TypeOK, RunTyped, world, turn, history
<1>9. CASE AwaitConfirmation \/ ModelFails \/ SaveAssistantMessage \/ UpdateMemory
  <2>1. saved' \subseteq saved \cup {"assistant", "approval"}
    BY <1>9 DEF AwaitConfirmation, ModelFails, SaveAssistantMessage, UpdateMemory
  <2>2. outcome' \in {outcome, "done", "error"} /\ node' \in {node, "update_memory"}
    BY <1>9 DEF AwaitConfirmation, ModelFails, SaveAssistantMessage, UpdateMemory, graph
  <2>3. UNCHANGED <<world, turn, conv, rounds, plan, calls, targets, job, answer, history>>
    BY <1>9 DEF AwaitConfirmation, ModelFails, SaveAssistantMessage, UpdateMemory, graph
  <2> QED
    BY <1>0, <2>1, <2>2, <2>3 DEF TypeOK, RunTyped, Nodes, world, turn, history
<1>10. CASE GenerateAnswer
  <2>1. answer' \in {answer, "inventory", "none", "degraded", "failure"}
    BY <1>10 DEF GenerateAnswer, RuntimeAnswer
  <2> QED
    BY <1>0, <1>10, <2>1 DEF GenerateAnswer, TypeOK, RunTyped, Nodes, world, turn, history
<1>11. CASE Streaming
  BY <1>0, <1>11 DEF Streaming, TypeOK, RunTyped, world, turn, graph, ends, history
<1>12. CASE AnswerCollected
  <2>1. answer' \in {"blank", "model", "canned", "tool", "crashed"}
    BY <1>12 DEF AnswerCollected, Fallbacks
  <2> QED
    BY <1>0, <1>12, <2>1 DEF AnswerCollected, TypeOK, RunTyped, Nodes, world, turn, history
<1>13. CASE Stop
  <2>1. rows' \in Seq(AuditRows)
    <3>1. CASE UNCHANGED rows
      BY <3>1 DEF RunTyped
    <3>2. CASE ~UNCHANGED rows
      <4>1. PICK s : /\ s \in {"interrupted", job.status} /\ rows' = Append(rows, Row(job.call, s))
                     /\ job.step \in {"calling", "auditing"}
                     /\ s = job.status => job.step = "auditing" \/ s = "interrupted"
        BY <1>13, <3>2 DEF Stop
      <4>2. s \in Statuses \cup {"interrupted"} /\ job.call \in CallRecords
        <5>1. job # NoJob
          BY <4>1 DEF NoJob
        <5> QED
          BY <4>1, <5>1, JobFacts
      <4>3. Row(job.call, s) \in AuditRows
        BY <4>2 DEF Row, AuditRows, CallRecords
      <4> QED
        BY <4>1, <4>3, AppendFacts DEF RunTyped
    <3> QED
      BY <3>1, <3>2
  <2> QED
    BY <1>0, <1>13, <2>1 DEF Stop, TypeOK, RunTyped, world, turn
<1>14. CASE Confirm
  <2>1. outcome = "done" /\ "approval" \in saved
    BY <1>14 DEF Confirm
  <2>2. calls # <<>> /\ calls \in Seq(Results)
    BY <2>1 DEF Live, Course, Blocked, TypeOK, Results
  <2>3. SubSeq(calls, 1, Len(calls) - 1) \in Seq(Results) /\ LastCall \in Results
    BY <2>2, FrontFacts DEF LastCall
  <2>4. approved' \in [tool : Tools \cup {"none"}, page : 0..Pages]
    BY <1>14, <2>3 DEF Confirm, Results
  <2>5. calls' \in Seq(Results)
    BY <1>14, <2>3 DEF Confirm, Continuation
  <2> QED
    BY <1>0, <1>14, <2>4, <2>5, PlansTyped DEF Confirm, TypeOK, RunTyped, Results, Nodes, world,
       history
<1>15. CASE Refresh
  <2>1. registry' \in [Tools -> Manifests]
    BY <1>15, GraphParameters DEF Refresh
  <2>2. refreshes' \in 0..MaxRefreshes
    BY <1>15, GraphParameters DEF Refresh, TypeOK
  <2> QED
    BY <1>0, <1>15, <2>1, <2>2 DEF Refresh, TypeOK, RunTyped, turn, graph, ends, history
<1>16. CASE UNCHANGED vars
  BY <1>0, <1>16 DEF vars, TypeOK, RunTyped, world, turn, graph, ends, history
<1> QED
  BY <1>1, <1>2, <1>3, <1>4, <1>5, <1>6, <1>7, <1>8, <1>9, <1>10, <1>11, <1>12, <1>13, <1>14,
     <1>15, <1>16 DEF Next, RunStep

-----------------------------------------------------------------------------
(* The course of a turn.                                                   *)

\* A run that was stopped is not continued.
LEMMA LiveBefore ==
    ASSUME [Next]_vars, Live'
    PROVE  Live
<1>1. CASE Stop
  BY <1>1 DEF Stop, Live
<1>2. CASE RunStep
  <2>1. outcome' = outcome \/ outcome = "running"
    BY <1>2 DEF RunStep, EnsureConversation, LoadContext, SaveUserMessage, Preflight,
       RetrieveContext, Plan, ExecutePlan, ToolReturns, RecordAudit, StartFetching, FetchPage,
       FetchingEnds, ExecuteEnds, AwaitConfirmation, GenerateAnswer, Streaming, AnswerCollected,
       ModelFails, SaveAssistantMessage, UpdateMemory, At, Running, ends
  <2> QED
    BY <2>1 DEF Live
<1>3. CASE Confirm \/ Refresh \/ UNCHANGED vars
  BY <1>3 DEF Confirm, Refresh, vars, ends, Live
<1> QED
  BY <1>1, <1>2, <1>3 DEF Next

LEMMA CourseNext ==
    ASSUME CourseInv, StreamInv, [Next]_vars, Live'
    PROVE  Course' /\ Blocked'
<1> USE DEF CourseInv
<1>0. Live /\ Course /\ Blocked
  BY LiveBefore
<1>a. calls \in Seq(Results)
  BY DEF TypeOK, Results
<1>b. job = NoJob <=> job.step = "none"
  BY JobFacts
<1>1. CASE EnsureConversation \/ LoadContext \/ SaveUserMessage
  <2>1. UNCHANGED <<mode, approved, rounds, calls, job, outcome>>
    BY <1>1 DEF EnsureConversation, LoadContext, SaveUserMessage, turn, ends
  <2>2. Course'
    BY <1>0, <1>1, <2>1 DEF EnsureConversation, LoadContext, SaveUserMessage, At, Running,
       Course, Fresh, ends
  <2>3. node # "await_confirmation" /\ node' # "await_confirmation"
    BY <1>1 DEF EnsureConversation, LoadContext, SaveUserMessage, At
  <2> QED
    BY <1>0, <2>1, <2>2, <2>3 DEF Blocked, JobBlocked, LastCall
<1>2. CASE Preflight \/ Plan
  <2>1. UNCHANGED <<mode, approved, rounds, calls, job, conv, saved, outcome>>
    BY <1>2 DEF Preflight, Plan, turn, ends
  <2>2. job = NoJob /\ Running /\ node \in {"preflight", "plan"}
    BY <1>0, <1>2 DEF Preflight, Plan, At, Course
  <2>3. CASE Preflight
    <3>1. EarlyPlan.guarded = TRUE => EarlyPlan.tool # "none"
      BY PlansTyped
    <3>2. EarlyPlan.guarded \in BOOLEAN
      BY PlansTyped
    <3>3. node' \in {"execute_tool", "retrieve_context"} /\ node = "preflight"
          /\ (node' = "execute_tool" => plan'.tool # "none")
      BY <2>3, <3>1, <3>2 DEF Preflight, At
    <3>4. Course'
      BY <1>0, <2>1, <2>2, <3>3 DEF Course, Fresh, Running
    <3> QED
      BY <1>0, <2>1, <2>2, <3>3, <3>4 DEF Blocked, JobBlocked, LastCall
  <2>4. CASE Plan
    <3>1. plan' # NoPlan => plan'.tool # "none"
      <4>1. plan' \in Plans
        BY TypesNext DEF TypeOK
      <4> QED
        BY <4>1, PlansTyped
    <3>2. mode = "confirmed" => plan'.tool = approved.tool /\ plan'.guarded = FALSE
      BY <1>0, <2>4, PlansTyped DEF Plan, Course
    <3>3. /\ node' = IF plan' = NoPlan THEN "generate_answer" ELSE "execute_tool"
          /\ node = "plan"
      BY <2>4 DEF Plan, At
    <3>4. Course'
      BY <1>0, <2>1, <2>2, <3>1, <3>2, <3>3 DEF Course, Fresh, Running
    <3> QED
      BY <1>0, <2>1, <2>2, <3>3, <3>4 DEF Blocked, JobBlocked, LastCall
  <2> QED
    BY <1>2, <2>3, <2>4
<1>3. CASE RetrieveContext \/ GenerateAnswer \/ AnswerCollected \/ SaveAssistantMessage
  <2>1. UNCHANGED <<mode, approved, rounds, calls, job, conv>>
    BY <1>3 DEF RetrieveContext, GenerateAnswer, AnswerCollected, SaveAssistantMessage, turn
  <2>2. job = NoJob /\ Running /\ node \notin {"await_confirmation", "update_memory", "execute_tool"}
    BY <1>0, <1>3 DEF RetrieveContext, GenerateAnswer, AnswerCollected, SaveAssistantMessage, At,
       Course
  <2>3. \/ /\ node' \in {"streaming", "save_assistant_message"} \cup {node}
           /\ node \in {"generate_answer", "streaming"} /\ saved' = saved
        \/ node = "retrieve_context" /\ node' = "plan" /\ saved' = saved
        \/ node = "save_assistant_message" /\ node' = "update_memory"
           /\ saved' = saved \cup {"assistant"}
    BY <1>3 DEF RetrieveContext, GenerateAnswer, AnswerCollected, SaveAssistantMessage, At, ends
  <2>4. outcome' = "running"
    BY <1>3, <2>2 DEF RetrieveContext, GenerateAnswer, AnswerCollected, SaveAssistantMessage,
       Live, Running, ends
  <2>5. Course'
    BY <1>0, <2>1, <2>2, <2>3, <2>4 DEF Course, Fresh
  <2> QED
    BY <1>0, <2>1, <2>2, <2>3, <2>5 DEF Blocked, JobBlocked, LastCall
<1>4. CASE Streaming \/ Refresh \/ UNCHANGED vars
  <2>1. UNCHANGED <<turn, graph, ends>>
    BY <1>4 DEF Streaming, Refresh, vars
  <2> QED
    BY <1>0, <2>1 DEF turn, graph, ends, Course, Blocked, JobBlocked, LastCall
<1>5. CASE AwaitConfirmation \/ UpdateMemory
  <2>1. UNCHANGED <<turn, graph>> /\ outcome' = "done" /\ Running
    BY <1>5 DEF AwaitConfirmation, UpdateMemory, At
  <2>2. \/ /\ node = "await_confirmation"
           /\ saved' = IF mode = "task" THEN saved ELSE saved \cup {"approval"}
        \/ node = "update_memory" /\ saved' = saved
    BY <1>5 DEF AwaitConfirmation, UpdateMemory, At
  <2>3. Course'
    BY <1>0, <2>1, <2>2 DEF turn, graph, Course, Running
  <2> QED
    BY <1>0, <2>1, <2>3 DEF turn, graph, Blocked, JobBlocked, LastCall
<1>6. CASE ModelFails \/ Stop
  BY <1>6 DEF ModelFails, Stop, Live
<1>7. CASE ExecutePlan
  <2>1. UNCHANGED <<mode, approved, node, conv, rounds, plan, saved, outcome>>
    BY <1>7 DEF ExecutePlan, turn, ends
  <2>2. node = "execute_tool" /\ job = NoJob /\ Running
    BY <1>7 DEF ExecutePlan, At
  <2>3. Course'
    <3>1. job' # NoJob
      <4>1. registry[plan.tool] = "absent" => job' # NoJob
        BY <1>7 DEF ExecutePlan, Job, NoJob
      <4>2. registry[plan.tool] # "absent" => job' # NoJob
        BY <1>7, ExecutorJob DEF ExecutePlan
      <4> QED
        BY <4>1, <4>2
    <3> QED
      BY <1>0, <2>1, <2>2, <3>1 DEF Course, Fresh
  <2>4. \A k \in DOMAIN calls : calls[k].status # "blocked"
    BY <1>0, <1>b, <2>2 DEF Blocked
  <2>5. CASE registry[plan.tool] = "absent"
    <3>1. PICK call : /\ calls' = Append(calls, Result(call, "missing"))
                      /\ job' = Job("finished", call, "absent", FALSE, "missing")
      BY <1>7, <2>5 DEF ExecutePlan
    <3>2. calls' \in Seq(Results)
      BY TypesNext DEF TypeOK, Results
    <3>3. /\ Len(calls) \in Nat /\ Len(calls') = Len(calls) + 1 /\ DOMAIN calls = 1..Len(calls)
          /\ DOMAIN calls' = 1..(Len(calls) + 1) /\ calls' # <<>>
          /\ \A k \in 1..Len(calls) : calls'[k] = calls[k]
          /\ calls'[Len(calls) + 1] = Result(call, "missing")
      BY <1>a, <3>1
    <3>4. Result(call, "missing").status = "missing"
      BY DEF Result
    <3>5. \A k \in DOMAIN calls' : calls'[k].status # "blocked"
      BY <2>4, <3>3, <3>4
    <3>6. job'.step = "finished" /\ job'.status = "missing" /\ job'.call = call
      BY <3>1 DEF Job
    <3>7. calls'[Len(calls')] = Result(job'.call, job'.status)
      BY <3>3, <3>6
    <3> QED
      BY <2>1, <2>2, <2>3, <3>3, <3>5, <3>6, <3>7 DEF Blocked, JobBlocked, LastCall
  <2>6. CASE registry[plan.tool] # "absent"
    <3>1. PICK call :
             /\ call = Call(plan.tool, approved.page, plan.guarded,
                            plan.tool \in McpTools /\ plan.seen # "absent")
             /\ RunExecutor(call, registry[plan.tool], plan.seen, ~plan.guarded, FALSE)
             /\ calls' = calls
      BY <1>7, <2>6 DEF ExecutePlan
    <3>2. call.guarded = plan.guarded /\ call.page = approved.page
      BY <3>1 DEF Call
    <3>3. plan.guarded \in BOOLEAN
      BY PlansTyped DEF TypeOK
    <3>4. /\ job'.step \in {"auditing", "calling"} /\ job'.call = call
          /\ job'.status = "blocked" => ~~plan.guarded
      <4>1. job'.step \in {"auditing", "calling"} /\ job'.call = call
        BY <3>1, ExecutorJob
      <4>2. job'.status = "blocked" => ~~plan.guarded
        BY <3>1 DEF RunExecutor, Refused, BadArguments, Job
      <4> QED
        BY <4>1, <4>2
    <3>5. job'.status = "blocked" =>
             call.guarded = TRUE /\ mode # "confirmed" /\ call.page = 0
      <4>1. job'.status = "blocked" => plan.guarded = TRUE
        BY <3>3, <3>4
      <4>2. plan.guarded = TRUE => mode # "confirmed"
        BY <1>0, <2>2 DEF Course
      <4>3. mode # "confirmed" => approved.page = 0
        BY <1>0 DEF Course, NoCall
      <4> QED
        BY <3>2, <4>1, <4>2, <4>3
    <3> QED
      BY <2>1, <2>2, <2>3, <2>4, <3>1, <3>4, <3>5 DEF Blocked, JobBlocked, LastCall
  <2> QED
    BY <2>5, <2>6
<1>8. CASE ToolReturns
  <2>1. UNCHANGED <<mode, approved, node, conv, rounds, plan, saved, outcome, calls>>
    BY <1>8 DEF ToolReturns, turn, ends
  <2>2. job.step = "calling" /\ job \in Jobs
    BY <1>8 DEF ToolReturns, RunTyped, NoJob
  <2>3. job'.step = "auditing" /\ job'.status # "blocked"
    BY <1>8, <2>2 DEF ToolReturns, Endings, Jobs
  <2>4. node = "execute_tool" /\ job' # NoJob
    BY <1>0, <1>b, <2>2, <2>3 DEF Course, NoJob
  <2>5. Course'
    BY <1>0, <1>b, <2>1, <2>2, <2>4 DEF Course
  <2> QED
    BY <1>0, <2>1, <2>2, <2>3, <2>4, <2>5 DEF Blocked, JobBlocked, LastCall
<1>9. CASE RecordAudit
  <2>1. UNCHANGED <<mode, approved, node, conv, rounds, plan, saved, outcome>>
    BY <1>9 DEF RecordAudit, turn, ends
  <2>2. job.step = "auditing" /\ job \in Jobs
    BY <1>9 DEF RecordAudit, RunTyped, NoJob
  <2>3. /\ job' = [job EXCEPT !.step = IF job.loop /\ job.status # "blocked"
                                       THEN "fetching" ELSE "finished"]
        /\ calls' = Append(calls, Result(job.call, job.status))
    BY <1>9 DEF RecordAudit
  <2>4. /\ job'.step \in {"fetching", "finished"} /\ job'.call = job.call
        /\ job'.status = job.status /\ job'.loop = job.loop
        /\ job.status = "blocked" => job'.step = "finished"
    BY <2>2, <2>3 DEF Jobs
  <2>5. node = "execute_tool" /\ job' # NoJob
    BY <1>0, <1>b, <2>2, <2>4 DEF Course, NoJob
  <2>6. Course'
    BY <1>0, <1>b, <2>1, <2>2, <2>5 DEF Course, Fresh
  <2>7. Result(job.call, job.status) \in Results
    BY <2>2, JobFacts, <1>b DEF Result, Results, CallRecords
  <2>8. /\ Len(calls) \in Nat /\ Len(calls') = Len(calls) + 1 /\ DOMAIN calls = 1..Len(calls)
        /\ DOMAIN calls' = 1..(Len(calls) + 1) /\ calls' # <<>>
        /\ \A k \in 1..Len(calls) : calls'[k] = calls[k]
        /\ calls'[Len(calls) + 1] = Result(job.call, job.status)
    BY <1>a, <2>3, <2>7, AppendFacts
  <2>9. \A k \in DOMAIN calls : calls[k].status # "blocked"
    BY <1>0, <2>2, <2>5 DEF Blocked
  <2>10. Result(job.call, job.status).status = job.status
    BY DEF Result
  <2>11. calls'[Len(calls')] = Result(job'.call, job'.status)
    BY <2>4, <2>8
  <2>12. \A k \in DOMAIN calls' : calls'[k].status = "blocked" =>
            k = Len(calls') /\ job'.step = "finished" /\ job'.status = "blocked"
    BY <2>4, <2>8, <2>9, <2>10
  <2>13. job'.status = "blocked" => JobBlocked
    BY <2>2, <2>4 DEF JobBlocked
  <2> QED
    BY <1>0, <2>1, <2>4, <2>5, <2>6, <2>8, <2>11, <2>12, <2>13 DEF Blocked, JobBlocked, LastCall
<1>10. CASE StartFetching
  <2>1. UNCHANGED <<mode, approved, node, conv, rounds, plan, saved, outcome, calls>>
    BY <1>10 DEF StartFetching, turn, ends
  <2>2. job.step = "finished" /\ job \in Jobs /\ node = "execute_tool"
    BY <1>10 DEF StartFetching, RunTyped, NoJob, At
  <2>3. job'.step = "fetching" /\ job' # NoJob
    BY <1>10, <2>2 DEF StartFetching, Jobs, NoJob
  <2>4. Course'
    BY <1>0, <1>b, <2>1, <2>2, <2>3 DEF Course
  <2>5. LastCall.status = job.status /\ LastCall.page = job.call.page
    BY <1>0, <2>2 DEF Blocked, Result
  <2>6. job.status # "blocked"
    <3>1. ASSUME job.status = "blocked" PROVE FALSE
      <4>1. job.call.page # 0 => job.loop = TRUE
        BY <1>0, <2>2, <3>1 DEF Blocked, JobBlocked
      <4>2. Searched \/ PageDone
        BY <1>10 DEF StartFetching
      <4> QED
        BY <2>5, <3>1, <4>1, <4>2 DEF Searched, PageDone
    <3> QED
      BY <3>1
  <2>7. \A k \in DOMAIN calls : calls[k].status # "blocked"
    BY <1>0, <2>2, <2>6 DEF Blocked, JobBlocked
  <2> QED
    BY <1>0, <2>1, <2>2, <2>3, <2>4, <2>7 DEF Blocked, JobBlocked, LastCall
<1>11. CASE FetchPage
  <2>1. UNCHANGED <<mode, approved, node, conv, rounds, plan, saved, outcome, calls>>
    BY <1>11 DEF FetchPage, turn, ends
  <2>2. job.step = "fetching" /\ node = "execute_tool" /\ targets # <<>>
    BY <1>11 DEF FetchPage, At
  <2>3. PICK call : /\ call = Call("fetch", Head(targets), job.kind = "guarded", TRUE)
                    /\ RunExecutor(call, job.kind, job.kind, FetchUnconfirmed, TRUE)
    BY <1>11 DEF FetchPage
  <2>4. call.guarded = (job.kind = "guarded") /\ call.page = Head(targets)
    BY <2>3 DEF Call
  <2>5. Head(targets) # 0
    <3>1. Head(targets) \in 1..Pages
      BY <2>2, TailFacts DEF TypeOK
    <3> QED
      BY <3>1, GraphParameters
  <2>6. /\ job'.step \in {"auditing", "calling"} /\ job'.call = call /\ job'.loop = TRUE
        /\ job'.status = "blocked" => job.kind = "guarded"
    <3>1. \/ job' = Job("auditing", call, job.kind, TRUE, "failed")
          \/ job' = Job("auditing", call, job.kind, TRUE, "blocked") /\ job.kind = "guarded"
          \/ job' = Job("calling", call, job.kind, TRUE, "none")
      BY <2>3, Zenon DEF RunExecutor, Refused, BadArguments
    <3> QED
      BY <3>1 DEF Job
  <2>7. Course'
    BY <1>0, <1>b, <2>1, <2>2, <2>6 DEF Course, NoJob
  <2>8. \A k \in DOMAIN calls : calls[k].status # "blocked"
    BY <1>0, <2>2 DEF Blocked
  <2> QED
    BY <1>0, <2>1, <2>2, <2>4, <2>5, <2>6, <2>7, <2>8 DEF Blocked, JobBlocked, LastCall
<1>12. CASE FetchingEnds \/ ExecuteEnds
  <2>1. UNCHANGED <<mode, approved, conv, plan, saved, outcome, calls>>
    BY <1>12 DEF FetchingEnds, ExecuteEnds, turn, ends
  <2>2. job' = NoJob /\ node' = RouteAfterExecute /\ node = "execute_tool" /\ Running
    BY <1>12 DEF FetchingEnds, ExecuteEnds, LeaveExecute, At
  <2>3. job.step \in {"finished", "fetching"}
    BY <1>12 DEF FetchingEnds, ExecuteEnds
  <2>4. calls # <<>> /\ Len(calls) \in DOMAIN calls
    <3>1. calls # <<>>
      BY <1>0, <2>3 DEF Blocked
    <3> QED
      BY <1>a, <3>1, FrontFacts
  <2>5. LastCall.status = "blocked" => LastCall.guarded = TRUE
    <3>1. ASSUME LastCall.status = "blocked" PROVE LastCall.guarded = TRUE
      <4>1. job.step = "finished" /\ JobBlocked
        BY <1>0, <2>2, <2>4, <3>1 DEF Blocked, LastCall
      <4> QED
        BY <1>0, <4>1 DEF Blocked, Result
    <3> QED
      BY <3>1
  <2>6. /\ node' \in {"await_confirmation", "generate_answer", "plan"}
        /\ mode = "confirmed" => node' # "plan"
        /\ node' = "await_confirmation" <=> LastCall.status = "blocked"
    BY <2>2, <2>5 DEF RouteAfterExecute
  <2>7. Course'
    BY <1>0, <2>1, <2>2, <2>6 DEF Course, Fresh, Running
  <2>8. \A k \in DOMAIN calls : calls[k].status = "blocked" =>
           k = Len(calls) /\ node' = "await_confirmation"
    BY <1>0, <2>2, <2>6 DEF Blocked, LastCall
  <2>9. job'.step = "none"
    BY <2>2 DEF NoJob
  <2> QED
    BY <2>1, <2>4, <2>6, <2>7, <2>8, <2>9 DEF Blocked, JobBlocked, LastCall
<1>13. CASE Confirm
  <2>1. /\ mode' = "confirmed" /\ node' = "load_context" /\ outcome' = "running"
        /\ approved' = [tool |-> LastCall.tool, page |-> LastCall.page]
        /\ calls' = SubSeq(calls, 1, Len(calls) - 1) /\ saved' = saved \ {"approval"}
        /\ outcome = "done" /\ "approval" \in saved /\ UNCHANGED <<conv, job>>
    BY <1>13 DEF Confirm, Continuation
  <2>2. node = "await_confirmation" /\ job = NoJob /\ calls # <<>>
    BY <1>0, <2>1 DEF Course, Blocked
  <2>3. LastCall.tool \in Tools
    <3>1. LastCall \in Results
      BY <1>a, <2>2, FrontFacts DEF LastCall
    <3> QED
      BY <3>1 DEF Results
  <2>4. Course'
    BY <1>0, <2>1, <2>2, <2>3 DEF Course, Fresh
  <2>5. \A k \in DOMAIN calls' : k \in DOMAIN calls /\ k # Len(calls) /\ calls'[k] = calls[k]
    BY <1>a, <2>1, <2>2, FrontFacts
  <2>6. \A k \in DOMAIN calls' : calls'[k].status # "blocked"
    BY <1>0, <2>5 DEF Blocked
  <2> QED
    BY <1>b, <2>1, <2>2, <2>4, <2>6 DEF Blocked, JobBlocked
<1> QED
  BY <1>1, <1>2, <1>3, <1>4, <1>5, <1>6, <1>7, <1>8, <1>9, <1>10, <1>11, <1>12, <1>13
     DEF Next, RunStep

-----------------------------------------------------------------------------
(* Calls are made once.                                                    *)

LEMMA LastOfAppend ==
    ASSUME NEW S, NEW s \in Seq(S), NEW e, Append(s, e) \in Seq(S)
    PROVE  e \in S
<1>1. s \in Seq(S \cup {e})
  BY SeqDef
<1>2. /\ Len(s) \in Nat /\ Len(Append(s, e)) = Len(s) + 1
      /\ Append(s, e)[Len(s) + 1] = e
  BY <1>1, AppendFacts
<1> QED
  BY <1>2, ElementOfSeq

\* Steps that neither hand over a call nor change which are to come.
LEMMA ToComeStays ==
    ASSUME ToCome, UNCHANGED <<sent, targets, calls, job, mode, approved>>,
           node' # "execute_tool", node' # "await_confirmation",
           mode = "confirmed" /\ node' \in {"load_context", "plan"} =>
               node \in {"load_context", "plan"}
    PROVE  ToCome'
BY DEF ToCome, MayCall, Sent, OnlyOthersSent, NoPageSent, JobBlocked

\* A call that may be made is the first of its kind when it is made.
LEMMA HandOver ==
    ASSUME KnownToolsCalledOnce, sent \in Seq(SentCalls), NEW r \in SentCalls,
           \A k \in DOMAIN sent : sent[k].tool = r.tool /\ sent[k].page = r.page => r.tool = "other",
           sent' = Append(sent, r)
    PROVE  /\ KnownToolsCalledOnce'
           /\ \A t, p : Sent(t, p)' => Sent(t, p) \/ (t = r.tool /\ p = r.page)
           /\ OnlyOthersSent /\ r.tool = "other" => OnlyOthersSent'
           /\ NoPageSent /\ r.tool # "fetch" => NoPageSent'
<1>1. /\ Len(sent) \in Nat /\ DOMAIN sent = 1..Len(sent) /\ DOMAIN sent' = 1..(Len(sent) + 1)
      /\ \A k \in 1..Len(sent) : sent'[k] = sent[k]
      /\ sent'[Len(sent) + 1] = r
  BY AppendFacts
<1>2. \A k \in DOMAIN sent' : \/ k \in DOMAIN sent /\ sent'[k] = sent[k]
                              \/ k = Len(sent) + 1 /\ sent'[k] = r
  BY <1>1
<1>4. KnownToolsCalledOnce'
  <2> SUFFICES ASSUME NEW j \in DOMAIN sent', NEW k \in DOMAIN sent', j # k,
                      sent'[j].tool = sent'[k].tool, sent'[j].page = sent'[k].page
               PROVE  sent'[k].tool = "other"
    BY DEF KnownToolsCalledOnce
  <2> QED
    BY <1>2 DEF KnownToolsCalledOnce
<1>5. ASSUME NEW t, NEW p, \E k \in DOMAIN sent' : sent'[k].tool = t /\ sent'[k].page = p
      PROVE  Sent(t, p) \/ (t = r.tool /\ p = r.page)
  BY <1>2, <1>5 DEF Sent
<1> QED
  BY <1>2, <1>4, <1>5 DEF Sent, OnlyOthersSent, NoPageSent

LEMMA OnceNext ==
    ASSUME CourseInv, CourseInv', OnceInv, [Next]_vars
    PROVE  OnceInv'
<1> USE DEF CourseInv, OnceInv
<1>0. Live' => Live /\ Course /\ Blocked /\ ToCome
  BY LiveBefore
<1>a. JobBlocked => job.step \in {"auditing", "finished"} /\ job.status = "blocked"
  BY DEF JobBlocked
<1>b. job = NoJob <=> job.step = "none"
  BY JobFacts
<1>c. ASSUME UNCHANGED sent PROVE KnownToolsCalledOnce'
  BY <1>c DEF KnownToolsCalledOnce
<1>1. CASE \/ EnsureConversation \/ LoadContext \/ SaveUserMessage \/ RetrieveContext
           \/ GenerateAnswer \/ AnswerCollected \/ SaveAssistantMessage
  <2>1. UNCHANGED <<sent, targets, calls, job, mode, approved>>
    BY <1>1 DEF EnsureConversation, LoadContext, SaveUserMessage, RetrieveContext, GenerateAnswer,
       AnswerCollected, SaveAssistantMessage, turn, history
  <2>2. /\ node \in {"ensure_conversation", "load_context", "save_user_message",
                     "retrieve_context", "generate_answer", "streaming", "save_assistant_message"}
        /\ node' # "execute_tool" /\ node' # "await_confirmation"
        /\ node' = "load_context" => node = "ensure_conversation"
        /\ node' = "plan" => node \in {"load_context", "retrieve_context"}
    BY <1>1 DEF EnsureConversation, LoadContext, SaveUserMessage, RetrieveContext, GenerateAnswer,
       AnswerCollected, SaveAssistantMessage, At
  <2>3. Live' => ToCome'
    <3> SUFFICES ASSUME Live' PROVE ToCome'
      OBVIOUS
    <3>1. mode = "confirmed" /\ node' \in {"load_context", "plan"} =>
             node \in {"load_context", "plan"}
      BY <1>0, <2>2 DEF Course, Fresh
    <3> QED
      BY <1>0, <2>1, <2>2, <3>1, ToComeStays
  <2> QED
    BY <1>c, <2>1, <2>3
<1>2. CASE Preflight \/ Plan
  <2>1. UNCHANGED <<sent, targets, calls, job, mode, approved>>
    BY <1>2 DEF Preflight, Plan, turn, history
  <2>2. Live' => ToCome'
    <3> SUFFICES ASSUME Live' PROVE ToCome'
      OBVIOUS
    <3>1. node \in {"preflight", "plan"} /\ node' \in {"execute_tool", "retrieve_context", "generate_answer"}
      BY <1>2 DEF Preflight, Plan, At
    <3>2. job.step = "none"
      BY <1>0, <1>b, <3>1 DEF Course
    <3>3. node' = "execute_tool" => MayCall(plan'.tool, approved.page)
      <4>1. CASE mode = "confirmed"
        <5>1. node = "plan" /\ MayCall(approved.tool, approved.page)
          BY <1>0, <3>1, <4>1 DEF Course, Fresh, ToCome
        <5>2. plan' = ConfirmedPlan /\ approved.tool \in Tools
          BY <1>0, <1>2, <4>1, <5>1 DEF Preflight, Plan, At, Course
        <5>3. plan'.tool = approved.tool
          BY <5>2, PlansTyped
        <5> QED
          BY <5>1, <5>3
      <4>2. CASE mode # "confirmed"
        <5>1. approved.page = 0
          BY <1>0, <4>2 DEF Course, NoCall
        <5>2. node' = "execute_tool" => ~AlreadyCalled
          <6>1. CASE Preflight
            <7>1. calls = <<>>
              BY <1>0, <4>2, <6>1 DEF Preflight, At, Course, Fresh
            <7> QED
              BY <7>1 DEF AlreadyCalled
          <6>2. CASE Plan
            <7>1. node' = "execute_tool" => plan' # NoPlan
              BY <6>2 DEF Plan
            <7>2. plan' # NoPlan => plan' = NextPlan
              BY <4>2, <6>2, Zenon DEF Plan
            <7> QED
              BY <7>1, <7>2, PlansTyped
          <6> QED
            BY <1>2, <6>1, <6>2
        <5>3. ~AlreadyCalled => OnlyOthersSent
          BY <1>0, <3>2, <4>2 DEF ToCome, AlreadyCalled
        <5> QED
          BY <5>1, <5>2, <5>3 DEF MayCall
      <4> QED
        BY <4>1, <4>2
    <3> QED
      BY <1>0, <2>1, <3>1, <3>2, <3>3
         DEF ToCome, MayCall, Sent, OnlyOthersSent, NoPageSent, JobBlocked
  <2> QED
    BY <1>c, <2>1, <2>2
<1>3. CASE AwaitConfirmation \/ UpdateMemory \/ Streaming \/ Refresh \/ UNCHANGED vars
  <2>1. UNCHANGED <<turn, graph, history>>
    BY <1>3 DEF AwaitConfirmation, UpdateMemory, Streaming, Refresh, vars
  <2>2. ToCome => ToCome'
    BY <2>1 DEF turn, graph, history, ToCome, MayCall, Sent, OnlyOthersSent, NoPageSent,
       JobBlocked, LastCall
  <2> QED
    BY <1>0, <1>c, <2>1, <2>2 DEF history
<1>4. CASE ModelFails \/ Stop
  BY <1>4, <1>c DEF ModelFails, Stop, Live, history
<1>5. CASE ExecutePlan
  <2>1. UNCHANGED <<targets, mode, approved, node, plan>>
    BY <1>5 DEF ExecutePlan, turn
  <2>2. node = "execute_tool" /\ job.step = "none" /\ Live /\ ToCome
    BY <1>b, <1>5 DEF ExecutePlan, At, Running, Live
  <2>3. MayCall(plan.tool, approved.page)
    BY <1>b, <2>2 DEF ToCome
  <2>4. \A k \in DOMAIN targets : targets[k] # 0
    <3>1. targets \in Seq(1..Pages)
      BY DEF TypeOK
    <3> QED
      BY <3>1, GraphParameters
  <2>5. plan.tool = "web_search" => NoPageSent
    BY <2>3 DEF MayCall, OnlyOthersSent, NoPageSent
  <2>6. (mode # "confirmed" /\ \A k \in DOMAIN calls : calls[k].tool = "other") => OnlyOthersSent
    BY <2>2 DEF ToCome
  <2>7. calls \in Seq(Results) /\ calls' \in Seq(Results) /\ sent \in Seq(SentCalls)
        /\ sent' \in Seq(SentCalls)
    BY DEF TypeOK, Results, RunTyped
  <2>8. CASE registry[plan.tool] = "absent"
    <3>1. PICK call : /\ call = Call(plan.tool, approved.page, plan.guarded,
                                     plan.tool \in McpTools /\ plan.seen # "absent")
                      /\ calls' = Append(calls, Result(call, "missing")) /\ sent' = sent
                      /\ job' = Job("finished", call, "absent", FALSE, "missing")
      BY <1>5, <2>8 DEF ExecutePlan
    <3>2. job'.step = "finished" /\ job'.status = "missing" /\ job'.call.tool = plan.tool
          /\ job' # NoJob
      BY <3>1 DEF Job, Call, NoJob
    <3>3. \A k \in DOMAIN calls : k \in DOMAIN calls' /\ calls'[k] = calls[k]
      BY <2>7, <3>1
    <3>4. (mode # "confirmed" /\ \A k \in DOMAIN calls' : calls'[k].tool = "other") => OnlyOthersSent
      BY <2>6, <3>3
    <3>5. ToCome'
      BY <2>1, <2>2, <2>5, <3>1, <3>2, <3>4
         DEF ToCome, Sent, OnlyOthersSent, NoPageSent, JobBlocked
    <3> QED
      BY <1>c, <3>1, <3>5
  <2>9. CASE registry[plan.tool] # "absent"
    <3>1. PICK call :
             /\ call = Call(plan.tool, approved.page, plan.guarded,
                            plan.tool \in McpTools /\ plan.seen # "absent")
             /\ RunExecutor(call, registry[plan.tool], plan.seen, ~plan.guarded, FALSE)
             /\ calls' = calls
      BY <1>5, <2>9 DEF ExecutePlan
    <3>2. call.tool = plan.tool /\ call.page = approved.page
      BY <3>1 DEF Call
    <3>3. /\ job'.step \in {"auditing", "calling"} /\ job'.call = call /\ job' # NoJob
          /\ job'.status = "blocked" => sent' = sent /\ job'.step = "auditing"
          /\ \/ job'.step = "auditing" /\ sent' = sent
             \/ /\ job'.step = "calling" /\ job'.status = "none"
                /\ \E r : sent' = Append(sent, r) /\ r.tool = call.tool /\ r.page = call.page
      BY <3>1, ExecutorJob
    <3>4. CASE sent' = sent
      <4>1. ToCome'
        BY <2>1, <2>2, <2>3, <2>5, <2>6, <3>1, <3>2, <3>3, <3>4
           DEF ToCome, MayCall, Sent, OnlyOthersSent, NoPageSent, JobBlocked
      <4> QED
        BY <1>c, <3>4, <4>1
    <3>5. CASE sent' # sent
      <4>1. PICK r : sent' = Append(sent, r) /\ r.tool = plan.tool /\ r.page = approved.page
        BY <3>2, <3>3, <3>5
      <4>2. r \in SentCalls
        BY <2>7, <4>1, LastOfAppend
      <4>3. job'.step = "calling"
        BY <3>3, <3>5
      <4>4. /\ KnownToolsCalledOnce'
            /\ \A t, p : Sent(t, p)' => Sent(t, p) \/ (t = plan.tool /\ p = approved.page)
            /\ OnlyOthersSent /\ plan.tool = "other" => OnlyOthersSent'
            /\ NoPageSent /\ plan.tool # "fetch" => NoPageSent'
        <5>1. \A k \in DOMAIN sent : sent[k].tool = r.tool /\ sent[k].page = r.page => r.tool = "other"
          BY <2>3, <4>1 DEF MayCall, Sent, OnlyOthersSent
        <5> QED
          BY <2>7, <4>1, <4>2, <5>1, HandOver
      <4>5. \A k \in DOMAIN targets : ~Sent("fetch", targets[k])'
        <5>1. ASSUME NEW k \in DOMAIN targets PROVE ~(plan.tool = "fetch" /\ targets[k] = approved.page)
          BY <2>3, <2>4 DEF MayCall
        <5>2. \A p : Sent("fetch", p)' => Sent("fetch", p) \/ ("fetch" = plan.tool /\ p = approved.page)
          BY <4>4
        <5> QED
          BY <2>1, <2>2, <5>1, <5>2 DEF ToCome, Sent
      <4>6. ToCome'
        BY <2>1, <2>2, <2>5, <2>6, <3>1, <3>2, <3>3, <4>3, <4>4, <4>5 DEF ToCome, JobBlocked
      <4> QED
        BY <4>4, <4>6
    <3> QED
      BY <3>4, <3>5
  <2> QED
    BY <2>8, <2>9
<1>6. CASE ToolReturns \/ RecordAudit
  <2>1. UNCHANGED <<targets, mode, approved, node, plan, sent>>
    BY <1>6 DEF ToolReturns, RecordAudit, turn, history
  <2>2. job \in Jobs /\ job.step \in {"calling", "auditing"} /\ Live /\ ToCome
    <3>1. job.step \in {"calling", "auditing"} /\ Running
      BY <1>6 DEF ToolReturns, RecordAudit
    <3>2. job \in Jobs
      BY <3>1 DEF RunTyped, NoJob
    <3> QED
      BY <3>1, <3>2 DEF Running, Live
  <2>3. node = "execute_tool" /\ job # NoJob
    BY <1>0, <1>b, <2>2 DEF Course
  <2>4. job' # NoJob /\ job'.call = job.call
    BY <1>6, <2>2 DEF ToolReturns, RecordAudit, Jobs, NoJob
  <2>5. CASE ToolReturns
    <3>1. job.step = "calling" /\ job'.step = "auditing" /\ job'.status # "blocked" /\ calls' = calls
      BY <2>2, <2>5 DEF ToolReturns, Endings, Jobs
    <3>2. ToCome'
      BY <2>1, <2>2, <2>3, <2>4, <3>1
         DEF ToCome, MayCall, Sent, OnlyOthersSent, NoPageSent, JobBlocked
    <3> QED
      BY <1>c, <2>1, <3>2
  <2>6. CASE RecordAudit
    <3>1. /\ job.step = "auditing" /\ job'.step \in {"fetching", "finished"}
          /\ job'.status = job.status
      BY <2>2, <2>6 DEF RecordAudit, Jobs
    <3>2. job.call \in CallRecords /\ job.status \in Statuses
      BY <2>2, <3>1 DEF Jobs
    <3>3. Result(job.call, job.status) \in Results /\ Result(job.call, job.status).tool = job.call.tool
      BY <3>2 DEF Result, Results, CallRecords
    <3>4. calls' = Append(calls, Result(job.call, job.status)) /\ calls \in Seq(Results)
      BY <2>6 DEF RecordAudit, TypeOK, Results
    <3>5. /\ Len(calls) \in Nat /\ DOMAIN calls = 1..Len(calls)
          /\ DOMAIN calls' = 1..(Len(calls) + 1)
          /\ \A k \in 1..Len(calls) : calls'[k] = calls[k]
          /\ calls'[Len(calls) + 1] = Result(job.call, job.status)
      BY <3>3, <3>4, AppendFacts
    <3>6. (\A k \in DOMAIN calls' : calls'[k].tool = "other") =>
             (\A k \in DOMAIN calls : calls[k].tool = "other") /\ job.call.tool = "other"
      BY <3>3, <3>5
    <3>7. ToCome'
      BY <2>1, <2>2, <2>3, <2>4, <3>1, <3>6
         DEF ToCome, MayCall, Sent, OnlyOthersSent, NoPageSent, JobBlocked
    <3> QED
      BY <1>c, <2>1, <3>7
  <2> QED
    BY <1>6, <2>5, <2>6
<1>7. CASE StartFetching
  <2>1. UNCHANGED <<mode, approved, node, plan, sent, calls>>
    BY <1>7 DEF StartFetching, turn, history
  <2>2. /\ job \in Jobs /\ job.step = "finished" /\ node = "execute_tool" /\ Live /\ ToCome
        /\ Blocked
    BY <1>7 DEF StartFetching, RunTyped, NoJob, At, Running, Live
  <2>3. job'.step = "fetching" /\ job' # NoJob
    BY <1>7, <2>2 DEF StartFetching, Jobs, NoJob
  <2>4. CASE UNCHANGED targets
    <3>1. ToCome'
      BY <2>1, <2>2, <2>3, <2>4 DEF ToCome, MayCall, Sent, OnlyOthersSent, NoPageSent, JobBlocked
    <3> QED
      BY <1>c, <2>1, <3>1
  <2>5. CASE Searched /\ \E n \in 1..Pages : targets' = [k \in 1..n |-> k]
    <3>1. NoPageSent
      BY <2>2, <2>5 DEF Searched, Blocked, Result, ToCome
    <3>2. \A k \in DOMAIN targets' : k # 0 /\ targets'[k] = k
      BY <2>5
    <3>3. \A k \in DOMAIN targets' : /\ ~Sent("fetch", targets'[k])
                                     /\ \A j \in DOMAIN targets' : targets'[j] = targets'[k] => j = k
      BY <3>1, <3>2 DEF NoPageSent, Sent
    <3>4. ToCome'
      BY <2>1, <2>2, <2>3, <3>3 DEF ToCome, Sent, OnlyOthersSent, JobBlocked
    <3> QED
      BY <1>c, <2>1, <3>4
  <2> QED
    BY <1>7, <2>4, <2>5 DEF StartFetching
<1>8. CASE FetchPage
  <2>1. UNCHANGED <<mode, approved, node, plan, calls>>
    BY <1>8 DEF FetchPage, turn
  <2>2. /\ job.step = "fetching" /\ node = "execute_tool" /\ targets # <<>> /\ Live /\ ToCome
        /\ targets' = Tail(targets)
    BY <1>8 DEF FetchPage, At, Running, Live
  <2>3. /\ Head(targets) = targets[1] /\ Head(targets) \in 1..Pages
        /\ Len(targets) \in Nat \ {0} /\ DOMAIN targets = 1..Len(targets)
        /\ DOMAIN targets' = 1..(Len(targets) - 1)
        /\ \A k \in 1..(Len(targets) - 1) : targets'[k] = targets[k + 1]
    <3>1. targets \in Seq(1..Pages)
      BY DEF TypeOK
    <3> QED
      BY <2>2, <3>1, TailFacts
  <2>4. PICK page : page = Head(targets)
    OBVIOUS
  <2>5. page # 0 /\ ~Sent("fetch", page)
    <3>1. 1 \in DOMAIN targets
      BY <2>3
    <3> QED
      BY <2>2, <2>3, <2>4, <3>1, GraphParameters DEF ToCome
  <2>6. ASSUME NEW k \in DOMAIN targets'
        PROVE  /\ targets'[k] # page /\ ~Sent("fetch", targets'[k])
               /\ \A j \in DOMAIN targets' : targets'[j] = targets'[k] => j = k
    <3>1. ASSUME NEW j \in DOMAIN targets'
          PROVE  targets'[j] = targets[j + 1] /\ j + 1 \in DOMAIN targets /\ j + 1 # 1 /\ j \in Nat
      BY <2>3
    <3>2. k + 1 \in DOMAIN targets /\ 1 \in DOMAIN targets /\ k + 1 # 1 /\ targets'[k] = targets[k + 1]
      BY <2>3, <3>1
    <3>3. ~Sent("fetch", targets[k + 1]) /\ \A j \in DOMAIN targets : targets[j] = targets[k + 1] => j = k + 1
      BY <2>2, <3>2 DEF ToCome
    <3>4. targets'[k] # page
      BY <2>3, <2>4, <3>2, <3>3
    <3>5. ASSUME NEW j \in DOMAIN targets', targets'[j] = targets'[k] PROVE j = k
      <4>1. j + 1 = k + 1 /\ j \in Nat /\ k \in Nat
        BY <3>1, <3>2, <3>3, <3>5
      <4> QED
        BY <4>1
    <3> QED
      BY <3>2, <3>3, <3>4, <3>5
  <2>7. PICK call : /\ call = Call("fetch", page, job.kind = "guarded", TRUE)
                    /\ RunExecutor(call, job.kind, job.kind, FetchUnconfirmed, TRUE)
    BY <1>8, <2>4 DEF FetchPage
  <2>8. call.tool = "fetch" /\ call.page = page
    BY <2>7 DEF Call
  <2>9. /\ job'.step \in {"auditing", "calling"} /\ job'.call = call /\ job' # NoJob
        /\ \/ job'.step = "auditing" /\ sent' = sent
           \/ /\ job'.step = "calling" /\ job'.status = "none"
              /\ \E r : sent' = Append(sent, r) /\ r.tool = call.tool /\ r.page = call.page
    BY <2>7, ExecutorJob
  <2>10. job'.step = "calling" => job'.status = "none"
    BY <2>9
  <2>11. CASE sent' = sent
    <3>1. ToCome'
      BY <2>1, <2>2, <2>5, <2>6, <2>8, <2>9, <2>10, <2>11
         DEF ToCome, MayCall, Sent, OnlyOthersSent, NoPageSent, JobBlocked
    <3> QED
      BY <1>c, <2>11, <3>1
  <2>12. CASE sent' # sent
    <3>1. PICK r : sent' = Append(sent, r) /\ r.tool = "fetch" /\ r.page = page
      BY <2>8, <2>9, <2>12
    <3>2. sent \in Seq(SentCalls) /\ sent' \in Seq(SentCalls)
      BY DEF RunTyped
    <3>3. r \in SentCalls
      BY <3>1, <3>2, LastOfAppend
    <3>4. job'.step = "calling" /\ job'.status = "none"
      BY <2>9, <2>12
    <3>5. \A k \in DOMAIN sent : ~(sent[k].tool = r.tool /\ sent[k].page = r.page)
      BY <2>5, <3>1 DEF Sent
    <3>6. /\ KnownToolsCalledOnce'
          /\ \A t, p : Sent(t, p)' => Sent(t, p) \/ (t = "fetch" /\ p = page)
      BY <3>1, <3>2, <3>3, <3>5, HandOver
    <3>7. \A k \in DOMAIN targets' : \A p : p = targets'[k] => ~Sent("fetch", p)'
      BY <2>6, <3>6
    <3>8. ToCome'
      BY <2>1, <2>2, <2>6, <2>8, <2>9, <3>4, <3>7 DEF ToCome, Sent, JobBlocked
    <3> QED
      BY <3>6, <3>8
  <2> QED
    BY <2>11, <2>12
<1>9. CASE FetchingEnds \/ ExecuteEnds
  <2>1. UNCHANGED <<mode, approved, plan, sent, calls>>
    BY <1>9 DEF FetchingEnds, ExecuteEnds, turn, history
  <2>2. /\ job' = NoJob /\ node' = RouteAfterExecute /\ Live /\ ToCome /\ Course /\ Blocked
        /\ job.step \in {"finished", "fetching"} /\ node = "execute_tool"
    BY <1>9 DEF FetchingEnds, ExecuteEnds, LeaveExecute, At, Running, Live
  <2>3. targets' = targets \/ targets' = <<>>
    BY <1>9 DEF FetchingEnds, ExecuteEnds
  <2>4. /\ node' \in {"await_confirmation", "generate_answer", "plan"}
        /\ mode = "confirmed" => node' # "plan"
        /\ node' = "await_confirmation" => LastCall.status = "blocked"
    BY <2>2 DEF RouteAfterExecute
  <2>5. node' = "await_confirmation" => MayCall(LastCall.tool, LastCall.page)
    <3>1. ASSUME node' = "await_confirmation" PROVE MayCall(LastCall.tool, LastCall.page)
      <4>1. calls # <<>> /\ Len(calls) \in DOMAIN calls
        <5>1. calls \in Seq(Results) /\ calls # <<>>
          BY <2>2 DEF Blocked, TypeOK, Results
        <5> QED
          BY <5>1, FrontFacts
      <4>2. job.step = "finished" /\ JobBlocked
        BY <2>2, <2>4, <3>1, <4>1 DEF Blocked, LastCall
      <4>3. LastCall.tool = job.call.tool /\ LastCall.page = job.call.page
        BY <2>2, <4>2 DEF Blocked, Result
      <4> QED
        BY <2>2, <4>2, <4>3 DEF ToCome
    <3> QED
      BY <3>1
  <2>6. job'.step = "none"
    BY <2>2 DEF NoJob
  <2>7. ASSUME NEW t, NEW p, MayCall(t, p) PROVE MayCall(t, p)'
    BY <2>1, <2>3, <2>7 DEF MayCall, Sent, OnlyOthersSent
  <2>8. node' = "await_confirmation" => MayCall(LastCall.tool, LastCall.page)'
    <3>1. PICK last : last = LastCall
      OBVIOUS
    <3>2. last' = LastCall'
      BY <2>1, <3>1 DEF LastCall
    <3>3. node' = "await_confirmation" => MayCall(last.tool, last.page)'
      BY <2>5, <2>7, <3>1
    <3> QED
      BY <2>1, <3>1, <3>3 DEF LastCall, MayCall
  <2>9. ToCome'
    BY <2>1, <2>2, <2>3, <2>4, <2>6, <2>8
       DEF ToCome, Sent, OnlyOthersSent, NoPageSent, JobBlocked
  <2> QED
    BY <1>c, <2>1, <2>9
<1>10. CASE Confirm
  <2>1. /\ mode' = "confirmed" /\ node' = "load_context" /\ Live
        /\ approved' = [tool |-> LastCall.tool, page |-> LastCall.page]
        /\ outcome = "done" /\ "approval" \in saved /\ UNCHANGED <<job, sent, targets>>
    BY <1>10 DEF Confirm, Live, history
  <2>2. node = "await_confirmation" /\ job.step = "none" /\ ToCome
    BY <1>b, <2>1 DEF Course
  <2>3. approved'.tool = LastCall.tool /\ approved'.page = LastCall.page
    BY <2>1
  <2>4. ToCome'
    BY <2>1, <2>2, <2>3 DEF ToCome, MayCall, Sent, OnlyOthersSent, NoPageSent, JobBlocked
  <2> QED
    BY <1>c, <2>1, <2>4
<1> QED
  BY <1>1, <1>2, <1>3, <1>4, <1>5, <1>6, <1>7, <1>8, <1>9, <1>10 DEF Next, RunStep

-----------------------------------------------------------------------------
(* Calls are within the limit.                                             *)

LEMMA OneMore ==
    ASSUME NEW n \in Nat, NEW K \in SUBSET (1..n)
    PROVE  /\ Cardinality(K) \in Nat
           /\ Cardinality(K \cup {n + 1}) = Cardinality(K) + 1
<1>1. IsFiniteSet(1..n)
  BY FS_Interval, 1 \in Int, n \in Int
<1>2. IsFiniteSet(K)
  BY <1>1, FS_Subset
<1>3. n + 1 \notin K
  OBVIOUS
<1> QED
  BY <1>2, <1>3, FS_CardinalityType, FS_AddElement

LEMMA DirectType ==
    ASSUME RunTyped
    PROVE  Direct \in Nat /\ Most \in Nat \ {0} /\ (CallsWithinRounds <=> Direct <= Most)
<1>1. sent \in Seq(SentCalls)
  BY DEF RunTyped
<1>2. Len(sent) \in Nat /\ DOMAIN sent = 1..Len(sent)
  BY <1>1
<1>3. {k \in DOMAIN sent : sent[k].page = 0} \in SUBSET (1..Len(sent))
  BY <1>2
<1>4. Direct \in Nat
  BY <1>2, <1>3, OneMore DEF Direct
<1>5. Most \in Nat \ {0}
  BY GraphParameters DEF Most
<1> QED
  BY <1>4, <1>5 DEF CallsWithinRounds, Direct, Most

LEMMA DirectTypeAfter ==
    ASSUME RunTyped'
    PROVE  Direct' \in Nat /\ (CallsWithinRounds' <=> Direct' <= Most)
<1>1. sent' \in Seq(SentCalls)
  BY DEF RunTyped, SentCalls
<1>2. Len(sent') \in Nat /\ DOMAIN sent' = 1..Len(sent')
  BY <1>1
<1>3. {k \in DOMAIN sent' : sent'[k].page = 0} \in SUBSET (1..Len(sent'))
  BY <1>2
<1>4. Cardinality({k \in DOMAIN sent' : sent'[k].page = 0}) \in Nat
  BY <1>2, <1>3, OneMore
<1> QED
  BY <1>4 DEF CallsWithinRounds, Direct, Most

LEMMA DirectAfter ==
    ASSUME RunTyped, RunTyped', NEW r, sent' = Append(sent, r)
    PROVE  Direct' = IF r.page = 0 THEN Direct + 1 ELSE Direct
<1>1. sent \in Seq(SentCalls) /\ r \in SentCalls
  BY LastOfAppend DEF RunTyped
<1>2. /\ Len(sent) \in Nat /\ DOMAIN sent = 1..Len(sent) /\ DOMAIN sent' = 1..(Len(sent) + 1)
      /\ \A k \in 1..Len(sent) : sent'[k] = sent[k]
      /\ sent'[Len(sent) + 1] = r
  BY <1>1, AppendFacts
<1>3. PICK n \in Nat : n = Len(sent)
  BY <1>2
<1>4. PICK K \in SUBSET (1..n) : K = {k \in DOMAIN sent : sent[k].page = 0}
  BY <1>2, <1>3
<1>5. {k \in DOMAIN sent' : sent'[k].page = 0} = IF r.page = 0 THEN K \cup {n + 1} ELSE K
  BY <1>2, <1>3, <1>4
<1>6. Cardinality(K \cup {n + 1}) = Cardinality(K) + 1
  BY OneMore
<1> QED
  BY <1>4, <1>5, <1>6 DEF Direct

LEMMA RoundsNext ==
    ASSUME CourseInv, CourseInv', RoundsInv, [Next]_vars
    PROVE  RoundsInv'
<1> USE DEF CourseInv, RoundsInv
<1>0. Live' => Live /\ Course /\ Blocked /\ Room
  BY LiveBefore
<1>a. /\ Direct \in Nat /\ Direct' \in Nat /\ Most \in Nat \ {0} /\ Direct <= Most
      /\ CallsWithinRounds' <=> Direct' <= Most /\ Most' = Most
  <2>1. Direct \in Nat /\ Most \in Nat \ {0} /\ Direct <= Most
    BY DirectType
  <2>2. Direct' \in Nat /\ (CallsWithinRounds' <=> Direct' <= Most)
    BY DirectTypeAfter
  <2>3. Most' = Most
    BY DEF Most
  <2> QED
    BY <2>1, <2>2, <2>3
<1>b. /\ job = NoJob <=> job.step = "none"
      /\ rounds \in Nat
  BY JobFacts DEF TypeOK
<1>c. ASSUME UNCHANGED sent PROVE Direct' = Direct /\ CallsWithinRounds'
  BY <1>a, <1>c DEF Direct
<1>1. CASE \/ EnsureConversation \/ LoadContext \/ SaveUserMessage \/ RetrieveContext
           \/ GenerateAnswer \/ AnswerCollected \/ SaveAssistantMessage
  <2>1. UNCHANGED <<sent, calls, job, mode, approved, rounds>>
    BY <1>1 DEF EnsureConversation, LoadContext, SaveUserMessage, RetrieveContext, GenerateAnswer,
       AnswerCollected, SaveAssistantMessage, turn, history
  <2>2. /\ node \in {"ensure_conversation", "load_context", "save_user_message",
                     "retrieve_context", "generate_answer", "streaming", "save_assistant_message"}
        /\ node' # "execute_tool" /\ node' # "await_confirmation"
        /\ node' = "load_context" => node = "ensure_conversation"
        /\ node' = "plan" => node \in {"load_context", "retrieve_context"}
    BY <1>1 DEF EnsureConversation, LoadContext, SaveUserMessage, RetrieveContext, GenerateAnswer,
       AnswerCollected, SaveAssistantMessage, At
  <2>3. Live' /\ mode = "confirmed" /\ node' \in {"load_context", "plan"} =>
           node \in {"load_context", "plan"}
    BY <1>0, <2>2 DEF Course, Fresh
  <2> QED
    BY <1>0, <1>c, <2>1, <2>2, <2>3 DEF Room, JobBlocked
<1>2. CASE Preflight \/ Plan
  <2>1. UNCHANGED <<sent, calls, job, mode, approved, rounds>>
    BY <1>2 DEF Preflight, Plan, turn, history
  <2>2. node \in {"preflight", "plan"} /\ node' \in {"execute_tool", "retrieve_context", "generate_answer"}
    BY <1>2 DEF Preflight, Plan, At
  <2>3. Live' => job = NoJob /\ job.step = "none"
    BY <1>0, <1>b, <2>2 DEF Course
  <2>4. Live' /\ node' = "execute_tool" /\ approved.page = 0 => Direct < Most
    <3> SUFFICES ASSUME Live', node' = "execute_tool", approved.page = 0 PROVE Direct < Most
      OBVIOUS
    <3>1. CASE mode = "confirmed"
      <4>1. node = "plan"
        BY <1>0, <2>2, <3>1 DEF Course, Fresh
      <4> QED
        BY <1>0, <3>1, <4>1 DEF Room
    <3>2. CASE mode # "confirmed"
      <4>1. Direct <= rounds
        BY <1>0, <1>a, <1>b, <2>3, <3>2 DEF Room
      <4>2. CASE Preflight
        <5>1. rounds = 0
          BY <1>0, <3>2, <4>2 DEF Preflight, At, Course, Fresh
        <5> QED
          BY <1>a, <4>1, <5>1
      <4>3. CASE Plan
        <5>1. plan' # NoPlan
          BY <4>3 DEF Plan
        <5>2. ~(rounds >= MaxRounds)
          BY <3>2, <4>3, <5>1, Zenon DEF Plan
        <5>3. rounds < MaxRounds
          BY <1>b, <5>2, GraphParameters
        <5> QED
          BY <1>a, <1>b, <4>1, <5>3, GraphParameters DEF Most
      <4> QED
        BY <1>2, <4>2, <4>3
    <3> QED
      BY <3>1, <3>2
  <2> QED
    BY <1>0, <1>c, <2>1, <2>2, <2>3, <2>4 DEF Room, JobBlocked
<1>3. CASE AwaitConfirmation \/ UpdateMemory \/ Streaming \/ Refresh \/ UNCHANGED vars
  <2>1. UNCHANGED <<turn, graph, history>>
    BY <1>3 DEF AwaitConfirmation, UpdateMemory, Streaming, Refresh, vars
  <2>2. UNCHANGED <<sent, calls, job, mode, approved, rounds, node>>
    BY <2>1 DEF turn, graph, history
  <2> QED
    BY <1>0, <1>c, <2>2 DEF Room, JobBlocked, LastCall
<1>4. CASE ModelFails \/ Stop
  BY <1>4, <1>c DEF ModelFails, Stop, Live, history
<1>5. CASE ExecutePlan
  <2>1. UNCHANGED <<mode, approved, node, rounds>>
    BY <1>5 DEF ExecutePlan, turn
  <2>2. node = "execute_tool" /\ job = NoJob /\ Live /\ Room
    BY <1>5 DEF ExecutePlan, At, Running, Live
  <2>3. approved.page = 0 => Direct < Most
    BY <2>2 DEF Room
  <2>4. mode # "confirmed" => Direct <= rounds
    BY <1>a, <1>b, <2>2 DEF Room
  <2>5. CASE registry[plan.tool] = "absent"
    <3>1. PICK call : sent' = sent /\ job' = Job("finished", call, "absent", FALSE, "missing")
      BY <1>5, <2>5 DEF ExecutePlan
    <3>2. job'.status = "missing" /\ job' # NoJob
      BY <3>1 DEF Job, NoJob
    <3>3. mode # "confirmed" => Direct <= rounds + 1
      BY <1>a, <1>b, <2>4
    <3> QED
      BY <1>c, <2>1, <2>2, <3>1, <3>2, <3>3 DEF Room, JobBlocked
  <2>6. CASE registry[plan.tool] # "absent"
    <3>1. PICK call :
             /\ call = Call(plan.tool, approved.page, plan.guarded,
                            plan.tool \in McpTools /\ plan.seen # "absent")
             /\ RunExecutor(call, registry[plan.tool], plan.seen, ~plan.guarded, FALSE)
      BY <1>5, <2>6 DEF ExecutePlan
    <3>2. call.page = approved.page
      BY <3>1 DEF Call
    <3>3. /\ job'.call = call /\ job' # NoJob
          /\ \/ job'.step = "auditing" /\ sent' = sent
             \/ /\ job'.step = "calling" /\ job'.status = "none"
                /\ \E r : sent' = Append(sent, r) /\ r.tool = call.tool /\ r.page = call.page
      BY <3>1, ExecutorJob
    <3>4. CASE job'.step = "auditing" /\ sent' = sent
      <4>1. mode # "confirmed" => Direct <= rounds + 1
        BY <1>a, <1>b, <2>4
      <4> QED
        BY <1>c, <2>1, <2>2, <2>3, <3>2, <3>3, <3>4, <4>1 DEF Room, JobBlocked
    <3>5. CASE /\ job'.step = "calling" /\ job'.status = "none"
               /\ \E r : sent' = Append(sent, r) /\ r.tool = call.tool /\ r.page = call.page
      <4>1. PICK r : sent' = Append(sent, r) /\ r.page = approved.page
        BY <3>2, <3>5
      <4>2. Direct' = IF approved.page = 0 THEN Direct + 1 ELSE Direct
        BY <4>1, DirectAfter
      <4>3. Direct' <= Most /\ (mode # "confirmed" => Direct' <= rounds + 1)
        BY <1>a, <1>b, <2>3, <2>4, <4>2
      <4> QED
        BY <1>a, <2>1, <2>2, <3>3, <3>5, <4>3 DEF Room, JobBlocked
    <3> QED
      BY <3>3, <3>4, <3>5
  <2> QED
    BY <2>5, <2>6
<1>6. CASE ToolReturns \/ RecordAudit \/ StartFetching
  <2>1. UNCHANGED <<mode, approved, node, rounds, sent>>
    BY <1>6 DEF ToolReturns, RecordAudit, StartFetching, turn, history
  <2>2. Running /\ job.step \in {"calling", "auditing", "finished"}
    BY <1>6 DEF ToolReturns, RecordAudit, StartFetching, At
  <2>3. job \in Jobs /\ job # NoJob
    BY <2>2 DEF RunTyped, NoJob
  <2>4. /\ job' # NoJob /\ job'.call = job.call
        /\ JobBlocked' => JobBlocked
    BY <1>6, <2>3 DEF ToolReturns, RecordAudit, StartFetching, Endings, Jobs, NoJob, JobBlocked
  <2>5. Live /\ Room /\ node = "execute_tool"
    BY <2>2, <2>3 DEF Live, Running, Course
  <2> QED
    BY <1>c, <2>1, <2>3, <2>4, <2>5 DEF Room
<1>7. CASE FetchPage
  <2>1. UNCHANGED <<mode, approved, node, rounds>>
    BY <1>7 DEF FetchPage, turn
  <2>2. job.step = "fetching" /\ node = "execute_tool" /\ targets # <<>> /\ Live /\ Room
    BY <1>7 DEF FetchPage, At, Running, Live
  <2>3. PICK call : /\ call = Call("fetch", Head(targets), job.kind = "guarded", TRUE)
                    /\ RunExecutor(call, job.kind, job.kind, FetchUnconfirmed, TRUE)
    BY <1>7 DEF FetchPage
  <2>4. call.page # 0
    <3>1. Head(targets) \in 1..Pages
      BY <2>2, TailFacts DEF TypeOK
    <3> QED
      BY <2>3, <3>1, GraphParameters DEF Call
  <2>5. /\ job'.call = call /\ job' # NoJob
        /\ sent' = sent \/ \E r : sent' = Append(sent, r) /\ r.page = call.page
    BY <2>3, ExecutorJob
  <2>6. Direct' = Direct
    <3>1. CASE sent' = sent
      BY <1>c, <3>1
    <3>2. ASSUME NEW r, sent' = Append(sent, r), r.page = call.page PROVE Direct' = Direct
      BY <2>4, <3>2, DirectAfter
    <3> QED
      BY <2>5, <3>1, <3>2
  <2>7. mode # "confirmed" => Direct <= rounds + 1
    BY <1>b, <2>2 DEF Room
  <2> QED
    BY <1>a, <2>1, <2>2, <2>4, <2>5, <2>6, <2>7 DEF Room
<1>8. CASE FetchingEnds \/ ExecuteEnds
  <2>1. UNCHANGED <<mode, approved, sent, calls>> /\ rounds' = rounds + 1
    BY <1>8 DEF FetchingEnds, ExecuteEnds, LeaveExecute, turn, history
  <2>2. /\ job' = NoJob /\ node' = RouteAfterExecute /\ Live /\ Room /\ Course /\ Blocked
        /\ job.step \in {"finished", "fetching"} /\ node = "execute_tool"
    BY <1>8 DEF FetchingEnds, ExecuteEnds, LeaveExecute, At, Running, Live
  <2>3. /\ node' \in {"await_confirmation", "generate_answer", "plan"}
        /\ mode = "confirmed" => node' # "plan"
        /\ node' = "await_confirmation" => LastCall.status = "blocked"
    BY <2>2 DEF RouteAfterExecute
  <2>4. node' = "await_confirmation" /\ LastCall.page = 0 => Direct < Most
    <3> SUFFICES ASSUME node' = "await_confirmation", LastCall.page = 0 PROVE Direct < Most
      OBVIOUS
    <3>1. calls # <<>> /\ Len(calls) \in DOMAIN calls
      <4>1. calls \in Seq(Results) /\ calls # <<>>
        BY <2>2 DEF Blocked, TypeOK, Results
      <4> QED
        BY <4>1, FrontFacts
    <3>2. job.step = "finished" /\ JobBlocked
      BY <2>2, <2>3, <3>1 DEF Blocked, LastCall
    <3>3. LastCall.page = job.call.page
      BY <2>2, <3>2 DEF Blocked, Result
    <3> QED
      BY <2>2, <3>2, <3>3 DEF Room
  <2>5. mode # "confirmed" => Direct <= rounds + 1
    BY <1>a, <1>b, <2>2 DEF Room
  <2>6. job'.step = "none"
    BY <2>2 DEF NoJob
  <2>7. rounds + 1 = rounds + 1 + 0 /\ LastCall' = LastCall
    BY <1>b, <2>1 DEF LastCall
  <2> QED
    BY <1>b, <1>c, <2>1, <2>2, <2>3, <2>4, <2>5, <2>6, <2>7 DEF Room, JobBlocked
<1>9. CASE Confirm
  <2>1. /\ mode' = "confirmed" /\ node' = "load_context" /\ Live
        /\ approved' = [tool |-> LastCall.tool, page |-> LastCall.page]
        /\ outcome = "done" /\ "approval" \in saved /\ UNCHANGED <<job, sent>>
    BY <1>9 DEF Confirm, Live, history
  <2>2. node = "await_confirmation" /\ job.step = "none" /\ Room
    BY <1>b, <2>1 DEF Course
  <2>3. approved'.page = LastCall.page
    BY <2>1
  <2> QED
    BY <1>c, <2>1, <2>2, <2>3 DEF Room, JobBlocked
<1> QED
  BY <1>1, <1>2, <1>3, <1>4, <1>5, <1>6, <1>7, <1>8, <1>9 DEF Next, RunStep

-----------------------------------------------------------------------------
(* The audit.                                                              *)

LEMMA TimesAfter ==
    ASSUME NEW S, NEW seq \in Seq(S), NEW e \in S, NEW row
    PROVE  /\ Times(seq, row) \in Nat
           /\ Times(Append(seq, e), row)
                 = IF Row(e, e.status) = row THEN Times(seq, row) + 1 ELSE Times(seq, row)
<1>1. PICK both : both = Append(seq, e)
  OBVIOUS
<1>2. PICK n \in Nat : n = Len(seq)
  BY AppendFacts
<1>3. /\ DOMAIN seq = 1..n /\ DOMAIN both = 1..(n + 1)
      /\ \A k \in 1..n : both[k] = seq[k]
      /\ both[n + 1] = e
  BY <1>1, <1>2, AppendFacts
<1>4. PICK K \in SUBSET (1..n) : K = {k \in DOMAIN seq : Row(seq[k], seq[k].status) = row}
  BY <1>3
<1>5. {k \in DOMAIN both : Row(both[k], both[k].status) = row}
         = IF Row(e, e.status) = row THEN K \cup {n + 1} ELSE K
  BY <1>3, <1>4
<1>6. Cardinality(K) \in Nat /\ Cardinality(K \cup {n + 1}) = Cardinality(K) + 1
  BY OneMore
<1>7. Times(seq, row) = Cardinality(K)
  BY <1>4 DEF Times
<1>8. Times(both, row) = IF Row(e, e.status) = row THEN Cardinality(K \cup {n + 1})
                         ELSE Cardinality(K)
  BY <1>5 DEF Times
<1> QED
  BY <1>1, <1>6, <1>7, <1>8

LEMMA TimesOfFront ==
    ASSUME NEW S, NEW seq \in Seq(S), seq # <<>>, NEW row,
           Row(seq[Len(seq)], seq[Len(seq)].status) # row
    PROVE  Times(SubSeq(seq, 1, Len(seq) - 1), row) = Times(seq, row)
<1>1. PICK front : front = SubSeq(seq, 1, Len(seq) - 1)
  OBVIOUS
<1>2. PICK n \in Nat \ {0} : n = Len(seq)
  BY FrontFacts
<1>3. /\ DOMAIN seq = 1..n /\ DOMAIN front = 1..(n - 1)
      /\ \A k \in 1..(n - 1) : front[k] = seq[k]
      /\ Row(seq[n], seq[n].status) # row
  BY <1>1, <1>2, FrontFacts
<1>4. {k \in DOMAIN front : Row(front[k], front[k].status) = row}
         = {k \in DOMAIN seq : Row(seq[k], seq[k].status) = row}
  BY <1>3
<1> QED
  BY <1>1, <1>4 DEF Times

LEMMA AuditNext ==
    ASSUME CourseInv, CourseInv', AuditInv, [Next]_vars
    PROVE  AuditInv'
<1> USE DEF CourseInv
<1> SUFFICES ASSUME Live', NEW t \in Tools, NEW p \in 0..Pages,
                    NEW s \in Statuses \ {"missing", "blocked"}, NEW row,
                    row = [tool |-> t, page |-> p, status |-> s]
             PROVE  Times(calls', row) = Times(rows', row)
  BY DEF AuditInv
<1>0. Live /\ Course /\ Blocked
  BY LiveBefore
<1>a. Times(calls, row) = Times(rows, row)
  BY <1>0 DEF AuditInv
<1>b. calls \in Seq(Results) /\ calls' \in Seq(Results) /\ rows \in Seq(AuditRows)
      /\ rows' \in Seq(AuditRows)
  BY DEF TypeOK, RunTyped, Results
<1>c. \A call, status : Row(call, status) = row => status = s
  BY DEF Row
<1>d. s # "missing" /\ s # "blocked"
  OBVIOUS
<1>1. CASE ExecutePlan
  <2>1. rows' = rows
    BY <1>1 DEF ExecutePlan
  <2>2. CASE calls' = calls
    BY <1>a, <2>1, <2>2
  <2>3. ASSUME NEW call, calls' = Append(calls, Result(call, "missing"))
        PROVE  Times(calls', row) = Times(rows', row)
    <3>1. PICK e : e = Result(call, "missing")
      OBVIOUS
    <3>2. e \in Results /\ calls' = Append(calls, e)
      BY <1>b, <2>3, <3>1, LastOfAppend
    <3>3. Row(e, e.status) # row
      BY <1>c, <1>d, <3>1 DEF Result
    <3>4. Times(calls', row) = Times(calls, row)
      BY <1>b, <3>2, <3>3, TimesAfter
    <3> QED
      BY <1>a, <2>1, <3>4
  <2> QED
    BY <1>1, <2>2, <2>3 DEF ExecutePlan
<1>2. CASE RecordAudit
  <2>1. /\ rows' = Append(rows, Row(job.call, job.status))
        /\ calls' = Append(calls, Result(job.call, job.status))
    BY <1>2 DEF RecordAudit
  <2>2. PICK e, r : e = Result(job.call, job.status) /\ r = Row(job.call, job.status)
    OBVIOUS
  <2>3. Row(e, e.status) = r /\ Row(r, r.status) = r
    BY <2>2 DEF Row, Result
  <2>4. e \in Results /\ r \in AuditRows
    BY <1>b, <2>1, <2>2, LastOfAppend
  <2>5. Times(calls', row) = IF r = row THEN Times(calls, row) + 1 ELSE Times(calls, row)
    BY <1>b, <2>1, <2>2, <2>3, <2>4, TimesAfter
  <2>6. Times(rows', row) = IF r = row THEN Times(rows, row) + 1 ELSE Times(rows, row)
    BY <1>b, <2>1, <2>2, <2>3, <2>4, TimesAfter
  <2> QED
    BY <1>a, <2>5, <2>6
<1>3. CASE Confirm
  <2>1. rows' = rows /\ calls' = SubSeq(calls, 1, Len(calls) - 1) /\ node = "await_confirmation"
    BY <1>0, <1>3 DEF Confirm, Continuation, history, Course
  <2>2. calls # <<>> /\ calls[Len(calls)].status = "blocked"
    BY <1>0, <2>1 DEF Blocked, LastCall
  <2>3. Row(calls[Len(calls)], calls[Len(calls)].status) # row
    BY <1>c, <1>d, <2>2
  <2>4. Times(calls', row) = Times(calls, row)
    BY <1>b, <2>1, <2>2, <2>3, TimesOfFront
  <2> QED
    BY <1>a, <2>1, <2>4
<1>4. CASE Stop
  BY <1>4 DEF Stop, Live
<1>5. CASE \/ EnsureConversation \/ LoadContext \/ SaveUserMessage \/ Preflight
           \/ RetrieveContext \/ Plan \/ ToolReturns \/ StartFetching \/ FetchPage
           \/ FetchingEnds \/ ExecuteEnds \/ AwaitConfirmation \/ GenerateAnswer \/ Streaming
           \/ AnswerCollected \/ ModelFails \/ SaveAssistantMessage \/ UpdateMemory \/ Refresh
           \/ UNCHANGED vars
  <2>1. UNCHANGED <<calls, rows>>
    BY <1>5 DEF EnsureConversation, LoadContext, SaveUserMessage, Preflight, RetrieveContext,
       Plan, ToolReturns, StartFetching, FetchPage, FetchingEnds, ExecuteEnds, LeaveExecute,
       AwaitConfirmation, GenerateAnswer, Streaming, AnswerCollected, ModelFails,
       SaveAssistantMessage, UpdateMemory, Refresh, graph, history, vars
  <2> QED
    BY <1>a, <2>1
<1> QED
  BY <1>1, <1>2, <1>3, <1>4, <1>5 DEF Next, RunStep

-----------------------------------------------------------------------------
(* The invariant of a turn and what follows from it.                       *)

LEMMA TurnInit == Init => TurnInv
<1> SUFFICES ASSUME Init PROVE TurnInv
  OBVIOUS
<1>1. TypeOK
  <2>1. registry \in [Tools -> Manifests] /\ refreshes \in 0..MaxRefreshes /\ asks \subseteq Intents
    BY GraphParameters DEF Init
  <2>2. StreamTypeOK
    BY RetriesAssumption DEF Init, StreamInit, StreamTypeOK
  <2> QED
    BY <2>1, <2>2, GraphParameters DEF Init, TypeOK, Plans
<1>2. RunTyped
  BY GraphParameters DEF Init, RunTyped, Nodes, NoCall
<1>3. Course /\ Blocked
  BY DEF Init, Course, Blocked, JobBlocked, Fresh, NoJob
<1>4. OnceInv
  BY DEF Init, OnceInv, KnownToolsCalledOnce, ToCome, JobBlocked, OnlyOthersSent, MayCall, NoJob
<1>5. Direct = 0 /\ \A row : Times(<<>>, row) = 0
  <2>1. \A P, k : k \in DOMAIN <<>> => P
    OBVIOUS
  <2>2. {k \in DOMAIN sent : sent[k].page = 0} = {}
    BY DEF Init
  <2>3. ASSUME NEW row PROVE Times(<<>>, row) = 0
    <3>1. {k \in DOMAIN <<>> : Row(<<>>[k], <<>>[k].status) = row} = {}
      OBVIOUS
    <3> QED
      BY <3>1, FS_EmptySet DEF Times
  <2> QED
    BY <2>2, <2>3, FS_EmptySet DEF Direct
<1>6. RoundsInv
  <2>1. CallsWithinRounds /\ Most \in Nat \ {0}
    BY <1>2, <1>5, DirectType
  <2>2. mode # "confirmed" /\ node = "ensure_conversation" /\ job.step = "none" /\ rounds = 0
        /\ job = NoJob
    BY DEF Init, NoJob
  <2> QED
    BY <1>5, <2>1, <2>2 DEF RoundsInv, Room, JobBlocked
<1>7. AuditInv
  BY <1>5 DEF Init, AuditInv
<1> QED
  BY <1>1, <1>2, <1>3, <1>4, <1>6, <1>7 DEF TurnInv, CourseInv

LEMMA TurnNext == TurnInv /\ StreamInv /\ [Next]_vars => TurnInv'
<1> SUFFICES ASSUME TurnInv, StreamInv, [Next]_vars PROVE TurnInv'
  OBVIOUS
<1>1. CourseInv'
  BY TypesNext, CourseNext DEF TurnInv, CourseInv
<1>2. OnceInv'
  BY <1>1, OnceNext DEF TurnInv
<1>3. RoundsInv'
  BY <1>1, RoundsNext DEF TurnInv
<1>4. AuditInv'
  BY <1>1, AuditNext DEF TurnInv
<1> QED
  BY <1>1, <1>2, <1>3, <1>4 DEF TurnInv

LEMMA TurnInvariant == Spec => []TurnInv
<1>1. Init => StreamInv
  BY RetriesAssumption DEF Init, StreamInit, StreamInv, StreamTypeOK, TextOfOneAttempt
<1> QED
  BY <1>1, StreamNext, TurnInit, TurnNext, PTL DEF Spec

\* Over all the runs of a turn, the first one and those that a confirmation
\* starts with an empty count of rounds (AgentRuntime.run_confirmed_tool), no
\* tool the planner knows is called twice, no page of a search is fetched twice,
\* and max_tool_rounds bounds the calls that are not such pages.
THEOREM CallsStayLimited == Spec => []CallsAreLimited
<1>1. TurnInv => CallsAreLimited
  BY DEF TurnInv, CourseInv, OnceInv, RoundsInv, CallsAreLimited
<1> QED
  BY <1>1, TurnInvariant, PTL

\* What a "done" run shows of its calls (tool_results, handed on through
\* ToolApprovalStore.create and continued after the confirmation) is what
\* ToolExecutor committed to the audit, call by call.
THEOREM DoneIsAudited == Spec => []DoneMatchesAudit
<1>1. TurnInv => DoneMatchesAudit
  BY DEF TurnInv, AuditInv, Live, DoneMatchesAudit
<1> QED
  BY <1>1, TurnInvariant, PTL

\* A "done" run has stored the user's message and, of the answer and the
\* approval, exactly the one the turn goes on from (_save_assistant_message,
\* _await_confirmation), in a conversation that is committed.
THEOREM DoneLeavesItsTrace == Spec => []DoneHasItsTrace
<1>1. TurnInv => DoneHasItsTrace
  <2> SUFFICES ASSUME TurnInv, outcome = "done" PROVE DoneHasItsTrace
    BY DEF DoneHasItsTrace
  <2>1. Course /\ Blocked /\ saved \subseteq {"user", "assistant", "approval"}
        /\ calls \in Seq(Results)
    BY DEF TurnInv, CourseInv, Live, TypeOK, Results
  <2>2. node \in {"await_confirmation", "update_memory"}
    BY <2>1 DEF Course
  <2>3. conv = "stored" /\ "user" \in saved
    BY <2>1, <2>2 DEF Course, Fresh
  <2>4. ("assistant" \in saved <=> node = "update_memory")
        /\ ("approval" \in saved <=> node = "await_confirmation" /\ mode # "task")
    BY <2>1 DEF Course
  <2>5. calls # <<>> /\ LastCall.status = "blocked" <=> node = "await_confirmation"
    <3>1. node = "await_confirmation" => calls # <<>> /\ LastCall.status = "blocked"
      BY <2>1 DEF Blocked
    <3>2. ASSUME calls # <<>>, LastCall.status = "blocked", node = "update_memory" PROVE FALSE
      <4>1. Len(calls) \in DOMAIN calls
        BY <2>1, <3>2, FrontFacts
      <4>2. job.step = "finished"
        BY <2>1, <3>2, <4>1 DEF Blocked, LastCall
      <4>3. job # NoJob
        BY <4>2 DEF NoJob
      <4> QED
        BY <2>1, <3>2, <4>3 DEF Course
    <3> QED
      BY <2>2, <3>1, <3>2
  <2>6. saved \ {"user"} = (IF node = "update_memory" THEN {"assistant"} ELSE {})
                           \cup (IF node = "await_confirmation" /\ mode # "task"
                                 THEN {"approval"} ELSE {})
    BY <2>1, <2>4
  <2> QED
    BY <2>2, <2>3, <2>5, <2>6 DEF DoneHasItsTrace
<1> QED
  BY <1>1, TurnInvariant, PTL
=============================================================================
