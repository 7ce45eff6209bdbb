--------------------------- MODULE ToolApprovals ---------------------------
(***************************************************************************)
(* Tool approvals of one conversation: a chat stream that meets a tool     *)
(* which requires confirmation saves a pending approval; a confirmation    *)
(* consumes it, runs the tool and continues, possibly into the approval of *)
(* the next page of a search; cancelling, expiry, repeated confirmations,  *)
(* disconnects and crashes come in between.                                *)
(*                                                                         *)
(* A confirmation is an HTTP request. Its route claims the approval and    *)
(* commits; the stream that does the work starts only when the response is *)
(* sent, and may never start. Each locked transaction is one action.       *)
(***************************************************************************)
EXTENDS Naturals, FiniteSets

CONSTANTS
    Approvals,      \* ids of the messages that may carry an approval
    Requests,       \* requests to confirm
    NoApproval,     \* a request that claimed nothing; an approval without parent
    Pages           \* how many pages a search may want to fetch

ASSUME ApprovalParameters ==
    /\ Pages \in Nat \ {0}
    /\ NoApproval \notin Approvals

VARIABLES
    alive,      \* the conversation has not been deleted
    status,     \* metadata.approval.status of the message
    late,       \* approvals whose expires_at has passed
    page,       \* which page of the search the approved call fetches
    parent,     \* the approval whose continuation asked for this one
    step,       \* where the confirmation request is
    claim,      \* the approval it claimed
    calls,      \* calls[a]: requests that handed a's tool call over
    answered    \* approvals whose continuation saved its answer

message == <<alive, status, late, page, parent>>
history == <<calls, answered>>
vars == <<message, step, claim, history>>

Statuses == {"absent", "pending", "approved", "completed", "interrupted",
             "cancelled", "expired", "deleted"}
Resolved == {"completed", "interrupted", "cancelled", "expired", "deleted"}

\* stream_confirmed_tool inside its try block.
Streaming == {"running", "called", "continuing", "finishing", "committed"}
Steps == {"idle", "claimed", "aborting", "ended"} \cup Streaming

TypeOK ==
    /\ alive \in BOOLEAN
    /\ status \in [Approvals -> Statuses]
    /\ late \subseteq Approvals
    /\ page \in [Approvals -> 0..Pages]
    /\ parent \in [Approvals -> Approvals \cup {NoApproval}]
    /\ step \in [Requests -> Steps]
    /\ claim \in [Requests -> Approvals \cup {NoApproval}]
    /\ calls \in [Approvals -> SUBSET Requests]
    /\ answered \subseteq Approvals

Init ==
    /\ alive = TRUE
    /\ status = [a \in Approvals |-> "absent"]
    /\ late = {}
    /\ page = [a \in Approvals |-> 0]
    /\ parent = [a \in Approvals |-> NoApproval]
    /\ step = [r \in Requests |-> "idle"]
    /\ claim = [r \in Requests |-> NoApproval]
    /\ calls = [a \in Approvals |-> {}]
    /\ answered = {}

-----------------------------------------------------------------------------
(* Faulty variants, one line away from the code; no action uses them.      *)

UnresolvedIfNotRefused(a) == status[a] \in {"pending", "approved"}

StillApprovedUnlessCancelled(a) == status[a] \in {"approved", "completed"}

QueueNotPopped(r) == page[claim[r]]

ContinuedWithoutClaim(r, a) ==
    /\ step' = [step EXCEPT ![r] = "claimed"]
    /\ claim' = [claim EXCEPT ![r] = a]
    /\ UNCHANGED <<message, history>>

FinishedAtTheCall(r) == step[r] \in {"continuing", "finishing"}

-----------------------------------------------------------------------------
(* ToolApprovalStore.                                                      *)

SetStatus(a, value) == status' = [status EXCEPT ![a] = value]

\* _require_pending, apart from the expiry.
Unresolved(a) == status[a] = "pending"

\* create: a new message in a conversation that still exists.
Create(b, from, wanted) ==
    /\ alive
    /\ status[b] = "absent"
    /\ SetStatus(b, "pending")
    /\ page' = [page EXCEPT ![b] = wanted]
    /\ parent' = [parent EXCEPT ![b] = from]
    /\ UNCHANGED <<alive, late>>

\* The end of claim: the approval is consumed before anything else is done.
Consume(r, a) ==
    /\ SetStatus(a, "approved")
    /\ step' = [step EXCEPT ![r] = "claimed"]
    /\ claim' = [claim EXCEPT ![r] = a]
    /\ UNCHANGED <<alive, late, page, parent, history>>

\* What interrupt tests after it has reloaded the message.
StillApproved(a) == status[a] = "approved"

-----------------------------------------------------------------------------
(* The routes and the world.                                               *)

\* await_confirmation of the chat stream: the first page of the one search, or
\* the one tool, that this module follows.
Ask(b) ==
    /\ \A a \in Approvals : parent[a] = NoApproval => page[a] = 0
    /\ Create(b, NoApproval, 1)
    /\ UNCHANGED <<step, claim, history>>

\* POST /chat/confirm/stream, by approval_id or by the stored plan.
Confirm(r, a) ==
    /\ step[r] = "idle"
    /\ Unresolved(a)
    /\ a \notin late
    /\ Consume(r, a)

\* claim and cancel both find out that the approval has expired.
FindExpired(a) ==
    /\ Unresolved(a)
    /\ a \in late
    /\ SetStatus(a, "expired")
    /\ UNCHANGED <<alive, late, page, parent, step, claim, history>>

\* POST /chat/confirm/cancel; cancelling twice changes nothing.
CancelApproval(a) ==
    /\ Unresolved(a)
    /\ a \notin late
    /\ SetStatus(a, "cancelled")
    /\ UNCHANGED <<alive, late, page, parent, step, claim, history>>

BecomeLate(a) ==
    /\ status[a] = "pending"
    /\ late' = late \cup {a}
    /\ UNCHANGED <<alive, status, page, parent, step, claim, history>>

\* DELETE /conversations/{id} removes the messages in the same transaction.
DeleteConversation ==
    /\ alive
    /\ alive' = FALSE
    /\ status' = [a \in Approvals |-> IF status[a] = "absent" THEN "absent" ELSE "deleted"]
    /\ UNCHANGED <<late, page, parent, step, claim, history>>

-----------------------------------------------------------------------------
(* AgentRuntime.stream_confirmed_tool.                                     *)

Move(r, from, to) == step[r] = from /\ step' = [step EXCEPT ![r] = to] /\ UNCHANGED claim

StartStream(r) == Move(r, "claimed", "running") /\ UNCHANGED <<message, history>>

\* ToolExecutor.run dispatches without looking at the approval again.
CallTool(r) ==
    /\ Move(r, "running", "called")
    /\ calls' = [calls EXCEPT ![claim[r]] = @ \cup {r}]
    /\ UNCHANGED <<message, answered>>

\* The tool returned, failed or timed out; or it is disabled or unknown by now,
\* or its arguments are refused, and nothing was dispatched. The graph goes on.
ToolDone(r) ==
    /\ Move(r, "called", "continuing") \/ Move(r, "running", "continuing")
    /\ UNCHANGED <<message, history>>

\* _fetch_search_targets pops the next page off the saved queue.
NextPage(r) == page[claim[r]] + 1

\* The next page needs a confirmation of its own.
AskNext(r) ==
    /\ Move(r, "continuing", "finishing")
    /\ page[claim[r]] < Pages
    /\ \E b \in Approvals : Create(b, claim[r], NextPage(r))
    /\ UNCHANGED history

\* The queue is empty, or Fetch MCP is no longer registered.
Answer(r) ==
    /\ alive
    /\ Move(r, "continuing", "finishing")
    /\ answered' = answered \cup {claim[r]}
    /\ UNCHANGED <<message, calls>>

\* The done event has been seen.
DoneSeen(r) == step[r] = "finishing"

\* finish(approval, "completed") has committed; `completed` is not set yet.
Finish(r) ==
    /\ DoneSeen(r)
    /\ alive
    /\ SetStatus(claim[r], "completed")
    /\ step' = [step EXCEPT ![r] = "committed"]
    /\ UNCHANGED <<alive, late, page, parent, claim, history>>

Return(r) == Move(r, "committed", "ended") /\ UNCHANGED <<message, history>>

\* An exception, the time budget of the run, or the client's disconnect.
Abort(r) ==
    /\ \E from \in Streaming : Move(r, from, "aborting")
    /\ UNCHANGED <<message, history>>

\* interrupt, in the finally clause.
Interrupt(r) ==
    /\ Move(r, "aborting", "ended")
    /\ IF alive /\ StillApproved(claim[r])
       THEN SetStatus(claim[r], "interrupted") /\ UNCHANGED <<alive, late, page, parent>>
       ELSE UNCHANGED message
    /\ UNCHANGED history

\* The process dies, the response is never sent, or the clean-up fails or takes
\* longer than five seconds: the claim stands.
Vanish(r) ==
    /\ \E from \in Streaming \cup {"claimed", "aborting"} : Move(r, from, "ended")
    /\ UNCHANGED <<message, history>>

-----------------------------------------------------------------------------

Stream(r) ==
    \/ StartStream(r) \/ CallTool(r) \/ ToolDone(r) \/ AskNext(r) \/ Answer(r)
    \/ Finish(r) \/ Return(r) \/ Abort(r) \/ Interrupt(r) \/ Vanish(r)

Next ==
    \/ \E a \in Approvals :
           \/ Ask(a) \/ FindExpired(a) \/ CancelApproval(a) \/ BecomeLate(a)
           \/ \E r \in Requests : Confirm(r, a)
    \/ \E r \in Requests : Stream(r)
    \/ DeleteConversation

Spec == Init /\ [][Next]_vars

-----------------------------------------------------------------------------
(* Properties.                                                             *)

\* "Duplicate, expired, mismatched ... requests cannot execute tools": however
\* often and wherever from an approval is confirmed, its tool is called once.
OneCallPerApproval ==
    \A a \in Approvals : \A r1, r2 \in calls[a] : r1 = r2

\* "Confirmation resumes the remaining queue without repeating ... previously
\* completed fetches": through all the approvals of a search, interrupted or
\* not, no page is fetched twice.
PageFetchedOnce ==
    \A a, b \in Approvals : calls[a] # {} /\ calls[b] # {} /\ page[a] = page[b] => a = b

\* "Cancelling the pending approval stops that enrichment chain", and so does
\* letting it expire: nothing was called for it, and it has no continuation.
RefusalStopsTheChain ==
    \A a \in Approvals : status[a] \in {"pending", "cancelled", "expired"} =>
        /\ calls[a] = {}
        /\ a \notin answered
        /\ \A b \in Approvals : parent[b] # a

\* "Interrupted continuations remain consumed", completed ones stay completed
\* although the stream is torn down in the middle of recording it, and a
\* refused approval cannot be revived: only the conversation's end follows.
ResolutionIsFinal ==
    [][\A a \in Approvals : status[a] \in Resolved => status'[a] \in {status[a], "deleted"}]_vars

HasTrace(a) == a \in answered \/ \E b \in Approvals : parent[b] = a

\* A completed approval has led to something the user can see: the saved answer
\* of its continuation, or the next approval of the chain.
CompletionLeavesATrace ==
    \A a \in Approvals : status[a] = "completed" => HasTrace(a)

\* The inductive invariant behind the properties above.
ClaimsInOrder ==
    /\ \A r \in Requests : claim[r] = NoApproval <=> step[r] = "idle"
    /\ \A r1, r2 \in Requests : claim[r1] = claim[r2] /\ claim[r1] # NoApproval => r1 = r2
    /\ \A r \in Requests : claim[r] # NoApproval =>
           status[claim[r]] \in {"approved", "completed", "interrupted", "deleted"}
    /\ \A r \in Requests :
           alive /\ step[r] \in {"claimed", "running", "called", "continuing", "finishing"}
               => status[claim[r]] = "approved"

\* The continuation of a has got past its tools.
PastTheTools(a) ==
    \E r \in Requests :
        claim[r] = a /\ step[r] \in {"finishing", "committed", "aborting", "ended"}

TracesInOrder ==
    /\ \A a \in Approvals : \A r \in calls[a] : claim[r] = a
    /\ \A a \in Approvals : HasTrace(a) => PastTheTools(a)
    /\ \A r \in Requests : step[r] \in {"finishing", "committed"} => HasTrace(claim[r])

PagesInOrder ==
    /\ \A a \in Approvals : status[a] = "absent" <=> page[a] = 0
    /\ \A a \in Approvals : page[a] = 0 => parent[a] = NoApproval
    /\ \A a \in Approvals : page[a] # 0 =>
           IF parent[a] = NoApproval THEN page[a] = 1
           ELSE page[parent[a]] # 0 /\ page[a] = page[parent[a]] + 1
    /\ \A a, b \in Approvals : page[a] # 0 /\ page[a] = page[b] => a = b

\* An approval is claimed by one request, which alone moves it on; a search has
\* one approval for each page it has come to, and none is asked for or answered
\* before the tool of the page before is done with.
ApprovalInv ==
    /\ ClaimsInOrder
    /\ TracesInOrder
    /\ PagesInOrder
    /\ CompletionLeavesATrace
=============================================================================
