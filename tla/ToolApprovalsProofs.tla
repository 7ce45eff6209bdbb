------------------------ MODULE ToolApprovalsProofs ------------------------
(***************************************************************************)
(* Proofs about ToolApprovals, for every number of approvals, requests and *)
(* pages. Types need the invariant (only a claimed approval has a page to  *)
(* go on from), so the two are proved together.                            *)
(***************************************************************************)
EXTENDS ToolApprovals, TLAPS

Inv == TypeOK /\ ApprovalInv

-----------------------------------------------------------------------------
(* The conversation and its routes.                                        *)

LEMMA InitInv == Init => Inv
  BY ApprovalParameters
  DEF Inv, Init, TypeOK, Statuses, Steps, ApprovalInv, ClaimsInOrder, TracesInOrder,
      PagesInOrder, CompletionLeavesATrace, HasTrace, PastTheTools

\* What nobody has claimed has no call, no answer and no continuation yet.
LEMMA Unclaimed ==
  ASSUME Inv, NEW a \in Approvals, status[a] \in {"absent", "pending", "cancelled", "expired"}
  PROVE  /\ \A r \in Requests : claim[r] # a
         /\ calls[a] = {}
         /\ ~HasTrace(a)
<1>1. \A r \in Requests : claim[r] # a
  BY ApprovalParameters DEF Inv, ApprovalInv, ClaimsInOrder
<1>2. calls[a] = {}
  BY <1>1 DEF Inv, TypeOK, ApprovalInv, TracesInOrder
<1>3. ~HasTrace(a)
  BY <1>1 DEF Inv, ApprovalInv, TracesInOrder, PastTheTools
<1> QED
  BY <1>1, <1>2, <1>3

\* Refusing a pending approval, or letting it expire, touches no claim.
LEMMA RefusalKeepsInv ==
  ASSUME Inv, NEW a \in Approvals,
         FindExpired(a) \/ CancelApproval(a) \/ BecomeLate(a)
  PROVE  Inv'
<1>1. /\ status[a] = "pending"
      /\ \E v \in {"pending", "expired", "cancelled"} : status' = [status EXCEPT ![a] = v]
      /\ late' \in {late, late \cup {a}}
      /\ UNCHANGED <<alive, page, parent, step, claim, calls, answered>>
  BY DEF FindExpired, CancelApproval, BecomeLate, Unresolved, SetStatus, history,
         Inv, TypeOK
<1>2. TypeOK'
  BY <1>1 DEF Inv, TypeOK, Statuses
<1>3. \A r \in Requests : claim[r] # a
  BY <1>1, Unclaimed
<1>4. ClaimsInOrder'
  BY <1>1, <1>3 DEF Inv, TypeOK, ApprovalInv, ClaimsInOrder
<1>5. TracesInOrder'
  BY <1>1 DEF Inv, TypeOK, ApprovalInv, TracesInOrder, HasTrace, PastTheTools
<1>6. PagesInOrder'
  BY <1>1 DEF Inv, TypeOK, ApprovalInv, PagesInOrder
<1>7. CompletionLeavesATrace'
  BY <1>1 DEF Inv, TypeOK, ApprovalInv, CompletionLeavesATrace, HasTrace
<1> QED
  BY <1>2, <1>4, <1>5, <1>6, <1>7 DEF Inv, ApprovalInv

\* The claim is the first, because the approval was pending.
LEMMA ConfirmKeepsInv ==
  ASSUME Inv, NEW a \in Approvals, NEW r \in Requests, Confirm(r, a)
  PROVE  Inv'
<1> USE ApprovalParameters
<1> USE DEF Inv, ApprovalInv
<1>1. /\ step[r] = "idle"
      /\ status[a] = "pending"
      /\ status' = [status EXCEPT ![a] = "approved"]
      /\ step' = [step EXCEPT ![r] = "claimed"]
      /\ claim' = [claim EXCEPT ![r] = a]
      /\ UNCHANGED <<alive, late, page, parent, calls, answered>>
  BY DEF Confirm, Unresolved, Consume, SetStatus, history
<1>2. TypeOK'
  BY <1>1 DEF TypeOK, Statuses, Steps
<1>3. /\ \A r1 \in Requests : claim[r1] # a
      /\ claim[r] = NoApproval
  BY <1>1, Unclaimed DEF ClaimsInOrder
<1>4. ClaimsInOrder'
  BY <1>1, <1>3 DEF TypeOK, ClaimsInOrder
<1>5. TracesInOrder'
  <2>1. \A b \in Approvals : HasTrace(b)' <=> HasTrace(b)
    BY <1>1 DEF HasTrace
  <2>2. \A b \in Approvals : PastTheTools(b) => PastTheTools(b)'
    BY <1>1, <1>3 DEF TypeOK, PastTheTools
  <2>3. \A b \in Approvals : \A r1 \in calls'[b] : claim'[r1] = b
    BY <1>1, <1>3 DEF TypeOK, TracesInOrder
  <2>4. ASSUME NEW r1 \in Requests, step'[r1] \in {"finishing", "committed"}
        PROVE  HasTrace(claim[r1])'
    <3>1. r1 # r /\ step'[r1] = step[r1] /\ claim'[r1] = claim[r1]
      BY <1>1, <2>4 DEF TypeOK
    <3>2. HasTrace(claim[r1])
      BY <2>4, <3>1 DEF TracesInOrder
    <3> QED
      BY <1>1, <3>1, <3>2 DEF HasTrace
  <2> QED
    BY <2>1, <2>2, <2>3, <2>4 DEF TracesInOrder
<1>6. PagesInOrder'
  BY <1>1 DEF TypeOK, PagesInOrder
<1>7. CompletionLeavesATrace'
  BY <1>1 DEF TypeOK, CompletionLeavesATrace, HasTrace
<1> QED
  BY <1>2, <1>4, <1>5, <1>6, <1>7

\* With the conversation its approvals are gone, the requests remain.
LEMMA DeleteKeepsInv ==
  ASSUME Inv, DeleteConversation
  PROVE  Inv'
<1> USE DEF Inv, ApprovalInv
<1>1. /\ alive' = FALSE
      /\ status' = [a \in Approvals |-> IF status[a] = "absent" THEN "absent" ELSE "deleted"]
      /\ UNCHANGED <<late, page, parent, step, claim, calls, answered>>
  BY DEF DeleteConversation, history
<1>2. TypeOK'
  BY <1>1 DEF TypeOK, Statuses
<1>3. ClaimsInOrder'
  BY <1>1, ApprovalParameters DEF TypeOK, ClaimsInOrder
<1>4. TracesInOrder'
  BY <1>1 DEF TracesInOrder, HasTrace, PastTheTools
<1>5. PagesInOrder'
  BY <1>1 DEF TypeOK, PagesInOrder
<1>6. CompletionLeavesATrace'
  BY <1>1 DEF TypeOK, CompletionLeavesATrace
<1> QED
  BY <1>2, <1>3, <1>4, <1>5, <1>6

\* The first approval: the search has no page yet.
LEMMA AskKeepsInv ==
  ASSUME Inv, NEW b \in Approvals, Ask(b)
  PROVE  Inv'
<1> USE ApprovalParameters
<1> USE DEF Inv, ApprovalInv
<1>1. /\ status[b] = "absent"
      /\ status' = [status EXCEPT ![b] = "pending"]
      /\ page' = [page EXCEPT ![b] = 1]
      /\ parent' = [parent EXCEPT ![b] = NoApproval]
      /\ UNCHANGED <<alive, late, step, claim, calls, answered>>
  BY DEF Ask, Create, SetStatus, history
<1>2. TypeOK'
  BY <1>1 DEF TypeOK, Statuses
<1>3. \A r \in Requests : claim[r] # b
  BY <1>1, Unclaimed
<1>4. page[b] = 0 /\ parent[b] = NoApproval /\ parent' = parent
  BY <1>1 DEF TypeOK, PagesInOrder
<1>5. ClaimsInOrder'
  BY <1>1, <1>3 DEF TypeOK, ClaimsInOrder
<1>6. TracesInOrder'
  BY <1>1, <1>4 DEF TypeOK, TracesInOrder, HasTrace, PastTheTools
<1>7. \A a \in Approvals : page[a] # 1
  <2> SUFFICES ASSUME NEW a \in Approvals, page[a] = 1 PROVE FALSE
    OBVIOUS
  <2>1. parent[a] # NoApproval
    BY DEF Ask
  <2>2. page[parent[a]] # 0 /\ 1 = page[parent[a]] + 1 /\ parent[a] \in Approvals
    BY <2>1 DEF PagesInOrder, TypeOK
  <2> QED
    BY <2>2 DEF TypeOK
<1>8. PagesInOrder'
  <2>1. \A a \in Approvals : parent[a] # b
    BY <1>1, Unclaimed DEF HasTrace
  <2> QED
    BY <1>1, <1>4, <1>7, <2>1 DEF TypeOK, PagesInOrder
<1>9. CompletionLeavesATrace'
  BY <1>1, <1>4 DEF TypeOK, CompletionLeavesATrace, HasTrace
<1> QED
  BY <1>2, <1>5, <1>6, <1>8, <1>9

-----------------------------------------------------------------------------
(* The confirmed stream.                                                   *)

\* Whoever is anywhere but idle has claimed an approval.
LEMMA HasClaim ==
  ASSUME Inv, NEW r \in Requests, step[r] # "idle"
  PROVE  claim[r] \in Approvals
  BY DEF Inv, TypeOK, ApprovalInv, ClaimsInOrder

\* Steps that change no approval.
LEMMA MoveKeepsInv ==
  ASSUME Inv, NEW r \in Requests,
         StartStream(r) \/ ToolDone(r) \/ Return(r) \/ Abort(r) \/ Vanish(r)
  PROVE  Inv'
<1> DEFINE early == {"claimed", "running", "called", "continuing", "finishing"}
           past == {"finishing", "committed", "aborting", "ended"}
<1> USE DEF Inv, ApprovalInv
<1>1. PICK from \in Steps \ {"idle"}, to \in Steps \ {"idle", "finishing", "committed"} :
        /\ step[r] = from
        /\ step' = [step EXCEPT ![r] = to]
        /\ to \in early => from \in early
        /\ from \in past => to \in past
  BY DEF StartStream, ToolDone, Return, Abort, Vanish, Move, Streaming, Steps
<1>2. UNCHANGED <<alive, status, late, page, parent, claim, calls, answered>>
  BY DEF StartStream, ToolDone, Return, Abort, Vanish, Move, message, history
<1> HIDE DEF early, past
<1>3. \A r1 \in Requests :
        step'[r1] = IF r1 = r THEN to ELSE step[r1]
  BY <1>1 DEF TypeOK
<1>4. TypeOK'
  BY <1>1, <1>2 DEF TypeOK
<1>5. ClaimsInOrder'
  <2>1. \A r1 \in Requests : step'[r1] = "idle" <=> step[r1] = "idle"
    BY <1>1, <1>3
  <2>2. \A r1 \in Requests : step'[r1] \in early => step[r1] \in early
    BY <1>1, <1>3
  <2> QED
    BY <1>2, <2>1, <2>2 DEF ClaimsInOrder, early
<1>6. TracesInOrder'
  <2>1. \A r1 \in Requests : step[r1] \in past => step'[r1] \in past
    BY <1>1, <1>3
  <2>2. \A r1 \in Requests : step'[r1] \in {"finishing", "committed"} => step'[r1] = step[r1]
    BY <1>1, <1>3
  <2> QED
    BY <1>2, <2>1, <2>2 DEF TracesInOrder, HasTrace, PastTheTools, past
<1>7. PagesInOrder'
  BY <1>2 DEF PagesInOrder
<1>8. CompletionLeavesATrace'
  BY <1>2 DEF CompletionLeavesATrace, HasTrace
<1> QED
  BY <1>4, <1>5, <1>6, <1>7, <1>8

\* The request calls the tool of the approval it claimed itself.
LEMMA CallToolKeepsInv ==
  ASSUME Inv, NEW r \in Requests, CallTool(r)
  PROVE  Inv'
<1> USE DEF Inv, ApprovalInv
<1>1. /\ step[r] = "running"
      /\ step' = [step EXCEPT ![r] = "called"]
      /\ calls' = [calls EXCEPT ![claim[r]] = @ \cup {r}]
      /\ UNCHANGED <<alive, status, late, page, parent, claim, answered>>
  BY DEF CallTool, Move, message
<1>2. claim[r] \in Approvals
  BY <1>1, HasClaim
<1>3. TypeOK'
  BY <1>1, <1>2 DEF TypeOK, Steps, Streaming
<1>4. ClaimsInOrder'
  BY <1>1 DEF TypeOK, ClaimsInOrder
<1>5. TracesInOrder'
  BY <1>1, <1>2 DEF TypeOK, TracesInOrder, HasTrace, PastTheTools
<1>6. PagesInOrder'
  BY <1>1 DEF PagesInOrder
<1>7. CompletionLeavesATrace'
  BY <1>1 DEF CompletionLeavesATrace, HasTrace
<1> QED
  BY <1>3, <1>4, <1>5, <1>6, <1>7

\* The next page is new: it could only have been asked for by a continuation of
\* this same approval, and there has been none.
LEMMA AskNextKeepsInv ==
  ASSUME Inv, NEW r \in Requests, AskNext(r)
  PROVE  Inv'
<1> USE ApprovalParameters
<1> USE DEF Inv, ApprovalInv
<1>1. /\ step[r] = "continuing"
      /\ step' = [step EXCEPT ![r] = "finishing"]
      /\ page[claim[r]] < Pages
      /\ UNCHANGED <<claim, calls, answered>>
  BY DEF AskNext, Move, history
<1>2. claim[r] \in Approvals
  BY <1>1, HasClaim
<1>3. PICK b \in Approvals :
        /\ alive
        /\ status[b] = "absent"
        /\ status' = [status EXCEPT ![b] = "pending"]
        /\ page' = [page EXCEPT ![b] = page[claim[r]] + 1]
        /\ parent' = [parent EXCEPT ![b] = claim[r]]
        /\ UNCHANGED <<alive, late>>
  BY DEF AskNext, Create, SetStatus, NextPage
<1>4. /\ \A r1 \in Requests : claim[r1] # b
      /\ \A a \in Approvals : parent[a] # b
      /\ b \notin answered
  BY <1>3, Unclaimed DEF HasTrace
<1>5. page[b] = 0 /\ parent[b] = NoApproval
  BY <1>3 DEF TypeOK, PagesInOrder
<1>6. TypeOK'
  <2>1. page[claim[r]] + 1 \in 0..Pages
    BY <1>1, <1>2 DEF TypeOK
  <2> QED
    BY <1>1, <1>2, <1>3, <2>1 DEF TypeOK, Statuses, Steps, Streaming
<1>7. ClaimsInOrder'
  BY <1>1, <1>3, <1>4 DEF TypeOK, ClaimsInOrder
<1>8. \A a \in Approvals : HasTrace(a)' <=> HasTrace(a) \/ a = claim[r]
  BY <1>1, <1>2, <1>3, <1>5 DEF TypeOK, HasTrace
<1>9. TracesInOrder'
  <2>1. \A a \in Approvals : PastTheTools(a) => PastTheTools(a)'
    BY <1>1 DEF TypeOK, PastTheTools
  <2>2. PastTheTools(claim[r])'
    BY <1>1 DEF TypeOK, PastTheTools
  <2>3. \A a \in Approvals : HasTrace(a)' => PastTheTools(a)'
    BY <1>1, <1>8, <2>1, <2>2 DEF TracesInOrder
  <2>4. \A r1 \in Requests : step'[r1] \in {"finishing", "committed"} =>
          /\ claim[r1] \in Approvals
          /\ HasTrace(claim[r1]) \/ r1 = r
    BY <1>1, <1>2, HasClaim DEF TypeOK, TracesInOrder
  <2>5. \A r1 \in Requests : step'[r1] \in {"finishing", "committed"} => HasTrace(claim[r1])'
    BY <1>1, <1>8, <2>4 DEF HasTrace
  <2> QED
    BY <1>1, <2>3, <2>5 DEF TracesInOrder
<1>10. ~HasTrace(claim[r])
  <2>1. \A r1 \in Requests : claim[r1] = claim[r] => r1 = r
    BY <1>2 DEF ClaimsInOrder
  <2> QED
    BY <1>1, <1>2, <2>1 DEF TracesInOrder, PastTheTools
<1>11. page[claim[r]] \in Nat \ {0}
  BY <1>2, <1>1 DEF TypeOK, ClaimsInOrder, PagesInOrder
<1>12. \A a \in Approvals : page[a] # page[claim[r]] + 1
  <2> SUFFICES ASSUME NEW a \in Approvals, page[a] = page[claim[r]] + 1 PROVE FALSE
    OBVIOUS
  <2>1. page[a] # 0 /\ page[a] # 1
    BY <1>11
  <2>2. parent[a] \in Approvals /\ page[parent[a]] # 0 /\ page[a] = page[parent[a]] + 1
    BY <2>1 DEF PagesInOrder, TypeOK
  <2>3. page[parent[a]] = page[claim[r]]
    BY <1>2, <2>2 DEF TypeOK
  <2>4. parent[a] = claim[r]
    BY <1>2, <2>2, <2>3 DEF PagesInOrder
  <2> QED
    BY <1>10, <2>4 DEF HasTrace
<1>13. PagesInOrder'
  <2>1. b # claim[r]
    BY <1>4
  <2>2. \A a \in Approvals : (status'[a] = "absent" <=> page'[a] = 0)
    BY <1>3, <1>11 DEF TypeOK, PagesInOrder
  <2>3. \A a \in Approvals : page'[a] = 0 => parent'[a] = NoApproval
    BY <1>3, <1>11 DEF TypeOK, PagesInOrder
  <2>4. ASSUME NEW a \in Approvals, page'[a] # 0
        PROVE  IF parent'[a] = NoApproval THEN page'[a] = 1
               ELSE page'[parent'[a]] # 0 /\ page'[a] = page'[parent'[a]] + 1
    <3>1. CASE a = b
      BY <1>2, <1>3, <1>11, <2>1, <3>1 DEF TypeOK
    <3>2. CASE a # b
      <4>1. page'[a] = page[a] /\ parent'[a] = parent[a] /\ parent[a] # b
        BY <1>3, <1>4, <3>2 DEF TypeOK
      <4>2. parent[a] # NoApproval => page'[parent[a]] = page[parent[a]]
        BY <1>3, <4>1 DEF TypeOK
      <4> QED
        BY <2>4, <4>1, <4>2 DEF PagesInOrder
    <3> QED
      BY <3>1, <3>2
  <2>5. \A a1, a2 \in Approvals : page'[a1] # 0 /\ page'[a1] = page'[a2] => a1 = a2
    BY <1>3, <1>12 DEF TypeOK, PagesInOrder
  <2> QED
    BY <2>2, <2>3, <2>4, <2>5 DEF PagesInOrder
<1>14. CompletionLeavesATrace'
  BY <1>3, <1>8 DEF TypeOK, CompletionLeavesATrace
<1> QED
  BY <1>6, <1>7, <1>9, <1>13, <1>14

\* The continuation ends with an answer.
LEMMA AnswerKeepsInv ==
  ASSUME Inv, NEW r \in Requests, Answer(r)
  PROVE  Inv'
<1> USE DEF Inv, ApprovalInv
<1>1. /\ step[r] = "continuing"
      /\ step' = [step EXCEPT ![r] = "finishing"]
      /\ answered' = answered \cup {claim[r]}
      /\ UNCHANGED <<alive, status, late, page, parent, claim, calls>>
  BY DEF Answer, Move, message
<1>2. claim[r] \in Approvals
  BY <1>1, HasClaim
<1>3. TypeOK'
  BY <1>1, <1>2 DEF TypeOK, Steps, Streaming
<1>4. ClaimsInOrder'
  BY <1>1 DEF TypeOK, ClaimsInOrder
<1>5. TracesInOrder'
  <2>1. \A a \in Approvals : HasTrace(a)' => HasTrace(a) \/ a = claim[r]
    BY <1>1 DEF HasTrace
  <2>2. \A a \in Approvals : PastTheTools(a) \/ a = claim[r] => PastTheTools(a)'
    BY <1>1 DEF TypeOK, PastTheTools
  <2>3. \A a \in Approvals : HasTrace(a)' => PastTheTools(a)'
    BY <2>1, <2>2 DEF TracesInOrder
  <2>4. \A r1 \in Requests : step'[r1] \in {"finishing", "committed"} => HasTrace(claim[r1])'
    BY <1>1 DEF TypeOK, TracesInOrder, HasTrace
  <2> QED
    BY <1>1, <2>3, <2>4 DEF TracesInOrder
<1>6. PagesInOrder'
  BY <1>1 DEF PagesInOrder
<1>7. CompletionLeavesATrace'
  BY <1>1 DEF CompletionLeavesATrace, HasTrace
<1> QED
  BY <1>3, <1>4, <1>5, <1>6, <1>7

\* Only the request that claimed an approval closes it: at the end of its run
\* or in its clean-up.
LEMMA CloseKeepsInv ==
  ASSUME Inv, NEW r \in Requests, Finish(r) \/ Interrupt(r)
  PROVE  Inv'
<1> USE ApprovalParameters
<1> USE DEF Inv, ApprovalInv
<1>1. PICK to \in {"committed", "ended"} :
        /\ step[r] \in {"finishing", "aborting"}
        /\ step' = [step EXCEPT ![r] = to]
        /\ to = "committed" => step[r] = "finishing"
        /\ UNCHANGED <<alive, late, page, parent, claim, calls, answered>>
  BY DEF Finish, DoneSeen, Interrupt, Move, message, history
<1>2. claim[r] \in Approvals
  BY <1>1, HasClaim
<1>3. /\ \A r1 \in Requests : claim[r1] = claim[r] => r1 = r
      /\ status[claim[r]] \in {"approved", "completed", "interrupted", "deleted"}
  BY <1>2 DEF ClaimsInOrder
<1>4. PICK v \in {"completed", "interrupted", status[claim[r]]} :
        /\ status' = [status EXCEPT ![claim[r]] = v]
        /\ v = "completed" => step[r] = "finishing" \/ v = status[claim[r]]
  BY <1>2 DEF Finish, DoneSeen, Interrupt, SetStatus, message, TypeOK
<1>5. TypeOK'
  BY <1>1, <1>4, <1>3 DEF TypeOK, Statuses, Steps, Streaming
<1>6. ClaimsInOrder'
  BY <1>1, <1>2, <1>3, <1>4 DEF TypeOK, ClaimsInOrder
<1>7. TracesInOrder'
  <2>1. \A a \in Approvals : PastTheTools(a) => PastTheTools(a)'
    BY <1>1 DEF TypeOK, PastTheTools
  <2>2. \A a \in Approvals : HasTrace(a)' => PastTheTools(a)'
    BY <1>1, <2>1 DEF TracesInOrder, HasTrace
  <2>3. \A r1 \in Requests : step'[r1] \in {"finishing", "committed"} => HasTrace(claim[r1])'
    BY <1>1 DEF TypeOK, TracesInOrder, HasTrace
  <2> QED
    BY <1>1, <2>2, <2>3 DEF TracesInOrder
<1>8. PagesInOrder'
  BY <1>1, <1>3, <1>4 DEF TypeOK, PagesInOrder
<1>9. CompletionLeavesATrace'
  <2>1. step[r] = "finishing" => HasTrace(claim[r])
    BY DEF TracesInOrder
  <2> QED
    BY <1>1, <1>4, <2>1 DEF TypeOK, CompletionLeavesATrace, HasTrace
<1> QED
  BY <1>5, <1>6, <1>7, <1>8, <1>9

-----------------------------------------------------------------------------
(* The invariant and what follows from it.                                 *)

LEMMA NextKeepsInv == Inv /\ [Next]_vars => Inv'
<1> SUFFICES ASSUME Inv, [Next]_vars PROVE Inv'
  OBVIOUS
<1>1. CASE UNCHANGED vars
  BY <1>1 DEF vars, message, history, Inv, TypeOK, ApprovalInv, ClaimsInOrder,
              TracesInOrder, PagesInOrder, CompletionLeavesATrace, HasTrace, PastTheTools
<1>2. ASSUME NEW a \in Approvals,
             \/ Ask(a) \/ FindExpired(a) \/ CancelApproval(a) \/ BecomeLate(a)
             \/ \E r \in Requests : Confirm(r, a)
      PROVE  Inv'
  BY <1>2, AskKeepsInv, RefusalKeepsInv, ConfirmKeepsInv
<1>3. ASSUME NEW r \in Requests, Stream(r) PROVE Inv'
  BY <1>3, MoveKeepsInv, CallToolKeepsInv, AskNextKeepsInv, AnswerKeepsInv, CloseKeepsInv
     DEF Stream
<1>4. CASE DeleteConversation
  BY <1>4, DeleteKeepsInv
<1> QED
  BY <1>1, <1>2, <1>3, <1>4 DEF Next

\* Types, claims, traces and pages, in every reachable state.
LEMMA Invariant == Spec => []Inv
<1> QED
  BY InitInv, NextKeepsInv, PTL DEF Spec

\* Every column, request and history variable stays within its type; in
\* particular no page beyond the saved queue is ever asked for.
THEOREM TypeCorrect == Spec => []TypeOK
<1>1. Inv => TypeOK
  BY DEF Inv
<1> QED
  BY <1>1, Invariant, PTL

\* The invariant the runs check holds however many approvals and requests there
\* are: one claim for an approval, and one approval for a page.
THEOREM ApprovalInvariant == Spec => []ApprovalInv
<1>1. Inv => ApprovalInv
  BY DEF Inv
<1> QED
  BY <1>1, Invariant, PTL

\* ToolApprovalStore.claim consumes an approval under the lock of its message:
\* no two requests hand the approved call to the executor.
THEOREM OneCall == Spec => []OneCallPerApproval
<1>1. Inv => OneCallPerApproval
  BY ApprovalParameters
  DEF Inv, TypeOK, ApprovalInv, ClaimsInOrder, TracesInOrder, OneCallPerApproval
<1> QED
  BY <1>1, Invariant, PTL

\* _fetch_search_targets pops the queue before it asks for the next page: no
\* page is fetched for two approvals of the search.
THEOREM PagesOnce == Spec => []PageFetchedOnce
<1>1. Inv => PageFetchedOnce
  <2> SUFFICES ASSUME Inv, NEW a \in Approvals, calls[a] # {} PROVE page[a] # 0
    BY DEF Inv, ApprovalInv, PagesInOrder, PageFetchedOnce
  <2>1. status[a] # "absent"
    BY Unclaimed
  <2> QED
    BY <2>1 DEF Inv, ApprovalInv, PagesInOrder
<1> QED
  BY <1>1, Invariant, PTL

\* A cancelled or expired approval has led to no call, answer or further
\* approval, whatever raced with its refusal.
THEOREM RefusalStops == Spec => []RefusalStopsTheChain
<1>1. Inv => RefusalStopsTheChain
  BY Unclaimed DEF RefusalStopsTheChain, HasTrace
<1> QED
  BY <1>1, Invariant, PTL

\* finish(approval, "completed") comes after the answer or the next approval.
THEOREM CompletionTraced == Spec => []CompletionLeavesATrace
<1>1. Inv => CompletionLeavesATrace
  BY DEF Inv, ApprovalInv
<1> QED
  BY <1>1, Invariant, PTL

\* No route and no clean-up changes a resolved approval, short of deleting the
\* conversation.
THEOREM ResolutionFinal == Spec => ResolutionIsFinal
<1> DEFINE Final == \A a \in Approvals :
                      status[a] \in Resolved => status'[a] \in {status[a], "deleted"}
<1>1. Inv /\ [Next]_vars => [Final]_vars
  <2> SUFFICES ASSUME Inv, [Next]_vars PROVE Final
    OBVIOUS
  <2>1. CASE status' = status
    BY <2>1
  <2>2. ASSUME NEW a \in Approvals, NEW v, status[a] \notin Resolved,
               status' = [status EXCEPT ![a] = v]
        PROVE  Final
    BY <2>2 DEF Inv, TypeOK
  <2>3. ASSUME NEW a \in Approvals,
               \/ Ask(a) \/ FindExpired(a) \/ CancelApproval(a) \/ BecomeLate(a)
               \/ \E r \in Requests : Confirm(r, a)
        PROVE  Final
    <3>1. CASE BecomeLate(a)
      BY <2>1, <3>1 DEF BecomeLate
    <3> QED
      BY <2>2, <2>3, <3>1 DEF Ask, Create, FindExpired, CancelApproval, Confirm, Consume,
                              Unresolved, SetStatus, Resolved
  <2>4. ASSUME NEW r \in Requests, Stream(r) PROVE Final
    <3>1. CASE AskNext(r)
      BY <2>2, <3>1 DEF AskNext, Create, SetStatus, Resolved
    <3>2. CASE Finish(r)
      <4>1. claim[r] \in Approvals /\ status[claim[r]] = "approved"
        BY <3>2, HasClaim DEF Finish, DoneSeen, Inv, ApprovalInv, ClaimsInOrder
      <4> QED
        BY <2>2, <3>2, <4>1 DEF Finish, SetStatus, Resolved
    <3>3. CASE Interrupt(r)
      <4>1. claim[r] \in Approvals
        BY <3>3, HasClaim DEF Interrupt, Move
      <4> QED
        BY <2>1, <2>2, <3>3, <4>1 DEF Interrupt, StillApproved, SetStatus, Resolved, message
    <3> QED
      BY <2>1, <2>4, <3>1, <3>2, <3>3
      DEF Stream, StartStream, CallTool, ToolDone, Answer, Return, Abort, Vanish, message
  <2>5. CASE DeleteConversation
    BY <2>5 DEF DeleteConversation, Resolved
  <2> QED
    BY <2>1, <2>3, <2>4, <2>5 DEF Next, vars, message
<1> QED
  BY <1>1, Invariant, PTL DEF Spec, ResolutionIsFinal
=============================================================================
