---------------------------- MODULE ModelStream ----------------------------
(***************************************************************************)
(* One request to the chat model (ModelGateway.stream_reply): the provider *)
(* sends tokens and at last a completion marker; a connection that breaks  *)
(* is tried again as long as nothing has been passed on, and everything is *)
(* under one time budget.                                                  *)
(*                                                                         *)
(* What a token says is left out; which attempt it came from is kept.      *)
(***************************************************************************)
EXTENDS Naturals, FiniteSets

CONSTANT MaxRetries     \* llm_max_retries

ASSUME RetriesAssumption == MaxRetries \in Nat

VARIABLES
    stream,     \* what the caller sees of the request
    attempt,    \* the attempt that is running, from 0
    emitters    \* the attempts that passed a token on

streamVars == <<stream, attempt, emitters>>

StreamTypeOK ==
    /\ stream \in {"idle", "open", "whole", "failed"}
    /\ attempt \in 0..MaxRetries
    /\ emitters \subseteq 0..MaxRetries

StreamInit == stream = "idle" /\ attempt = 0 /\ emitters = {}

OpenStream == stream' = "open" /\ attempt' = 0 /\ emitters' = {}

\* A delta with text. Usage-only events and reasoning carry none.
Token ==
    /\ stream = "open"
    /\ emitters' = emitters \cup {attempt}
    /\ UNCHANGED <<stream, attempt>>

\* [DONE], or a delta whose finish_reason is "stop".
Completed ==
    /\ stream = "open"
    /\ stream' = "whole"
    /\ UNCHANGED <<attempt, emitters>>

MayTryAgainDespiteTokens(passing) == passing /\ attempt < MaxRetries

\* "Replaying after even one emitted token duplicates partial answers."
MayTryAgain(passing) == emitters = {} /\ passing /\ attempt < MaxRetries

\* A transport error or an HTTP error status; passing ones may be tried again.
ConnectionBreaks ==
    /\ stream = "open"
    /\ \E passing \in BOOLEAN :
          IF MayTryAgain(passing)
          THEN attempt' = attempt + 1 /\ stream' = stream
          ELSE stream' = "failed" /\ attempt' = attempt
    /\ UNCHANGED emitters

\* Invalid JSON or choices, another finish_reason, an oversized event, or the
\* end of the data without a marker: never tried again.
BadResponse ==
    /\ stream = "open"
    /\ stream' = "failed"
    /\ UNCHANGED <<attempt, emitters>>

\* The budget of the whole request, retries and pauses included, is used up.
Overdue == stream = "open" /\ stream' = "failed" /\ UNCHANGED <<attempt, emitters>>

StreamStep == Token \/ Completed \/ ConnectionBreaks \/ BadResponse \/ Overdue
=============================================================================
