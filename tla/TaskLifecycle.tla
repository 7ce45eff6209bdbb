--------------------------- MODULE TaskLifecycle ---------------------------
(***************************************************************************)
(* What the durable task queue promises, without workers, leases, tokens,  *)
(* heartbeats or timers.                                                   *)
(*                                                                         *)
(* A task waits, is tried at most MaxAttempts times and is over once; from *)
(* the moment a try is sealed (a tool is about to be dispatched, or an     *)
(* answer saved) the task is never tried again, and whatever reaches the   *)
(* outside world comes from that one try.                                  *)
(***************************************************************************)
EXTENDS Naturals

CONSTANTS Tasks,        \* the rows of the tasks table
          Execs,        \* the executions (tries) that may ever be started
          MaxAttempts   \* tasks.max_attempts

VARIABLES phase,        \* phase[t]: "absent", "waiting", "trying" or "over"
          tries,        \* tries[t]: how many times t was tried
          sealed,       \* sealed[t]: t may not be tried again
          sealers,      \* sealers[t]: the executions that sealed t
          effects       \* effects[t]: the executions whose effects got out

vars == <<phase, tries, sealed, sealers, effects>>

Init ==
    /\ phase \in [Tasks -> {"absent", "waiting", "trying"}]
    /\ tries \in [Tasks -> 0..MaxAttempts]
    /\ sealed \in [Tasks -> BOOLEAN]
    /\ sealers = [t \in Tasks |-> {}]
    /\ effects = [t \in Tasks |-> {}]

Submit(t) ==
    /\ phase[t] = "absent"
    /\ phase' = [phase EXCEPT ![t] = "waiting"]
    /\ UNCHANGED <<tries, sealed, sealers, effects>>

Try(t) ==
    /\ phase[t] = "waiting"
    /\ ~sealed[t]
    /\ tries[t] < MaxAttempts
    /\ phase' = [phase EXCEPT ![t] = "trying"]
    /\ tries' = [tries EXCEPT ![t] = @ + 1]
    /\ UNCHANGED <<sealed, sealers, effects>>

\* One execution, and only one, may seal a task; it may do so repeatedly.
Seal(t, e) ==
    /\ phase[t] = "trying"
    /\ sealers[t] \subseteq {e}
    /\ sealed' = [sealed EXCEPT ![t] = TRUE]
    /\ sealers' = [sealers EXCEPT ![t] = {e}]
    /\ UNCHANGED <<phase, tries>>
    /\ \/ UNCHANGED effects
       \/ effects' = [effects EXCEPT ![t] = @ \cup {e}]

\* A dispatched call cannot be recalled: it may land after the task is over.
Effect(t, e) ==
    /\ sealers[t] = {e}
    /\ effects' = [effects EXCEPT ![t] = @ \cup {e}]
    /\ UNCHANGED <<phase, tries, sealed, sealers>>

GiveBack(t) ==
    /\ phase[t] = "trying"
    /\ ~sealed[t]
    /\ phase' = [phase EXCEPT ![t] = "waiting"]
    /\ UNCHANGED <<tries, sealed, sealers, effects>>

End(t) ==
    /\ phase[t] \in {"waiting", "trying"}
    /\ phase' = [phase EXCEPT ![t] = "over"]
    /\ UNCHANGED <<tries, sealed, sealers, effects>>

Next ==
    \E t \in Tasks :
        \/ Submit(t) \/ Try(t) \/ GiveBack(t) \/ End(t)
        \/ \E e \in Execs : Seal(t, e) \/ Effect(t, e)

Spec == Init /\ [][Next]_vars
=============================================================================
