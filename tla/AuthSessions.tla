---------------------------- MODULE AuthSessions ----------------------------
(***************************************************************************)
(* Accounts and sessions: the admission limits of sign-in requests, log-in *)
(* and registration with password work off the event loop, the cap on the  *)
(* sessions of a user, the use of a session and the ways to end one. All   *)
(* requests come from one address.                                         *)
(*                                                                         *)
(* A step is a statement or a transaction whose rows are locked to its     *)
(* end; the lock on the user's row is a variable.                          *)
(***************************************************************************)
EXTENDS Naturals, FiniteSets, SequencesExt

CONSTANTS
    LogIns, Registrations,  \* the sign-in requests; a session is named after its request
    Visits,                 \* the other requests, each with a session
    Names, NameOf,          \* user names and the one each sign-in is for
    Known,                  \* users that are there from the start, with a legacy hash
    MaxSessions,            \* auth_max_sessions
    IpLimit, AccountLimit,  \* auth_rate_ip_limit, auth_rate_account_limit
    Workers,                \* the capacity of PASSWORD_WORKERS
    MaxWindows              \* bound: windows of the limits that end

None == "nobody"
SignIns == LogIns \cup Registrations
Buckets == Names \cup {"ip"}

ASSUME AuthParameters ==
    /\ NameOf \in [SignIns -> Names] /\ Known \subseteq Names /\ "ip" \notin Names
    /\ LogIns \cap Registrations = {} /\ IsFiniteSet(SignIns)
    /\ None \notin SignIns \cup Visits /\ SignIns \cap Visits = {}
    /\ {MaxSessions, IpLimit, AccountLimit, Workers} \subseteq Nat \ {0}
    /\ MaxWindows \in Nat

VARIABLES
    pc,         \* where each sign-in is
    read,       \* the password hash it read, then the session ids it read
    hash,       \* the hash of each user: "none", "legacy" or "strong"
    lock,       \* who holds the user's row, or None
    begun,      \* sign-ins in the order their transaction began (created_at)
    there, revoked, expired, idle,  \* the sessions
    visit,      \* where each other request is
    count, fresh,   \* the buckets, and whether their window is still open
    windows,
    passed,     \* history: sign-ins admitted in the window of a bucket
    ended       \* history: sessions somebody has been told are logged out

signIn == <<pc, read, hash, lock, begun>>
sessions == <<there, revoked, expired, idle>>
limits == <<count, fresh, windows, passed>>
vars == <<signIn, sessions, visit, limits, ended>>

Of(name) == {s \in there : NameOf[s] = name}
Active(name) == Of(name) \ (revoked \cup expired)
Usable(s) == s \in there \ (revoked \cup expired \cup idle)

TypeOK ==
    /\ pc \in [SignIns -> {"new", "admitted", "queued", "hashing", "checked", "locked",
                           "counted", "in", "refused"}]
    /\ hash \in [Names -> {"none", "legacy", "strong"}]
    /\ lock \in [Names -> {None} \cup SignIns \cup Visits]
    /\ begun \in Seq(SignIns)
    /\ {there, revoked, expired, idle, ended} \subseteq SUBSET SignIns
    /\ count \in [Buckets -> Nat] /\ fresh \subseteq Buckets /\ windows \in 0..MaxWindows

Init ==
    /\ pc = [c \in SignIns |-> "new"] /\ read = [c \in SignIns |-> {}]
    /\ hash = [n \in Names |-> IF n \in Known THEN "legacy" ELSE "none"]
    /\ lock = [n \in Names |-> None] /\ begun = <<>>
    /\ there = {} /\ revoked = {} /\ expired = {} /\ idle = {}
    /\ visit = [v \in Visits |-> [step |-> "new"]]
    /\ count = [b \in Buckets |-> 0] /\ fresh = {} /\ windows = 0
    /\ passed = [b \in Buckets |-> 0] /\ ended = {}

-----------------------------------------------------------------------------
(* admit_auth_request.                                                     *)

Counted(b) == IF b \in fresh THEN count[b] + 1 ELSE 1

Over(b, limit) == Counted(b) > limit

\* One transaction, serialised by the row of the address. A request over the
\* limit of the address does not touch the bucket of the account. The commit
\* comes before the refusal, so that failed sign-ins count.
Admit(c) ==
    LET account == NameOf[c]
        limited == Over("ip", IpLimit) \/ Over(account, AccountLimit)
        used == IF Over("ip", IpLimit) THEN {"ip"} ELSE {"ip", account}
    IN
    /\ pc[c] = "new"
    /\ pc' = [pc EXCEPT ![c] = IF limited THEN "refused" ELSE "admitted"]
    /\ count' = [b \in Buckets |-> IF b \in used THEN Counted(b) ELSE count[b]]
    /\ fresh' = fresh \cup used
    /\ passed' = [b \in Buckets |->
                    (IF b \in used \ fresh THEN 0 ELSE passed[b])
                    + (IF b \in used /\ ~limited THEN 1 ELSE 0)]
    /\ UNCHANGED <<read, hash, lock, begun, sessions, visit, windows, ended>>

\* reset_at passes. An hour later the row may be deleted, with the same effect.
WindowEnds(b) ==
    /\ b \in fresh /\ windows < MaxWindows
    /\ fresh' = fresh \ {b} /\ windows' = windows + 1
    /\ UNCHANGED <<signIn, sessions, visit, count, passed, ended>>

-----------------------------------------------------------------------------
(* Log-in and registration.                                                *)

Goto(c, place) == pc' = [pc EXCEPT ![c] = place]

\* A log-in reads the stored hash and ends its transaction.
ReadHash(c) ==
    /\ pc[c] = "admitted"
    /\ read' = [read EXCEPT ![c] = IF c \in LogIns THEN {hash[NameOf[c]]} ELSE {}]
    /\ Goto(c, "queued")
    /\ UNCHANGED <<hash, lock, begun, sessions, visit, limits, ended>>

\* password_work: a thread is taken when one of the limiter's slots is free.
TakeWorker(c) ==
    /\ pc[c] = "queued"
    /\ Cardinality({d \in SignIns : pc[d] = "hashing"}) < Workers
    /\ Goto(c, "hashing")
    /\ UNCHANGED <<read, hash, lock, begun, sessions, visit, limits, ended>>

\* An unknown user is verified against a dummy hash and always refused.
WorkDone(c) ==
    /\ pc[c] = "hashing"
    /\ \/ read[c] # {"none"} /\ Goto(c, "checked")
       \/ c \in LogIns /\ Goto(c, "refused")
    /\ UNCHANGED <<read, hash, lock, begun, sessions, visit, limits, ended>>

Unlocked(c, name) == TRUE

\* The row is locked FOR UPDATE, or a flush waits for an insert of the same name.
MayLock(c, name) == lock[name] = None

\* now() is the time at which the transaction begins, before any waiting.
BeginTransaction(c) ==
    /\ pc[c] = "checked" /\ c \notin Range(begun)
    /\ begun' = Append(begun, c)
    /\ UNCHANGED <<pc, read, hash, lock, sessions, visit, limits, ended>>

\* Under the lock a log-in compares the hash with the one it verified, a
\* registration finds out whether the name is taken.
LockUser(c) ==
    LET name == NameOf[c] IN
    /\ pc[c] = "checked" /\ c \in Range(begun) /\ MayLock(c, name)
    /\ IF (c \in LogIns /\ hash[name] \in read[c]) \/ (c \in Registrations /\ hash[name] = "none")
       THEN Goto(c, "locked") /\ lock' = [lock EXCEPT ![name] = c]
       ELSE Goto(c, "refused") /\ UNCHANGED lock
    /\ UNCHANGED <<read, hash, begun, sessions, visit, limits, ended>>

\* create_user_session reads the active sessions ...
CountSessions(c) ==
    /\ pc[c] = "locked"
    /\ read' = [read EXCEPT ![c] = Active(NameOf[c])]
    /\ Goto(c, "counted")
    /\ UNCHANGED <<hash, lock, begun, sessions, visit, limits, ended>>

Position(s) == CHOOSE i \in DOMAIN begun : begun[i] = s
Newer(s, ids) == {x \in ids : Position(x) > Position(s)}

\* ... and revokes all but the newest, so that there is room for one.
Excess(ids) ==
    IF Cardinality(ids) < MaxSessions THEN {}
    ELSE {s \in ids : Cardinality(Newer(s, ids)) >= MaxSessions - 1}

\* The session and, for a legacy hash, its replacement are committed; sessions
\* that have expired long ago are deleted on the way.
Grant(c) ==
    LET name == NameOf[c] IN
    /\ pc[c] = "counted"
    /\ \E old \in SUBSET (expired \cap Of(name)) : there' = (there \ old) \cup {c}
    /\ revoked' = revoked \cup Excess(read[c])
    /\ hash' = [hash EXCEPT ![name] = "strong"]
    /\ lock' = [lock EXCEPT ![name] = None]
    /\ Goto(c, "in")
    /\ UNCHANGED <<read, begun, expired, idle, visit, limits, ended>>

\* The client leaves or the database fails: the transaction is rolled back.
\* A thread that is hashing keeps its slot to the end.
Abandon(c) ==
    /\ pc[c] \in {"admitted", "queued", "checked", "locked", "counted"}
    /\ Goto(c, "refused")
    /\ lock' = [n \in Names |-> IF lock[n] = c THEN None ELSE lock[n]]
    /\ UNCHANGED <<read, hash, begun, sessions, visit, limits, ended>>

-----------------------------------------------------------------------------
(* Sessions in use.                                                        *)

SetVisit(v, step, s) == visit' = [visit EXCEPT ![v] = [step |-> step, session |-> s]]

\* get_current_user: the session is looked up and, if it was last seen a while
\* ago, touched in a second statement. Then the request does its work.
Enter(v) ==
    /\ visit[v].step = "new"
    /\ \E s \in there :
          /\ Usable(s)
          /\ SetVisit(v, "seen", s) \/ SetVisit(v, "inside", s)
    /\ UNCHANGED <<signIn, sessions, limits, ended>>

TouchWholeRow(s) == revoked' = revoked \ {s} /\ idle' = idle \ {s}

\* The conditional write cannot bring back a session revoked meanwhile.
TouchRow(s) == idle' = (IF s \in revoked THEN idle ELSE idle \ {s}) /\ UNCHANGED revoked

Touch(v) ==
    /\ visit[v].step = "seen"
    /\ TouchRow(visit[v].session)
    /\ SetVisit(v, "inside", visit[v].session)
    /\ UNCHANGED <<signIn, there, expired, limits, ended>>

\* POST /auth/logout asks for the token only, usable or not.
Logout(s) ==
    /\ s \in there
    /\ revoked' = revoked \cup {s} /\ ended' = ended \cup {s}
    /\ UNCHANGED <<signIn, there, expired, idle, visit, limits>>

\* logout_all takes the user's row first, so that it comes before or after a
\* log-in and never in between.
LockForLogoutAll(v) ==
    LET s == visit[v].session name == NameOf[s] IN
    /\ visit[v].step = "inside" /\ lock[name] = None
    /\ lock' = [lock EXCEPT ![name] = v]
    /\ SetVisit(v, "locked", s)
    /\ UNCHANGED <<pc, read, hash, begun, sessions, limits, ended>>

LogoutAll(v) ==
    LET s == visit[v].session name == NameOf[s] IN
    /\ visit[v].step = "locked"
    /\ revoked' = revoked \cup Of(name) /\ ended' = ended \cup Of(name)
    /\ lock' = [lock EXCEPT ![name] = None]
    /\ SetVisit(v, "gone", s)
    /\ UNCHANGED <<pc, read, hash, begun, there, expired, idle, limits>>

\* The client leaves or the database fails in the middle.
BreakOff(v) ==
    /\ visit[v].step \in {"seen", "inside", "locked"}
    /\ lock' = [n \in Names |-> IF lock[n] = v THEN None ELSE lock[n]]
    /\ SetVisit(v, "gone", visit[v].session)
    /\ UNCHANGED <<pc, read, hash, begun, sessions, limits, ended>>

\* Time passes for a session: it is not used, or its lifetime ends.
Idles(s) ==
    /\ s \in there \ idle
    /\ idle' = idle \cup {s}
    /\ UNCHANGED <<signIn, there, revoked, expired, visit, limits, ended>>

Expires(s) ==
    /\ s \in there \ expired
    /\ expired' = expired \cup {s}
    /\ UNCHANGED <<signIn, there, revoked, idle, visit, limits, ended>>

SignIn(c) ==
    \/ Admit(c) \/ ReadHash(c) \/ TakeWorker(c) \/ WorkDone(c) \/ BeginTransaction(c)
    \/ LockUser(c) \/ CountSessions(c) \/ Grant(c)

Visit(v) == Enter(v) \/ Touch(v) \/ LockForLogoutAll(v) \/ LogoutAll(v) \/ BreakOff(v)

Next ==
    \/ \E c \in SignIns : SignIn(c) \/ Abandon(c) \/ Logout(c) \/ Idles(c) \/ Expires(c)
    \/ \E v \in Visits : Visit(v)
    \/ \E b \in Buckets : WindowEnds(b)

Spec == Init /\ [][Next]_vars

-----------------------------------------------------------------------------
(* Properties.                                                             *)

\* No user has more than auth_max_sessions sessions that are neither revoked
\* nor expired, however many log-ins overlap; no more sign-ins get past the
\* limits of a window than they allow; and password work takes no more threads
\* than it has.
AuthWithinLimits ==
    /\ TypeOK
    /\ \A n \in Names : Cardinality(Active(n)) <= MaxSessions
    /\ passed["ip"] <= IpLimit /\ \A n \in Names : passed[n] <= AccountLimit
    /\ Cardinality({c \in SignIns : pc[c] = "hashing"}) <= Workers

\* A session that a log-out or a log-out of all sessions has ended cannot be
\* used again, although a request that found it usable is still on its way.
LoggedOutStaysOut == \A s \in ended : ~Usable(s)
=============================================================================
