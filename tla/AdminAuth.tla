------------------------------ MODULE AdminAuth ------------------------------
(***************************************************************************)
(* Authentication of the admin routes (api/auth.rs), the table of failed   *)
(* attempts behind it (api/auth_attempts.rs) and the admin token across    *)
(* restarts (auth/token.rs).                                               *)
(*                                                                         *)
(* require_admin_token takes the time, looks at the lockout in one section *)
(* under the database mutex, compares the token and records the outcome in *)
(* a second one.  Requests run on several threads, so anything may happen  *)
(* between the two sections.  Times are relative: the row keeps the seconds*)
(* its lockout has left, a request keeps the age of the time it goes by.   *)
(***************************************************************************)
EXTENDS Integers, FiniteSets

CONSTANTS
    Req,                     \* request slots: requests in progress at once
    Ip,                      \* client addresses, as client_ip finds them
    Token,                   \* bearer tokens
    None,                    \* no token: no header, another scheme, an empty value
    MAX_FAILURES, LOCKOUT_SECONDS,
    MaxLag,                  \* bound: a request is decided at most this late
    MaxFaults, MaxRestarts   \* bounds

ASSUME AuthAssumption ==
    /\ None \notin Token /\ IsFiniteSet(Req)
    /\ MAX_FAILURES \in Nat \ {0} /\ MaxLag \in Nat
    /\ LOCKOUT_SECONDS \in Nat /\ LOCKOUT_SECONDS > MaxLag
    /\ MaxFaults \in Nat /\ MaxRestarts \in Nat

VARIABLES
    failed,      \* [Ip -> 0..MAX_FAILURES]: failed_count, which is only compared
                 \* with MAX_FAILURES and so is kept up to it
    left,        \* [Ip -> seconds]: lockout_until less the clock, kept down to -MaxLag
    stored,      \* app_config's admin_token
    admin,       \* AppState::admin_token
    req,         \* [Req -> request]
    faults, restarts,
    guesses,     \* history: wrong tokens compared since the address was last clean
    armed        \* history: seconds since a failure of the address set its lockout

attemptVars == <<failed, left>>
tokenVars == <<stored, admin>>
authVars == <<attemptVars, tokenVars, req, faults, restarts, guesses, armed>>

Opt(S) == S \cup {None}
Idle == [pc |-> "idle", ip |-> None, token |-> None, age |-> 0]
Busy(r) == req[r].pc # "idle"
Goto(r, p) == req' = [req EXCEPT ![r].pc = p]
Leave(r) == req' = [req EXCEPT ![r] = Idle]

AuthTypeOK ==
    /\ failed \in [Ip -> 0..MAX_FAILURES]
    /\ left \in [Ip -> (0 - MaxLag)..LOCKOUT_SECONDS]
    /\ stored \in Token /\ admin \in Token
    /\ req \in [Req -> [pc : {"idle", "check", "judge", "handler", "limit", "persist"},
                        ip : Opt(Ip), token : Opt(Token), age : 0..MaxLag]]
    /\ faults \in 0..MaxFaults /\ restarts \in 0..MaxRestarts
    /\ guesses \in [Ip -> Nat] /\ armed \in [Ip -> 0..LOCKOUT_SECONDS]

-----------------------------------------------------------------------------
(* The token *)

\* upsert_token: what the table holds after a start with this override.
UpsertToken(env, old) == env

\* ensure_admin_token: the override is persisted and wins, a stored token is
\* kept, otherwise a fresh one is generated and persisted.
EnsureAdminToken(env, old, newStored, newAdmin) ==
    \/ /\ env # None
       /\ newAdmin = env /\ newStored = UpsertToken(env, old)
    \/ /\ env = None /\ old # None
       /\ newAdmin = old /\ newStored = old
    \/ /\ env = None /\ old = None
       /\ newAdmin \in Token /\ newStored = newAdmin

AuthInit ==
    /\ failed = [a \in Ip |-> 0] /\ left = [a \in Ip |-> 0 - MaxLag]
    /\ admin \in Token
    /\ \E env \in Opt(Token) : EnsureAdminToken(env, None, stored, admin)
    /\ req = [r \in Req |-> Idle] /\ faults = 0 /\ restarts = 0
    /\ guesses = [a \in Ip |-> 0] /\ armed = [a \in Ip |-> LOCKOUT_SECONDS]

-----------------------------------------------------------------------------
(* require_admin_token *)

Arrive(r, a, tok) ==
    /\ ~Busy(r)
    /\ req' = [req EXCEPT ![r] = [pc |-> "check", ip |-> a, token |-> tok, age |-> 0]]
    /\ UNCHANGED <<attemptVars, tokenVars, faults, restarts, guesses, armed>>

\* lockout_until > now, for the time the request goes by.
LockedOut(r) == left[req[r].ip] + req[r].age > 0

\* Mutant: answering 429 counts as one more failed attempt.
RejectAndCount(a, age) == [left EXCEPT ![a] = LOCKOUT_SECONDS - age]
\* A rejected request leaves the row alone.
AfterReject(a, age) == left

\* 429 with Retry-After.
Reject(r) ==
    /\ req[r].pc = "check" /\ LockedOut(r)
    /\ Leave(r)
    /\ left' = AfterReject(req[r].ip, req[r].age)
    /\ UNCHANGED <<failed, tokenVars, faults, restarts, guesses, armed>>

Admit(r) ==
    /\ req[r].pc = "check" /\ ~LockedOut(r)
    /\ Goto(r, "judge")
    /\ UNCHANGED <<attemptVars, tokenVars, faults, restarts, guesses, armed>>

\* current_state fails: the request goes on as if there were no row.
AdmitUnread(r) ==
    /\ req[r].pc = "check" /\ faults < MaxFaults
    /\ Goto(r, "judge") /\ faults' = faults + 1
    /\ UNCHANGED <<attemptVars, tokenVars, restarts, guesses, armed>>

\* What the header presents is the token: extract_bearer leaves None of a header
\* that is absent, of another scheme or blank.
Matches(r) == req[r].token = admin

\* record_success deletes the row.
RecordSuccess(a) ==
    /\ failed' = [failed EXCEPT ![a] = 0]
    /\ left' = [left EXCEPT ![a] = 0 - MaxLag]

\* next.run follows.
Authorized(r) ==
    LET a == req[r].ip
    IN  /\ req[r].pc = "judge" /\ Matches(r)
        /\ RecordSuccess(a)
        /\ guesses' = [guesses EXCEPT ![a] = 0]
        /\ armed' = [armed EXCEPT ![a] = LOCKOUT_SECONDS]
        /\ Goto(r, "handler")
        /\ UNCHANGED <<tokenVars, faults, restarts>>

\* Mutant: the lockout starts one failure late.
LocksLate(n) == n > MAX_FAILURES
Locks(n) == n >= MAX_FAILURES

\* Mutant: a later failure keeps the lockout an earlier one set, over or not.
SetOnce(a, age) ==
    IF left[a] = 0 - MaxLag THEN LOCKOUT_SECONDS - age ELSE left[a]
\* lockout_until = now + LOCKOUT_SECONDS, for the time the request goes by.
LockoutFrom(a, age) == LOCKOUT_SECONDS - age

\* record_failure, then 401.
Unauthorized(r) ==
    LET a == req[r].ip
        n == failed[a] + 1
    IN  /\ req[r].pc = "judge" /\ ~Matches(r)
        /\ failed' = [failed EXCEPT ![a] = IF n > MAX_FAILURES THEN MAX_FAILURES ELSE n]
        /\ IF Locks(n)
           THEN left' = [left EXCEPT ![a] = LockoutFrom(a, req[r].age)]
           ELSE UNCHANGED left
        /\ armed' = IF Locks(n) THEN [armed EXCEPT ![a] = 0] ELSE armed
        /\ guesses' = [guesses EXCEPT ![a] = @ + 1]
        /\ Leave(r)
        /\ UNCHANGED <<tokenVars, faults, restarts>>

\* record_success or record_failure fails: the outcome of the request stands,
\* the row stays as it was.
JudgeUnrecorded(r) ==
    /\ req[r].pc = "judge" /\ faults < MaxFaults
    /\ faults' = faults + 1
    /\ IF Matches(r)
       THEN Goto(r, "handler") /\ UNCHANGED guesses
       ELSE Leave(r) /\ guesses' = [guesses EXCEPT ![req[r].ip] = @ + 1]
    /\ UNCHANGED <<attemptVars, tokenVars, restarts, armed>>

AuthStep(r) ==
    \/ Reject(r) \/ Admit(r) \/ AdmitUnread(r)
    \/ Authorized(r) \/ Unauthorized(r) \/ JudgeUnrecorded(r)

-----------------------------------------------------------------------------
(* Time and restarts *)

\* One second; an address whose lockout ends is clean again, though its
\* failed_count stays.
Second ==
    /\ \A r \in Req : Busy(r) => req[r].age < MaxLag
    /\ left' = [a \in Ip |-> IF left[a] > 0 - MaxLag THEN left[a] - 1 ELSE left[a]]
    /\ guesses' = [a \in Ip |-> IF left[a] = 1 THEN 0 ELSE guesses[a]]
    /\ armed' = [a \in Ip |-> IF armed[a] < LOCKOUT_SECONDS THEN armed[a] + 1 ELSE armed[a]]
    /\ req' = [r \in Req |-> IF Busy(r) THEN [req[r] EXCEPT !.age = @ + 1] ELSE req[r]]
    /\ UNCHANGED <<failed, tokenVars, faults, restarts>>

\* main: requests die with the process, the tables stay.
AuthRestart(env) ==
    /\ restarts < MaxRestarts /\ restarts' = restarts + 1
    /\ admin' \in Token /\ stored' \in Token
    /\ EnsureAdminToken(env, stored, stored', admin')
    /\ req' = [r \in Req |-> Idle]
    /\ UNCHANGED <<attemptVars, faults, guesses, armed>>

=============================================================================
