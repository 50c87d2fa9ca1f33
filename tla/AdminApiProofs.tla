--------------------------- MODULE AdminApiProofs ---------------------------
(***************************************************************************)
(* The authentication and the configuration for any number of concurrent   *)
(* requests, addresses, tokens and faults.  AInv ties the seconds a lockout*)
(* has left to the seconds since it was set (Served), and says where the   *)
(* three copies of the configuration stand while one update is between its *)
(* three lock sections (Underway).                                         *)
(***************************************************************************)
EXTENDS AdminApi, FiniteSetTheorems, TLAPS

Pc == {"idle", "check", "judge", "handler", "limit", "persist"}
Request == [pc : Pc, ip : Opt(Ip), token : Opt(Token), age : 0..MaxLag]

ReqType ==
    /\ req \in [Req -> Request]
    /\ \A r \in Req : Busy(r) => req[r].ip \in Ip

RowType ==
    /\ failed \in [Ip -> 0..MAX_FAILURES]
    /\ left \in [Ip -> (0 - MaxLag)..LOCKOUT_SECONDS]
    /\ faults \in 0..MaxFaults /\ restarts \in 0..MaxRestarts
    /\ guesses \in [Ip -> Nat] /\ armed \in [Ip -> 0..LOCKOUT_SECONDS]

\* A lockout ends no earlier than it should: the two counts move against each
\* other, up to the seconds its failure was recorded late.
Served == \A a \in Ip : left[a] + armed[a] >= LOCKOUT_SECONDS - MaxLag

\* The token in force is the one the next start finds.
TokenType == stored \in Token /\ admin = stored

ConfigType ==
    /\ runtime_config \in RuntimeConfig
    /\ rate_limit \in Limit \cup {DEFAULT_LIMIT}
    /\ table \in Opt(RuntimeConfig)
    /\ put \in [Req -> [patch : RuntimeConfig, snapshot : RuntimeConfig]]

USE AuthAssumption, ConfigAssumption

-----------------------------------------------------------------------------
(* The requests *)

LEMMA GotoReq ==
    ASSUME ReqType, NEW r \in Req, NEW p \in Pc, Goto(r, p), Busy(r)
    PROVE  /\ ReqType'
           /\ req' = [req EXCEPT ![r] = [pc |-> p, ip |-> req[r].ip,
                                         token |-> req[r].token, age |-> req[r].age]]
<1>1. req[r] \in Request /\ req[r].ip \in Ip
  BY DEF ReqType
<1>2. [req[r] EXCEPT !.pc = p] = [pc |-> p, ip |-> req[r].ip,
                                   token |-> req[r].token, age |-> req[r].age]
  BY <1>1 DEF Request
<1>3. req' = [req EXCEPT ![r] = [pc |-> p, ip |-> req[r].ip,
                                  token |-> req[r].token, age |-> req[r].age]]
  BY <1>2 DEF Goto
<1>4. [pc |-> p, ip |-> req[r].ip, token |-> req[r].token, age |-> req[r].age] \in Request
  BY <1>1 DEF Request
<1> QED BY <1>1, <1>3, <1>4 DEF ReqType, Busy

LEMMA LeaveReq ==
    ASSUME ReqType, NEW r \in Req, Leave(r)
    PROVE  ReqType' /\ req' = [req EXCEPT ![r] = Idle]
<1>1. Idle \in Request
  BY DEF Idle, Request, Pc, Opt
<1> QED BY <1>1 DEF ReqType, Leave, Busy, Idle

LEMMA InitReq == Init => ReqType /\ RowType /\ Served
BY DEF Init, AuthInit, ReqType, RowType, Served, Request, Pc, Idle, Busy, Opt

AuthInv == ReqType /\ RowType /\ Served

LEMMA InRange ==
    ASSUME AuthInv, NEW r \in Req, Busy(r)
    PROVE  /\ req[r].ip \in Ip /\ req[r].age \in 0..MaxLag
           /\ left[req[r].ip] \in (0 - MaxLag)..LOCKOUT_SECONDS
           /\ failed[req[r].ip] \in 0..MAX_FAILURES /\ guesses[req[r].ip] \in Nat
BY DEF AuthInv, ReqType, RowType, Request

\* One request's step through require_admin_token.
LEMMA AuthStepInv ==
    ASSUME AuthInv, NEW r \in Req, AuthStep(r)
    PROVE  /\ AuthInv' /\ UNCHANGED tokenVars
           /\ req[r].pc \in {"check", "judge"} /\ req'[r].pc \in {"judge", "handler", "idle"}
           /\ \A q \in Req \ {r} : req'[q] = req[q]
<1>1. req[r].pc \in {"check", "judge"} /\ Busy(r)
  BY DEF AuthStep, Reject, Admit, AdmitUnread, Authorized, Unauthorized, JudgeUnrecorded, Busy
<1>2. UNCHANGED tokenVars
  BY DEF AuthStep, Reject, Admit, AdmitUnread, Authorized, Unauthorized, JudgeUnrecorded
<1>3. Goto(r, "judge") \/ Goto(r, "handler") \/ Leave(r)
  BY DEF AuthStep, Reject, Admit, AdmitUnread, Authorized, Unauthorized, JudgeUnrecorded
<1>4. /\ ReqType' /\ req'[r].pc \in {"judge", "handler", "idle"}
      /\ \A q \in Req \ {r} : req'[q] = req[q]
  <2>1. CASE Goto(r, "judge")
    BY <1>1, <2>1, GotoReq DEF AuthInv, ReqType, Pc
  <2>2. CASE Goto(r, "handler")
    BY <1>1, <2>2, GotoReq DEF AuthInv, ReqType, Pc
  <2>3. CASE Leave(r)
    BY <2>3, LeaveReq DEF AuthInv, ReqType, Idle
  <2> QED BY <1>3, <2>1, <2>2, <2>3
<1> DEFINE a == req[r].ip
<1>5. /\ a \in Ip /\ req[r].age \in 0..MaxLag /\ failed[a] \in 0..MAX_FAILURES
      /\ guesses[a] \in Nat
  BY <1>1, InRange
<1>6. RowType' /\ Served'
  <2>1. CASE Reject(r) \/ Admit(r) \/ AdmitUnread(r)
    BY <2>1 DEF Reject, AfterReject, Admit, AdmitUnread, attemptVars, AuthInv, RowType, Served
  <2>2. CASE Authorized(r)
    BY <1>5, <2>2 DEF Authorized, RecordSuccess, AuthInv, RowType, Served
  <2>3. CASE Unauthorized(r)
    <3> DEFINE n == failed[a] + 1
    <3>1. /\ failed' = [failed EXCEPT ![a] = IF n > MAX_FAILURES THEN MAX_FAILURES ELSE n]
          /\ guesses' = [guesses EXCEPT ![a] = guesses[a] + 1]
          /\ UNCHANGED <<faults, restarts>>
      BY <2>3 DEF Unauthorized
    <3>2. \/ /\ left' = [left EXCEPT ![a] = LOCKOUT_SECONDS - req[r].age]
             /\ armed' = [armed EXCEPT ![a] = 0]
          \/ UNCHANGED <<left, armed>>
      BY <2>3 DEF Unauthorized, LockoutFrom
    <3>3. LOCKOUT_SECONDS - req[r].age \in (LOCKOUT_SECONDS - MaxLag)..LOCKOUT_SECONDS
      BY <1>5
    <3>4. RowType'
      BY <1>5, <3>1, <3>2, <3>3 DEF AuthInv, RowType
    <3>5. Served'
      BY <1>5, <3>2, <3>3 DEF AuthInv, RowType, Served
    <3> QED BY <3>4, <3>5
  <2>4. CASE JudgeUnrecorded(r)
    <3>1. /\ UNCHANGED <<failed, left, armed, restarts>> /\ faults' = faults + 1
          /\ faults < MaxFaults
          /\ guesses' = guesses \/ guesses' = [guesses EXCEPT ![a] = guesses[a] + 1]
      BY <2>4 DEF JudgeUnrecorded, attemptVars
    <3> QED BY <1>5, <3>1 DEF AuthInv, RowType, Served
  <2> QED BY <2>1, <2>2, <2>3, <2>4 DEF AuthStep
<1> QED BY <1>1, <1>2, <1>4, <1>6 DEF AuthInv

LEMMA SecondInv ==
    ASSUME AuthInv, Second
    PROVE  /\ AuthInv' /\ UNCHANGED tokenVars
           /\ \A r \in Req : req'[r].pc = req[r].pc
<1>1. \A r \in Req : req[r] \in Request
  BY DEF AuthInv, ReqType
<1>2. ASSUME NEW r \in Req
      PROVE  /\ req'[r] \in Request /\ req'[r].pc = req[r].pc /\ req'[r].ip = req[r].ip
  <2>1. CASE Busy(r)
    <3>1. req'[r] = [req[r] EXCEPT !.age = req[r].age + 1] /\ req[r].age < MaxLag
      BY <2>1 DEF Second
    <3>2. [req[r] EXCEPT !.age = req[r].age + 1] =
            [pc |-> req[r].pc, ip |-> req[r].ip, token |-> req[r].token, age |-> req[r].age + 1]
      BY <1>1 DEF Request
    <3> QED BY <1>1, <3>1, <3>2 DEF Request
  <2>2. CASE ~Busy(r)
    BY <1>1, <2>2 DEF Second
  <2> QED BY <2>1, <2>2
<1>3. ReqType'
  <2>1. req' = [r \in Req |-> req'[r]]
    BY DEF Second
  <2>2. req' \in [Req -> Request]
    BY <1>2, <2>1
  <2> QED BY <1>2, <2>2 DEF ReqType, AuthInv, Busy
<1>4. RowType' /\ Served'
  BY DEF Second, AuthInv, RowType, Served
<1> QED BY <1>2, <1>3, <1>4 DEF AuthInv, Second

LEMMA ArriveInv ==
    ASSUME AuthInv, NEW r \in Req, NEW a \in Ip, NEW tok \in Opt(Token), Arrive(r, a, tok)
    PROVE  /\ AuthInv' /\ UNCHANGED tokenVars
           /\ req[r].pc = "idle" /\ req'[r].pc = "check"
           /\ \A q \in Req \ {r} : req'[q] = req[q]
<1>1. [pc |-> "check", ip |-> a, token |-> tok, age |-> 0] \in Request
  BY DEF Request, Pc, Opt
<1>2. ReqType'
  BY <1>1 DEF Arrive, AuthInv, ReqType, Busy
<1> QED BY <1>2 DEF Arrive, AuthInv, ReqType, Busy, RowType, Served, attemptVars

-----------------------------------------------------------------------------
(* The configuration *)

\* Where the copies stand: equal when no update is under way; between its
\* sections the only update holds a snapshot of what is in memory.
Underway ==
    /\ \A r, q \in Req : Updating(r) /\ Updating(q) => r = q
    /\ (\A r \in Req : ~Updating(r))
          => runtime_config = Load(table) /\ rate_limit = LimitOf(runtime_config)
    /\ \A r \in Req : Updating(r) => put[r].snapshot = runtime_config
    /\ \A r \in Req : req[r].pc = "limit" => runtime_config.limit = put[r].patch.limit
    /\ \A r \in Req : req[r].pc = "persist" => rate_limit = LimitOf(runtime_config)

Limited == \A r \in Req : req[r].pc = "limit" => put[r].patch.limit # None

ConfigInv == ConfigType /\ Limited /\ (~disturbed => Underway)

AInv == AuthInv /\ TokenType /\ ConfigInv

LEMMA MergeType ==
    ASSUME NEW cfg \in RuntimeConfig, NEW patch \in RuntimeConfig
    PROVE  /\ Merge(cfg, patch) \in RuntimeConfig
           /\ Merge(cfg, patch).limit = Given(patch.limit, cfg.limit)
BY DEF Merge, Given, RuntimeConfig

LEMMA DefaultType == Default \in RuntimeConfig /\ NoPut \in [patch : RuntimeConfig, snapshot : RuntimeConfig]
BY DEF Default, NoPut, RuntimeConfig, Opt

LEMMA NoneIsNoConfig == None \notin RuntimeConfig
BY DEF RuntimeConfig, Opt

\* Steps that leave the configuration and everybody's place in put_config alone.
LEMMA ConfigUntouched ==
    ASSUME ConfigInv, UNCHANGED configVars,
           \A r \in Req : /\ Updating(r)' <=> Updating(r)
                          /\ req'[r].pc = "limit" <=> req[r].pc = "limit"
                          /\ req'[r].pc = "persist" <=> req[r].pc = "persist"
    PROVE  ConfigInv'
<1>1. ConfigType' /\ Limited'
  BY DEF configVars, ConfigInv, ConfigType, Limited
<1>2. ~disturbed' => ~disturbed
  BY DEF configVars
<1>3. Underway => Underway'
  BY DEF configVars, Underway
<1> QED BY <1>1, <1>2, <1>3 DEF ConfigInv

LEMMA InitAInv == Init => AInv
<1> SUFFICES ASSUME Init PROVE AInv
  OBVIOUS
<1>1. AuthInv
  BY InitReq DEF AuthInv
<1>2. TokenType
  <2>1. PICK env \in Opt(Token) : EnsureAdminToken(env, None, stored, admin)
    BY DEF Init, AuthInit
  <2> QED BY <2>1 DEF Init, AuthInit, TokenType, EnsureAdminToken, UpsertToken, Opt
<1>3. ConfigType
  BY DefaultType DEF Init, ConfigType, Opt
<1>4. \A r \in Req : req[r].pc = "idle"
  BY DEF Init, AuthInit, Idle
<1>5. Limited /\ Underway
  BY <1>4 DEF Init, Limited, Underway, Updating, Load, LimitOf, Default
<1> QED BY <1>1, <1>2, <1>3, <1>5 DEF AInv, ConfigInv

LEMMA PutPatchInv ==
    ASSUME AInv, NEW r \in Req, NEW patch \in RuntimeConfig, PutPatch(r, patch)
    PROVE  AInv'
<1> DEFINE new == Merge(runtime_config, patch)
<1>1. req[r].pc = "handler" /\ Busy(r)
  BY DEF PutPatch, Busy
<1>2. AfterPatch(patch) \in Pc
  BY DEF AfterPatch, Pc
<1>3. /\ ReqType'
      /\ \A q \in Req : req'[q].pc = IF q = r THEN AfterPatch(patch) ELSE req[q].pc
  BY <1>1, <1>2, GotoReq DEF PutPatch, AInv, AuthInv, ReqType
<1>4. AuthInv' /\ TokenType'
  BY <1>3 DEF PutPatch, attemptVars, tokenVars, AInv, AuthInv, TokenType, RowType, Served
<1>5. new \in RuntimeConfig /\ new.limit = Given(patch.limit, runtime_config.limit)
  BY MergeType DEF AInv, ConfigInv, ConfigType
<1>6. /\ runtime_config' = new /\ UNCHANGED <<rate_limit, table>>
      /\ put' = [put EXCEPT ![r] = [patch |-> patch, snapshot |-> new]]
  BY DEF PutPatch, Snapshot
<1> HIDE DEF new
<1>7. /\ put'[r] = [patch |-> patch, snapshot |-> new]
      /\ \A q \in Req \ {r} : put'[q] = put[q]
  BY <1>6 DEF AInv, ConfigInv, ConfigType
<1>8. ConfigType'
  BY <1>5, <1>6 DEF AInv, ConfigInv, ConfigType
<1>9. Limited'
  BY <1>3, <1>7 DEF AInv, ConfigInv, Limited, AfterPatch
<1>10. ~disturbed' => ~disturbed /\ \A q \in Req : ~Updating(q)
  BY Zenon DEF PutPatch
<1>11. ASSUME ~disturbed, \A q \in Req : ~Updating(q)
       PROVE  Underway'
  <2>1. runtime_config = Load(table) /\ rate_limit = LimitOf(runtime_config)
    BY <1>11 DEF AInv, ConfigInv, Underway
  <2>2. \A q \in Req : q # r => ~Updating(q)' /\ req'[q].pc # "limit" /\ req'[q].pc # "persist"
    BY <1>3, <1>11 DEF Updating
  <2>3. Updating(r)'
    BY <1>3 DEF Updating, AfterPatch
  <2>4. patch.limit = None => LimitOf(new) = LimitOf(runtime_config)
    BY <1>5 DEF Given, LimitOf
  <2>5. req'[r].pc = "limit" => new.limit = patch.limit
    BY <1>3, <1>5 DEF AfterPatch, Given
  <2>6. req'[r].pc = "persist" => patch.limit = None
    BY <1>3 DEF AfterPatch
  <2> QED BY <1>6, <1>7, <2>1, <2>2, <2>3, <2>4, <2>5, <2>6 DEF Underway
<1> QED BY <1>4, <1>8, <1>9, <1>10, <1>11 DEF AInv, ConfigInv

LEMMA PutLimitInv ==
    ASSUME AInv, NEW r \in Req, PutLimit(r)
    PROVE  AInv'
<1>1. req[r].pc = "limit" /\ Busy(r)
  BY DEF PutLimit, Busy
<1>2. /\ ReqType'
      /\ \A q \in Req : req'[q].pc = IF q = r THEN "persist" ELSE req[q].pc
  BY <1>1, GotoReq DEF PutLimit, AInv, AuthInv, ReqType, Pc
<1>3. AuthInv' /\ TokenType'
  BY <1>2 DEF PutLimit, attemptVars, tokenVars, AInv, AuthInv, TokenType, RowType, Served
<1>4. /\ rate_limit' = put[r].patch.limit
      /\ UNCHANGED <<runtime_config, table, put, disturbed>>
  BY DEF PutLimit
<1>5. put[r].patch.limit \in Limit /\ put[r].patch.limit # None
  BY <1>1 DEF AInv, ConfigInv, ConfigType, Limited, RuntimeConfig, Opt
<1>6. ConfigType' /\ Limited'
  BY <1>2, <1>4, <1>5 DEF AInv, ConfigInv, ConfigType, Limited
<1>7. Underway => Underway'
  <2> SUFFICES ASSUME Underway PROVE Underway'
    OBVIOUS
  <2>1. \A q \in Req : Updating(q)' <=> Updating(q)
    BY <1>1, <1>2 DEF Updating
  <2>2. Updating(r)
    BY <1>1 DEF Updating
  <2>3. rate_limit' = LimitOf(runtime_config)
    BY <1>1, <1>4, <1>5 DEF Underway, LimitOf
  <2>4. \A q \in Req : q # r => ~Updating(q) /\ req'[q].pc # "limit" /\ req'[q].pc # "persist"
    BY <1>2, <2>2 DEF Underway, Updating
  <2> QED BY <1>2, <1>4, <2>1, <2>2, <2>3, <2>4 DEF Underway
<1>8. ~disturbed' => ~disturbed
  BY <1>4
<1> QED BY <1>3, <1>6, <1>7, <1>8 DEF AInv, ConfigInv

LEMMA PutPersistInv ==
    ASSUME AInv, NEW r \in Req, PutPersist(r) \/ PutPersistFails(r)
    PROVE  AInv'
<1>1. req[r].pc = "persist" /\ Leave(r) /\ Busy(r)
  BY DEF PutPersist, PutPersistFails, Busy
<1>2. /\ ReqType'
      /\ \A q \in Req : req'[q].pc = IF q = r THEN "idle" ELSE req[q].pc
  BY <1>1, LeaveReq DEF AInv, AuthInv, ReqType, Idle
<1>3. AuthInv' /\ TokenType'
  BY <1>2 DEF PutPersist, PutPersistFails, attemptVars, tokenVars, AInv, AuthInv, TokenType,
              RowType, Served
<1>4. put' = [put EXCEPT ![r] = NoPut] /\ UNCHANGED <<runtime_config, rate_limit>>
  BY DEF PutPersist, PutPersistFails
<1>5. table' = put[r].snapshot \/ table' = table
  BY DEF PutPersist, PutPersistFails
<1>6. put[r].snapshot \in RuntimeConfig /\ (\A q \in Req \ {r} : put'[q] = put[q])
  BY <1>4 DEF AInv, ConfigInv, ConfigType
<1>7. ConfigType' /\ Limited'
  BY <1>2, <1>4, <1>5, <1>6, DefaultType DEF AInv, ConfigInv, ConfigType, Limited, Opt
<1>8. CASE PutPersistFails(r)
  <2>1. disturbed'
    BY <1>8 DEF PutPersistFails
  <2> QED BY <1>3, <1>7, <2>1 DEF AInv, ConfigInv
<1>9. CASE PutPersist(r)
  <2>1. ~disturbed' => ~disturbed
    BY <1>9 DEF PutPersist
  <2>2. ASSUME Underway PROVE Underway'
    <3>1. Updating(r)
      BY <1>1 DEF Updating
    <3>2. \A q \in Req : ~Updating(q)' /\ req'[q].pc # "limit" /\ req'[q].pc # "persist"
      BY <1>2, <2>2, <3>1 DEF Underway, Updating
    <3>3. table' = runtime_config /\ rate_limit = LimitOf(runtime_config)
      BY <1>1, <1>9, <2>2, <3>1 DEF PutPersist, Underway
    <3>4. Load(table') = runtime_config
      BY <1>6, <3>3, NoneIsNoConfig DEF Load, AInv, ConfigInv, ConfigType
    <3> QED BY <1>4, <3>2, <3>3, <3>4 DEF Underway
  <2> QED BY <1>3, <1>7, <2>1, <2>2 DEF AInv, ConfigInv
<1> QED BY <1>8, <1>9 DEF PutPersist

LEMMA RestartInv ==
    ASSUME AInv, NEW env \in Opt(Token), Restart(env)
    PROVE  AInv'
<1>1. \A r \in Req : req'[r] = Idle
  BY DEF Restart, AuthRestart
<1>2. AuthInv'
  <2>1. Idle \in Request
    BY DEF Idle, Request, Pc, Opt
  <2>2. req' \in [Req -> Request]
    BY <2>1 DEF Restart, AuthRestart
  <2> QED BY <1>1, <2>2 DEF Restart, AuthRestart, attemptVars, AInv, AuthInv, ReqType, RowType,
                            Served, Busy, Idle
<1>3. TokenType'
  BY DEF Restart, AuthRestart, EnsureAdminToken, UpsertToken, TokenType, AInv
<1>4. Load(table) \in RuntimeConfig
  BY DefaultType DEF Load, AInv, ConfigInv, ConfigType, Opt
<1>5. ConfigType' /\ Limited'
  <2>1. LimitOf(Load(table)) \in Limit \cup {DEFAULT_LIMIT}
    BY <1>4 DEF LimitOf, RuntimeConfig, Opt
  <2> QED BY <1>1, <1>4, <2>1, DefaultType
          DEF Restart, AInv, ConfigInv, ConfigType, Limited, Idle
<1>6. Underway'
  BY <1>1 DEF Restart, Underway, Updating, Idle
<1> QED BY <1>2, <1>3, <1>5, <1>6 DEF AInv, ConfigInv

LEMMA NextAInv == AInv /\ [Next]_vars => AInv'
<1> SUFFICES ASSUME AInv, [Next]_vars PROVE AInv'
  OBVIOUS
<1>1. ASSUME NEW r \in Req, NEW a \in Ip, NEW tok \in Opt(Token),
             Arrive(r, a, tok), UNCHANGED configVars
      PROVE  AInv'
  <2>1. /\ AuthInv' /\ UNCHANGED tokenVars
        /\ req[r].pc = "idle" /\ req'[r].pc = "check"
        /\ \A q \in Req \ {r} : req'[q] = req[q]
    BY <1>1, ArriveInv DEF AInv
  <2>2. ConfigInv'
    BY <1>1, <2>1, ConfigUntouched DEF AInv, Updating
  <2> QED BY <2>1, <2>2 DEF AInv, TokenType, tokenVars
<1>2. ASSUME NEW r \in Req, AuthStep(r), UNCHANGED configVars
      PROVE  AInv'
  <2>1. /\ AuthInv' /\ UNCHANGED tokenVars
        /\ req[r].pc \in {"check", "judge"} /\ req'[r].pc \in {"judge", "handler", "idle"}
        /\ \A q \in Req \ {r} : req'[q] = req[q]
    BY <1>2, AuthStepInv DEF AInv
  <2>2. ConfigInv'
    BY <1>2, <2>1, ConfigUntouched DEF AInv, Updating
  <2> QED BY <2>1, <2>2 DEF AInv, TokenType, tokenVars
<1>3. ASSUME NEW r \in Req, PutStep(r) PROVE AInv'
  BY <1>3, PutPatchInv, PutLimitInv, PutPersistInv DEF PutStep
<1>4. CASE Second /\ UNCHANGED configVars
  <2>1. /\ AuthInv' /\ UNCHANGED tokenVars
        /\ \A r \in Req : req'[r].pc = req[r].pc
    BY <1>4, SecondInv DEF AInv
  <2>2. ConfigInv'
    BY <1>4, <2>1, ConfigUntouched DEF AInv, Updating
  <2> QED BY <2>1, <2>2 DEF AInv, TokenType, tokenVars
<1>5. ASSUME NEW env \in Opt(Token), Restart(env) PROVE AInv'
  BY <1>5, RestartInv
<1>6. CASE UNCHANGED vars
  <2>1. UNCHANGED configVars /\ UNCHANGED authVars
    BY <1>6 DEF vars
  <2>2. AuthInv' /\ TokenType'
    BY <2>1 DEF authVars, attemptVars, tokenVars, AInv, AuthInv, ReqType, RowType, Served,
                TokenType, Busy
  <2>3. ConfigInv'
    BY <2>1, ConfigUntouched DEF AInv, Updating, authVars
  <2> QED BY <2>2, <2>3 DEF AInv
<1> QED BY <1>1, <1>2, <1>3, <1>4, <1>5, <1>6 DEF Next

\* Every state satisfies AInv.
THEOREM AdminInvariance == Spec => []AInv
BY InitAInv, NextAInv, PTL DEF Spec

\* disturbed is one of the two truth values: a fact of its own, since the
\* other parts of the invariant need arithmetic.
Truth == disturbed \in BOOLEAN

LEMMA DisturbedType == Spec => []Truth
<1>1. Init => Truth
  BY DEF Init, Truth
<1>2. Truth /\ [Next]_vars => Truth'
  BY Zenon DEF Truth, Next, PutStep, PutPatch, PutLimit, PutPersist, PutPersistFails, Restart, vars,
               configVars
<1> QED BY <1>1, <1>2, PTL DEF Spec

\* Every request, row, token and copy of the configuration keeps its type
\* (auth.rs, config.rs).
THEOREM AdminTypeCorrect == Spec => []TypeOK
<1>1. AInv /\ Truth => TypeOK
  BY DEF Truth, AInv, AuthInv, ReqType, RowType, TokenType, ConfigInv, ConfigType, TypeOK, AuthTypeOK,
         Request, Pc
<1> QED BY <1>1, AdminInvariance, DisturbedType, PTL

\* A start without an override finds the token that was in force before it
\* (ensure_admin_token), wherever that came from.
THEOREM TokenSurvives == Spec => TokenKept
<1>1. AInv /\ [Next]_vars => (Restart(None) => admin' = admin)
  BY DEF AInv, TokenType, Restart, AuthRestart, EnsureAdminToken
<1> QED BY <1>1, AdminInvariance, PTL DEF Spec, TokenKept

\* "Changes take effect immediately ... and are persisted" (config.rs): memory,
\* limiter and table agree whenever no update is under way, unless updates have
\* overlapped or a write has failed since the start.
THEOREM ConfigurationSettles == Spec => []ConfigSettled
<1>1. AInv => ConfigSettled
  BY DEF AInv, ConfigInv, Underway, ConfigSettled
<1> QED BY <1>1, AdminInvariance, PTL

\* The check lets nobody through early: for any number of concurrent requests
\* and failures recorded late, a lockout lasts LOCKOUT_SECONDS less MaxLag
\* (current_state, record_failure).
THEOREM LockoutsAreServed == Spec => LockoutServed
<1> DEFINE A == \A r \in Req :
                  req[r].pc = "check" /\ req'[r].pc = "judge" /\ faults' = faults
                  => armed[req[r].ip] >= LOCKOUT_SECONDS - MaxLag
<1>1. AInv /\ [Next]_vars => A
  <2> SUFFICES ASSUME AInv, [Next]_vars, NEW r \in Req, req[r].pc = "check",
                      req'[r].pc = "judge", faults' = faults
               PROVE  armed[req[r].ip] >= LOCKOUT_SECONDS - MaxLag
    OBVIOUS
  <2>1. Busy(r)
    BY DEF Busy
  <2>2. /\ req[r].ip \in Ip /\ req[r].age \in 0..MaxLag
        /\ left[req[r].ip] \in (0 - MaxLag)..LOCKOUT_SECONDS
        /\ armed[req[r].ip] \in 0..LOCKOUT_SECONDS
        /\ left[req[r].ip] + armed[req[r].ip] >= LOCKOUT_SECONDS - MaxLag
    BY <2>1, InRange DEF AInv, AuthInv, Served, RowType
  <2>3. \E q \in Req : AuthStep(q)
    <3>1. ASSUME NEW q \in Req, NEW a \in Ip, NEW tok \in Opt(Token), Arrive(q, a, tok)
          PROVE  FALSE
      BY <3>1, ArriveInv DEF AInv
    <3>2. ASSUME NEW q \in Req, PutStep(q) PROVE FALSE
      <4>1. /\ req[q].pc \in {"handler", "limit", "persist"}
            /\ Leave(q) \/ Goto(q, "limit") \/ Goto(q, "persist")
        BY <3>2 DEF PutStep, PutPatch, PutLimit, PutPersist, PutPersistFails, AfterPatch
      <4>2. q # r
        BY <4>1
      <4>3. req'[r] = req[r]
        BY <4>1, <4>2 DEF Leave, Goto, AInv, AuthInv, ReqType
      <4> QED BY <4>3
    <3>3. ASSUME Second PROVE FALSE
      BY <3>3, SecondInv DEF AInv
    <3>4. ASSUME NEW env \in Opt(Token), Restart(env) PROVE FALSE
      BY <3>4 DEF Restart, AuthRestart, Idle
    <3>5. ~UNCHANGED vars
      BY DEF vars, authVars
    <3> QED BY <3>1, <3>2, <3>3, <3>4, <3>5 DEF Next
  <2>4. PICK q \in Req : AuthStep(q)
    BY <2>3
  <2>5. q = r
    BY <2>4, AuthStepInv DEF AInv
  <2>6. Admit(r)
    <3>1. ~Reject(r)
      BY LeaveReq DEF Reject, Idle, AInv, AuthInv, ReqType
    <3>2. ~AdmitUnread(r)
      BY DEF AdmitUnread, AInv, AuthInv, RowType
    <3> QED BY <2>4, <2>5, <3>1, <3>2 DEF AuthStep, Authorized, Unauthorized, JudgeUnrecorded
  <2> QED BY <2>2, <2>6 DEF Admit, LockedOut
<1>2. Spec => [][A]_vars
  BY <1>1, AdminInvariance, PTL DEF Spec
<1> QED BY <1>2 DEF LockoutServed

-----------------------------------------------------------------------------
(* The budget of guesses *)

\* Requests of the address that are past the check and not yet judged.
Judging(a) == {r \in Req : req[r].pc = "judge" /\ req[r].ip = a}

\* Why GuessBudget is inductive.  While the address is locked out nobody new
\* passes the check, and every request that is past it may still compare one
\* token; while it is not, a recorded failure is a count in failed_count, which
\* an expired lockout leaves at MAX_FAILURES, so that the next one locks again.
BudgetInv ==
    \A a \in Ip :
        /\ left[a] > 0 =>
             /\ failed[a] = MAX_FAILURES
             /\ guesses[a] + Cardinality(Judging(a))
                  <= MAX_FAILURES + (Cardinality(Req) - 1) + faults
        /\ left[a] <= 0 => /\ guesses[a] <= failed[a] + faults
                           /\ guesses[a] < MAX_FAILURES + faults

LEMMA JudgingSize ==
    ASSUME NEW a
    PROVE  /\ IsFiniteSet(Judging(a)) /\ Cardinality(Judging(a)) \in Nat
           /\ Cardinality(Req) \in Nat
           /\ IsFiniteSet(Judging(a)') /\ Cardinality(Judging(a)') \in Nat
BY FS_Subset, FS_CardinalityType DEF Judging

\* No request passes the check: there are no more to judge than before.
LEMMA JudgingShrinks ==
    ASSUME NEW a, \A q \in Req : /\ req'[q].pc = "judge" => req[q].pc = "judge"
                                 /\ req'[q].pc = "judge" => req'[q].ip = req[q].ip
    PROVE  Cardinality(Judging(a)') <= Cardinality(Judging(a))
<1>1. Judging(a)' \subseteq Judging(a)
  BY DEF Judging
<1> QED BY <1>1, JudgingSize, FS_Subset

\* One request passes the check.
LEMMA JudgingGrows ==
    ASSUME NEW a, NEW r \in Req, \A q \in Req \ {r} : req'[q] = req[q]
    PROVE  Cardinality(Judging(a)') <= Cardinality(Judging(a)) + 1
<1>1. Judging(a)' \subseteq Judging(a) \cup {r}
  BY DEF Judging
<1>2. /\ IsFiniteSet(Judging(a) \cup {r})
      /\ Cardinality(Judging(a) \cup {r}) <= Cardinality(Judging(a)) + 1
  <2>1. IsFiniteSet(Judging(a)) /\ Cardinality(Judging(a)) \in Nat
    BY JudgingSize
  <2>2. /\ IsFiniteSet(Judging(a) \cup {r})
        /\ Cardinality(Judging(a) \cup {r}) =
             IF r \in Judging(a) THEN Cardinality(Judging(a)) ELSE Cardinality(Judging(a)) + 1
    BY <2>1, FS_AddElement, Zenon
  <2> QED BY <2>1, <2>2
<1>3. Cardinality(Judging(a)') <= Cardinality(Judging(a) \cup {r})
  BY <1>1, <1>2, FS_Subset
<1>4. Cardinality(Judging(a) \cup {r}) \in Nat
  BY <1>2, FS_CardinalityType
<1> QED BY <1>2, <1>3, <1>4, JudgingSize

\* One request is judged: it no longer counts, and all the others are fewer
\* than the slots.
LEMMA JudgingDrops ==
    ASSUME NEW a, NEW r \in Req, req[r].pc = "judge", req[r].ip = a, req'[r].pc # "judge",
           \A q \in Req \ {r} : req'[q] = req[q]
    PROVE  /\ Cardinality(Judging(a)') = Cardinality(Judging(a)) - 1
           /\ Cardinality(Judging(a)') <= Cardinality(Req) - 1
<1>1. Judging(a)' = Judging(a) \ {r} /\ r \in Judging(a)
  BY DEF Judging
<1>2. Cardinality(Judging(a)') = Cardinality(Judging(a)) - 1
  <2>1. IsFiniteSet(Judging(a))
    BY JudgingSize
  <2>2. Cardinality(Judging(a) \ {r}) =
          IF r \in Judging(a) THEN Cardinality(Judging(a)) - 1 ELSE Cardinality(Judging(a))
    BY <2>1, FS_RemoveElement, Zenon
  <2> QED BY <1>1, <2>2
<1>3. Judging(a)' \subseteq Req \ {r}
  BY DEF Judging
<1>4. IsFiniteSet(Req \ {r}) /\ Cardinality(Req \ {r}) = Cardinality(Req) - 1
  BY FS_RemoveElement
<1>5. Cardinality(Judging(a)') <= Cardinality(Req \ {r})
  BY <1>3, <1>4, FS_Subset
<1> QED BY <1>2, <1>4, <1>5

\* A step that changes no row, counts no guess and lets nobody through.
LEMMA BudgetUntouched ==
    ASSUME AuthInv, BudgetInv, UNCHANGED <<failed, left, guesses>>,
           faults' \in Nat, faults' >= faults,
           \A q \in Req : /\ req'[q].pc = "judge" => req[q].pc = "judge"
                          /\ req'[q].pc = "judge" => req'[q].ip = req[q].ip
    PROVE  BudgetInv'
<1> SUFFICES ASSUME NEW a \in Ip
             PROVE  /\ left'[a] > 0 =>
                         /\ failed'[a] = MAX_FAILURES
                         /\ guesses'[a] + Cardinality(Judging(a)')
                              <= MAX_FAILURES + (Cardinality(Req) - 1) + faults'
                    /\ left'[a] <= 0 => /\ guesses'[a] <= failed'[a] + faults'
                                        /\ guesses'[a] < MAX_FAILURES + faults'
  BY DEF BudgetInv
<1>1. /\ guesses[a] \in Nat /\ failed[a] \in Nat /\ faults \in Nat /\ left[a] \in Int
  BY DEF AuthInv, RowType
<1>2. /\ Cardinality(Judging(a)') <= Cardinality(Judging(a))
      /\ Cardinality(Judging(a)') \in Nat /\ Cardinality(Judging(a)) \in Nat
      /\ Cardinality(Req) \in Nat
  BY JudgingShrinks, JudgingSize
<1> QED BY <1>1, <1>2 DEF BudgetInv

\* What a step of require_admin_token may do to the address of its request.
LEMMA AuthStepBudget ==
    ASSUME AuthInv, BudgetInv, NEW r \in Req, AuthStep(r)
    PROVE  BudgetInv'
<1>0. PICK a, age : a = req[r].ip /\ age = req[r].age
  OBVIOUS
<1>1. /\ req[r].pc \in {"check", "judge"} /\ req'[r].pc \in {"judge", "handler", "idle"}
      /\ \A q \in Req \ {r} : req'[q] = req[q] /\ AuthInv'
  BY AuthStepInv
<1>2. /\ a \in Ip /\ age \in 0..MaxLag /\ left[a] \in Int /\ left[a] <= LOCKOUT_SECONDS
      /\ failed[a] \in 0..MAX_FAILURES /\ guesses[a] \in Nat
      /\ faults \in Nat /\ faults' \in Nat
  BY <1>0, <1>1, AuthStepInv, InRange DEF Busy, AuthInv, RowType
<1>3. CASE Reject(r)
  <2>1. req'[r] = Idle
    BY <1>3, LeaveReq DEF Reject, AuthInv, ReqType
  <2> QED BY <1>1, <1>2, <1>3, <2>1, BudgetUntouched DEF Reject, AfterReject, Idle
<1> DEFINE Same(b) == failed'[b] = failed[b] /\ left'[b] = left[b] /\ guesses'[b] = guesses[b]
           Fits(b) ==
              /\ left'[b] > 0 =>
                   /\ failed'[b] = MAX_FAILURES
                   /\ guesses'[b] + Cardinality(Judging(b)')
                        <= MAX_FAILURES + (Cardinality(Req) - 1) + faults'
              /\ left'[b] <= 0 => /\ guesses'[b] <= failed'[b] + faults'
                                  /\ guesses'[b] < MAX_FAILURES + faults'
\* The other addresses.
<1>4. ASSUME faults' >= faults, \A b \in Ip \ {a} : Same(b), req'[r].pc = "judge" => req'[r].ip = a
      PROVE  \A b \in Ip \ {a} : Fits(b)
  <2> SUFFICES ASSUME NEW b \in Ip \ {a} PROVE Fits(b)
    OBVIOUS
  <2>1. Judging(b)' = Judging(b)
    BY <1>0, <1>1, <1>4 DEF Judging
  <2>2. guesses[b] \in Nat /\ failed[b] \in Nat /\ left[b] \in Int
    BY DEF AuthInv, RowType
  <2> QED BY <1>2, <1>4, <2>1, <2>2, JudgingSize DEF BudgetInv
<1>5. CASE Admit(r) \/ AdmitUnread(r)
  <2>1. /\ UNCHANGED <<failed, left, guesses>> /\ Goto(r, "judge") /\ req[r].pc = "check"
        /\ \/ faults' = faults /\ left[a] + age <= 0
           \/ faults' = faults + 1
    BY <1>0, <1>2, <1>5 DEF Admit, AdmitUnread, LockedOut, attemptVars
  <2>2. req'[r].pc = "judge" /\ req'[r].ip = a
    BY <1>0, <2>1, GotoReq DEF AuthInv, ReqType, Busy, Pc
  <2>3. Cardinality(Judging(a)') <= Cardinality(Judging(a)) + 1
    BY <1>1, JudgingGrows
  <2>4. Fits(a)
    BY <1>2, <2>1, <2>3, JudgingSize DEF BudgetInv
  <2>5. \A b \in Ip \ {a} : Fits(b)
    <3>1. faults' >= faults
      BY <1>2, <2>1
    <3> QED BY <1>4, <2>1, <2>2, <3>1
  <2> HIDE DEF Fits
  <2>6. \A b \in Ip : Fits(b)
    BY <2>4, <2>5
  <2> QED BY <2>6 DEF Fits, BudgetInv
<1>6. CASE Authorized(r)
  <2>1. /\ failed' = [failed EXCEPT ![a] = 0] /\ left' = [left EXCEPT ![a] = 0 - MaxLag]
        /\ guesses' = [guesses EXCEPT ![a] = 0] /\ faults' = faults
        /\ Goto(r, "handler") /\ req[r].pc = "judge"
    BY <1>0, <1>6 DEF Authorized, RecordSuccess
  <2>2. req'[r].pc = "handler"
    BY <2>1, GotoReq DEF AuthInv, ReqType, Busy, Pc
  <2>3. /\ failed'[a] = 0 /\ left'[a] = 0 - MaxLag /\ guesses'[a] = 0
        /\ \A b \in Ip \ {a} : Same(b)
    BY <1>2, <2>1 DEF AuthInv, RowType
  <2>4. Fits(a)
    BY <1>2, <2>1, <2>3
  <2>5. \A b \in Ip \ {a} : Fits(b)
    BY <1>2, <1>4, <2>1, <2>2, <2>3
  <2> HIDE DEF Fits
  <2>6. \A b \in Ip : Fits(b)
    BY <2>4, <2>5
  <2> QED BY <2>6 DEF Fits, BudgetInv
<1>7. CASE Unauthorized(r)
  <2> DEFINE n == failed[a] + 1
  <2>1. /\ failed' = [failed EXCEPT ![a] = IF n > MAX_FAILURES THEN MAX_FAILURES ELSE n]
        /\ guesses' = [guesses EXCEPT ![a] = guesses[a] + 1]
        /\ \/ n >= MAX_FAILURES /\ left' = [left EXCEPT ![a] = LOCKOUT_SECONDS - age]
           \/ n < MAX_FAILURES /\ left' = left
        /\ faults' = faults /\ Leave(r) /\ req[r].pc = "judge"
    BY <1>0, <1>2, <1>7 DEF Unauthorized, LockoutFrom, Locks
  <2>2. req'[r].pc = "idle"
    BY <2>1, LeaveReq DEF AuthInv, ReqType, Idle
  <2>3. /\ failed'[a] = (IF n > MAX_FAILURES THEN MAX_FAILURES ELSE n)
        /\ guesses'[a] = guesses[a] + 1
        /\ \/ n >= MAX_FAILURES /\ left'[a] = LOCKOUT_SECONDS - age
           \/ n < MAX_FAILURES /\ left'[a] = left[a]
        /\ \A b \in Ip \ {a} : Same(b)
    BY <1>2, <2>1 DEF AuthInv, RowType
  <2>4. /\ Cardinality(Judging(a)') = Cardinality(Judging(a)) - 1
        /\ Cardinality(Judging(a)') <= Cardinality(Req) - 1
    BY <1>0, <1>1, <2>1, <2>2, JudgingDrops
  <2>5. Fits(a)
    <3>1. CASE n >= MAX_FAILURES
      <4>1. left'[a] > 0 /\ failed'[a] = MAX_FAILURES
        BY <1>2, <2>3, <3>1
      <4>2. CASE left[a] > 0
        BY <1>2, <2>1, <2>3, <2>4, <4>1, <4>2, JudgingSize DEF BudgetInv
      <4>3. CASE left[a] <= 0
        BY <1>2, <2>1, <2>3, <2>4, <4>1, <4>3, JudgingSize DEF BudgetInv
      <4> QED BY <1>2, <4>2, <4>3
    <3>2. CASE n < MAX_FAILURES
      BY <1>2, <2>1, <2>3, <3>2 DEF BudgetInv
    <3> QED BY <1>2, <3>1, <3>2
  <2>6. \A b \in Ip \ {a} : Fits(b)
    BY <1>2, <1>4, <2>1, <2>2, <2>3
  <2> HIDE DEF Fits
  <2>7. \A b \in Ip : Fits(b)
    BY <2>5, <2>6
  <2> QED BY <2>7 DEF Fits, BudgetInv
<1>8. CASE JudgeUnrecorded(r)
  <2>1. /\ failed' = failed /\ left' = left /\ faults' = faults + 1 /\ req[r].pc = "judge"
        /\ \/ Goto(r, "handler") /\ guesses' = guesses
           \/ Leave(r) /\ guesses' = [guesses EXCEPT ![a] = guesses[a] + 1]
    BY <1>0, <1>8 DEF JudgeUnrecorded, attemptVars
  <2>2. req'[r].pc \in {"handler", "idle"}
    BY <2>1, LeaveReq, GotoReq DEF AuthInv, ReqType, Idle, Busy, Pc
  <2>3. /\ guesses'[a] \in {guesses[a], guesses[a] + 1}
        /\ \A b \in Ip \ {a} : Same(b)
    BY <1>2, <2>1 DEF AuthInv, RowType
  <2>4. Cardinality(Judging(a)') = Cardinality(Judging(a)) - 1
    BY <1>0, <1>1, <2>1, <2>2, JudgingDrops
  <2>5. Fits(a)
    BY <1>2, <2>1, <2>3, <2>4, JudgingSize DEF BudgetInv
  <2>6. \A b \in Ip \ {a} : Fits(b)
    BY <1>2, <1>4, <2>1, <2>2, <2>3
  <2> HIDE DEF Fits
  <2>7. \A b \in Ip : Fits(b)
    BY <2>5, <2>6
  <2> QED BY <2>7 DEF Fits, BudgetInv
<1> QED BY <1>3, <1>5, <1>6, <1>7, <1>8 DEF AuthStep

\* A second either ends a lockout, which clears the address, or leaves the row
\* on the side of zero where it was.
LEMMA SecondBudget ==
    ASSUME AuthInv, BudgetInv, Second
    PROVE  BudgetInv'
<1> SUFFICES ASSUME NEW a \in Ip
             PROVE  /\ left'[a] > 0 =>
                         /\ failed'[a] = MAX_FAILURES
                         /\ guesses'[a] + Cardinality(Judging(a)')
                              <= MAX_FAILURES + (Cardinality(Req) - 1) + faults'
                    /\ left'[a] <= 0 => /\ guesses'[a] <= failed'[a] + faults'
                                        /\ guesses'[a] < MAX_FAILURES + faults'
  BY DEF BudgetInv
<1>1. /\ guesses[a] \in Nat /\ failed[a] \in Nat /\ faults \in Nat /\ left[a] \in Int
  BY DEF AuthInv, RowType
<1>2. /\ left'[a] = IF left[a] > 0 - MaxLag THEN left[a] - 1 ELSE left[a]
      /\ guesses'[a] = IF left[a] = 1 THEN 0 ELSE guesses[a]
      /\ failed' = failed /\ faults' = faults
  BY DEF Second
<1>3. ASSUME NEW q \in Req PROVE req'[q].pc = req[q].pc /\ req'[q].ip = req[q].ip
  <2>1. req[q] \in Request
    BY DEF AuthInv, ReqType
  <2>2. req'[q] = IF Busy(q) THEN [req[q] EXCEPT !.age = req[q].age + 1] ELSE req[q]
    BY DEF Second
  <2> QED BY <2>1, <2>2 DEF Request
<1>4. /\ Cardinality(Judging(a)') <= Cardinality(Judging(a))
      /\ Cardinality(Judging(a)') \in Nat /\ Cardinality(Judging(a)) \in Nat
      /\ Cardinality(Req) \in Nat
  BY <1>3, JudgingShrinks, JudgingSize
<1>5. CASE left[a] > 1
  BY <1>1, <1>2, <1>4, <1>5 DEF BudgetInv
<1>6. CASE left[a] = 1
  BY <1>1, <1>2, <1>6
<1>7. CASE left[a] <= 0
  BY <1>1, <1>2, <1>7 DEF BudgetInv
<1> QED BY <1>1, <1>5, <1>6, <1>7

LEMMA NextBudget == AInv /\ BudgetInv /\ [Next]_vars => BudgetInv'
<1> SUFFICES ASSUME AInv, BudgetInv, [Next]_vars PROVE BudgetInv'
  OBVIOUS
<1>0. AuthInv /\ faults \in Nat
  BY DEF AInv, AuthInv, RowType
<1>1. ASSUME NEW r \in Req, NEW a \in Ip, NEW tok \in Opt(Token), Arrive(r, a, tok)
      PROVE  BudgetInv'
  <2>1. /\ UNCHANGED <<failed, left, guesses, faults>>
        /\ req'[r].pc = "check" /\ \A q \in Req \ {r} : req'[q] = req[q]
    BY <1>0, <1>1, ArriveInv DEF Arrive, attemptVars
  <2> QED BY <1>0, <2>1, BudgetUntouched
<1>2. ASSUME NEW r \in Req, AuthStep(r) PROVE BudgetInv'
  BY <1>0, <1>2, AuthStepBudget
<1>3. ASSUME NEW r \in Req, PutStep(r) PROVE BudgetInv'
  <2>1. /\ req[r].pc \in {"handler", "limit", "persist"}
        /\ Leave(r) \/ Goto(r, "limit") \/ Goto(r, "persist")
        /\ UNCHANGED <<failed, left, guesses>> /\ faults' \in {faults, faults + 1}
    BY <1>3 DEF PutStep, PutPatch, PutLimit, PutPersist, PutPersistFails, AfterPatch, attemptVars
  <2>2. req'[r].pc \in {"idle", "limit", "persist"}
    BY <1>0, <2>1, LeaveReq, GotoReq DEF AuthInv, ReqType, Idle, Busy, Pc
  <2>3. \A q \in Req \ {r} : req'[q] = req[q]
    BY <1>0, <2>1 DEF Leave, Goto, AuthInv, ReqType
  <2> QED BY <1>0, <2>1, <2>2, <2>3, BudgetUntouched
<1>4. CASE Second
  BY <1>0, <1>4, SecondBudget
<1>5. ASSUME NEW env \in Opt(Token), Restart(env) PROVE BudgetInv'
  <2>1. /\ UNCHANGED <<failed, left, guesses, faults>>
        /\ \A q \in Req : req'[q].pc = "idle"
    BY <1>5 DEF Restart, AuthRestart, attemptVars, Idle
  <2> QED BY <1>0, <2>1, BudgetUntouched
<1>6. CASE UNCHANGED vars
  BY <1>0, <1>6, BudgetUntouched DEF vars, authVars, attemptVars
<1> QED BY <1>1, <1>2, <1>3, <1>4, <1>5, <1>6 DEF Next

\* "After MAX_FAILURES consecutive failed attempts from the same IP address,
\* further requests are rejected" (auth.rs): for any number of request slots,
\* addresses, tokens, faults and restarts, the tokens compared for an address
\* between two clean moments stay within MAX_FAILURES, the requests that were
\* past the check already, and the statements that failed.
THEOREM GuessesAreBudgeted == Spec => []GuessBudget
<1>1. Init => BudgetInv
  BY DEF Init, AuthInit, BudgetInv
<1>2. AInv /\ BudgetInv => GuessBudget
  <2> SUFFICES ASSUME AInv, BudgetInv, NEW a \in Ip
               PROVE  guesses[a] <= MAX_FAILURES + (Cardinality(Req) - 1) + faults
    BY DEF GuessBudget
  <2>1. /\ guesses[a] \in Nat /\ failed[a] \in Nat /\ faults \in Nat /\ left[a] \in Int
    BY DEF AInv, AuthInv, RowType
  <2> QED BY <2>1, JudgingSize DEF BudgetInv
<1> QED BY <1>1, <1>2, AdminInvariance, NextBudget, PTL DEF Spec

=============================================================================
