------------------------------ MODULE Inbound -------------------------------
(***************************************************************************)
(* Requests between agents over HTTP: sendA2ARequest of                     *)
(* adapters/a2a/http-transport.ts at the caller, POST /a2a/tasks and        *)
(* createTask at the agent, and AgentCore.handleIncomingA2ARequest with the *)
(* tiers of core/resilience/granular-rate-limiter.ts behind them.           *)
(*                                                                          *)
(* A call is one sendA2ARequest, by REST or by JSON-RPC.  The caller signs  *)
(* what it sends, and its verification fails of a late request only.  The   *)
(* agent signs the results of its runs, and theirs may fail: the signature  *)
(* is of values that JSON need not bring back as they were.                 *)
(* HTTP neither reorders nor repeats a request; a connection may break at   *)
(* any point, and the agent does not notice.  What the agent runs for a     *)
(* request is A2ADelegation's; here it takes time and ends somehow.         *)
(***************************************************************************)
EXTENDS RateLimiter

CONSTANTS
  Calls, PeerOf, SkillOf,        \* each call's caller and tool
  Rpc,                           \* the calls that use JSON-RPC
  Global, PerPeer, PerSkill,     \* the options of the tiers
  Door,                          \* those of the transport's own limiter
  Ttl,                           \* for how long a request is valid
  MaxTime                        \* bound: the ticks of the clock

Peers == {PeerOf[c] : c \in Calls}
Skills == {SkillOf[c] : c \in Calls}

\* Every limiter has a name of its own.
ASSUME InboundAssumption ==
  /\ Rpc \subseteq Calls
  /\ Ttl \in Nat /\ MaxTime \in Nat
  /\ {Door, Global, PerPeer, PerSkill} \subseteq RateLimiterOptions
  /\ Peers \cap Skills = {} /\ {"door", "global"} \cap (Peers \cup Skills) = {}

VARIABLES
  now,       \* Date.now()
  \* the callers
  call,      \* of each call: idle, waiting, done
  answer,    \* what it ended with: success, or a failure by what its error speaks of
  \* the network
  requests,  \* under way: the call, and when it was signed
  replies,   \* under way: the call, and what it says
  \* the agent
  run,       \* of each call: none, running, or how its run ended
  inFlight,  \* inFlightTasks
  draining,  \* the agent stops
  door, global, peer, skill,   \* the limiters; those of a peer or a tool once used
  \* history
  grants     \* the times at which each limiter granted

callers == <<call, answer>>
limiters == <<door, global, peer, skill, grants>>
vars == <<now, callers, requests, replies, run, inFlight, draining, limiters>>

\* The limiters by name, and the options of each.
Limiters == {"door", "global"} \cup Peers \cup Skills
OptionsOf(x) ==
  IF x = "door" THEN Door ELSE IF x = "global" THEN Global
  ELSE IF x \in Peers THEN PerPeer ELSE PerSkill

Init ==
  /\ now = 0
  /\ call = [c \in Calls |-> "idle"]
  /\ answer = [c \in Calls |-> "none"]
  /\ requests = {} /\ replies = {}
  /\ run = [c \in Calls |-> "none"]
  /\ inFlight = {}
  /\ draining = FALSE
  /\ door = NewLimiter(Door, 0)
  /\ global = NewLimiter(Global, 0)
  /\ peer = [p \in Peers |-> <<>>]
  /\ skill = [s \in Skills |-> <<>>]
  /\ grants = [x \in Limiters |-> <<>>]

\* getPeerLimiter, getSkillLimiter: a limiter is made when it is first asked for.
LimiterOf(known, x) == IF known[x] = <<>> THEN NewLimiter(OptionsOf(x), now) ELSE Head(known[x])

-----------------------------------------------------------------------------
(* The caller                                                               *)

\* signA2ARequest: the signature covers the time.
Signed(c) == [call |-> c, sent |-> now]

Send(c) ==
  /\ call[c] = "idle"
  /\ call' = [call EXCEPT ![c] = "waiting"]
  /\ requests' = requests \cup {Signed(c)}
  /\ UNCHANGED <<now, answer, replies, run, inFlight, draining, limiters>>

\* The timeout, or a connection that breaks, fails the call as a network error: what is
\* under way may still arrive, or not, and the run goes on.
Abort(c) ==
  /\ call[c] = "waiting"
  /\ call' = [call EXCEPT ![c] = "done"]
  /\ answer' = [answer EXCEPT ![c] = "network"]
  /\ requests' \in {requests, {r \in requests : r.call # c}}
  /\ replies' = {r \in replies : r.call # c}
  /\ UNCHANGED <<now, run, inFlight, draining, limiters>>

\* Mutant: the body is taken at its word whatever the HTTP status.
AnswersAny(r) == IF r.body = "failed" THEN {"peer"} ELSE {"success"}

\* A status other than 200 is a failure, else the body decides, in JSON-RPC by having a
\* result that is one of success; but a signed result whose signature does not verify is
\* turned into a failure.
Answers(r) ==
  IF r.status # 200 THEN {"http"}
  ELSE {IF r.body = "success" THEN "success" ELSE "peer"}
         \cup (IF r.body \in {"success", "failed"} THEN {"unverified"} ELSE {})

Receive(c) ==
  \E r \in replies :
    /\ r.call = c
    /\ call[c] = "waiting"
    /\ call' = [call EXCEPT ![c] = "done"]
    /\ \E says \in Answers(r) : answer' = [answer EXCEPT ![c] = says]
    /\ replies' = replies \ {r}
    /\ UNCHANGED <<now, requests, run, inFlight, draining, limiters>>

-----------------------------------------------------------------------------
(* The agent                                                                *)

\* POST /a2a/rpc, createTask: a failure is told in the body, under status 200, unless it
\* is a limit.
RpcStatus(status) == IF status = 429 THEN 429 ELSE 200

\* A reply goes nowhere once the caller has given up.
Reply(c, status, body) ==
  LET reply == [call |-> c, body |-> body,
                status |-> IF c \in Rpc THEN RpcStatus(status) ELSE status]
  IN replies' = IF call[c] = "waiting" THEN replies \cup {reply} ELSE replies

\* What the limiters granted, by name.
Noted(names) ==
  grants' = [x \in Limiters |-> IF x \in names THEN Append(grants[x], now) ELSE grants[x]]

\* GranularRateLimiter.tryConsume, after the transport's limiter: a tier is asked when
\* the one before has granted, and keeps what it granted if a later one refuses.
Tiers(c) ==
  LET p == PeerOf[c]
      s == SkillOf[c]
      byDoor == TryConsume(Door, door, now)
      byGlobal == TryConsume(Global, global, now)
      byPeer == TryConsume(PerPeer, LimiterOf(peer, p), now)
      bySkill == TryConsume(PerSkill, LimiterOf(skill, s), now)
      asked == [door |-> TRUE,
                global |-> byDoor.ok /\ ~draining,
                peer |-> byDoor.ok /\ ~draining /\ byGlobal.ok,
                skill |-> byDoor.ok /\ ~draining /\ byGlobal.ok /\ byPeer.ok]
  IN
  /\ door' = byDoor.limiter
  /\ global' = IF asked.global THEN byGlobal.limiter ELSE global
  /\ peer' = IF asked.peer THEN [peer EXCEPT ![p] = <<byPeer.limiter>>] ELSE peer
  /\ skill' = IF asked.skill THEN [skill EXCEPT ![s] = <<bySkill.limiter>>] ELSE skill
  /\ Noted({x \in {"door"} : byDoor.ok} \cup {x \in {"global"} : asked.global /\ byGlobal.ok}
           \cup {x \in {p} : asked.peer /\ byPeer.ok}
           \cup {x \in {s} : asked.skill /\ bySkill.ok})

Admitted(c) == Len(grants'[SkillOf[c]]) > Len(grants[SkillOf[c]])
PastDoor == Len(grants'["door"]) > Len(grants["door"])

\* verifyA2ARequest of a request that is signed as it should be.
Expired(r) == now > r.sent + Ttl

\* A request that comes too late is not let near a limiter.
Outdated(r) ==
  /\ requests' = requests \ {r}
  /\ Expired(r)
  /\ Reply(r.call, 401, "expired")
  /\ UNCHANGED <<now, callers, run, inFlight, draining, limiters>>

\* POST /a2a/tasks, up to what the agent runs for it.  An agent that stops says so in a
\* body with status 200, which it does not sign.
Arrive(r) ==
  LET c == r.call IN
  /\ requests' = requests \ {r}
  /\ ~Expired(r)
  /\ Tiers(c)
  /\ IF Admitted(c)
     THEN /\ run' = [run EXCEPT ![c] = "running"]
          /\ inFlight' = inFlight \cup {c}
          /\ UNCHANGED replies
     ELSE /\ IF PastDoor /\ draining THEN Reply(c, 200, "draining")
             ELSE Reply(c, 429, "limited")
          /\ UNCHANGED <<run, inFlight>>
  /\ UNCHANGED <<now, callers, draining>>

\* The run ends: with success, with an error, with an error that mentions 429 - which is
\* passed on as the status of a refusal - or by throwing.
Finish(c, how) ==
  /\ run[c] = "running"
  /\ run' = [run EXCEPT ![c] = how]
  /\ inFlight' = inFlight \ {c}
  /\ \/ how = "success" /\ Reply(c, 200, "success")
     \/ how = "failed" /\ Reply(c, 200, "failed")
     \/ how = "failed429" /\ Reply(c, 429, "limited")
     \/ how = "threw" /\ Reply(c, 500, "error")
  /\ UNCHANGED <<now, callers, requests, draining, limiters>>

Stop ==
  /\ ~draining
  /\ draining' = TRUE
  /\ UNCHANGED <<now, callers, requests, replies, run, inFlight, limiters>>

Tick ==
  /\ now < MaxTime
  /\ now' = now + 1
  /\ UNCHANGED <<callers, requests, replies, run, inFlight, draining, limiters>>

-----------------------------------------------------------------------------
Outcomes == {"success", "failed", "failed429", "threw"}

Next ==
  \/ \E c \in Calls :
       \/ Send(c) \/ Abort(c) \/ Receive(c)
       \/ \E how \in Outcomes : Finish(c, how)
  \/ \E r \in requests : Outdated(r) \/ Arrive(r)
  \/ Stop
  \/ Tick

Spec == Init /\ [][Next]_vars

-----------------------------------------------------------------------------
\* Each limiter keeps its windows, counted from any moment, both ends included, and its
\* bucket over any stretch of time, though the code cleans, counts and refills only when
\* it is asked, and requests that another tier refuses ask as well.
LimitsHold == \A x \in Limiters : WithinLimits(OptionsOf(x), grants[x])

\* And no limiter is stricter than it says: a request that was never run is told of a
\* limit only when to grant it would have broken a limit then, whatever was refused
\* before it.
RefusedForCause ==
  [][\A reply \in replies' \ replies :
       reply.status = 429 /\ run'[reply.call] = "none" =>
         \E x \in {"door", "global", PeerOf[reply.call], SkillOf[reply.call]} :
           ~WithinLimits(OptionsOf(x), Append(grants[x], now))]_vars

\* What a caller is told agrees with what the agent did: success only for a run that
\* succeeded, an HTTP status only for a request that was never run - or whose run failed
\* with an error that speaks of 429, or threw - and a failure of a run that succeeded, or
\* that goes on, only when the error tells of a broken connection, a timeout or a
\* signature; and a signature fails only of a run that ended.
HonestAnswers ==
  \A c \in Calls :
    /\ answer[c] = "success" => run[c] = "success"
    /\ answer[c] = "http" => run[c] \in {"none", "failed429", "threw"}
    /\ answer[c] = "peer" => run[c] \notin {"running", "success"}
    /\ answer[c] = "unverified" => run[c] \in {"success", "failed"}
=============================================================================
