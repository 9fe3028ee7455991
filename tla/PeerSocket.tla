----------------------------- MODULE PeerSocket -----------------------------
(***************************************************************************)
(* adapters/a2a/ws-client.ts and the peer's adapters/a2a/ws-transport.ts:   *)
(* requests and their results over WebSockets.                              *)
(*                                                                          *)
(* The client keeps a map of pending requests, in the order they were       *)
(* entered.  A result names no task: it settles the first of them.          *)
(*                                                                          *)
(* A call is one executeTask; calls may have the same task id.  A message   *)
(* to the peer is the call it comes from, a result the call it answers.     *)
(* The ws library delivers in order while a socket lives, fails a           *)
(* connection with an error and a close event, drops what is sent on a      *)
(* closing or closed socket and throws for one that is still connecting.    *)
(* Each end signs what it sends, and drops what has expired on arrival:     *)
(* between two machines, whose clocks differ, any message may have.  The    *)
(* message 'error', which the client only logs, is left out; so are         *)
(* task_status and cancel_task requests, which nothing in src sends and     *)
(* AgentCore has no answer to.                                              *)
(***************************************************************************)
EXTENDS Integers, Sequences, SequencesExt

CONSTANTS
  Calls, Tasks,
  MaxSockets    \* bound: the connections made

\* No call is an error, so that an answer is one or the other.
ASSUME SocketAssumption ==
  /\ MaxSockets \in Nat
  /\ Calls \cap {"none", "threw", "closed", "timeout"} = {}

Sockets == 1..MaxSockets

VARIABLES
  taskOf,    \* the task id of each call, chosen by the caller
  \* the client
  ws,        \* this.ws, 0 for undefined
  made,      \* the sockets made so far are 1..made
  pc,        \* of each call: idle, connecting, waiting, done
  via,       \* the socket the call is connecting by, 0 for none
  pending,   \* pendingTasks: the calls entered, the key of each its task id
  timers,    \* the calls whose timeout is set
  answer,    \* how each call ended: the call whose result it got, or an error
  told,      \* the last status reported to each call's onProgress
  \* the network
  conn,      \* of each socket: none, connecting, open, closing, closed
  up, down,  \* what is under way to the peer and back
  \* the peer
  running,   \* the handlers awaited, <<socket, call>>, in the order they started
  subs,      \* subscriptions: the sockets that follow each task
  \* history
  orderly,   \* since the connection was made, the peer has answered every request in
             \* turn, every answer was read, and none was given up
  unread     \* a message of the peer had expired when it came

client == <<ws, made, pc, via, pending, timers, answer, told>>
net == <<conn, up, down>>
peer == <<running, subs>>
vars == <<taskOf, client, net, peer, orderly, unread>>

Init ==
  /\ taskOf \in [Calls -> Tasks]
  /\ ws = 0 /\ made = 0
  /\ pc = [c \in Calls |-> "idle"]
  /\ via = [c \in Calls |-> 0]
  /\ pending = <<>>
  /\ timers = {}
  /\ answer = [c \in Calls |-> "none"]
  /\ told = [c \in Calls |-> "nothing"]
  /\ conn = [s \in Sockets |-> "none"]
  /\ up = [s \in Sockets |-> <<>>]
  /\ down = [s \in Sockets |-> <<>>]
  /\ running = <<>>
  /\ subs = [t \in Tasks |-> {}]
  /\ orderly = TRUE /\ unread = FALSE

Live == {"connecting", "open", "closing"}
HasOpen == ws # 0 /\ conn[ws] = "open"
Unique(c) == \A d \in Calls \ {c} : taskOf[d] # taskOf[c]

\* The position of the entry for task t; there is none beyond the end of pending.
Keys(t) == {i \in 1..Len(pending) : taskOf[pending[i]] = t}

\* Map.set keeps the place of a key it has.
Entered(c) ==
  IF Keys(taskOf[c]) = {} THEN Append(pending, c)
  ELSE [i \in 1..Len(pending) |-> IF i \in Keys(taskOf[c]) THEN c ELSE pending[i]]

\* Map.delete.
Deleted(t) ==
  IF Keys(t) = {} THEN pending
  ELSE RemoveAt(pending, CHOOSE i \in Keys(t) : TRUE)

-----------------------------------------------------------------------------
(* The client                                                               *)

\* The rest of executeTask once it has a connection: the promise and its executor.
Submit(c) ==
  /\ pending' = Entered(c)
  /\ IF ws # 0 /\ conn'[ws] = "connecting"
     THEN \* send throws inside the executor: the entry stays, the timer is never set
          /\ pc' = [pc EXCEPT ![c] = "done"]
          /\ answer' = [answer EXCEPT ![c] = "threw"]
          /\ UNCHANGED <<timers, up>>
     ELSE /\ pc' = [pc EXCEPT ![c] = "waiting"]
          /\ timers' = timers \cup {c}
          /\ up' = IF ws # 0 /\ conn'[ws] = "open"
                   THEN [up EXCEPT ![ws] = Append(@, c)] ELSE up
          /\ UNCHANGED answer
  /\ via' = [via EXCEPT ![c] = 0]
  /\ orderly' = (orderly /\ Keys(taskOf[c]) = {} /\ pc'[c] = "waiting")
  /\ UNCHANGED <<ws, made, told, down, peer>>

ExecuteOpen(c) ==
  /\ pc[c] = "idle"
  /\ HasOpen
  /\ UNCHANGED conn
  /\ Submit(c)

\* connect: whoever finds no open socket makes one, which replaces the others'.
ExecuteConnect(c) ==
  /\ pc[c] = "idle"
  /\ ~HasOpen
  /\ made < MaxSockets
  /\ made' = made + 1
  /\ ws' = made + 1
  /\ conn' = [conn EXCEPT ![made + 1] = "connecting"]
  /\ pc' = [pc EXCEPT ![c] = "connecting"]
  /\ via' = [via EXCEPT ![c] = made + 1]
  /\ orderly' = (orderly /\ \A s \in Sockets : conn[s] \notin Live)
  /\ UNCHANGED <<pending, timers, answer, told, up, down, peer>>

\* 'open': the call that made the socket goes on, with this.ws as it is by now.
Opened(c) ==
  /\ pc[c] = "connecting"
  /\ conn[via[c]] = "connecting"
  /\ conn' = [conn EXCEPT ![via[c]] = "open"]
  /\ Submit(c)

\* Mutant: the close handler forgets the pending requests without a word.
ClosedSilently(s) ==
  LET lost == {c \in Calls : via[c] = s} IN
  /\ conn[s] \in Live
  /\ conn' = [conn EXCEPT ![s] = "closed"]
  /\ pc' = [c \in Calls |-> IF c \in lost THEN "done" ELSE pc[c]]
  /\ answer' = [c \in Calls |-> IF c \in lost THEN "closed" ELSE answer[c]]
  /\ via' = [c \in Calls |-> IF via[c] = s THEN 0 ELSE via[c]]
  /\ pending' = <<>>
  /\ up' = [up EXCEPT ![s] = <<>>]
  /\ down' = [down EXCEPT ![s] = <<>>]
  /\ subs' = [t \in Tasks |-> subs[t] \ {s}]
  /\ orderly' = \A r \in Sockets \ {s} : conn[r] \notin Live
  /\ UNCHANGED <<ws, made, timers, told, running>>

\* 'close' at both ends, after an 'error' if the socket never opened.  Every pending
\* request is rejected, by whichever socket it went; no timer is cleared.
Closed(s) ==
  LET lost == {c \in Calls : via[c] = s \/ (pc[c] = "waiting" /\ c \in Range(pending))} IN
  /\ conn[s] \in Live
  /\ conn' = [conn EXCEPT ![s] = "closed"]
  /\ pc' = [c \in Calls |-> IF c \in lost THEN "done" ELSE pc[c]]
  /\ answer' = [c \in Calls |-> IF c \in lost THEN "closed" ELSE answer[c]]
  /\ via' = [c \in Calls |-> IF via[c] = s THEN 0 ELSE via[c]]
  /\ pending' = <<>>
  /\ up' = [up EXCEPT ![s] = <<>>]
  /\ down' = [down EXCEPT ![s] = <<>>]
  /\ subs' = [t \in Tasks |-> subs[t] \ {s}]
  /\ orderly' = \A r \in Sockets \ {s} : conn[r] \notin Live
  /\ UNCHANGED <<ws, made, timers, told, running>>

\* close().
Close ==
  /\ ws # 0
  /\ conn' = IF conn[ws] = "closed" THEN conn ELSE [conn EXCEPT ![ws] = "closing"]
  /\ ws' = 0
  /\ UNCHANGED <<made, pc, via, pending, timers, answer, told, up, down, peer, orderly>>

\* Mutant: the timeout leaves the entry in the map.
TimeoutKeeps(c) ==
  /\ c \in timers
  /\ timers' = timers \ {c}
  /\ IF Keys(taskOf[c]) # {} /\ pc[c] = "waiting"
     THEN /\ pc' = [pc EXCEPT ![c] = "done"]
          /\ answer' = [answer EXCEPT ![c] = "timeout"]
          /\ orderly' = FALSE
     ELSE UNCHANGED <<pc, answer, orderly>>
  /\ UNCHANGED <<ws, made, via, pending, told, net, peer>>

\* The timeout of a call finds an entry with its task id, and takes it to be its own.
Timeout(c) ==
  /\ c \in timers
  /\ timers' = timers \ {c}
  /\ pending' = Deleted(taskOf[c])
  /\ IF Keys(taskOf[c]) # {} /\ pc[c] = "waiting"
     THEN /\ pc' = [pc EXCEPT ![c] = "done"]
          /\ answer' = [answer EXCEPT ![c] = "timeout"]
     ELSE UNCHANGED <<pc, answer>>
  /\ orderly' = (orderly /\ Keys(taskOf[c]) = {})
  /\ UNCHANGED <<ws, made, via, told, net, peer>>

\* A 'task_status' is for the pending request of that task.
Report(m) ==
  /\ told' = [c \in Calls |-> IF c \in Range(pending) /\ taskOf[c] = m.task
                              THEN m.status ELSE told[c]]
  /\ UNCHANGED <<pending, pc, answer, timers>>

\* Mutant: a result settles the request entered last.
ResolveLast(m) ==
  LET c == Last(pending) IN
  /\ IF pending = <<>> \/ pc[c] # "waiting"
     THEN UNCHANGED <<pc, answer, timers>>
     ELSE /\ pc' = [pc EXCEPT ![c] = "done"]
          /\ answer' = [answer EXCEPT ![c] = m.call]
          /\ timers' = timers \ {c}
  /\ pending' = IF pending = <<>> THEN pending ELSE Front(pending)
  /\ UNCHANGED told

\* An 'artifact_delivery' settles the first pending request and stops its timer.
Resolve(m) ==
  LET c == Head(pending) IN
  /\ IF pending = <<>> \/ pc[c] # "waiting"
     THEN UNCHANGED <<pc, answer, timers>>
     ELSE /\ pc' = [pc EXCEPT ![c] = "done"]
          /\ answer' = [answer EXCEPT ![c] = m.call]
          /\ timers' = timers \ {c}
  /\ pending' = IF pending = <<>> THEN pending ELSE Tail(pending)
  /\ UNCHANGED told

\* 'message' at the client.
Receive(s) ==
  /\ conn[s] \in {"open", "closing"}
  /\ down[s] # <<>>
  /\ LET m == Head(down[s]) IN
       \/ m.kind = "status" /\ Report(m)
       \/ m.kind = "artifact" /\ Resolve(m)
  /\ down' = [down EXCEPT ![s] = Tail(@)]
  /\ UNCHANGED <<ws, made, via, conn, up, peer, orderly>>

\* verifyMessage: it has expired, or is from the future, and is dropped.
Unverified(s) ==
  /\ conn[s] \in {"open", "closing"}
  /\ down[s] # <<>>
  /\ down' = [down EXCEPT ![s] = Tail(@)]
  /\ orderly' = FALSE /\ unread' = TRUE
  /\ UNCHANGED <<client, conn, up, peer>>

-----------------------------------------------------------------------------
(* The peer                                                                 *)

Status(t, status) == [kind |-> "status", task |-> t, status |-> status]
Artifact(c) == [kind |-> "artifact", call |-> c]

\* emitStatusUpdate, to those who follow t and are connected.
Emitted(followers, t, status) ==
  [s \in Sockets |-> IF s \in followers /\ conn[s] # "closed"
                     THEN Append(down[s], Status(t, status)) ELSE down[s]]

Arrives(s, c) ==
  /\ conn[s] \in {"open", "closing"}
  /\ up[s] # <<>>
  /\ c = Head(up[s])
  /\ up' = [up EXCEPT ![s] = Tail(@)]

\* Mutant: the socket is subscribed once the work is done.
AcceptUnsubscribed(s, c) ==
  /\ Arrives(s, c)
  /\ down' = Emitted(subs[taskOf[c]], taskOf[c], "executing")
  /\ running' = Append(running, <<s, c>>)
  /\ UNCHANGED <<client, conn, subs, orderly>>

\* create_task: the caller is subscribed and the handler called.
Accept(s, c) ==
  /\ Arrives(s, c)
  /\ subs' = [subs EXCEPT ![taskOf[c]] = @ \cup {s}]
  /\ down' = Emitted(subs'[taskOf[c]], taskOf[c], "executing")
  /\ running' = Append(running, <<s, c>>)
  /\ UNCHANGED <<client, conn, orderly>>

\* A request that has expired is dropped; the caller is sent an error it cannot place.
Reject(s, c) ==
  /\ Arrives(s, c)
  /\ orderly' = FALSE
  /\ UNCHANGED <<client, conn, down, peer>>

\* create_task beyond the rate limit: told to those who already follow the task, and
\* they no longer do; the caller is sent an error it cannot place.
Refuse(s, c) ==
  /\ Arrives(s, c)
  /\ down' = Emitted(subs[taskOf[c]], taskOf[c], "failed")
  /\ subs' = [subs EXCEPT ![taskOf[c]] = {}]
  /\ orderly' = FALSE
  /\ UNCHANGED <<client, conn, running>>

\* The handler returns: the status to the followers, the result to the caller.
Finish(i, status) ==
  LET s == running[i][1]
      c == running[i][2]
      reported == Emitted(subs[taskOf[c]], taskOf[c], status)
  IN
  /\ down' = IF conn[s] = "closed" THEN reported
             ELSE [reported EXCEPT ![s] = Append(@, Artifact(c))]
  /\ subs' = [subs EXCEPT ![taskOf[c]] = {}]
  /\ running' = RemoveAt(running, i)
  /\ orderly' = (orderly /\ (conn[s] # "closed" => \A j \in 1..(i - 1) : running[j][1] # s))
  /\ UNCHANGED <<client, conn, up>>

\* The handler throws: no result is sent.
Throws(i) ==
  LET s == running[i][1]
      c == running[i][2]
  IN
  /\ down' = Emitted(subs[taskOf[c]], taskOf[c], "failed")
  /\ subs' = [subs EXCEPT ![taskOf[c]] = {}]
  /\ running' = RemoveAt(running, i)
  /\ orderly' = (orderly /\ conn[s] = "closed")
  /\ UNCHANGED <<client, conn, up>>

-----------------------------------------------------------------------------
Next ==
  /\ \/ /\ \/ \E c \in Calls :
                \/ ExecuteOpen(c)
                \/ ExecuteConnect(c)
                \/ Opened(c)
                \/ Timeout(c)
           \/ Close
           \/ \E s \in Sockets : Closed(s) \/ Receive(s)
           \/ \E s \in Sockets, c \in Calls : Accept(s, c) \/ Reject(s, c) \/ Refuse(s, c)
           \/ \E i \in 1..Len(running) :
                \/ \E status \in {"completed", "failed"} : Finish(i, status)
                \/ Throws(i)
        /\ UNCHANGED unread
     \/ \E s \in Sockets : Unverified(s)
  /\ UNCHANGED taskOf

\* Timers fire.  The peer and the network owe nothing: connect() sets no limit to the
\* handshake, so that not even an attempt to connect need ever end.
Spec ==
  /\ Init /\ [][Next]_vars
  /\ \A c \in Calls : WF_vars(Timeout(c) /\ UNCHANGED <<taskOf, unread>>)

-----------------------------------------------------------------------------
\* A request whose task id no other call uses is never forgotten: while its caller
\* waits it has its entry and its timer.  And the map holds no entry of a call that is
\* over, which would take the result of another, but for those whose send threw.
NoneForgotten ==
  /\ \A c \in Calls :
       pc[c] = "waiting" /\ Unique(c) => c \in timers /\ c \in Range(pending)
  /\ \A c \in Range(pending) :
       pc[c] = "waiting" \/ answer[c] = "threw" \/ ~Unique(c)

\* Results are matched by their order alone, and that is enough only while the peer
\* answers each request in turn over one connection and nobody gives up: then every
\* call gets its own.  A connection made anew is a new start.
OwnResultInTurn ==
  [][\A c \in Calls :
       pc[c] = "waiting" /\ answer'[c] \in Calls /\ orderly => answer'[c] = c]_vars

\* A caller that gets its own result has been told before that the task is over, unless
\* what it was told came too late to be read.
ToldFirst ==
  \A c \in Calls :
    Unique(c) /\ answer[c] = c /\ ~unread => told[c] \in {"completed", "failed"}

\* A call whose task id no other call uses comes to an end, whatever the peer does, once
\* it is on its way: only one whose connection is for ever neither made nor refused, for
\* which no timer runs yet, may wait for ever.
CallsSettle ==
  \A c \in Calls :
    Unique(c) =>
      (pc[c] \in {"connecting", "waiting"} ~> (pc[c] = "done" \/ [](pc[c] = "connecting")))
=============================================================================
