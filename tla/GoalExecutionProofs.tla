------------------------ MODULE GoalExecutionProofs ------------------------
(***************************************************************************)
(* For every plan, every bound and any answers of peers and executors:      *)
(* subtasks are run in the order of their dependencies, each fails only so  *)
(* many times, there is always one that can be run, and none is skipped,    *)
(* however the graph is rewritten.                                          *)
(*                                                                          *)
(* The argument: a batch is computed once, and the graph then changes under *)
(* it.  A change touches the status of the running subtask, and the         *)
(* dependencies of those that depend on it; the running one is not done, so *)
(* no subtask that runs, is done, or waits in the batch depends on it.      *)
(***************************************************************************)
EXTENDS GoalExecution, FiniteSetTheorems, SequenceTheorems, WellFoundedInduction, TLAPS

Record ==
  [deps : SUBSET Nat, status : Statuses, assigned : BOOLEAN, healing : Nat,
   retryCount : Nat, maxRetries : Nat, instead : Nat]

MetIn(g, n) == \A d \in g[n].deps : g[d].status = "COMPLETED"

\* Failures are counted, and a subtask that fails once too often is cancelled.
Tried(r) ==
  /\ r.healing <= r.maxRetries + 2
  /\ r.status # "CANCELLED" => r.healing <= r.maxRetries + 1
  /\ r.retryCount < r.maxRetries => r.healing = r.retryCount

\* A graph of k subtasks that is well formed and has been run in order.
Good(g, k) ==
  /\ g \in [1..k -> Record]
  /\ \A n \in 1..k : g[n].deps \subseteq 1..k
  /\ \A n \in 1..k : g[n].status \in {"RUNNING", "COMPLETED"} => MetIn(g, n)
  /\ \A n \in 1..k : Tried(g[n])

\* Those of a batch that are not running yet are ready, and wait.
Waiting(g, b) ==
  \A i \in 2..Len(b) : g[b[i]].status = "PENDING" /\ MetIn(g, b[i])

Distinct(b) == \A i, j \in 1..Len(b) : i # j => b[i] # b[j]

BatchOK ==
  /\ batch \in Seq(1..Len(graph))
  /\ batch # <<>>
  /\ Distinct(batch)
  /\ graph[batch[1]].status = "RUNNING"
  /\ Waiting(graph, batch)

Inv ==
  /\ Len(graph) \in Nat
  /\ Good(graph, Len(graph))
  /\ pc = "batch" => BatchOK

\* The running subtask gets another record.
Moves ==
  /\ pc = "batch"
  /\ \E r \in Record :
       /\ Tried(r)
       /\ r.deps = graph[Running].deps /\ r.instead = graph[Running].instead
       /\ r.status \in {"PENDING", "COMPLETED", "FAILED"}
       /\ Proceed([graph EXCEPT ![Running] = r])

LEMMA Length ==
  ASSUME NEW S, NEW k \in Nat, NEW f \in [1..k -> S]
  PROVE  Len(f) = k /\ DOMAIN f = 1..k
<1>1. f \in Seq(S)
  BY SeqDef
<1> QED
  BY <1>1, LenProperties

Started(g, n, a) == [g EXCEPT ![n].status = "RUNNING", ![n].assigned = a]

\* A subtask that waits with all it depends on done may be started.
LEMMA Starting ==
  ASSUME NEW k \in Nat, NEW g, Good(g, k), NEW n \in 1..k,
         g[n].status = "PENDING", MetIn(g, n), NEW a \in BOOLEAN
  PROVE  /\ Good(Started(g, n, a), k)
         /\ Started(g, n, a)[n].status = "RUNNING"
         /\ \A m \in 1..k : g[m].status = "PENDING" /\ m # n /\ MetIn(g, m) =>
              /\ Started(g, n, a)[m].status = "PENDING"
              /\ MetIn(Started(g, n, a), m)
<1> DEFINE h == Started(g, n, a)
<1> DEFINE r == [g[n] EXCEPT !.status = "RUNNING", !.assigned = a]
<1>0. h = [g EXCEPT ![n] = r]
  BY DEF Good, Started
<1>1. h \in [1..k -> Record]
  <2>1. r \in Record
    BY DEF Good, Record, Statuses
  <2> HIDE DEF r
  <2> QED
    BY <1>0, <2>1 DEF Good
<1>2. \A m \in 1..k :
        /\ h[m].deps = g[m].deps
        /\ h[m].healing = g[m].healing
        /\ h[m].maxRetries = g[m].maxRetries
        /\ h[m].retryCount = g[m].retryCount
        /\ h[m].status = IF m = n THEN "RUNNING" ELSE g[m].status
  BY DEF Good, Record, Started
<1> HIDE DEF h
<1>3. \A m \in 1..k : MetIn(g, m) => MetIn(h, m)
  BY <1>2 DEF Good, MetIn
<1>4. \A m \in 1..k : h[m].status \in {"RUNNING", "COMPLETED"} => MetIn(h, m)
  BY <1>2, <1>3 DEF Good
<1>5. \A m \in 1..k : Tried(h[m])
  BY <1>2 DEF Good, Tried
<1> QED
  BY <1>1, <1>2, <1>3, <1>4, <1>5 DEF Good, h

\* After a step of the running subtask, the rest of its batch follows.
LEMMA Proceeding ==
  ASSUME NEW k \in Nat, NEW after, Good(after, k),
         batch \in Seq(1..k), batch # <<>>, Distinct(batch), Waiting(after, batch),
         Proceed(after), pc = "batch"
  PROVE  Inv'
<1>1. Len(after) = k /\ DOMAIN after = 1..k
  BY Length DEF Good
<1>2. CASE Tail(batch) = <<>>
  BY <1>1, <1>2 DEF Proceed, Inv
<1>3. CASE Tail(batch) # <<>>
  <2>1. /\ Tail(batch) \in Seq(1..k)
        /\ Len(batch) \in Nat /\ Len(batch) >= 2
        /\ Len(Tail(batch)) = Len(batch) - 1
        /\ \A i \in 1..Len(batch) - 1 : Tail(batch)[i] = batch[i + 1]
        /\ \A i \in 1..Len(batch) : batch[i] \in 1..k
    BY <1>3
  <2>2. PICK found \in BOOLEAN :
          graph' = [after EXCEPT ![batch[2]].status = "RUNNING",
                                 ![batch[2]].assigned = @ \/ found]
    BY <1>3 DEF Proceed
  <2> DEFINE a == after[batch[2]].assigned \/ found
  <2>3. a \in BOOLEAN /\ batch[2] \in 1..k
    BY <2>1 DEF Good, Record
  <2>4. graph' = Started(after, batch[2], a)
    BY <2>2, <2>3 DEF Good, Record, Started
  <2> HIDE DEF a
  <2>5. after[batch[2]].status = "PENDING" /\ MetIn(after, batch[2])
    BY <2>1 DEF Waiting
  <2>6. /\ Good(graph', k)
        /\ graph'[batch[2]].status = "RUNNING"
        /\ \A m \in 1..k : after[m].status = "PENDING" /\ m # batch[2] /\ MetIn(after, m) =>
             graph'[m].status = "PENDING" /\ MetIn(graph', m)
    BY <2>3, <2>4, <2>5, Starting
  <2>7. Len(graph') = k
    BY <2>6, Length DEF Good
  <2>8. batch' = Tail(batch) /\ pc' = "batch"
    BY <1>3 DEF Proceed
  <2>9. Distinct(Tail(batch))
    BY <2>1 DEF Distinct
  <2>10. Waiting(graph', Tail(batch))
    BY <2>1, <2>6 DEF Waiting, Distinct
  <2>11. Tail(batch)[1] = batch[2]
    BY <2>1
  <2> QED
    BY <1>3, <2>1, <2>6, <2>7, <2>8, <2>9, <2>10, <2>11 DEF Inv, BatchOK
<1> QED BY <1>2, <1>3

\* The batch as a step of the running subtask finds it.
LEMMA InBatch ==
  ASSUME Inv, pc = "batch", NEW k \in Nat, k = Len(graph)
  PROVE  /\ Good(graph, k) /\ Nodes = 1..k
         /\ batch \in Seq(1..k) /\ batch # <<>> /\ Distinct(batch)
         /\ Len(batch) \in Nat
         /\ \A i \in 1..Len(batch) : batch[i] \in 1..k
         /\ Running \in 1..k /\ graph[Running].status = "RUNNING"
         /\ Waiting(graph, batch)
<1>1. Good(graph, k) /\ batch \in Seq(1..k) /\ batch # <<>> /\ Distinct(batch)
      /\ Waiting(graph, batch) /\ graph[batch[1]].status = "RUNNING"
  BY DEF Inv, BatchOK
<1>2. Nodes = 1..k
  BY <1>1 DEF Good, Nodes
<1>3. Len(batch) \in Nat /\ Len(batch) >= 1 /\ \A i \in 1..Len(batch) : batch[i] \in 1..k
  BY <1>1
<1> QED
  BY <1>1, <1>2, <1>3 DEF Running

\* The running subtask gets another status: nothing that runs, is done or waits
\* in the batch depends on it.
LEMMA MovesStep == Inv /\ Moves => Inv'
<1> SUFFICES ASSUME Inv, Moves PROVE Inv'
  OBVIOUS
<1>a. PICK r \in Record :
        /\ Tried(r) /\ r.deps = graph[Running].deps /\ r.status # "RUNNING"
        /\ Proceed([graph EXCEPT ![Running] = r])
  BY DEF Moves
<1>b. pc = "batch"
  BY DEF Moves
<1> DEFINE k == Len(graph)
           after == [graph EXCEPT ![Running] = r]
<1>0. k \in Nat
  BY DEF Inv
<1> HIDE DEF k
<1>1. /\ Good(graph, k) /\ Running \in 1..k /\ graph[Running].status = "RUNNING"
      /\ batch \in Seq(1..k) /\ batch # <<>> /\ Distinct(batch)
      /\ Waiting(graph, batch) /\ \A i \in 1..Len(batch) : batch[i] \in 1..k
      /\ Len(batch) \in Nat
  BY <1>0, <1>b, InBatch DEF k
<1>2. after \in [1..k -> Record] /\ \A n \in 1..k \ {Running} : after[n] = graph[n]
  BY <1>1 DEF Good
<1>3. after[Running] = r
  BY <1>1 DEF Good
<1> HIDE DEF after
<1>4. \A n \in 1..k : after[n].deps = graph[n].deps
  BY <1>a, <1>2, <1>3
<1>5. \A n \in 1..k : MetIn(graph, n) => MetIn(after, n)
  BY <1>1, <1>2, <1>4 DEF MetIn, Good
<1>6. \A n \in 1..k : after[n].status \in {"RUNNING", "COMPLETED"} => MetIn(after, n)
  BY <1>1, <1>2, <1>3, <1>5, <1>a DEF Good
<1>7. Good(after, k)
  BY <1>1, <1>2, <1>3, <1>4, <1>6, <1>a DEF Good
<1>8. Waiting(after, batch)
  <2>1. \A i \in 2..Len(batch) : batch[i] # Running /\ batch[i] \in 1..k
    BY <1>1 DEF Distinct, Running
  <2> QED
    BY <1>1, <1>2, <1>5, <2>1 DEF Waiting
<1> QED
  BY <1>0, <1>1, <1>7, <1>8, <1>a, <1>b, Proceeding DEF after

LEMMA SucceedsMoves == Inv /\ Succeeds => Moves
<1> SUFFICES ASSUME Inv, Succeeds PROVE Moves
  OBVIOUS
<1>1. Len(graph) \in Nat /\ pc = "batch"
  BY DEF Inv, Succeeds
<1>2. Running \in 1..Len(graph) /\ graph[Running] \in Record /\ Tried(graph[Running])
      /\ graph[Running].status = "RUNNING"
  BY <1>1, InBatch DEF Good
<1> DEFINE r == [graph[Running] EXCEPT !.status = "COMPLETED"]
<1>3. /\ r \in Record /\ Tried(r)
      /\ r.deps = graph[Running].deps /\ r.instead = graph[Running].instead
      /\ r.status \in {"PENDING", "COMPLETED", "FAILED"}
  BY <1>2 DEF Record, Statuses, Tried
<1>4. Proceed([graph EXCEPT ![Running] = r])
  BY DEF Succeeds, Becomes
<1> HIDE DEF r
<1> QED
  BY <1>1, <1>3, <1>4 DEF Moves

LEMMA FailsMoves == Inv /\ Fails => Moves
<1> SUFFICES ASSUME Inv, Fails PROVE Moves
  OBVIOUS
<1>1. Len(graph) \in Nat /\ pc = "batch"
  BY DEF Inv, Fails
<1>2. Running \in 1..Len(graph) /\ graph[Running] \in Record /\ Tried(graph[Running])
      /\ graph[Running].status = "RUNNING"
  BY <1>1, InBatch DEF Good
<1> DEFINE r == [graph[Running] EXCEPT !.status = "FAILED"]
<1>3. /\ r \in Record /\ Tried(r)
      /\ r.deps = graph[Running].deps /\ r.instead = graph[Running].instead
      /\ r.status \in {"PENDING", "COMPLETED", "FAILED"}
  BY <1>2 DEF Record, Statuses, Tried
<1>4. Proceed([graph EXCEPT ![Running] = r])
  BY DEF Fails, Becomes
<1> HIDE DEF r
<1> QED
  BY <1>1, <1>3, <1>4 DEF Moves

LEMMA FailedRecord ==
  ASSUME NEW n, graph[n] \in Record
  PROVE  /\ Failed(n) \in Record
         /\ Failed(n).healing = graph[n].healing + 1
         /\ Failed(n).deps = graph[n].deps
         /\ Failed(n).instead = graph[n].instead
         /\ Failed(n).retryCount = graph[n].retryCount
         /\ Failed(n).maxRetries = graph[n].maxRetries
BY DEF Failed, Record

LEMMA RetriesMoves == Inv /\ Retries => Moves
<1> SUFFICES ASSUME Inv, Retries PROVE Moves
  OBVIOUS
<1>1. Len(graph) \in Nat /\ pc = "batch" /\ MayRetry(Running)
  BY DEF Inv, Retries
<1>2. Running \in 1..Len(graph) /\ graph[Running] \in Record /\ Tried(graph[Running])
      /\ graph[Running].status = "RUNNING"
  BY <1>1, InBatch DEF Good
<1> DEFINE r == [Failed(Running) EXCEPT !.retryCount = @ + 1, !.status = "PENDING"]
<1>3. /\ r \in Record /\ r.deps = graph[Running].deps /\ r.status = "PENDING"
      /\ r.instead = graph[Running].instead
      /\ r.healing = graph[Running].healing + 1
      /\ r.retryCount = graph[Running].retryCount + 1
      /\ r.maxRetries = graph[Running].maxRetries
  <2>1. /\ Failed(Running) \in Record
        /\ Failed(Running).healing = graph[Running].healing + 1
        /\ Failed(Running).deps = graph[Running].deps
        /\ Failed(Running).instead = graph[Running].instead
        /\ Failed(Running).retryCount = graph[Running].retryCount
        /\ Failed(Running).maxRetries = graph[Running].maxRetries
    BY <1>2, FailedRecord
  <2> DEFINE f == Failed(Running)
  <2>2. f \in Record /\ f.retryCount + 1 \in Nat
    BY <2>1 DEF Record
  <2>3. r = [f EXCEPT !.retryCount = f.retryCount + 1, !.status = "PENDING"]
    BY <2>1 DEF Record
  <2> HIDE DEF f
  <2>4. r \in Record
    BY <2>2, <2>3 DEF Record, Statuses
  <2>5. /\ r.deps = f.deps /\ r.status = "PENDING" /\ r.healing = f.healing
        /\ r.retryCount = f.retryCount + 1 /\ r.maxRetries = f.maxRetries
        /\ r.instead = f.instead
    BY <2>2, <2>3 DEF Record
  <2> QED
    BY <2>1, <2>4, <2>5 DEF f
<1>4. Proceed([graph EXCEPT ![Running] = r])
  BY DEF Retries
<1> HIDE DEF r
<1>5. Tried(r)
  BY <1>1, <1>2, <1>3 DEF Tried, MayRetry, Record
<1> QED
  BY <1>1, <1>3, <1>4, <1>5 DEF Moves

LEMMA ReroutesMoves == Inv /\ Reroutes => Moves
<1> SUFFICES ASSUME Inv, Reroutes PROVE Moves
  OBVIOUS
<1>1. Len(graph) \in Nat /\ pc = "batch" /\ MayReroute(Running)
  BY DEF Inv, Reroutes
<1>2. Running \in 1..Len(graph) /\ graph[Running] \in Record /\ Tried(graph[Running])
      /\ graph[Running].status = "RUNNING"
  BY <1>1, InBatch DEF Good
<1> DEFINE r == [Failed(Running) EXCEPT !.assigned = FALSE, !.status = "PENDING"]
<1>3. /\ r \in Record /\ r.deps = graph[Running].deps /\ r.status = "PENDING"
      /\ r.instead = graph[Running].instead
      /\ r.healing = graph[Running].healing + 1
      /\ r.retryCount = graph[Running].retryCount
      /\ r.maxRetries = graph[Running].maxRetries
  <2>1. /\ Failed(Running) \in Record
        /\ Failed(Running).healing = graph[Running].healing + 1
        /\ Failed(Running).deps = graph[Running].deps
        /\ Failed(Running).instead = graph[Running].instead
        /\ Failed(Running).retryCount = graph[Running].retryCount
        /\ Failed(Running).maxRetries = graph[Running].maxRetries
    BY <1>2, FailedRecord
  <2> QED
    BY <2>1 DEF Record, Statuses
<1>4. Proceed([graph EXCEPT ![Running] = r])
  BY DEF Reroutes
<1> HIDE DEF r
<1>5. graph[Running].healing + 1 <= graph[Running].maxRetries + 1
      /\ ~(graph[Running].retryCount < graph[Running].maxRetries)
  BY <1>1, <1>2 DEF MayReroute, MayRetry, Failed, Record
<1>6. Tried(r)
  BY <1>2, <1>3, <1>5 DEF Tried, Record
<1> QED
  BY <1>1, <1>3, <1>4, <1>6 DEF Moves

IsReplaced(after) == after = [n \in 1..Second |-> Replacing(n)]

\* The graph h, of which the first k were there before.
Replaced(h, k) ==
  /\ h \in [1..(k + 2) -> Record]
  /\ \A n \in 1..(k + 2) : h[n].deps \subseteq 1..(k + 2) /\ Tried(h[n])
  /\ \A n \in 1..k : n # Running =>
       /\ h[n].status = graph[n].status
       /\ h[n].instead = graph[n].instead
       /\ h[n].deps = IF Running \in graph[n].deps
                          THEN (graph[n].deps \ {Running}) \cup {k + 2}
                          ELSE graph[n].deps
  /\ h[Running].status = "CANCELLED" /\ h[Running].instead = k + 2
  /\ h[Running].deps = graph[Running].deps
  /\ h[k + 1].deps = graph[Running].deps /\ h[k + 2].deps = {k + 1}
  /\ \A n \in {k + 1, k + 2} : h[n].status = "PENDING" /\ h[n].instead = 0

\* What the graph is after a subtask was cancelled for two fallback steps.
LEMMA Replacement ==
  ASSUME Inv, Splits, NEW k, k = Len(graph), NEW after, IsReplaced(after)
  PROVE  Replaced(after, k)
<1>0. k \in Nat /\ pc = "batch"
  BY DEF Inv, Splits
<1>1. Good(graph, k) /\ Running \in 1..k
  BY <1>0, InBatch
<1>2. First = k + 1 /\ Second = k + 2
  BY DEF First, Second
<1>a. \A n \in 1..(k + 2) : after[n] = Replacing(n)
  BY <1>2 DEF IsReplaced
<1>b. DOMAIN after = 1..(k + 2) /\ after = [n \in 1..(k + 2) |-> after[n]]
  BY <1>2 DEF IsReplaced
<1>3. ASSUME NEW n \in 1..k, n # Running
      PROVE  /\ after[n] \in Record
             /\ after[n].deps \subseteq 1..(k + 2)
             /\ Tried(after[n])
             /\ after[n].status = graph[n].status
             /\ after[n].instead = graph[n].instead
             /\ after[n].deps = IF Running \in graph[n].deps
                                THEN (graph[n].deps \ {Running}) \cup {k + 2}
                                ELSE graph[n].deps
  <2>1. after[n] = Rewired(n)
    <3>1. after[n] = Replacing(n) /\ n # First /\ n # Second
      BY <1>0, <1>2, <1>3, <1>a
    <3> QED
      BY <1>3, <3>1 DEF Replacing
  <2>2. graph[n] \in Record /\ graph[n].deps \subseteq 1..k /\ Tried(graph[n])
    BY <1>1 DEF Good
  <2> DEFINE D == (graph[n].deps \ {Running}) \cup {Second}
  <2>3. D \subseteq 1..(k + 2) /\ D \in SUBSET Nat
    BY <1>0, <1>2, <2>2
  <2>4. CASE Running \in graph[n].deps
    <3>1. after[n] = [graph[n] EXCEPT !.deps = D]
      BY <2>1, <2>2, <2>4 DEF Rewired, Record
    <3> HIDE DEF D
    <3>2. /\ after[n] \in Record /\ after[n].deps = D /\ after[n].status = graph[n].status
          /\ after[n].instead = graph[n].instead
      BY <2>2, <2>3, <3>1 DEF Record
    <3>3. Tried(after[n])
      BY <2>2, <3>1 DEF Record, Tried
    <3> QED
      BY <1>2, <2>3, <2>4, <3>2, <3>3 DEF D
  <2>5. CASE Running \notin graph[n].deps
    <3>1. after[n] = graph[n]
      BY <2>1, <2>5 DEF Rewired
    <3>2. graph[n].deps \subseteq 1..(k + 2)
      BY <1>0, <2>2
    <3> QED
      BY <2>2, <2>5, <3>1, <3>2
  <2> QED BY <2>4, <2>5
<1>4. /\ after[Running] \in Record
      /\ after[Running].deps \subseteq 1..(k + 2)
      /\ Tried(after[Running])
      /\ after[Running].status = "CANCELLED"
      /\ after[Running].deps = graph[Running].deps
      /\ after[Running].instead = k + 2
  <2>1. graph[Running] \in Record /\ graph[Running].deps \subseteq 1..k /\ Tried(graph[Running])
    BY <1>1 DEF Good
  <2>2. /\ Failed(Running) \in Record
        /\ Failed(Running).healing = graph[Running].healing + 1
        /\ Failed(Running).deps = graph[Running].deps
        /\ Failed(Running).retryCount = graph[Running].retryCount
        /\ Failed(Running).maxRetries = graph[Running].maxRetries
    BY <2>1, FailedRecord
  <2>3. after[Running] = [Failed(Running) EXCEPT !.status = "CANCELLED", !.instead = Second]
    <3>1. after[Running] = Replacing(Running) /\ Running # First /\ Running # Second
      BY <1>0, <1>1, <1>2, <1>a
    <3> QED
      BY <3>1 DEF Replacing
  <2> DEFINE f == Failed(Running)
             r == after[Running]
  <2> HIDE DEF f, r
  <2>a. r = [f EXCEPT !.status = "CANCELLED", !.instead = Second] /\ Second \in Nat
    BY <1>0, <1>2, <2>3 DEF f, r
  <2>b. f \in Record
    BY <2>2 DEF f
  <2>c. r \in Record
    BY <2>a, <2>b DEF Record, Statuses
  <2>d. /\ r.status = "CANCELLED" /\ r.deps = f.deps /\ r.healing = f.healing
        /\ r.retryCount = f.retryCount /\ r.maxRetries = f.maxRetries
        /\ r.instead = Second
    BY <2>a, <2>b DEF Record
  <2>4. /\ after[Running] \in Record
        /\ after[Running].status = "CANCELLED"
        /\ after[Running].deps = graph[Running].deps
        /\ after[Running].healing = graph[Running].healing + 1
        /\ after[Running].retryCount = graph[Running].retryCount
        /\ after[Running].maxRetries = graph[Running].maxRetries
        /\ after[Running].instead = k + 2
    BY <1>2, <2>2, <2>c, <2>d DEF f, r
  <2>5. ~(graph[Running].retryCount < graph[Running].maxRetries)
    BY DEF Splits, MayRetry
  <2>7. graph[Running].healing <= graph[Running].maxRetries + 1
    <3>1. graph[Running].status # "CANCELLED"
      BY <1>0, InBatch
    <3> QED
      BY <2>1, <3>1 DEF Tried
  <2>6. Tried(after[Running])
    BY <2>1, <2>4, <2>5, <2>7, SMTT(30) DEF Tried, Record
  <2> QED
    BY <1>0, <2>1, <2>4, <2>6
<1>5. /\ after[k + 1] = Subtask(graph[Running].deps, FallbackRetries)
      /\ after[k + 2] = Subtask({k + 1}, FallbackRetries)
  <2>1. after[First] = Replacing(First) /\ after[Second] = Replacing(Second) /\ First # Second
    BY <1>0, <1>2, <1>a
  <2> QED
    BY <1>2, <2>1 DEF Replacing
<1>6. ASSUME NEW n \in {k + 1, k + 2}
      PROVE  /\ after[n] \in Record
             /\ after[n].deps \subseteq 1..(k + 2)
             /\ Tried(after[n])
             /\ after[n].status = "PENDING" /\ after[n].instead = 0
  <2>1. graph[Running].deps \subseteq 1..k /\ graph[Running].deps \in SUBSET Nat
    BY <1>1 DEF Good, Record
  <2>2. FallbackRetries \in Nat
    BY GoalAssumption
  <2>3. PICK D \in SUBSET Nat : D \subseteq 1..(k + 2) /\ after[n] = Subtask(D, FallbackRetries)
    BY <1>0, <1>5, <2>1
  <2> QED
    BY <2>2, <2>3 DEF Subtask, Record, Statuses, Tried
<1>7. after[k + 1].deps = graph[Running].deps /\ after[k + 2].deps = {k + 1}
  BY <1>5 DEF Subtask
<1>8. \A n \in 1..(k + 2) : n = Running \/ (n \in 1..k /\ n # Running) \/ n \in {k + 1, k + 2}
  BY <1>0
<1>9. \A n \in 1..(k + 2) :
        after[n] \in Record /\ after[n].deps \subseteq 1..(k + 2) /\ Tried(after[n])
  BY <1>3, <1>4, <1>6, <1>8
<1>10. after \in [1..(k + 2) -> Record]
  BY <1>b, <1>9
<1>11. \A n \in 1..k : n # Running =>
              /\ after[n].status = graph[n].status
              /\ after[n].instead = graph[n].instead
              /\ after[n].deps = IF Running \in graph[n].deps
                                 THEN (graph[n].deps \ {Running}) \cup {k + 2}
                                 ELSE graph[n].deps
  BY <1>3
<1> QED
  BY <1>4, <1>6, <1>7, <1>9, <1>10, <1>11 DEF Replaced

\* A cancelled subtask and its two fallback steps: what depended on it had not
\* begun, and now depends on the second.
LEMMA SplitsStep == Inv /\ Splits => Inv'
<1> SUFFICES ASSUME Inv, Splits PROVE Inv'
  OBVIOUS
<1> DEFINE k == Len(graph)
           after == [n \in 1..Second |-> Replacing(n)]
<1>0. k \in Nat /\ pc = "batch"
  BY DEF Inv, Splits
<1>1. /\ Good(graph, k) /\ Running \in 1..k /\ graph[Running].status = "RUNNING"
      /\ batch \in Seq(1..k) /\ batch # <<>> /\ Distinct(batch)
      /\ Waiting(graph, batch) /\ \A i \in 1..Len(batch) : batch[i] \in 1..k
      /\ Len(batch) \in Nat
  BY <1>0, InBatch
<1>2. /\ after \in [1..(k + 2) -> Record]
      /\ \A n \in 1..(k + 2) : after[n].deps \subseteq 1..(k + 2) /\ Tried(after[n])
      /\ \A n \in 1..k : n # Running =>
           /\ after[n].status = graph[n].status
           /\ Running \notin graph[n].deps => after[n].deps = graph[n].deps
      /\ after[Running].status = "CANCELLED"
      /\ \A n \in {k + 1, k + 2} : after[n].status = "PENDING"
  <2> HIDE DEF k, after
  <2>1. k = Len(graph) /\ IsReplaced(after)
    BY DEF k, after, IsReplaced
  <2>2. Replaced(after, k)
    BY <2>1, Replacement
  <2> QED
    BY <2>2 DEF Replaced
<1>3. Proceed(after)
  BY DEF Splits
<1> HIDE DEF k, after
<1>4. \A n \in 1..(k + 2) : n = Running \/ (n \in 1..k /\ n # Running) \/ n \in {k + 1, k + 2}
  BY <1>0
<1>5. ASSUME NEW n \in 1..k, n # Running, MetIn(graph, n)
       PROVE  MetIn(after, n)
  <2>1. Running \notin graph[n].deps
    BY <1>1, <1>5 DEF MetIn
  <2>2. graph[n].deps \subseteq 1..k
    BY <1>1 DEF Good
  <2> QED
    BY <1>2, <1>5, <2>1, <2>2 DEF MetIn
<1>6. \A n \in 1..(k + 2) : after[n].status \in {"RUNNING", "COMPLETED"} => MetIn(after, n)
  BY <1>1, <1>2, <1>4, <1>5 DEF Good
<1>7. Good(after, k + 2)
  BY <1>2, <1>6 DEF Good
<1>8. Waiting(after, batch)
  <2>1. \A i \in 2..Len(batch) : batch[i] # Running /\ batch[i] \in 1..k
    BY <1>1 DEF Distinct, Running
  <2> QED
    BY <1>1, <1>2, <1>5, <2>1 DEF Waiting
<1>9. batch \in Seq(1..(k + 2))
  BY <1>0, <1>1
<1> QED
  BY <1>0, <1>1, <1>3, <1>7, <1>8, <1>9, Proceeding

-----------------------------------------------------------------------------
\* A batch is those that are ready, each of them once.
LEMMA IterateStep == Inv /\ Iterate => Inv'
<1> SUFFICES ASSUME Inv, Iterate PROVE Inv'
  OBVIOUS
<1> DEFINE k == Len(graph)
           c == Cardinality(ReadyTasks)
<1>1. k \in Nat /\ Good(graph, k) /\ pc' = "batch"
  BY DEF Inv, Iterate
<1>2. Nodes = 1..k
  BY <1>1 DEF Good, Nodes
<1>3. PICK tasks \in Ordered(ReadyTasks) : batch' = tasks /\ Starts(tasks)
  BY DEF Iterate
<1>4. ReadyTasks \subseteq 1..k /\ ReadyTasks # {}
  BY <1>2 DEF ReadyTasks, Iterate
<1>5. IsFiniteSet(ReadyTasks)
  <2>1. IsFiniteSet(1..k)
    BY <1>1, FS_Interval, 1 \in Int, k \in Int
  <2> QED
    BY <1>4, <2>1, FS_Subset
<1>6. c \in Nat /\ c >= 1
  BY <1>4, <1>5, FS_CardinalityType, FS_EmptySet
<1>7. /\ tasks \in [1..c -> ReadyTasks]
      /\ \A i, j \in 1..c : i < j => tasks[i] < tasks[j]
  BY <1>3 DEF Ordered
<1> HIDE DEF k, c
<1>8. Len(tasks) = c /\ DOMAIN tasks = 1..c /\ tasks \in Seq(1..k)
  <2>1. tasks \in [1..c -> 1..k]
    BY <1>4, <1>7
  <2>2. Len(tasks) = c /\ DOMAIN tasks = 1..c
    BY <1>6, <2>1, Length
  <2>3. tasks \in Seq(1..k)
    BY <1>6, <2>1, SeqDef
  <2> QED
    BY <2>2, <2>3
<1>9. tasks # <<>> /\ Head(tasks) = tasks[1] /\ \A i \in 1..c : tasks[i] \in ReadyTasks
  BY <1>6, <1>7, <1>8
<1>10. Distinct(tasks)
  <2>1. \A i, j \in 1..c : i # j => i < j \/ j < i
    BY <1>6
  <2>2. \A i \in 1..c : tasks[i] \in Int
    <3>1. \A i \in 1..c : tasks[i] \in 1..k
      BY <1>4, <1>9
    <3> QED
      BY <3>1
  <2> QED
    BY <1>7, <1>8, <2>1, <2>2 DEF Distinct
<1>11. \A n \in ReadyTasks : n \in 1..k /\ graph[n].status = "PENDING" /\ MetIn(graph, n)
  BY <1>4 DEF ReadyTasks, Ready, Met, MetIn
<1>12. PICK found \in BOOLEAN :
         graph' = [graph EXCEPT ![tasks[1]].status = "RUNNING",
                                ![tasks[1]].assigned = @ \/ found]
  BY <1>3, <1>9 DEF Starts
<1> DEFINE a == graph[tasks[1]].assigned \/ found
<1>13. tasks[1] \in ReadyTasks /\ tasks[1] \in 1..k /\ a \in BOOLEAN
  <2>1. tasks[1] \in ReadyTasks /\ tasks[1] \in 1..k
    <3>1. 1 \in 1..c
      BY <1>6
    <3> QED
      BY <1>4, <1>9, <3>1
  <2>2. graph[tasks[1]] \in Record
    BY <1>1, <2>1 DEF Good, k
  <2> QED
    BY <2>1, <2>2 DEF Record
<1>14. graph' = Started(graph, tasks[1], a)
  BY <1>1, <1>12, <1>13 DEF Good, Record, Started, k
<1> HIDE DEF a
<1>15. /\ Good(graph', k)
       /\ graph'[tasks[1]].status = "RUNNING"
       /\ \A m \in 1..k : graph[m].status = "PENDING" /\ m # tasks[1] /\ MetIn(graph, m) =>
            graph'[m].status = "PENDING" /\ MetIn(graph', m)
  BY <1>1, <1>11, <1>13, <1>14, Starting DEF k
<1>16. Len(graph') = k
  BY <1>1, <1>15, Length DEF Good, k
<1>17. Waiting(graph', tasks)
  <2>1. \A i \in 2..c : tasks[i] # tasks[1] /\ tasks[i] \in ReadyTasks
    BY <1>6, <1>8, <1>9, <1>10 DEF Distinct
  <2> QED
    BY <1>8, <1>11, <1>15, <2>1 DEF Waiting
<1>18. BatchOK'
  BY <1>3, <1>8, <1>9, <1>10, <1>15, <1>16, <1>17 DEF BatchOK
<1> QED
  BY <1>1, <1>15, <1>16, <1>18 DEF Inv, k

LEMMA DecomposeStep == Inv /\ Decompose => Inv'
<1> SUFFICES ASSUME Inv, Decompose PROVE Inv'
  OBVIOUS
<1> DEFINE k == Len(plan')
<1>1. /\ plan' \in Seq([deps : SUBSET (1..k), maxRetries : Nat])
      /\ graph' = [n \in DOMAIN plan' |-> Subtask(plan'[n].deps, plan'[n].maxRetries)]
      /\ pc' = "head"
  BY GoalAssumption DEF Decompose
<1>2. k \in Nat /\ DOMAIN plan' = 1..k
  BY <1>1
<1> DEFINE R == [deps : SUBSET (1..k), maxRetries : Nat]
<1>3. \A n \in 1..k : plan'[n].deps \subseteq 1..k /\ plan'[n].maxRetries \in Nat
  <2>1. \A n \in 1..k : plan'[n] \in R
    <3> HIDE DEF R
    <3>1. plan' \in Seq(R) /\ k = Len(plan')
      BY <1>1 DEF R
    <3> HIDE DEF k
    <3> QED
      BY <3>1, ElementOfSeq
  <2> QED
    BY <2>1
<1> HIDE DEF k
<1>4. ASSUME NEW n \in 1..k
      PROVE  /\ graph'[n] \in Record /\ graph'[n].deps \subseteq 1..k
             /\ graph'[n].status = "PENDING" /\ Tried(graph'[n])
  <2>1. graph'[n] = Subtask(plan'[n].deps, plan'[n].maxRetries)
    BY <1>1, <1>2, n \in DOMAIN plan'
  <2>2. plan'[n].deps \in SUBSET Nat
    BY <1>2, <1>3
  <2> QED
    BY <1>3, <2>1, <2>2 DEF Subtask, Record, Statuses, Tried
<1>5. graph' \in [1..k -> Record]
  BY <1>1, <1>2, <1>4
<1>6. Len(graph') = k
  BY <1>2, <1>5, Length
<1> QED
  BY <1>1, <1>2, <1>4, <1>5, <1>6 DEF Inv, Good

LEMMA GoalStep == Inv /\ [Next]_vars => Inv'
<1> SUFFICES ASSUME Inv, [Next]_vars PROVE Inv'
  OBVIOUS
<1>1. CASE UNCHANGED <<graph, batch>> /\ (pc' = pc \/ pc' # "batch")
  BY <1>1 DEF Inv, BatchOK, Good, Waiting, MetIn
<1>2. CASE Evaluate \/ Refuse \/ Leave \/ Aborted \/ NothingReady \/ Stop \/ UNCHANGED vars
  BY <1>1, <1>2 DEF Evaluate, Refuse, Leave, Aborted, NothingReady, Return, Stop, vars
<1>3. CASE Decompose
  BY <1>3, DecomposeStep
<1>4. CASE Iterate
  BY <1>4, IterateStep
<1>5. CASE Succeeds \/ Fails \/ Retries \/ Reroutes
  BY <1>5, MovesStep, SucceedsMoves, FailsMoves, RetriesMoves, ReroutesMoves
<1>6. CASE Splits
  BY <1>6, SplitsStep
<1> QED
  BY <1>2, <1>3, <1>4, <1>5, <1>6 DEF Next, Step

\* The invariant: graphs stay well formed, are run in order, and count failures.
THEOREM GoalInvariant == Spec => []Inv
<1>1. Init => Inv
  BY DEF Init, Inv, Good
<1> QED
  BY <1>1, GoalStep, PTL DEF Spec

\* Whatever plan a goal has and however re-planning rewrites it, no subtask is run
\* before all it depends on is done.
THEOREM RunInOrder == Spec => []DependencyOrder
<1>1. Inv => DependencyOrder
  BY DEF Inv, Good, DependencyOrder, Nodes, Met, MetIn
<1> QED
  BY <1>1, GoalInvariant, PTL

\* No subtask fails more than maxRetries + 2 times before it is given up.
THEOREM FailuresBounded == Spec => []FailuresAreBounded
<1>1. Inv => FailuresAreBounded
  BY DEF Inv, Good, Tried, FailuresAreBounded, Nodes
<1> QED
  BY <1>1, GoalInvariant, PTL

-----------------------------------------------------------------------------
(* No dead end.  A sound graph can be ranked so that every subtask ranks above *)
(* all it depends on; re-planning keeps that, by giving the fallback steps the *)
(* place of the cancelled subtask; and nothing depends on a cancelled one.  So *)
(* among those that wait one of least rank has all it depends on done.         *)

Ranked(g, k, rk) == \A n \in 1..k : \A d \in g[n].deps : rk[d] < rk[n]

Acyclic(g, k) == \E rk \in [1..k -> Nat] : Ranked(g, k, rk)

Alive(g, k) == \A n \in 1..k : \A d \in g[n].deps : g[d].status # "CANCELLED"

OneRuns(g, k, b, place) ==
  \A n \in 1..k : g[n].status = "RUNNING" => place = "batch" /\ n = b[1]

LiveInv ==
  /\ Sound => Acyclic(graph, Len(graph))
  /\ Alive(graph, Len(graph))
  /\ OneRuns(graph, Len(graph), batch, pc)

LEMMA LeastNatural ==
  ASSUME NEW T, T \subseteq Nat, T # {}
  PROVE  \E x \in T : \A y \in T : x <= y
<1> DEFINE R == OpToRel(<, Nat)
<1>1. IsWellFoundedOn(R, Nat)
  BY NatLessThanWellFounded
<1>2. PICK x \in T : \A y \in T : ~ (<<y, x>> \in R)
  <2> HIDE DEF R
  <2> QED
    BY <1>1, WFMin
<1>3. ASSUME NEW y \in T PROVE x <= y
  <2>1. ~ (<<y, x>> \in R) /\ x \in Nat /\ y \in Nat
    BY <1>2
  <2>2. R = {s \in Nat \X Nat : s[1] < s[2]}
    BY DEF OpToRel
  <2> HIDE DEF R
  <2> QED
    BY <2>1, <2>2
<1> QED
  BY <1>3

\* A step to the next of the batch changes no dependency, and starts only that one.
LEMMA NextOfBatch ==
  ASSUME NEW k \in Nat, NEW after, after \in [1..k -> Record],
         batch \in Seq(1..k), batch # <<>>, Proceed(after), pc = "batch"
  PROVE  /\ Len(graph') = k
         /\ UNCHANGED <<iterations, plan, outcome, stopped, morphlingReplan>>
         /\ \A n \in 1..k :
              /\ graph'[n].deps = after[n].deps
              /\ graph'[n].instead = after[n].instead
              /\ \/ graph'[n].status = after[n].status
                 \/ graph'[n].status = "RUNNING" /\ pc' = "batch" /\ n = batch'[1]
         /\ pc' \in {"head", "batch"} /\ (pc' = "batch" <=> batch' # <<>>)
<1>1. Len(after) = k /\ DOMAIN after = 1..k
  BY Length
<1>2. UNCHANGED <<iterations, plan, outcome, stopped, morphlingReplan>>
  BY DEF Proceed
<1>3. CASE Tail(batch) = <<>>
  BY <1>1, <1>2, <1>3 DEF Proceed
<1>4. CASE Tail(batch) # <<>>
  <2>1. /\ Len(batch) \in Nat /\ Len(batch) >= 2
        /\ Tail(batch)[1] = batch[2] /\ batch[2] \in 1..k
    BY <1>4, SMTT(30)
  <2>2. PICK found \in BOOLEAN :
          graph' = [after EXCEPT ![batch[2]].status = "RUNNING",
                                 ![batch[2]].assigned = @ \/ found]
    BY <1>4 DEF Proceed
  <2> DEFINE a == after[batch[2]].assigned \/ found
             r == [after[batch[2]] EXCEPT !.status = "RUNNING", !.assigned = a]
  <2>3. graph' = [after EXCEPT ![batch[2]] = r]
    BY <2>1, <2>2
  <2>4. /\ r \in Record /\ r.deps = after[batch[2]].deps /\ r.status = "RUNNING"
        /\ r.instead = after[batch[2]].instead
    <3>1. a \in BOOLEAN
      BY <2>1 DEF Record
    <3> HIDE DEF a
    <3> QED
      BY <2>1, <3>1, ZenonT(40) DEF Record, Statuses
  <2> HIDE DEF a, r
  <2>5. /\ graph' \in [1..k -> Record]
        /\ \A n \in 1..k : /\ graph'[n].deps = after[n].deps
                           /\ graph'[n].instead = after[n].instead
                           /\ n # batch[2] => graph'[n].status = after[n].status
        /\ graph'[batch[2]].status = "RUNNING"
    BY <2>1, <2>3, <2>4
  <2>6. Len(graph') = k
    BY <2>5, Length
  <2>7. batch' = Tail(batch) /\ batch'[1] = batch[2] /\ pc' = "batch"
    BY <1>4, <2>1 DEF Proceed
  <2> QED
    BY <1>2, <1>4, <2>5, <2>6, <2>7
<1> QED BY <1>3, <1>4

LEMMA LiveAfter ==
  ASSUME NEW k \in Nat, NEW after, after \in [1..k -> Record],
         \A n \in 1..k : after[n].deps \subseteq 1..k,
         \A n \in 1..k : after[n].status # "RUNNING",
         batch \in Seq(1..k), batch # <<>>, Proceed(after), pc = "batch",
         Alive(after, k), Sound => Acyclic(after, k)
  PROVE  LiveInv'
<1>1. /\ Len(graph') = k /\ plan' = plan
      /\ \A n \in 1..k :
           /\ graph'[n].deps = after[n].deps
           /\ \/ graph'[n].status = after[n].status
              \/ graph'[n].status = "RUNNING" /\ pc' = "batch" /\ n = batch'[1]
  BY NextOfBatch
<1>2. OneRuns(graph', k, batch', pc')
  BY <1>1 DEF OneRuns
<1>3. Alive(graph', k)
  BY <1>1 DEF Alive
<1>4. ASSUME Sound' PROVE Acyclic(graph', k)
  <2>1. Acyclic(after, k)
    BY <1>1, <1>4 DEF Sound
  <2>2. PICK rk \in [1..k -> Nat] : Ranked(after, k, rk)
    BY <2>1 DEF Acyclic
  <2>3. Ranked(graph', k, rk)
    BY <1>1, <2>2 DEF Ranked
  <2> QED
    BY <2>3 DEF Acyclic
<1> QED
  BY <1>1, <1>2, <1>3, <1>4 DEF LiveInv

LEMMA MovesLive == Inv /\ LiveInv /\ Moves => LiveInv'
<1> SUFFICES ASSUME Inv, LiveInv, Moves PROVE LiveInv'
  OBVIOUS
<1> DEFINE k == Len(graph)
<1>0. k \in Nat /\ pc = "batch"
  BY DEF Inv, Moves
<1>1. /\ Good(graph, k) /\ Running \in 1..k /\ graph[Running].status = "RUNNING"
      /\ batch \in Seq(1..k) /\ batch # <<>>
  BY <1>0, InBatch
<1>2. Alive(graph, k) /\ OneRuns(graph, k, batch, pc) /\ (Sound => Acyclic(graph, k))
  BY DEF LiveInv
<1> HIDE DEF k
<1>3. PICK r \in Record :
        /\ r.deps = graph[Running].deps
        /\ r.status \in {"PENDING", "COMPLETED", "FAILED"}
        /\ Proceed([graph EXCEPT ![Running] = r])
  BY DEF Moves
<1> DEFINE after == [graph EXCEPT ![Running] = r]
<1>4. /\ after \in [1..k -> Record] /\ after[Running] = r
      /\ \A n \in 1..k : n # Running => after[n] = graph[n]
  BY <1>1 DEF Good
<1>5. Proceed(after)
  BY <1>3
<1> HIDE DEF after
<1>6. \A n \in 1..k : after[n].deps = graph[n].deps
  BY <1>3, <1>4
<1>7. \A n \in 1..k : after[n].deps \subseteq 1..k
  BY <1>1, <1>6 DEF Good
<1>8. \A n \in 1..k : after[n].status # "RUNNING"
  BY <1>2, <1>3, <1>4 DEF OneRuns, Running
<1>9. Alive(after, k)
  BY <1>2, <1>3, <1>4, <1>6, <1>7 DEF Alive
<1>10. Sound => Acyclic(after, k)
  BY <1>2, <1>6 DEF Acyclic, Ranked
<1> QED
  BY <1>0, <1>1, <1>4, <1>5, <1>7, <1>8, <1>9, <1>10, LiveAfter

\* Ranks are spread so that the fallback steps fit below what comes next.
LEMMA Spread ==
  ASSUME NEW k \in Nat, NEW g, Good(g, k), NEW h, NEW m \in 1..k,
         NEW rk \in [1..k -> Nat], Ranked(g, k, rk),
         \A n \in 1..k : n # m =>
            h[n].deps = IF m \in g[n].deps THEN (g[n].deps \ {m}) \cup {k + 2} ELSE g[n].deps,
         h[m].deps = g[m].deps, h[k + 1].deps = g[m].deps, h[k + 2].deps = {k + 1}
  PROVE  Acyclic(h, k + 2)
<1> DEFINE sp == [n \in 1..(k + 2) |->
                    IF n \in 1..k THEN 3 * rk[n]
                    ELSE IF n = k + 1 THEN 3 * rk[m] ELSE 3 * rk[m] + 1]
<1>1. \A n \in 1..k : rk[n] \in Nat /\ sp[n] = 3 * rk[n]
  OBVIOUS
<1>2. sp[k + 1] = 3 * rk[m] /\ sp[k + 2] = 3 * rk[m] + 1
  <2>1. k + 1 \in 1..(k + 2) /\ k + 2 \in 1..(k + 2) /\ k + 1 \notin 1..k /\ k + 2 \notin 1..k
    OBVIOUS
  <2> QED
    BY <2>1
<1>3. sp \in [1..(k + 2) -> Nat]
  BY <1>1
<1> HIDE DEF sp
<1>4. \A n \in 1..k : \A d \in g[n].deps : d \in 1..k /\ rk[d] < rk[n] /\ sp[d] < sp[n]
  BY <1>1 DEF Good, Ranked
<1>5. \A d \in g[m].deps : sp[d] < sp[m] /\ sp[d] < sp[k + 1]
  BY <1>1, <1>2, <1>4
<1>6. sp[k + 1] < sp[k + 2]
  BY <1>1, <1>2
<1>7. ASSUME NEW n \in 1..k, n # m PROVE \A d \in h[n].deps : sp[d] < sp[n]
  <2>1. CASE m \in g[n].deps
    <3>1. rk[m] < rk[n]
      BY <1>4, <2>1
    <3>2. sp[k + 2] < sp[n]
      BY <1>1, <1>2, <3>1
    <3> QED
      BY <1>4, <1>7, <2>1, <3>2
  <2>2. CASE m \notin g[n].deps
    BY <1>4, <1>7, <2>2
  <2> QED BY <2>1, <2>2
<1>8. \A n \in 1..(k + 2) : n \in 1..k \/ n = k + 1 \/ n = k + 2
  OBVIOUS
<1>9. Ranked(h, k + 2, sp)
  BY <1>5, <1>6, <1>7, <1>8 DEF Ranked
<1> QED
  BY <1>3, <1>9 DEF Acyclic

LEMMA SplitsLive == Inv /\ LiveInv /\ Splits => LiveInv'
<1> SUFFICES ASSUME Inv, LiveInv, Splits PROVE LiveInv'
  OBVIOUS
<1> DEFINE k == Len(graph)
           after == [n \in 1..Second |-> Replacing(n)]
<1>0. k \in Nat /\ pc = "batch"
  BY DEF Inv, Splits
<1>1. /\ Good(graph, k) /\ Running \in 1..k /\ graph[Running].status = "RUNNING"
      /\ batch \in Seq(1..k) /\ batch # <<>>
  BY <1>0, InBatch
<1>2. Alive(graph, k) /\ OneRuns(graph, k, batch, pc) /\ (Sound => Acyclic(graph, k))
  BY DEF LiveInv
<1>3. Proceed(after)
  BY DEF Splits
<1>4. Replaced(after, k)
  <2> HIDE DEF k, after
  <2>1. k = Len(graph) /\ IsReplaced(after)
    BY DEF k, after, IsReplaced
  <2> QED
    BY <2>1, Replacement
<1> HIDE DEF k, after
<1>5. \A n \in 1..(k + 2) : n = Running \/ (n \in 1..k /\ n # Running) \/ n \in {k + 1, k + 2}
  BY <1>0
<1>6. \A n \in 1..(k + 2) : after[n].status # "RUNNING"
  BY <1>1, <1>2, <1>4, <1>5 DEF Replaced, OneRuns, Running
<1>7. \A n \in 1..k : graph[n].deps \subseteq 1..k
  BY <1>1 DEF Good
<1>8. Running \notin graph[Running].deps
  BY <1>1 DEF Good, MetIn
<1>9. Alive(after, k + 2)
  <2>1. \A d \in 1..(k + 2) : d # Running /\ after[d].status = "CANCELLED"
          => d \in 1..k /\ graph[d].status = "CANCELLED"
    BY <1>4, <1>5 DEF Replaced
  <2>2. \A n \in 1..k : \A d \in graph[n].deps : graph[d].status # "CANCELLED"
    BY <1>2 DEF Alive
  <2>3. ASSUME NEW n \in 1..(k + 2)
        PROVE  \A d \in after[n].deps : d \in 1..(k + 2) /\ d # Running
                 /\ (d \in 1..k => \E m \in 1..k : d \in graph[m].deps)
    <3>1. CASE n = Running
      BY <1>0, <1>1, <1>4, <1>7, <1>8, <3>1 DEF Replaced
    <3>2. CASE n \in 1..k /\ n # Running
      <4>1. after[n].deps = IF Running \in graph[n].deps
                            THEN (graph[n].deps \ {Running}) \cup {k + 2} ELSE graph[n].deps
        BY <1>4, <3>2 DEF Replaced
      <4> QED
        BY <1>0, <1>1, <1>7, <3>2, <4>1
    <3>3. CASE n = k + 1
      BY <1>0, <1>1, <1>4, <1>7, <1>8, <3>3 DEF Replaced
    <3>4. CASE n = k + 2
      BY <1>0, <1>1, <1>4, <3>4 DEF Replaced
    <3> QED
      BY <1>5, <3>1, <3>2, <3>3, <3>4
  <2> QED
    BY <2>1, <2>2, <2>3 DEF Alive
<1>10. ASSUME Sound PROVE Acyclic(after, k + 2)
  <2>1. PICK rk \in [1..k -> Nat] : Ranked(graph, k, rk)
    BY <1>2, <1>10 DEF Acyclic
  <2> QED
    BY <1>0, <1>1, <1>4, <2>1, Spread DEF Replaced
<1>11. /\ after \in [1..(k + 2) -> Record]
       /\ \A n \in 1..(k + 2) : after[n].deps \subseteq 1..(k + 2)
  BY <1>4 DEF Replaced
<1>12. batch \in Seq(1..(k + 2)) /\ k + 2 \in Nat
  BY <1>0, <1>1
<1> QED
  BY <1>0, <1>1, <1>3, <1>6, <1>9, <1>10, <1>11, <1>12, LiveAfter

\* The first of a new batch is all that is started.
LEMMA FirstOfBatch ==
  ASSUME Inv, Iterate, NEW k, k = Len(graph)
  PROVE  /\ Inv' /\ Len(graph') = k /\ batch'[1] \in 1..k /\ batch' # <<>>
         /\ batch' \in Seq(1..k) /\ pc' = "batch" /\ plan' = plan
         /\ \A n \in 1..k :
              /\ graph'[n].deps = graph[n].deps
              /\ graph'[n].instead = graph[n].instead
              /\ n # batch'[1] => graph'[n].status = graph[n].status
         /\ graph'[batch'[1]].status = "RUNNING"
<1>1. k \in Nat /\ Good(graph, k) /\ pc' = "batch" /\ plan' = plan
  BY DEF Inv, Iterate
<1>2. Inv'
  BY IterateStep
<1>3. /\ batch' \in Seq(1..Len(graph')) /\ batch' # <<>> /\ Len(graph') \in Nat
      /\ graph'[batch'[1]].status = "RUNNING" /\ Good(graph', Len(graph'))
  BY <1>1, <1>2 DEF Inv, BatchOK
<1>4. PICK found \in BOOLEAN :
        graph' = [graph EXCEPT ![Head(batch')].status = "RUNNING",
                               ![Head(batch')].assigned = @ \/ found]
  BY DEF Iterate, Starts
<1>5. DOMAIN graph' = 1..k
  BY <1>1, <1>4 DEF Good
<1>6. Len(graph') = k
  <2>1. graph' \in [1..Len(graph') -> Record]
    BY <1>3 DEF Good
  <2>2. graph' \in [1..k -> Record]
    BY <1>5, <2>1
  <2> QED
    BY <1>1, <2>2, Length
<1>7. Head(batch') = batch'[1] /\ batch'[1] \in 1..k
  BY <1>3, <1>6
<1>8. \A n \in 1..k :
        /\ graph'[n].deps = graph[n].deps
        /\ graph'[n].instead = graph[n].instead
        /\ n # batch'[1] => graph'[n].status = graph[n].status
  BY <1>1, <1>4, <1>7 DEF Good, Record
<1> QED
  BY <1>1, <1>2, <1>3, <1>6, <1>7, <1>8

LEMMA IterateLive == Inv /\ LiveInv /\ Iterate => LiveInv'
<1> SUFFICES ASSUME Inv, LiveInv, Iterate PROVE LiveInv'
  OBVIOUS
<1> DEFINE k == Len(graph)
<1>1. k \in Nat /\ Good(graph, k) /\ pc = "head"
  BY DEF Inv, Iterate
<1>2. Alive(graph, k) /\ OneRuns(graph, k, batch, pc) /\ (Sound => Acyclic(graph, k))
  BY DEF LiveInv
<1>3. /\ Len(graph') = k /\ batch'[1] \in 1..k /\ pc' = "batch" /\ plan' = plan
      /\ \A n \in 1..k : /\ graph'[n].deps = graph[n].deps
                         /\ n # batch'[1] => graph'[n].status = graph[n].status
      /\ graph'[batch'[1]].status = "RUNNING"
  BY FirstOfBatch
<1> HIDE DEF k
<1>4. OneRuns(graph', k, batch', pc')
  BY <1>1, <1>2, <1>3 DEF OneRuns
<1>5. Alive(graph', k)
  BY <1>1, <1>2, <1>3 DEF Alive, Good
<1>6. ASSUME Sound' PROVE Acyclic(graph', k)
  <2>1. Sound
    BY <1>3, <1>6 DEF Sound
  <2>2. PICK rk \in [1..k -> Nat] : Ranked(graph, k, rk)
    BY <1>2, <2>1 DEF Acyclic
  <2>3. Ranked(graph', k, rk)
    BY <1>3, <2>2 DEF Ranked
  <2> QED
    BY <2>3 DEF Acyclic
<1> QED
  BY <1>3, <1>4, <1>5, <1>6 DEF LiveInv

\* A new graph has the shape of its plan.
LEMMA NewGraph ==
  ASSUME Inv, Decompose, NEW k, k = Len(plan')
  PROVE  /\ k \in Nat /\ Len(graph') = k /\ DOMAIN plan' = 1..k /\ pc' = "head"
         /\ \A n \in 1..k : /\ plan'[n].deps \subseteq 1..k
                            /\ graph'[n].deps = plan'[n].deps
                            /\ graph'[n].status = "PENDING" /\ graph'[n].instead = 0
<1>1. /\ plan' \in Seq([deps : SUBSET (1..k), maxRetries : Nat])
      /\ graph' = [n \in DOMAIN plan' |-> Subtask(plan'[n].deps, plan'[n].maxRetries)]
      /\ pc' = "head"
  BY GoalAssumption DEF Decompose
<1>2. k \in Nat /\ DOMAIN plan' = 1..k
  BY <1>1
<1>3. Len(graph') = k
  <2>1. graph' \in [1..k -> {graph'[n] : n \in 1..k}]
    BY <1>1, <1>2
  <2> QED
    BY <1>2, <2>1, Length
<1>4. ASSUME NEW n \in 1..k
      PROVE  /\ graph'[n].deps = plan'[n].deps
             /\ graph'[n].status = "PENDING" /\ graph'[n].instead = 0
  <2>1. graph'[n] = Subtask(plan'[n].deps, plan'[n].maxRetries)
    BY <1>1, <1>2, n \in DOMAIN plan'
  <2> QED
    BY <2>1 DEF Subtask
<1> DEFINE R == [deps : SUBSET (1..k), maxRetries : Nat]
<1>5. \A n \in 1..k : plan'[n] \in R
  <2> HIDE DEF R
  <2>1. plan' \in Seq(R)
    BY <1>1 DEF R
  <2> QED
    BY <2>1, ElementOfSeq
<1> QED
  BY <1>1, <1>2, <1>3, <1>4, <1>5

LEMMA DecomposeLive == Inv /\ Decompose => LiveInv'
<1> SUFFICES ASSUME Inv, Decompose PROVE LiveInv'
  OBVIOUS
<1> DEFINE k == Len(plan')
<1>1. /\ k \in Nat /\ Len(graph') = k /\ DOMAIN plan' = 1..k
      /\ \A n \in 1..k : /\ plan'[n].deps \subseteq 1..k
                         /\ graph'[n].deps = plan'[n].deps
                         /\ graph'[n].status = "PENDING"
  BY NewGraph
<1> HIDE DEF k
<1>2. ASSUME Sound' PROVE Acyclic(graph', k)
  <2> DEFINE rk == [n \in 1..k |-> n]
  <2>1. rk \in [1..k -> Nat]
    OBVIOUS
  <2>2. \A n \in 1..k : \A d \in plan'[n].deps : d < n
    BY <1>1, <1>2 DEF Sound
  <2>3. Ranked(graph', k, rk)
    BY <1>1, <2>2 DEF Ranked
  <2> QED
    BY <2>1, <2>3 DEF Acyclic
<1>3. Alive(graph', k)
  BY <1>1 DEF Alive
<1>4. OneRuns(graph', k, batch', pc')
  BY <1>1 DEF OneRuns
<1> QED
  BY <1>1, <1>2, <1>3, <1>4 DEF LiveInv

THEOREM GoalLives == Spec => [](Inv /\ LiveInv)
<1>1. Init => Inv /\ LiveInv
  <2> SUFFICES ASSUME Init PROVE Inv /\ LiveInv
    OBVIOUS
  <2>1. graph = <<>> /\ Len(graph) = 0 /\ 1..0 = {}
    BY DEF Init
  <2>2. [n \in 1..0 |-> 0] \in [1..0 -> Nat]
    OBVIOUS
  <2>3. Acyclic(graph, 0)
    BY <2>1, <2>2 DEF Acyclic, Ranked
  <2> QED
    BY <2>1, <2>3 DEF Init, Inv, Good, LiveInv, Alive, OneRuns
<1>2. Inv /\ LiveInv /\ [Next]_vars => (Inv /\ LiveInv)'
  <2> SUFFICES ASSUME Inv, LiveInv, [Next]_vars PROVE (Inv /\ LiveInv)'
    OBVIOUS
  <2>0. Inv'
    BY GoalStep
  <2>2. CASE Evaluate \/ Refuse \/ Leave \/ Aborted \/ NothingReady \/ Stop \/ UNCHANGED vars
    <3>1. graph' = graph /\ plan' = plan /\ (pc # "batch" \/ UNCHANGED <<pc, batch>>)
      BY <2>2 DEF Evaluate, Refuse, Leave, Aborted, NothingReady, Return, Stop, vars
    <3>2. (Sound <=> Sound') /\ Len(graph') = Len(graph)
      BY <3>1 DEF Sound
    <3>3. OneRuns(graph', Len(graph'), batch', pc')
      BY <3>1 DEF LiveInv, OneRuns
    <3> QED
      BY <2>0, <3>1, <3>2, <3>3 DEF LiveInv
  <2>3. CASE Decompose
    BY <2>0, <2>3, DecomposeLive
  <2>4. CASE Iterate
    BY <2>0, <2>4, IterateLive
  <2>5. CASE Succeeds \/ Fails \/ Retries \/ Reroutes
    BY <2>0, <2>5, MovesLive, SucceedsMoves, FailsMoves, RetriesMoves, ReroutesMoves
  <2>6. CASE Splits
    BY <2>0, <2>6, SplitsLive
  <2> QED
    BY <2>2, <2>3, <2>4, <2>5, <2>6 DEF Next, Step
<1> QED
  BY <1>1, <1>2, PTL DEF Spec

\* However re-planning rewrites a graph the planner built in order, a goal that is
\* neither achieved nor failed has a subtask that can be run.
THEOREM AlwaysAWayOn == Spec => []NoDeadEnd
<1>1. Inv /\ LiveInv => NoDeadEnd
  <2> SUFFICES ASSUME Inv, LiveInv, Sound, pc = "head", ~isCompleted, ~hasFailedTasks
               PROVE  ReadyTasks # {}
    BY DEF NoDeadEnd
  <2> DEFINE k == Len(graph)
  <2>1. Good(graph, k) /\ k \in Nat /\ Nodes = 1..k
    BY DEF Inv, Good, Nodes
  <2>2. Alive(graph, k) /\ OneRuns(graph, k, batch, pc) /\ Acyclic(graph, k)
    BY DEF LiveInv
  <2> HIDE DEF k
  <2>3. PICK rk \in [1..k -> Nat] : Ranked(graph, k, rk)
    BY <2>2 DEF Acyclic
  <2>4. \A n \in 1..k : graph[n].status \in {"PENDING", "COMPLETED", "CANCELLED"}
    <3>1. \A n \in 1..k : graph[n].status \in Statuses
      BY <2>1 DEF Good, Record
    <3> QED
      BY <2>1, <2>2, <3>1 DEF OneRuns, hasFailedTasks, Statuses
  <2> DEFINE Pending == {n \in 1..k : graph[n].status = "PENDING"}
             T == {rk[n] : n \in Pending}
  <2>5. T # {} /\ T \subseteq Nat
    BY <2>1, <2>3, <2>4 DEF isCompleted
  <2>6. PICK n \in Pending : \A m \in Pending : rk[n] <= rk[m]
    <3> HIDE DEF T
    <3>1. PICK x \in T : \A y \in T : x <= y
      BY <2>5, LeastNatural
    <3> QED
      BY <3>1 DEF T
  <2>7. ASSUME NEW d \in graph[n].deps PROVE graph[d].status = "COMPLETED"
    <3>1. d \in 1..k /\ rk[d] < rk[n] /\ graph[d].status # "CANCELLED"
      BY <2>1, <2>2, <2>3 DEF Good, Ranked, Alive
    <3>2. d \notin Pending
      BY <2>3, <2>6, <3>1
    <3> QED
      BY <2>4, <3>1, <3>2
  <2> QED
    BY <2>1, <2>6, <2>7 DEF ReadyTasks, Ready, Met
<1> QED
  BY <1>1, GoalLives, PTL

-----------------------------------------------------------------------------
(* Types.                                                                    *)

TypeInv ==
  /\ \A n \in 1..Len(graph) : graph[n].instead \in 0..Len(graph)
  /\ pc \in {"idle", "planning", "head", "batch", "over"}
  /\ pc = "batch" <=> batch # <<>>
  /\ iterations \in 0..maxIterations
  /\ plan \in Plans \cup {<<>>}
  /\ outcome \in {"none", "refused", "success", "failure", "aborted"}
  /\ stopped \in BOOLEAN
  /\ morphlingReplan \in BOOLEAN
  /\ pc \in {"idle", "planning"} => iterations = 0

LEMMA Iterations == ASSUME plan \in Plans \cup {<<>>} PROVE maxIterations \in Nat
<1>1. Len(plan) \in Nat
  <2>1. CASE plan \in Plans
    BY <2>1, GoalAssumption
  <2>2. CASE plan = <<>>
    BY <2>2
  <2> QED
    BY <2>1, <2>2
<1>2. Len(plan) * PerTask \in Nat
  BY <1>1, GoalAssumption
<1> QED
  BY <1>2, GoalAssumption DEF maxIterations

LEMMA TypeStep == Inv /\ TypeInv /\ [Next]_vars => TypeInv'
<1> SUFFICES ASSUME Inv, TypeInv, [Next]_vars PROVE TypeInv'
  OBVIOUS
<1> DEFINE k == Len(graph)
<1>0. k \in Nat /\ Good(graph, k) /\ maxIterations \in Nat
  BY Iterations DEF Inv, TypeInv
<1>a. ASSUME plan' = plan PROVE maxIterations' = maxIterations
  BY <1>a DEF maxIterations
<1>1. CASE Evaluate \/ Stop \/ UNCHANGED vars
  BY <1>1, <1>a DEF Evaluate, Stop, vars, TypeInv
<1>2. CASE Refuse \/ Leave
  BY <1>2, <1>a DEF Refuse, Leave, Return, TypeInv
<1>3. CASE Aborted \/ NothingReady
  BY <1>0, <1>3, <1>a DEF Aborted, NothingReady, Continues, Return, TypeInv
<1>4. CASE Decompose
  <2>1. /\ Len(graph') \in Nat /\ pc' = "head"
        /\ \A n \in 1..Len(graph') : graph'[n].instead = 0
    BY <1>4, NewGraph
  <2>2. plan' \in Plans /\ iterations' = 0 /\ batch' = <<>>
    BY <1>4 DEF Decompose, TypeInv
  <2>3. maxIterations' \in Nat
    <3>1. Len(plan') \in Nat
      BY <2>2, GoalAssumption
    <3>2. Len(plan') * PerTask \in Nat
      BY <3>1, GoalAssumption
    <3> QED
      BY <3>2, GoalAssumption DEF maxIterations
  <2> QED
    BY <1>4, <2>1, <2>2, <2>3 DEF Decompose, TypeInv
<1>5. CASE Iterate
  <2>1. /\ Len(graph') = k /\ batch' # <<>> /\ pc' = "batch" /\ plan' = plan
        /\ \A n \in 1..k : graph'[n].instead = graph[n].instead
    BY <1>5, FirstOfBatch
  <2>2. iterations + 1 \in 0..maxIterations
    BY <1>0, <1>5 DEF Iterate, Continues, TypeInv
  <2> QED
    BY <1>5, <1>a, <2>1, <2>2 DEF Iterate, TypeInv
<1>6. CASE Succeeds \/ Fails \/ Retries \/ Reroutes
  <2>1. Moves
    BY <1>6, SucceedsMoves, FailsMoves, RetriesMoves, ReroutesMoves
  <2>2. PICK r \in Record :
          r.instead = graph[Running].instead /\ Proceed([graph EXCEPT ![Running] = r])
    BY <2>1 DEF Moves
  <2>3. pc = "batch" /\ Running \in 1..k /\ batch \in Seq(1..k) /\ batch # <<>>
    BY <1>0, <2>1, InBatch DEF Moves
  <2> DEFINE after == [graph EXCEPT ![Running] = r]
  <2>4. after \in [1..k -> Record] /\ \A n \in 1..k : after[n].instead = graph[n].instead
    BY <1>0, <2>2, <2>3 DEF Good
  <2>5. Proceed(after)
    BY <2>2
  <2> HIDE DEF after, k
  <2>6. /\ Len(graph') = k
        /\ UNCHANGED <<iterations, plan, outcome, stopped, morphlingReplan>>
        /\ \A n \in 1..k : graph'[n].instead = after[n].instead
        /\ pc' \in {"head", "batch"} /\ (pc' = "batch" <=> batch' # <<>>)
    BY <1>0, <2>3, <2>4, <2>5, NextOfBatch, SMTT(30)
  <2> QED
    BY <1>a, <2>4, <2>6 DEF TypeInv, k
<1>7. CASE Splits
  <2> DEFINE after == [n \in 1..Second |-> Replacing(n)]
  <2>1. pc = "batch" /\ Running \in 1..k /\ batch \in Seq(1..k) /\ batch # <<>>
    BY <1>0, <1>7, InBatch DEF Splits
  <2>2. Proceed(after)
    BY <1>7 DEF Splits
  <2>3. Replaced(after, k)
    <3> HIDE DEF k, after
    <3>1. k = Len(graph) /\ IsReplaced(after)
      BY DEF k, after, IsReplaced
    <3> QED
      BY <1>7, <3>1, Replacement
  <2>4. \A n \in 1..k : graph[n].instead \in 0..k
    BY DEF TypeInv
  <2> HIDE DEF after, k
  <2>5. after \in [1..(k + 2) -> Record] /\ batch \in Seq(1..(k + 2)) /\ k + 2 \in Nat
    BY <1>0, <2>1, <2>3 DEF Replaced
  <2>6. /\ Len(graph') = k + 2
        /\ UNCHANGED <<iterations, plan, outcome, stopped, morphlingReplan>>
        /\ \A n \in 1..(k + 2) : graph'[n].instead = after[n].instead
        /\ pc' \in {"head", "batch"} /\ (pc' = "batch" <=> batch' # <<>>)
    BY <2>1, <2>2, <2>5, NextOfBatch
  <2>7. \A n \in 1..(k + 2) : after[n].instead \in 0..(k + 2)
    <3>1. \A n \in 1..(k + 2) : n = Running \/ (n \in 1..k /\ n # Running) \/ n \in {k + 1, k + 2}
      BY <1>0
    <3>2. after[Running].instead \in 0..(k + 2)
      BY <1>0, <2>3 DEF Replaced
    <3>3. \A n \in 1..k : n # Running => after[n].instead \in 0..(k + 2)
      <4>1. \A n \in 1..k : n # Running => after[n].instead = graph[n].instead
        BY <2>3 DEF Replaced
      <4> QED
        BY <1>0, <2>4, <4>1
    <3>4. \A n \in {k + 1, k + 2} : after[n].instead \in 0..(k + 2)
      BY <1>0, <2>3 DEF Replaced
    <3> QED
      BY <3>1, <3>2, <3>3, <3>4
  <2> QED
    BY <1>a, <2>6, <2>7 DEF TypeInv
<1> QED
  BY <1>1, <1>2, <1>3, <1>4, <1>5, <1>6, <1>7 DEF Next, Step

\* The types of the variables, and the bound on the loop: a goal's iterations never
\* pass maxIterations, however the graph grows meanwhile.
THEOREM GoalTypes == Spec => []TypeOK
<1>1. Init => TypeInv
  <2> SUFFICES ASSUME Init PROVE TypeInv
    OBVIOUS
  <2>1. maxIterations \in Nat
    BY Iterations DEF Init
  <2>2. 0 \in 0..maxIterations
    BY <2>1
  <2>3. Len(graph) = 0 /\ 1..0 = {}
    BY DEF Init
  <2> QED
    BY <2>2, <2>3 DEF Init, TypeInv
<1>2. Inv /\ TypeInv => TypeOK
  <2> SUFFICES ASSUME Inv, TypeInv PROVE TypeOK
    OBVIOUS
  <2> DEFINE k == Len(graph)
  <2>1. Good(graph, k) /\ k \in Nat /\ Nodes = 1..k
    BY DEF Inv, Good, Nodes
  <2>2. batch \in Seq(Nodes)
    <3>1. CASE pc = "batch"
      BY <2>1, <3>1 DEF Inv, BatchOK
    <3>2. CASE pc # "batch"
      <4>1. batch = <<>>
        BY <3>2 DEF TypeInv
      <4> QED
        BY <4>1
    <3> QED
      BY <3>1, <3>2
  <2>3. graph \in [1..k -> Subtasks(k)]
    <3>1. graph \in [1..k -> Record]
      BY <2>1 DEF Good
    <3>2. \A n \in 1..k : graph[n].deps \in SUBSET (1..k) /\ graph[n].instead \in 0..k
      BY <2>1 DEF Good, TypeInv
    <3> HIDE DEF k
    <3>3. \A n \in 1..k : graph[n] \in Subtasks(k)
      BY <3>1, <3>2 DEF Record, Subtasks
    <3> QED
      BY <3>1, <3>3
  <2> QED
    BY <2>2, <2>3 DEF TypeInv, TypeOK
<1> QED
  BY <1>1, <1>2, TypeStep, GoalInvariant, PTL DEF Spec

-----------------------------------------------------------------------------
(* Nothing is skipped.                                                       *)

\* Each cancelled subtask has a later one in its place.
Helped(g, k) == \A n \in 1..k : g[n].status = "CANCELLED" => g[n].instead \in (n + 1)..k

HelpInv ==
  /\ Helped(graph, Len(graph))
  /\ outcome = "success" => pc = "over" /\ isCompleted

\* A function that follows a chain upward to its end exists, for chains that leave 1..k.
LEMMA ChainsEnd ==
  ASSUME NEW k \in Nat, NEW next \in [1..k -> Nat], NEW C \in SUBSET (1..k)
  PROVE  \E f : f = [n \in Nat |-> IF n \in C /\ next[n] > n THEN f[next[n]] ELSE n]
<1> DEFINE Follows(f, n) == f[n] = IF n \in C /\ next[n] > n THEN f[next[n]] ELSE n
           From(j) == \E f \in [Nat -> Nat] : \A n \in Nat : n >= j => Follows(f, n)
           T == {i \in 0..(k + 1) : ~From(k + 1 - i)}
<1>1. From(k + 1)
  <2> DEFINE f == [n \in Nat |-> n]
  <2>1. f \in [Nat -> Nat] /\ \A n \in Nat : n >= k + 1 => n \notin C /\ f[n] = n
    OBVIOUS
  <2> QED
    BY <2>1
<1>2. ASSUME NEW j \in Nat, From(j + 1) PROVE From(j)
  <2>1. PICK f \in [Nat -> Nat] : \A n \in Nat : n >= j + 1 => Follows(f, n)
    BY <1>2
  <2>2. PICK v \in Nat : v = IF j \in C /\ next[j] > j THEN f[next[j]] ELSE j
    OBVIOUS
  <2> DEFINE h == [f EXCEPT ![j] = v]
  <2>3. h \in [Nat -> Nat] /\ h[j] = v /\ \A n \in Nat : n > j => h[n] = f[n]
    OBVIOUS
  <2> HIDE DEF h
  <2>4. ASSUME NEW n \in Nat, n >= j PROVE Follows(h, n)
    <3>1. n \in C => next[n] \in Nat
      OBVIOUS
    <3>2. CASE n = j
      <4>1. j \in C /\ next[j] > j => h[next[j]] = f[next[j]]
        BY <2>3, <3>1, <3>2
      <4> QED
        BY <2>2, <2>3, <3>2, <4>1
    <3>3. CASE n >= j + 1
      <4>0. Follows(f, n)
        <5> HIDE DEF Follows
        <5> QED
          BY <2>1, <3>3
      <4>1. n > j /\ h[n] = f[n]
        BY <2>3, <3>3
      <4>2. n \in C /\ next[n] > n => next[n] \in Nat /\ next[n] > j
        BY <3>1, <4>1
      <4>3. n \in C /\ next[n] > n => h[next[n]] = f[next[n]]
        BY <2>3, <4>2
      <4> QED
        BY <4>0, <4>1, <4>3
    <3> QED
      BY <2>4, <3>2, <3>3
  <2> QED
    BY <2>3, <2>4
<1> HIDE DEF From
<1>3. T = {}
  <2> SUFFICES ASSUME T # {} PROVE FALSE
    OBVIOUS
  <2>1. PICK x \in T : \A y \in T : x <= y
    <3> HIDE DEF T
    <3>1. T \subseteq Nat
      BY DEF T
    <3> QED
      BY <3>1, LeastNatural
  <2>2. x # 0
    <3>1. k + 1 - 0 = k + 1
      OBVIOUS
    <3> QED
      BY <1>1, <3>1
  <2>3. x - 1 \in 0..(k + 1) /\ x - 1 \notin T
    <3>1. x \in 0..(k + 1)
      BY <2>1
    <3> HIDE DEF T
    <3>2. x - 1 \in 0..(k + 1) /\ ~(x <= x - 1)
      BY <2>2, <3>1
    <3> QED
      BY <2>1, <3>2
  <2>4. From((k + 1 - x) + 1) /\ k + 1 - x \in Nat
    <3>1. k + 1 - (x - 1) = (k + 1 - x) + 1
      BY <2>1
    <3> QED
      BY <2>1, <2>3, <3>1
  <2> QED
    BY <1>2, <2>1, <2>4
<1>4. From(0)
  <2>1. k + 1 \in 0..(k + 1) /\ k + 1 - (k + 1) = 0
    OBVIOUS
  <2> QED
    BY <1>3, <2>1
<1>5. PICK f \in [Nat -> Nat] : \A n \in Nat : n >= 0 => Follows(f, n)
  BY <1>4 DEF From
<1>6. f = [n \in Nat |-> IF n \in C /\ next[n] > n THEN f[next[n]] ELSE n]
  BY <1>5
<1> QED
  BY <1>6

\* What stands in for a subtask: itself, or what stands in for the one in its place.
LEMMA Stand ==
  ASSUME Inv, Helped(graph, Len(graph)), NEW n \in Nodes
  PROVE  StandsIn[n] = IF graph[n].status = "CANCELLED" THEN StandsIn[graph[n].instead] ELSE n
<1> DEFINE k == Len(graph)
           C == {m \in 1..k : graph[m].status = "CANCELLED"}
           next == [m \in 1..k |-> graph[m].instead]
           F(f) == f = [m \in Nat |->
                     IF m \in Nodes /\ graph[m].status = "CANCELLED" /\ graph[m].instead > m
                     THEN f[graph[m].instead] ELSE m]
<1>1. k \in Nat /\ Good(graph, k) /\ Nodes = 1..k
  BY DEF Inv, Good, Nodes
<1>2. next \in [1..k -> Nat] /\ C \in SUBSET (1..k)
  BY <1>1 DEF Good, Record
<1>3. PICK f : f = [m \in Nat |-> IF m \in C /\ next[m] > m THEN f[next[m]] ELSE m]
  <2> HIDE DEF k, C, next
  <2> QED
    BY <1>1, <1>2, ChainsEnd
<1>4. F(f)
  BY <1>1, <1>3
<1>5. StandsIn = CHOOSE g : F(g)
  BY DEF StandsIn
<1>6. F(StandsIn)
  <2> HIDE DEF F
  <2> QED
    BY <1>4, <1>5
<1>7. n \in Nat /\ (graph[n].status = "CANCELLED" => graph[n].instead > n)
  BY <1>1 DEF Helped
<1> QED
  BY <1>6, <1>7

\* In a completed graph every chain ends at a subtask that was done.
LEMMA StandsDone ==
  ASSUME Inv, Helped(graph, Len(graph)), isCompleted
  PROVE  \A n \in Nodes : graph[StandsIn[n]].status = "COMPLETED"
<1> DEFINE k == Len(graph)
           Done(n) == graph[StandsIn[n]].status = "COMPLETED"
           T == {i \in 0..k : k - i \in Nodes /\ ~Done(k - i)}
<1>1. k \in Nat /\ Nodes = 1..k
  BY DEF Inv, Good, Nodes
<1>2. T = {}
  <2> SUFFICES ASSUME T # {} PROVE FALSE
    OBVIOUS
  <2>1. PICK x \in T : \A y \in T : x <= y
    <3> HIDE DEF T
    <3>1. T \subseteq Nat
      BY DEF T
    <3> QED
      BY <3>1, LeastNatural
  <2>2. PICK n \in Nodes : n = k - x /\ ~Done(n)
    OBVIOUS
  <2>3. CASE graph[n].status = "CANCELLED"
    <3>1. PICK m \in (n + 1)..k : m = graph[n].instead
      BY <1>1, <2>3 DEF Helped
    <3>2. m \in Nodes /\ k - m \in 0..k /\ k - m < x /\ k - (k - m) = m
      BY <1>1, <2>1, <2>2, <3>1, SMTT(30)
    <3>3. Done(m)
      BY <2>1, <3>2
    <3>4. StandsIn[n] = StandsIn[m]
      BY <2>3, <3>1, Stand
    <3> QED
      BY <2>2, <3>3, <3>4
  <2>4. CASE graph[n].status # "CANCELLED"
    <3>1. StandsIn[n] = n /\ graph[n].status = "COMPLETED"
      BY <2>4, Stand DEF isCompleted
    <3> QED
      BY <2>2, <3>1
  <2> QED
    BY <2>3, <2>4
<1>3. ASSUME NEW n \in Nodes PROVE Done(n)
  <2>1. k - n \in 0..k /\ k - (k - n) = n
    BY <1>1
  <2> QED
    BY <1>2, <2>1
<1> QED
  BY <1>3

LEMMA HelpStep == Inv /\ HelpInv /\ [Next]_vars => HelpInv'
<1> SUFFICES ASSUME Inv, HelpInv, [Next]_vars PROVE HelpInv'
  OBVIOUS
<1> DEFINE k == Len(graph)
<1>0. k \in Nat /\ Good(graph, k) /\ Helped(graph, k)
  BY DEF Inv, HelpInv
<1>1. CASE Evaluate \/ Refuse \/ Leave \/ Aborted \/ NothingReady \/ Stop \/ UNCHANGED vars
  BY <1>1 DEF Evaluate, Refuse, Leave, Aborted, NothingReady, Return, Stop, vars, HelpInv,
     isCompleted, Nodes
<1>2. ASSUME pc # "over", outcome' = outcome PROVE outcome' # "success"
  BY <1>2 DEF HelpInv
<1>3. CASE Decompose
  <2>1. Helped(graph', Len(graph'))
    BY <1>3, NewGraph DEF Helped
  <2> QED
    BY <1>2, <1>3, <2>1 DEF Decompose, HelpInv
<1>4. CASE Iterate
  <2>1. /\ Len(graph') = k
        /\ \A n \in 1..k : /\ graph'[n].instead = graph[n].instead
                           /\ n # batch'[1] => graph'[n].status = graph[n].status
        /\ graph'[batch'[1]].status = "RUNNING"
    BY <1>4, FirstOfBatch
  <2>2. Helped(graph', k)
    BY <1>0, <2>1 DEF Helped
  <2> QED
    BY <1>2, <1>4, <2>1, <2>2 DEF Iterate, HelpInv
<1>5. CASE Succeeds \/ Fails \/ Retries \/ Reroutes
  <2>1. Moves
    BY <1>5, SucceedsMoves, FailsMoves, RetriesMoves, ReroutesMoves
  <2>2. PICK r \in Record :
          /\ r.status \in {"PENDING", "COMPLETED", "FAILED"}
          /\ Proceed([graph EXCEPT ![Running] = r])
    BY <2>1 DEF Moves
  <2>3. pc = "batch" /\ Running \in 1..k /\ batch \in Seq(1..k) /\ batch # <<>>
    BY <1>0, <2>1, InBatch DEF Moves
  <2> DEFINE after == [graph EXCEPT ![Running] = r]
  <2>4. after \in [1..k -> Record] /\ Helped(after, k)
    BY <1>0, <2>2, <2>3 DEF Good, Helped
  <2>5. Proceed(after)
    BY <2>2
  <2> HIDE DEF after, k
  <2>6. /\ Len(graph') = k /\ outcome' = outcome
        /\ \A n \in 1..k :
             /\ graph'[n].instead = after[n].instead
             /\ graph'[n].status = after[n].status \/ graph'[n].status = "RUNNING"
    BY <1>0, <2>3, <2>4, <2>5, NextOfBatch
  <2>7. Helped(graph', k)
    BY <2>4, <2>6 DEF Helped
  <2> QED
    BY <1>2, <2>3, <2>6, <2>7 DEF HelpInv
<1>6. CASE Splits
  <2> DEFINE after == [n \in 1..Second |-> Replacing(n)]
  <2>1. pc = "batch" /\ Running \in 1..k /\ batch \in Seq(1..k) /\ batch # <<>>
    BY <1>0, <1>6, InBatch DEF Splits
  <2>2. Proceed(after)
    BY <1>6 DEF Splits
  <2>3. Replaced(after, k)
    <3> HIDE DEF k, after
    <3>1. k = Len(graph) /\ IsReplaced(after)
      BY DEF k, after, IsReplaced
    <3> QED
      BY <1>6, <3>1, Replacement
  <2> HIDE DEF after, k
  <2>4. after \in [1..(k + 2) -> Record] /\ batch \in Seq(1..(k + 2)) /\ k + 2 \in Nat
    BY <1>0, <2>1, <2>3 DEF Replaced
  <2>5. /\ Len(graph') = k + 2 /\ outcome' = outcome
        /\ \A n \in 1..(k + 2) :
             /\ graph'[n].instead = after[n].instead
             /\ graph'[n].status = after[n].status \/ graph'[n].status = "RUNNING"
    BY <2>1, <2>2, <2>4, NextOfBatch, ZenonT(40)
  <2>6. Helped(after, k + 2)
    <3>1. \A n \in 1..(k + 2) : n = Running \/ (n \in 1..k /\ n # Running) \/ n \in {k + 1, k + 2}
      BY <1>0
    <3>2. after[Running].instead \in (Running + 1)..(k + 2)
      BY <1>0, <2>1, <2>3 DEF Replaced
    <3>3. \A n \in 1..k : n # Running /\ after[n].status = "CANCELLED" =>
            after[n].instead \in (n + 1)..(k + 2)
      <4>1. \A n \in 1..k : n # Running =>
              after[n].status = graph[n].status /\ after[n].instead = graph[n].instead
        BY <2>3 DEF Replaced
      <4>2. \A n \in 1..k : (n + 1)..k \subseteq (n + 1)..(k + 2)
        BY <1>0
      <4> QED
        BY <1>0, <4>1, <4>2 DEF Helped
    <3>4. \A n \in {k + 1, k + 2} : after[n].status # "CANCELLED"
      BY <2>3 DEF Replaced
    <3> QED
      BY <3>1, <3>2, <3>3, <3>4 DEF Helped
  <2>7. Helped(graph', k + 2)
    BY <2>5, <2>6 DEF Helped
  <2> QED
    BY <1>2, <2>1, <2>5, <2>7 DEF HelpInv
<1> QED
  BY <1>1, <1>3, <1>4, <1>5, <1>6 DEF Next, Step

\* NothingSkipped: a goal reported achieved (executeOpportunity's success) has every
\* subtask done or, through however many re-plannings, one done in its place.
THEOREM NothingIsSkipped == Spec => []NothingSkipped
<1>1. Init => HelpInv
  BY DEF Init, HelpInv, Helped
<1>2. Inv /\ HelpInv => NothingSkipped
  BY StandsDone DEF HelpInv, NothingSkipped
<1> QED
  BY <1>1, <1>2, HelpStep, GoalInvariant, PTL DEF Spec
=============================================================================
