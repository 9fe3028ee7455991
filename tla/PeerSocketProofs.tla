-------------------------- MODULE PeerSocketProofs --------------------------
(***************************************************************************)
(* The client of the WebSocket transport, for any calls, task ids and       *)
(* number of connections: a waiting request is not forgotten, results in    *)
(* turn reach their callers, and a result comes after the status that says  *)
(* the task is over.                                                        *)
(***************************************************************************)
EXTENDS PeerSocket, SequenceTheorems, TLAPS

-----------------------------------------------------------------------------
(* Types                                                                    *)

Final == {"completed", "failed"}
Messages ==
  [kind : {"status"}, task : Tasks, status : {"executing"} \cup Final]
    \cup [kind : {"artifact"}, call : Calls]

ClientTypes ==
  /\ taskOf \in [Calls -> Tasks]
  /\ ws \in 0..MaxSockets
  /\ made \in 0..MaxSockets
  /\ pc \in [Calls -> {"idle", "connecting", "waiting", "done"}]
  /\ via \in [Calls -> 0..MaxSockets]
  /\ pending \in Seq(Calls)
  /\ timers \subseteq Calls
  /\ answer \in [Calls -> Calls \cup {"none", "threw", "closed", "timeout"}]
  /\ told \in [Calls -> {"nothing", "executing"} \cup Final]

PeerTypes ==
  /\ conn \in [Sockets -> {"none", "closed"} \cup Live]
  /\ up \in [Sockets -> Seq(Calls)]
  /\ down \in [Sockets -> Seq(Messages)]
  /\ running \in Seq(Sockets \X Calls)
  /\ subs \in [Tasks -> SUBSET Sockets]
  /\ orderly \in BOOLEAN /\ unread \in BOOLEAN

SocketTypes == ClientTypes /\ PeerTypes

-----------------------------------------------------------------------------
(* Queues                                                                   *)

\* What a queue holds.
LEMMA InRange ==
  ASSUME NEW S, NEW q \in Seq(S), NEW x
  PROVE  x \in Range(q) <=> \E i \in 1..Len(q) : q[i] = x
BY RangeEquality

\* An element is taken out of a queue: those after it move up.
LEMMA Removed ==
  ASSUME NEW S, NEW q \in Seq(S), NEW k \in 1..Len(q)
  PROVE  /\ RemoveAt(q, k) \in Seq(S)
         /\ Len(RemoveAt(q, k)) = Len(q) - 1
         /\ \A i \in 1..(Len(q) - 1) : RemoveAt(q, k)[i] = IF i < k THEN q[i] ELSE q[i + 1]
<1>1. PICK n \in Nat : n = Len(q)
  BY LenProperties
<1>2. PICK l \in Int, m \in Int : l = k - 1 /\ m = k + 1
  BY <1>1
<1>3. /\ SubSeq(q, 1, l) \in Seq(S)
      /\ Len(SubSeq(q, 1, l)) = l
      /\ \A i \in 1..l : SubSeq(q, 1, l)[i] = q[i]
  <2>1. \A i \in 1..l : q[i] \in S
    BY <1>1, <1>2, ElementOfSeq
  <2> QED
    BY <1>1, <1>2, <2>1, SubSeqProperties
<1>4. /\ SubSeq(q, m, n) \in Seq(S)
      /\ Len(SubSeq(q, m, n)) = n - k
      /\ \A i \in 1..(n - k) : SubSeq(q, m, n)[i] = q[k + i]
  <2>1. \A i \in m..n : q[i] \in S
    BY <1>1, <1>2, ElementOfSeq
  <2>2. /\ SubSeq(q, m, n) \in Seq(S)
        /\ Len(SubSeq(q, m, n)) = IF m <= n THEN n - m + 1 ELSE 0
        /\ \A i \in 1..(n - m + 1) : SubSeq(q, m, n)[i] = q[m + i - 1]
    BY <1>1, <1>2, <2>1, SubSeqProperties
  <2> QED
    BY <1>1, <1>2, <2>2
<1>5. RemoveAt(q, k) = SubSeq(q, 1, l) \o SubSeq(q, m, n)
  BY <1>1, <1>2 DEF RemoveAt
<1>6. PICK a \in Seq(S), b \in Seq(S) : a = SubSeq(q, 1, l) /\ b = SubSeq(q, m, n)
  BY <1>3, <1>4
<1>7. /\ k \in 1..n
      /\ Len(a) = l /\ Len(b) = n - k
      /\ \A i \in 1..l : a[i] = q[i]
      /\ \A i \in 1..(n - k) : b[i] = q[k + i]
  BY <1>1, <1>3, <1>4, <1>6
<1>8. /\ a \o b \in Seq(S)
      /\ Len(a \o b) = n - 1
      /\ \A i \in 1..(n - 1) : (a \o b)[i] = IF i <= l THEN a[i] ELSE b[i - l]
  <2>1. /\ a \o b \in Seq(S)
        /\ Len(a \o b) = Len(a) + Len(b)
        /\ \A i \in 1..(Len(a) + Len(b)) : (a \o b)[i] = IF i <= Len(a) THEN a[i] ELSE b[i - Len(a)]
    BY ConcatProperties
  <2>2. Len(a) + Len(b) = n - 1
    BY <1>2, <1>7
  <2> QED
    BY <1>7, <2>1, <2>2
<1>9. \A i \in 1..(n - 1) : (a \o b)[i] = IF i < k THEN q[i] ELSE q[i + 1]
  <2>1. ASSUME NEW i \in 1..(n - 1), i < k PROVE (a \o b)[i] = q[i]
    BY <1>2, <1>7, <1>8, <2>1
  <2>2. ASSUME NEW i \in 1..(n - 1), i >= k PROVE (a \o b)[i] = q[i + 1]
    <3>1. PICK j \in 1..(n - k) : i = l + j
      BY <1>2, <1>7, <2>2
    <3>2. ~(i <= l) /\ i - l = j /\ k + j = i + 1
      BY <1>2, <1>7, <3>1
    <3>3. (a \o b)[i] = b[j]
      BY <1>8, <3>2
    <3> QED
      BY <1>7, <3>2, <3>3
  <2>3. \A i \in 1..(n - 1) : ~(i < k) => i >= k
    BY <1>7
  <2> QED
    BY <2>1, <2>2, <2>3
<1> QED
  BY <1>1, <1>5, <1>6, <1>8, <1>9

\* What is left of a queue from which an element was taken.
LEMMA LeftInRange ==
  ASSUME NEW S, NEW q \in Seq(S), NEW k \in 1..Len(q), NEW x
  PROVE  x \in Range(RemoveAt(q, k)) <=> \E i \in 1..Len(q) : i # k /\ q[i] = x
<1>1. PICK n \in Nat : n = Len(q)
  BY LenProperties
<1>2. PICK r \in Seq(S) : r = RemoveAt(q, k)
  BY Removed
<1>3. Len(r) = n - 1 /\ \A i \in 1..(n - 1) : r[i] = IF i < k THEN q[i] ELSE q[i + 1]
  BY <1>1, <1>2, Removed
<1>4. ASSUME NEW i \in 1..(n - 1), r[i] = x PROVE \E j \in 1..n : j # k /\ q[j] = x
  BY <1>1, <1>3, <1>4
<1>5. ASSUME NEW i \in 1..n, i # k, q[i] = x PROVE \E j \in 1..(n - 1) : r[j] = x
  <2>1. CASE i < k
    BY <1>1, <1>3, <1>5, <2>1
  <2>2. CASE i > k
    <3>1. i - 1 \in 1..(n - 1) /\ ~(i - 1 < k) /\ i - 1 + 1 = i
      BY <1>1, <2>2
    <3> QED
      BY <1>3, <1>5, <3>1
  <2> QED
    BY <1>5, <2>1, <2>2
<1> QED
  BY <1>1, <1>2, <1>3, <1>4, <1>5, InRange

\* A queue read from, and one added to.
LEMMA TailInRange ==
  ASSUME NEW S, NEW q \in Seq(S), q # <<>>, NEW x
  PROVE  x \in Range(Tail(q)) <=> \E i \in 2..Len(q) : q[i] = x
<1>1. PICK n \in Nat : n = Len(q) /\ n > 0
  BY LenProperties, EmptySeq
<1>2. PICK r \in Seq(S) : r = Tail(q)
  BY HeadTailProperties
<1>3. Len(r) = n - 1 /\ \A i \in 1..(n - 1) : r[i] = q[i + 1]
  BY <1>1, <1>2, HeadTailProperties
<1>4. x \in Range(r) <=> \E i \in 1..(n - 1) : r[i] = x
  BY <1>3, InRange
<1>5. ASSUME NEW i \in 2..n, q[i] = x PROVE \E j \in 1..(n - 1) : r[j] = x
  <2>1. i - 1 \in 1..(n - 1) /\ i - 1 + 1 = i
    BY <1>1
  <2> QED
    BY <1>3, <1>5, <2>1
<1>6. ASSUME NEW i \in 1..(n - 1), r[i] = x PROVE \E j \in 2..n : q[j] = x
  BY <1>1, <1>3, <1>6
<1> QED
  BY <1>1, <1>2, <1>4, <1>5, <1>6

LEMMA AppendInRange ==
  ASSUME NEW S, NEW q \in Seq(S), NEW e \in S, NEW x
  PROVE  x \in Range(Append(q, e)) <=> x = e \/ x \in Range(q)
<1>1. PICK n \in Nat : n = Len(q)
  BY LenProperties
<1>2. PICK r \in Seq(S) : r = Append(q, e)
  BY AppendProperties
<1>3. Len(r) = n + 1 /\ r[n + 1] = e /\ \A i \in 1..n : r[i] = q[i]
  BY <1>1, <1>2, AppendProperties
<1>4. x \in Range(r) <=> \E i \in 1..(n + 1) : r[i] = x
  BY <1>3, InRange
<1>5. x \in Range(q) <=> \E i \in 1..n : q[i] = x
  BY <1>1, InRange
<1>6. \A i \in 1..(n + 1) : i = n + 1 \/ i \in 1..n
  BY <1>1
<1>7. n + 1 \in 1..(n + 1) /\ \A i \in 1..n : i \in 1..(n + 1)
  BY <1>1
<1>8. x \in Range(r) => x = e \/ x \in Range(q)
  BY <1>3, <1>4, <1>5, <1>6
<1>9. x = e \/ x \in Range(q) => x \in Range(r)
  BY <1>3, <1>4, <1>5, <1>7
<1> QED
  BY <1>2, <1>8, <1>9

-----------------------------------------------------------------------------
(* The map of pending requests                                              *)

\* The keys of a map differ.
Distinct(q) == \A i, j \in 1..Len(q) : taskOf[q[i]] = taskOf[q[j]] => i = j
KeysDiffer == Distinct(pending)

\* A call is entered under its task id, in the place of the entry it replaces.
LEMMA EnteredOnce ==
  ASSUME ClientTypes, KeysDiffer, NEW c \in Calls
  PROVE  /\ Entered(c) \in Seq(Calls)
         /\ Distinct(Entered(c))
         /\ \A d : d \in Range(Entered(c)) <=>
                     d = c \/ (d \in Range(pending) /\ taskOf[d] # taskOf[c])
         /\ Keys(taskOf[c]) = {} => Entered(c) = Append(pending, c) /\ c \notin Range(pending)
<1>1. PICK n \in Nat : n = Len(pending)
  BY LenProperties DEF ClientTypes
<1>2. pending \in Seq(Calls) /\ \A i \in 1..n : pending[i] \in Calls
  BY <1>1, ElementOfSeq DEF ClientTypes
<1>3. \A d : d \in Range(pending) <=> \E i \in 1..n : pending[i] = d
  BY <1>1, <1>2, InRange
<1>4. \A i \in 1..n : i \in Keys(taskOf[c]) <=> taskOf[pending[i]] = taskOf[c]
  BY <1>1 DEF Keys
<1>5. CASE Keys(taskOf[c]) = {}
  <2>1. PICK e \in Seq(Calls) : e = Append(pending, c)
    BY <1>2, AppendProperties
  <2>2. Entered(c) = e
    BY <1>5, <2>1 DEF Entered
  <2>3. Len(e) = n + 1 /\ e[n + 1] = c /\ \A i \in 1..n : e[i] = pending[i]
    BY <1>1, <1>2, <2>1, AppendProperties
  <2>4. \A i \in 1..(n + 1) : i = n + 1 \/ i \in 1..n
    BY <1>1
  <2>5. Distinct(e)
    BY <1>1, <1>4, <1>5, <2>3, <2>4 DEF Distinct, KeysDiffer
  <2>6. \A d : d \in Range(e) <=> d = c \/ d \in Range(pending)
    BY <1>2, <2>1, AppendInRange
  <2>7. \A d \in Range(pending) : taskOf[d] # taskOf[c]
    BY <1>3, <1>4, <1>5
  <2>8. c \notin Range(pending)
    BY <2>7
  <2> QED
    BY <2>1, <2>2, <2>5, <2>6, <2>7, <2>8
<1>6. CASE Keys(taskOf[c]) # {}
  <2>1. PICK k \in 1..n : taskOf[pending[k]] = taskOf[c]
    BY <1>1, <1>6 DEF Keys
  <2>2. \A i \in 1..n : taskOf[pending[i]] = taskOf[c] => i = k
    BY <1>1, <2>1 DEF KeysDiffer, Distinct
  <2>3. Entered(c) = [i \in 1..n |-> IF i \in Keys(taskOf[c]) THEN c ELSE pending[i]]
    BY <1>1, <1>6 DEF Entered
  <2>4. Entered(c) \in [1..n -> Calls]
    BY <1>2, <2>3
  <2>5. PICK e \in Seq(Calls) : e = Entered(c)
    BY <2>4, SeqDef
  <2>6. Len(e) = n
    BY <1>1, <2>4, <2>5, LenProperties
  <2>7. e[k] = c /\ \A i \in 1..n : i # k => e[i] = pending[i]
    BY <1>4, <2>1, <2>2, <2>3, <2>5
  <2>8. Distinct(e)
    BY <1>1, <2>1, <2>2, <2>6, <2>7 DEF Distinct, KeysDiffer
  <2>9. \A d : d \in Range(e) <=> \E i \in 1..n : e[i] = d
    BY <2>5, <2>6, InRange
  <2>10. \A d : d \in Range(e) <=> d = c \/ (d \in Range(pending) /\ taskOf[d] # taskOf[c])
    BY <1>3, <2>1, <2>2, <2>7, <2>9
  <2> QED
    BY <1>6, <2>5, <2>8, <2>10
<1> QED
  BY <1>5, <1>6

\* What is left of the map when one entry is taken out.
LEMMA LeftDistinct ==
  ASSUME ClientTypes, KeysDiffer, NEW k \in 1..Len(pending)
  PROVE  /\ RemoveAt(pending, k) \in Seq(Calls)
         /\ Distinct(RemoveAt(pending, k))
         /\ \A d : d \in Range(RemoveAt(pending, k)) <=>
                     d \in Range(pending) /\ taskOf[d] # taskOf[pending[k]]
<1>1. PICK n \in Nat : n = Len(pending)
  BY LenProperties DEF ClientTypes
<1>2. PICK r \in Seq(Calls) : r = RemoveAt(pending, k)
  BY Removed DEF ClientTypes
<1>3. Len(r) = n - 1 /\ \A i \in 1..(n - 1) : r[i] = IF i < k THEN pending[i] ELSE pending[i + 1]
  BY <1>1, <1>2, Removed DEF ClientTypes
<1>4. Distinct(r)
  <2> SUFFICES ASSUME NEW i \in 1..(n - 1), NEW j \in 1..(n - 1), taskOf[r[i]] = taskOf[r[j]]
               PROVE  i = j
    BY <1>3 DEF Distinct
  <2>1. PICK x \in 1..n : r[i] = pending[x] /\ x = IF i < k THEN i ELSE i + 1
    BY <1>1, <1>3
  <2>2. PICK y \in 1..n : r[j] = pending[y] /\ y = IF j < k THEN j ELSE j + 1
    BY <1>1, <1>3
  <2>3. x = y
    BY <1>1, <2>1, <2>2 DEF KeysDiffer, Distinct
  <2> QED
    BY <1>1, <2>1, <2>2, <2>3
<1>5. \A d : d \in Range(r) <=> \E i \in 1..n : i # k /\ pending[i] = d
  BY <1>1, <1>2, LeftInRange DEF ClientTypes
<1>6. \A d : d \in Range(pending) <=> \E i \in 1..n : pending[i] = d
  BY <1>1, InRange DEF ClientTypes
<1>7. \A i \in 1..n : i # k <=> taskOf[pending[i]] # taskOf[pending[k]]
  BY <1>1 DEF KeysDiffer, Distinct
<1> QED
  BY <1>2, <1>4, <1>5, <1>6, <1>7

LEMMA DeletedOnly ==
  ASSUME ClientTypes, KeysDiffer, NEW t \in Tasks
  PROVE  /\ Deleted(t) \in Seq(Calls)
         /\ Distinct(Deleted(t))
         /\ \A d : d \in Range(Deleted(t)) <=> d \in Range(pending) /\ taskOf[d] # t
<1>1. PICK n \in Nat : n = Len(pending)
  BY LenProperties DEF ClientTypes
<1>2. \A d : d \in Range(pending) <=> \E i \in 1..n : pending[i] = d
  BY <1>1, InRange DEF ClientTypes
<1>3. CASE Keys(t) = {}
  <2>1. \A d \in Range(pending) : taskOf[d] # t
    BY <1>1, <1>2, <1>3 DEF Keys
  <2> QED
    BY <1>3, <2>1 DEF Deleted, ClientTypes, KeysDiffer
<1>4. CASE Keys(t) # {}
  <2>1. PICK k \in Keys(t) : k = CHOOSE i \in Keys(t) : TRUE
    BY <1>4
  <2>2. k \in 1..Len(pending) /\ taskOf[pending[k]] = t
    BY <2>1 DEF Keys
  <2>3. Deleted(t) = RemoveAt(pending, k)
    BY <1>4, <2>1 DEF Deleted
  <2> QED
    BY <2>2, <2>3, LeftDistinct
<1> QED
  BY <1>3, <1>4

LEMMA TailDistinct ==
  ASSUME ClientTypes, KeysDiffer, pending # <<>>
  PROVE  /\ Tail(pending) \in Seq(Calls)
         /\ Distinct(Tail(pending))
         /\ Head(pending) \in Calls /\ Head(pending) \in Range(pending)
         /\ \A d : d \in Range(Tail(pending)) <=> d \in Range(pending) /\ d # Head(pending)
<1>1. PICK n \in Nat : n = Len(pending) /\ n > 0
  BY LenProperties, EmptySeq DEF ClientTypes
<1>2. /\ Tail(pending) \in Seq(Calls)
      /\ Len(Tail(pending)) = n - 1
      /\ \A i \in 1..(n - 1) : Tail(pending)[i] = pending[i + 1]
      /\ Head(pending) \in Calls
  BY <1>1, HeadTailProperties DEF ClientTypes
<1>3. Head(pending) = pending[1]
  OBVIOUS
<1>4. Distinct(Tail(pending))
  BY <1>1, <1>2 DEF KeysDiffer, Distinct
<1>5. \A d : d \in Range(Tail(pending)) <=> \E i \in 2..n : pending[i] = d
  BY <1>1, TailInRange DEF ClientTypes
<1>6. \A d : d \in Range(pending) <=> \E i \in 1..n : pending[i] = d
  BY <1>1, InRange DEF ClientTypes
<1>7. \A i \in 1..n : i = 1 <=> pending[i] = pending[1]
  BY <1>1 DEF KeysDiffer, Distinct
<1>8. \A i \in 1..n : i \in 2..n <=> i # 1
  BY <1>1
<1> QED
  BY <1>1, <1>2, <1>3, <1>4, <1>5, <1>6, <1>7, <1>8

-----------------------------------------------------------------------------
(* What holds of each call and each socket                                  *)

CallsWhere ==
  /\ \A c \in Calls : pc[c] = "connecting" <=> via[c] # 0
  /\ \A c \in Calls : via[c] <= made
  /\ \A c \in Range(pending) : pc[c] \in {"waiting", "done"}
  /\ \A c \in Calls : pc[c] # "done" => answer[c] = "none"

\* Only the socket made last can be this.ws, and a client without it has let it go.
SocketsWhere ==
  /\ ws \in {0, made}
  /\ ws = 0 /\ made # 0 => conn[made] \in {"closing", "closed"}
  /\ \A s \in Sockets : conn[s] = "none" <=> s > made
  /\ \A s \in Sockets : conn[s] \in {"none", "closed"} => up[s] = <<>> /\ down[s] = <<>>
  /\ \A i \in 1..Len(running) : running[i][1] <= made
  /\ \A t \in Tasks : \A s \in subs[t] : s <= made

ClientInv == ClientTypes /\ KeysDiffer /\ CallsWhere /\ NoneForgotten
NetInv == PeerTypes /\ SocketsWhere
Bookkeeping == ClientInv /\ NetInv

LEMMA InitBookkeeping == Init => Bookkeeping
<1> SUFFICES ASSUME Init PROVE Bookkeeping
  OBVIOUS
<1> USE SocketAssumption
<1>1. /\ <<>> \in Seq(Calls) /\ <<>> \in Seq(Messages) /\ <<>> \in Seq(Sockets \X Calls)
      /\ Len(<<>>) = 0
  BY EmptySeq
<1>2. Range(<<>>) = {}
  <2>1. <<>> \in Seq({})
    BY EmptySeq
  <2> QED
    BY <2>1, RangeOfSeq
<1>3. ClientTypes /\ KeysDiffer
  BY <1>1 DEF Init, ClientTypes, KeysDiffer, Distinct, Final
<1>4. CallsWhere /\ NoneForgotten
  BY <1>2 DEF Init, CallsWhere, NoneForgotten
<1>5. PeerTypes
  BY <1>1 DEF Init, PeerTypes, Live
<1>6. SocketsWhere
  BY <1>1 DEF Init, SocketsWhere, Sockets
<1> QED
  BY <1>3, <1>4, <1>5, <1>6 DEF Bookkeeping, ClientInv, NetInv

\* The client's part of a step that enters a call.
LEMMA SubmitClient ==
  ASSUME Bookkeeping, NEW c \in Calls, pc[c] \in {"idle", "connecting"},
         Submit(c), taskOf' = taskOf
  PROVE  ClientInv'
<1> USE DEF Bookkeeping, ClientInv
<1>1. PICK q \in Seq(Calls) :
        /\ q = Entered(c) /\ Distinct(q)
        /\ \A d : d \in Range(q) <=> d = c \/ (d \in Range(pending) /\ taskOf[d] # taskOf[c])
  BY EnteredOnce
<1>2. pending' = q
  BY <1>1 DEF Submit
<1>3. /\ \/ pc' = [pc EXCEPT ![c] = "done"] /\ answer' = [answer EXCEPT ![c] = "threw"] /\ timers' = timers
         \/ pc' = [pc EXCEPT ![c] = "waiting"] /\ answer' = answer /\ timers' = timers \cup {c}
      /\ via' = [via EXCEPT ![c] = 0]
      /\ UNCHANGED <<ws, made, told>>
  BY DEF Submit
<1>4. ClientTypes'
  <2>1. pc' \in [Calls -> {"idle", "connecting", "waiting", "done"}] /\ timers' \subseteq Calls
    BY <1>3 DEF ClientTypes
  <2>2. answer' \in [Calls -> Calls \cup {"none", "threw", "closed", "timeout"}]
    BY <1>3 DEF ClientTypes
  <2>3. via' \in [Calls -> 0..MaxSockets]
    BY <1>3, SocketAssumption DEF ClientTypes
  <2> QED
    BY <1>2, <1>3, <2>1, <2>2, <2>3 DEF ClientTypes
<1>5. KeysDiffer'
  BY <1>1, <1>2 DEF KeysDiffer, Distinct
<1>6. CallsWhere'
  <2>1. \A d \in Calls : d # c => pc'[d] = pc[d] /\ via'[d] = via[d] /\ answer'[d] = answer[d]
    BY <1>3 DEF ClientTypes
  <2>2. /\ pc'[c] \in {"waiting", "done"} /\ via'[c] = 0
        /\ pc'[c] = "waiting" => answer'[c] = answer[c]
    BY <1>3 DEF ClientTypes
  <2>3. \A d \in Range(q) : d \in Calls /\ (d # c => d \in Range(pending))
    BY <1>1, RangeOfSeq
  <2>4. 0 <= made /\ made' = made
    BY <1>3, SocketAssumption DEF ClientTypes
  <2> QED
    BY <1>2, <2>1, <2>2, <2>3, <2>4 DEF CallsWhere
<1>7. NoneForgotten'
  <2>1. \A d \in Calls : Unique(d)' <=> Unique(d)
    BY DEF Unique
  <2>2. \A d \in Calls : d # c => pc'[d] = pc[d] /\ answer'[d] = answer[d] /\ (d \in timers' <=> d \in timers)
    BY <1>3 DEF ClientTypes
  <2>3. pc'[c] = "waiting" \/ answer'[c] = "threw"
    BY <1>3 DEF ClientTypes
  <2>4. pc'[c] = "waiting" => c \in timers'
    BY <1>3 DEF ClientTypes
  <2>5. \A d \in Calls : pc'[d] = "waiting" /\ Unique(d) => d \in timers' /\ d \in Range(q)
    BY <1>1, <2>2, <2>4 DEF NoneForgotten, Unique
  <2>6. \A d \in Range(q) : pc'[d] = "waiting" \/ answer'[d] = "threw" \/ ~Unique(d)
    <3>1. Range(pending) \subseteq Calls
      BY RangeOfSeq DEF ClientTypes
    <3> QED
      BY <1>1, <2>2, <2>3, <3>1 DEF NoneForgotten
  <2>7. Range(q) \subseteq Calls
    BY <1>1, RangeOfSeq
  <2> QED
    BY <1>2, <2>1, <2>5, <2>6, <2>7 DEF NoneForgotten
<1> QED
  BY <1>4, <1>5, <1>6, <1>7

\* The network's part: the request goes out on the client's socket if that is open.
LEMMA SubmitNet ==
  ASSUME Bookkeeping, NEW c \in Calls, Submit(c), UNCHANGED <<taskOf, unread>>,
         \/ conn' = conn
         \/ \E s \in Sockets : conn[s] = "connecting" /\ conn' = [conn EXCEPT ![s] = "open"]
  PROVE  NetInv'
<1> USE DEF Bookkeeping, ClientInv, NetInv
<1>1. conn' \in [Sockets -> {"none", "closed"} \cup Live]
  BY DEF PeerTypes, Live
<1>2. /\ up' = up \/ (ws \in Sockets /\ conn'[ws] = "open" /\ up' = [up EXCEPT ![ws] = Append(@, c)])
      /\ orderly' \in BOOLEAN
      /\ UNCHANGED <<ws, made, down, running, subs>>
  BY SocketAssumption DEF Submit, peer, ClientTypes, PeerTypes, Sockets
<1>3. PeerTypes'
  <2>1. \A s \in Sockets : Append(up[s], c) \in Seq(Calls)
    BY AppendProperties DEF PeerTypes
  <2>2. up' \in [Sockets -> Seq(Calls)]
    BY <1>2, <2>1 DEF PeerTypes
  <2> QED
    BY <1>1, <1>2, <2>2 DEF PeerTypes
<1>4. SocketsWhere'
  <2>1. \A s \in Sockets : /\ conn'[s] = "none" <=> conn[s] = "none"
                           /\ conn'[s] = "closed" <=> conn[s] = "closed"
                           /\ conn[s] = "closing" => conn'[s] = "closing"
    BY DEF PeerTypes
  <2>2. \A s \in Sockets : conn'[s] \in {"none", "closed"} => up'[s] = up[s]
    BY <1>2 DEF PeerTypes
  <2>3. made # 0 => made \in Sockets
    BY SocketAssumption DEF ClientTypes, Sockets
  <2> QED
    BY <1>2, <2>1, <2>2, <2>3 DEF SocketsWhere
<1> QED
  BY <1>3, <1>4

LEMMA ExecuteOpenKeeps ==
  ASSUME Bookkeeping, NEW c \in Calls, ExecuteOpen(c), UNCHANGED <<taskOf, unread>>
  PROVE  Bookkeeping'
<1>1. ClientInv'
  BY SubmitClient DEF ExecuteOpen
<1>2. NetInv'
  BY SubmitNet DEF ExecuteOpen
<1> QED
  BY <1>1, <1>2 DEF Bookkeeping

LEMMA OpenedKeeps ==
  ASSUME Bookkeeping, NEW c \in Calls, Opened(c), UNCHANGED <<taskOf, unread>>
  PROVE  Bookkeeping'
<1>1. ClientInv'
  BY SubmitClient DEF Opened
<1>2. via[c] \in Sockets
  BY SocketAssumption DEF Opened, Bookkeeping, ClientInv, CallsWhere, ClientTypes, Sockets
<1>3. NetInv'
  BY <1>2, SubmitNet DEF Opened
<1> QED
  BY <1>1, <1>3 DEF Bookkeeping

LEMMA ExecuteConnectKeeps ==
  ASSUME Bookkeeping, NEW c \in Calls, ExecuteConnect(c), UNCHANGED <<taskOf, unread>>
  PROVE  Bookkeeping'
<1> USE SocketAssumption DEF Bookkeeping, ClientInv, NetInv
<1>1. PICK n \in Sockets : n = made + 1
  BY DEF ExecuteConnect, ClientTypes, Sockets
<1>2. /\ made' = n /\ ws' = n
      /\ conn' = [conn EXCEPT ![n] = "connecting"]
      /\ pc' = [pc EXCEPT ![c] = "connecting"]
      /\ via' = [via EXCEPT ![c] = n]
      /\ orderly' \in BOOLEAN
      /\ UNCHANGED <<pending, timers, answer, told, up, down, running, subs>>
      /\ pc[c] = "idle"
  BY <1>1 DEF ExecuteConnect, peer, PeerTypes
<1>3. n \in Nat /\ n # 0 /\ n <= MaxSockets
  BY DEF Sockets
<1>4. ClientTypes'
  BY <1>2, <1>3 DEF ClientTypes
<1>5. KeysDiffer'
  BY <1>2 DEF KeysDiffer, Distinct
<1>6. CallsWhere'
  BY <1>1, <1>2, <1>3 DEF CallsWhere, ClientTypes
<1>7. NoneForgotten'
  BY <1>2 DEF NoneForgotten, Unique, ClientTypes, CallsWhere
<1>8. PeerTypes'
  BY <1>2 DEF PeerTypes, Live
<1>9. SocketsWhere'
  <2>1. \A s \in Sockets : /\ s # n => conn'[s] = conn[s]
                           /\ s > n <=> s > made /\ s # n
                           /\ up'[s] = up[s] /\ down'[s] = down[s]
    BY <1>1, <1>2, <1>3 DEF PeerTypes, ClientTypes, Sockets
  <2>2. conn'[n] = "connecting" /\ ~(n > n)
    BY <1>2, <1>3 DEF PeerTypes
  <2>3. \A i \in 1..Len(running) : running[i][1] <= n
    <3>1. \A i \in 1..Len(running) : running[i][1] \in Sockets
      BY ElementOfSeq DEF PeerTypes
    <3> QED
      BY <1>1, <3>1 DEF SocketsWhere, ClientTypes, Sockets
  <2>4. \A t \in Tasks : \A s \in subs[t] : s <= n
    <3>1. \A t \in Tasks : subs[t] \subseteq Sockets
      BY DEF PeerTypes
    <3> QED
      BY <1>1, <3>1 DEF SocketsWhere, ClientTypes, Sockets
  <2> QED
    BY <1>2, <1>3, <2>1, <2>2, <2>3, <2>4 DEF SocketsWhere
<1> QED
  BY <1>4, <1>5, <1>6, <1>7, <1>8, <1>9

LEMMA ClosedKeeps ==
  ASSUME Bookkeeping, NEW s \in Sockets, Closed(s), UNCHANGED <<taskOf, unread>>
  PROVE  Bookkeeping'
<1> USE SocketAssumption DEF Bookkeeping, ClientInv, NetInv
<1> DEFINE lost == {c \in Calls : via[c] = s \/ (pc[c] = "waiting" /\ c \in Range(pending))}
<1>1. PICK L \in SUBSET Calls : L = lost
  OBVIOUS
<1>2. /\ conn[s] \in Live
      /\ conn' = [conn EXCEPT ![s] = "closed"]
      /\ pc' = [c \in Calls |-> IF c \in L THEN "done" ELSE pc[c]]
      /\ answer' = [c \in Calls |-> IF c \in L THEN "closed" ELSE answer[c]]
      /\ via' = [c \in Calls |-> IF via[c] = s THEN 0 ELSE via[c]]
      /\ pending' = <<>>
      /\ up' = [up EXCEPT ![s] = <<>>]
      /\ down' = [down EXCEPT ![s] = <<>>]
      /\ subs' = [t \in Tasks |-> subs[t] \ {s}]
      /\ orderly' \in BOOLEAN
      /\ UNCHANGED <<ws, made, timers, told, running>>
  BY <1>1 DEF Closed
<1>3. \A c \in Calls : c \in L <=> via[c] = s \/ (pc[c] = "waiting" /\ c \in Range(pending))
  BY <1>1
<1> HIDE DEF lost
<1>4. <<>> \in Seq(Calls) /\ <<>> \in Seq(Messages) /\ Len(<<>>) = 0
  BY EmptySeq
<1>5. Range(<<>>) = {}
  <2>1. <<>> \in Seq({})
    BY EmptySeq
  <2> QED
    BY <2>1, RangeOfSeq
<1>6. ClientTypes'
  <2>1. pc' \in [Calls -> {"idle", "connecting", "waiting", "done"}]
    BY <1>2 DEF ClientTypes
  <2>2. answer' \in [Calls -> Calls \cup {"none", "threw", "closed", "timeout"}]
    BY <1>2 DEF ClientTypes
  <2>3. via' \in [Calls -> 0..MaxSockets]
    BY <1>2 DEF ClientTypes
  <2> QED
    BY <1>2, <1>4, <2>1, <2>2, <2>3 DEF ClientTypes
<1>7. KeysDiffer'
  BY <1>2, <1>4 DEF KeysDiffer, Distinct
<1>8. CallsWhere'
  <2>1. s # 0 /\ 0 <= made
    BY DEF Sockets, ClientTypes
  <2> QED
    BY <1>2, <1>3, <1>5, <2>1 DEF CallsWhere, ClientTypes
<1>9. NoneForgotten'
  <2>1. \A c \in Calls : ~(pc'[c] = "waiting" /\ Unique(c))
    BY <1>2, <1>3 DEF NoneForgotten
  <2> QED
    BY <1>2, <1>5, <2>1 DEF NoneForgotten, Unique
<1>10. PeerTypes'
  <2>1. subs' \in [Tasks -> SUBSET Sockets]
    BY <1>2 DEF PeerTypes
  <2>2. conn' \in [Sockets -> {"none", "closed"} \cup Live]
    BY <1>2 DEF PeerTypes
  <2> QED
    BY <1>2, <1>4, <2>1, <2>2 DEF PeerTypes
<1>11. SocketsWhere'
  <2>1. \A r \in Sockets : r # s => conn'[r] = conn[r] /\ up'[r] = up[r] /\ down'[r] = down[r]
    BY <1>2 DEF PeerTypes
  <2>2. conn'[s] = "closed" /\ conn[s] # "none" /\ up'[s] = <<>> /\ down'[s] = <<>>
    BY <1>2 DEF PeerTypes, Live
  <2>3. made # 0 => made \in Sockets
    BY DEF ClientTypes, Sockets
  <2> QED
    BY <1>2, <2>1, <2>2, <2>3 DEF SocketsWhere
<1> QED
  BY <1>6, <1>7, <1>8, <1>9, <1>10, <1>11

LEMMA CloseKeeps ==
  ASSUME Bookkeeping, Close, UNCHANGED <<taskOf, unread>>
  PROVE  Bookkeeping'
<1> USE SocketAssumption DEF Bookkeeping, ClientInv, NetInv
<1>1. ws \in Sockets /\ ws = made
  BY DEF Close, SocketsWhere, ClientTypes, Sockets
<1>2. /\ conn' = IF conn[ws] = "closed" THEN conn ELSE [conn EXCEPT ![ws] = "closing"]
      /\ ws' = 0
      /\ UNCHANGED <<taskOf, made, pc, via, pending, timers, answer, told, up, down, running, subs, orderly, unread>>
  BY DEF Close, peer
<1>3. ClientInv'
  BY <1>2 DEF ClientTypes, KeysDiffer, Distinct, CallsWhere, NoneForgotten, Unique
<1>4. PeerTypes'
  BY <1>1, <1>2 DEF PeerTypes, Live
<1>5. SocketsWhere'
  <2>1. /\ \A s \in Sockets : s # made => conn'[s] = conn[s]
        /\ conn[made] # "none"
        /\ conn'[made] = "closing" \/ (conn'[made] = "closed" /\ conn[made] = "closed")
    BY <1>1, <1>2 DEF PeerTypes, SocketsWhere, ClientTypes, Sockets
  <2> QED
    BY <1>1, <1>2, <2>1 DEF SocketsWhere
<1> QED
  BY <1>3, <1>4, <1>5

LEMMA TimeoutLeaves ==
  ASSUME Bookkeeping, NEW c \in Calls, Timeout(c), UNCHANGED <<taskOf, unread>>
  PROVE  Bookkeeping'
<1> USE SocketAssumption DEF Bookkeeping, ClientInv, NetInv
<1>1. PICK q \in Seq(Calls) :
        /\ q = Deleted(taskOf[c]) /\ Distinct(q)
        /\ \A d : d \in Range(q) <=> d \in Range(pending) /\ taskOf[d] # taskOf[c]
  <2>1. taskOf[c] \in Tasks
    BY DEF ClientTypes
  <2> QED
    BY <2>1, DeletedOnly
<1>2. pending' = q /\ timers' = timers \ {c} /\ UNCHANGED <<ws, made, via, told, conn, up, down, running, subs>>
  BY <1>1 DEF Timeout, net, peer
<1>3. \/ /\ pc[c] = "waiting"
         /\ pc' = [pc EXCEPT ![c] = "done"] /\ answer' = [answer EXCEPT ![c] = "timeout"]
      \/ (Keys(taskOf[c]) = {} \/ pc[c] # "waiting") /\ UNCHANGED <<pc, answer>>
  BY DEF Timeout
<1>4. ClientTypes'
  <2>1. pc' \in [Calls -> {"idle", "connecting", "waiting", "done"}]
    BY <1>3 DEF ClientTypes
  <2>2. answer' \in [Calls -> Calls \cup {"none", "threw", "closed", "timeout"}]
    BY <1>3 DEF ClientTypes
  <2> QED
    BY <1>1, <1>2, <2>1, <2>2 DEF ClientTypes
<1>5. KeysDiffer'
  BY <1>1, <1>2 DEF KeysDiffer, Distinct
<1>6. \A d \in Calls : d # c => pc'[d] = pc[d] /\ answer'[d] = answer[d] /\ (d \in timers' <=> d \in timers)
  BY <1>2, <1>3 DEF ClientTypes
<1>7. /\ pc[c] # "done" =>
           \/ pc'[c] = pc[c] /\ answer'[c] = answer[c]
           \/ pc[c] = "waiting" /\ pc'[c] = "done"
      /\ pc[c] = "done" => pc'[c] = "done"
  BY <1>3 DEF ClientTypes
<1>8. Range(q) \subseteq Calls
  BY <1>1, RangeOfSeq
<1>9. CallsWhere'
  BY <1>1, <1>2, <1>6, <1>7, <1>8 DEF CallsWhere
<1>10. NoneForgotten'
  <2>1. c \notin Range(pending) => ~(pc[c] = "waiting" /\ Unique(c))
    BY DEF NoneForgotten
  <2>2. c \in Range(pending) => Keys(taskOf[c]) # {}
    <3>1. c \in Range(pending) <=> \E i \in 1..Len(pending) : pending[i] = c
      BY InRange DEF ClientTypes
    <3> QED
      BY <3>1 DEF Keys
  <2>3. Unique(c) => pc'[c] # "waiting"
    BY <1>3, <2>1, <2>2 DEF ClientTypes
  <2>4. \A d \in Calls : d # c /\ pc'[d] = "waiting" /\ Unique(d) => d \in timers' /\ d \in Range(q)
    BY <1>1, <1>6 DEF NoneForgotten, Unique
  <2>5. \A d \in Range(q) : pc'[d] = "waiting" \/ answer'[d] = "threw" \/ ~Unique(d)
    BY <1>1, <1>6, <1>8 DEF NoneForgotten
  <2>6. \A d \in Calls : Unique(d)' <=> Unique(d)
    BY DEF Unique
  <2> QED
    BY <1>2, <1>8, <2>3, <2>4, <2>5, <2>6 DEF NoneForgotten
<1>11. NetInv'
  <2>1. orderly' \in BOOLEAN
    BY DEF Timeout, PeerTypes
  <2> QED
    BY <1>2, <2>1 DEF PeerTypes, SocketsWhere
<1> QED
  BY <1>4, <1>5, <1>9, <1>10, <1>11

LEMMA ReceiveKeeps ==
  ASSUME Bookkeeping, NEW s \in Sockets, Receive(s), UNCHANGED <<taskOf, unread>>
  PROVE  Bookkeeping'
<1> USE SocketAssumption DEF Bookkeeping, ClientInv, NetInv
<1> DEFINE m == Head(down[s])
<1>1. m \in Messages
  BY HeadTailProperties DEF Receive, PeerTypes
<1>2. /\ conn[s] \in {"open", "closing"}
      /\ (m.kind = "status" /\ Report(m)) \/ (m.kind = "artifact" /\ Resolve(m))
      /\ down' = [down EXCEPT ![s] = Tail(@)]
      /\ UNCHANGED <<ws, made, via, conn, up, running, subs, orderly>>
  BY DEF Receive, peer
<1> HIDE DEF m
<1>3. NetInv'
  <2>1. Tail(down[s]) \in Seq(Messages)
    BY HeadTailProperties DEF Receive, PeerTypes
  <2>2. PeerTypes'
    BY <1>2, <2>1 DEF PeerTypes
  <2>3. \A r \in Sockets : r # s => down'[r] = down[r]
    BY <1>2 DEF PeerTypes
  <2>4. SocketsWhere'
    BY <1>2, <2>3 DEF SocketsWhere
  <2> QED
    BY <2>2, <2>4
<1>4. CASE m.kind = "status" /\ Report(m)
  <2>1. m.status \in {"executing"} \cup Final
    BY <1>1, <1>4 DEF Messages
  <2>2. told' \in [Calls -> {"nothing", "executing"} \cup Final]
    BY <1>4, <2>1 DEF Report, ClientTypes
  <2>3. UNCHANGED <<taskOf, ws, made, via, pending, pc, answer, timers>>
    BY <1>2, <1>4 DEF Report
  <2>4. ClientInv'
    BY <2>2, <2>3 DEF ClientTypes, KeysDiffer, Distinct, CallsWhere, NoneForgotten, Unique
  <2> QED
    BY <1>3, <2>4
<1>5. CASE m.kind = "artifact" /\ Resolve(m) /\ pending = <<>>
  <2>1. UNCHANGED <<taskOf, ws, made, via, pending, pc, answer, timers, told>>
    BY <1>2, <1>5 DEF Resolve
  <2>2. ClientInv'
    BY <2>1 DEF ClientTypes, KeysDiffer, Distinct, CallsWhere, NoneForgotten, Unique
  <2> QED
    BY <1>3, <2>2
<1>6. CASE m.kind = "artifact" /\ Resolve(m) /\ pending # <<>>
  <2>1. PICK c \in Calls, q \in Seq(Calls) :
          /\ c = Head(pending) /\ q = Tail(pending) /\ Distinct(q) /\ c \in Range(pending)
          /\ \A d : d \in Range(q) <=> d \in Range(pending) /\ d # c
    BY <1>6, TailDistinct
  <2>2. m.call \in Calls
    BY <1>1, <1>6 DEF Messages
  <2>3. /\ pending' = q
        /\ \/ pc[c] # "waiting" /\ UNCHANGED <<pc, answer, timers>>
           \/ /\ pc[c] = "waiting"
              /\ pc' = [pc EXCEPT ![c] = "done"]
              /\ answer' = [answer EXCEPT ![c] = m.call]
              /\ timers' = timers \ {c}
        /\ UNCHANGED <<ws, made, via, told, taskOf>>
    BY <1>2, <1>6, <2>1 DEF Resolve
  <2>4. ClientTypes'
    <3>1. pc' \in [Calls -> {"idle", "connecting", "waiting", "done"}]
      BY <2>3 DEF ClientTypes
    <3>2. answer' \in [Calls -> Calls \cup {"none", "threw", "closed", "timeout"}]
      BY <2>2, <2>3 DEF ClientTypes
    <3>3. timers' \subseteq Calls
      BY <2>3 DEF ClientTypes
    <3> QED
      BY <2>1, <2>3, <3>1, <3>2, <3>3 DEF ClientTypes
  <2>5. KeysDiffer'
    BY <2>1, <2>3 DEF KeysDiffer, Distinct
  <2>6. \A d \in Calls : d # c => pc'[d] = pc[d] /\ answer'[d] = answer[d] /\ (d \in timers' <=> d \in timers)
    BY <2>3 DEF ClientTypes
  <2>7. pc[c] \in {"waiting", "done"} /\ pc'[c] = "done"
    BY <2>1, <2>3 DEF CallsWhere, ClientTypes
  <2>8. Range(q) \subseteq Calls
    BY <2>1, RangeOfSeq
  <2>9. CallsWhere'
    BY <2>1, <2>3, <2>6, <2>7, <2>8 DEF CallsWhere
  <2>10. NoneForgotten'
    <3>1. \A d \in Calls : pc'[d] = "waiting" /\ Unique(d) => d \in timers' /\ d \in Range(q)
      BY <2>1, <2>6, <2>7 DEF NoneForgotten
    <3>2. \A d \in Range(q) : pc'[d] = "waiting" \/ answer'[d] = "threw" \/ ~Unique(d)
      BY <2>1, <2>6, <2>8 DEF NoneForgotten
    <3>3. \A d \in Calls : Unique(d)' <=> Unique(d)
      BY DEF Unique
    <3> QED
      BY <2>3, <2>8, <3>1, <3>2, <3>3 DEF NoneForgotten
  <2> QED
    BY <1>3, <2>4, <2>5, <2>9, <2>10
<1> QED
  BY <1>2, <1>4, <1>5, <1>6

LEMMA UnverifiedKeeps ==
  ASSUME Bookkeeping, NEW s \in Sockets, Unverified(s), UNCHANGED taskOf
  PROVE  Bookkeeping'
<1> USE DEF Bookkeeping, ClientInv, NetInv
<1>1. /\ conn[s] \in {"open", "closing"}
      /\ down' = [down EXCEPT ![s] = Tail(@)]
      /\ orderly' \in BOOLEAN /\ unread' \in BOOLEAN
      /\ UNCHANGED <<taskOf, ws, made, via, pending, pc, answer, timers, told, conn, up, running, subs>>
  BY DEF Unverified, client, peer
<1>2. Tail(down[s]) \in Seq(Messages)
  BY HeadTailProperties DEF Unverified, PeerTypes
<1>3. ClientInv'
  BY <1>1 DEF ClientTypes, KeysDiffer, Distinct, CallsWhere, NoneForgotten, Unique
<1>4. PeerTypes'
  BY <1>1, <1>2 DEF PeerTypes
<1>5. \A r \in Sockets : r # s => down'[r] = down[r]
  BY <1>1 DEF PeerTypes
<1>6. SocketsWhere'
  BY <1>1, <1>5 DEF SocketsWhere
<1> QED
  BY <1>3, <1>4, <1>6

\* A status goes to the end of what is under way to the connected followers.
LEMMA EmittedTo ==
  ASSUME PeerTypes, NEW F \in SUBSET Sockets, NEW t \in Tasks, NEW v \in {"executing"} \cup Final
  PROVE  /\ Status(t, v) \in Messages
         /\ Emitted(F, t, v) \in [Sockets -> Seq(Messages)]
         /\ \A s \in Sockets :
              Emitted(F, t, v)[s] = IF s \in F /\ conn[s] # "closed"
                                    THEN Append(down[s], Status(t, v)) ELSE down[s]
<1>1. Status(t, v) \in Messages
  BY DEF Status, Messages
<1>2. \A s \in Sockets : down[s] \in Seq(Messages) /\ Append(down[s], Status(t, v)) \in Seq(Messages)
  BY <1>1, AppendProperties DEF PeerTypes
<1> QED
  BY <1>1, <1>2 DEF Emitted

\* The peer's steps leave the client alone, and are told to connected sockets only.
LEMMA PeerKeeps ==
  ASSUME Bookkeeping, UNCHANGED <<client, conn, taskOf, unread>>, orderly' \in BOOLEAN,
         up' \in [Sockets -> Seq(Calls)],
         down' \in [Sockets -> Seq(Messages)],
         running' \in Seq(Sockets \X Calls),
         subs' \in [Tasks -> SUBSET Sockets],
         \A s \in Sockets : conn[s] \in {"none", "closed"} => up'[s] = up[s] /\ down'[s] = down[s],
         \A i \in 1..Len(running') : running'[i][1] <= made,
         \A t \in Tasks : \A s \in subs'[t] : s <= made
  PROVE  Bookkeeping'
<1> USE DEF Bookkeeping, ClientInv, NetInv
<1>1. UNCHANGED <<taskOf, ws, made, via, pending, pc, answer, timers, told, conn, unread>>
  BY DEF client
<1>2. ClientInv'
  BY <1>1 DEF ClientTypes, KeysDiffer, Distinct, CallsWhere, NoneForgotten, Unique
<1>3. PeerTypes'
  BY <1>1 DEF PeerTypes
<1>4. SocketsWhere'
  BY <1>1 DEF SocketsWhere
<1> QED
  BY <1>2, <1>3, <1>4

\* A request that arrives is the first of its socket.
LEMMA ArrivesKeeps ==
  ASSUME NetInv, NEW s \in Sockets, NEW c \in Calls, Arrives(s, c)
  PROVE  /\ conn[s] \in {"open", "closing"}
         /\ up[s] # <<>> /\ up[s] \in Seq(Calls) /\ c = Head(up[s])
         /\ up' = [up EXCEPT ![s] = Tail(@)]
         /\ up' \in [Sockets -> Seq(Calls)]
         /\ \A r \in Sockets : r # s => up'[r] = up[r]
         /\ up'[s] = Tail(up[s])
BY HeadTailProperties DEF Arrives, NetInv, PeerTypes

\* What each step of the peer does, socket by socket.
LEMMA AcceptDoes ==
  ASSUME NetInv, taskOf \in [Calls -> Tasks], NEW s \in Sockets, NEW c \in Calls, Accept(s, c)
  PROVE  /\ subs' = [subs EXCEPT ![taskOf[c]] = @ \cup {s}]
         /\ subs' \in [Tasks -> SUBSET Sockets]
         /\ down' \in [Sockets -> Seq(Messages)]
         /\ Status(taskOf[c], "executing") \in Messages
         /\ \A r \in Sockets :
              down'[r] = IF r \in subs[taskOf[c]] \cup {s} /\ conn[r] # "closed"
                         THEN Append(down[r], Status(taskOf[c], "executing")) ELSE down[r]
         /\ running' = Append(running, <<s, c>>)
         /\ running' \in Seq(Sockets \X Calls)
         /\ UNCHANGED <<client, conn, orderly>>
<1> USE DEF NetInv
<1>1. taskOf[c] \in Tasks
  OBVIOUS
<1>2. subs' = [subs EXCEPT ![taskOf[c]] = @ \cup {s}] /\ subs' \in [Tasks -> SUBSET Sockets]
  BY <1>1 DEF Accept, PeerTypes
<1>3. PICK F \in SUBSET Sockets : F = subs'[taskOf[c]]
  BY <1>1, <1>2
<1>4. F = subs[taskOf[c]] \cup {s}
  BY <1>1, <1>2, <1>3 DEF PeerTypes
<1>5. down' = Emitted(F, taskOf[c], "executing")
  BY <1>3 DEF Accept
<1>6. running' = Append(running, <<s, c>>) /\ running' \in Seq(Sockets \X Calls)
  <2>1. <<s, c>> \in Sockets \X Calls
    OBVIOUS
  <2> QED
    BY <2>1, AppendProperties DEF Accept, PeerTypes
<1>7. UNCHANGED <<client, conn, orderly>>
  BY DEF Accept
<1>8. /\ Status(taskOf[c], "executing") \in Messages
      /\ down' \in [Sockets -> Seq(Messages)]
      /\ \A r \in Sockets :
           down'[r] = IF r \in F /\ conn[r] # "closed"
                      THEN Append(down[r], Status(taskOf[c], "executing")) ELSE down[r]
  BY <1>1, <1>5, EmittedTo
<1> QED
  BY <1>2, <1>4, <1>6, <1>7, <1>8

LEMMA RefuseDoes ==
  ASSUME NetInv, taskOf \in [Calls -> Tasks], NEW s \in Sockets, NEW c \in Calls, Refuse(s, c)
  PROVE  /\ \A t \in Tasks : subs'[t] = IF t = taskOf[c] THEN {} ELSE subs[t]
         /\ subs' \in [Tasks -> SUBSET Sockets]
         /\ down' \in [Sockets -> Seq(Messages)]
         /\ Status(taskOf[c], "failed") \in Messages
         /\ \A r \in Sockets :
              down'[r] = IF r \in subs[taskOf[c]] /\ conn[r] # "closed"
                         THEN Append(down[r], Status(taskOf[c], "failed")) ELSE down[r]
         /\ orderly' = FALSE
         /\ UNCHANGED <<client, conn, running>>
<1> USE DEF NetInv
<1>1. taskOf[c] \in Tasks /\ subs[taskOf[c]] \in SUBSET Sockets
  BY DEF PeerTypes
<1>2. (\A t \in Tasks : subs'[t] = IF t = taskOf[c] THEN {} ELSE subs[t]) /\ subs' \in [Tasks -> SUBSET Sockets]
  BY <1>1 DEF Refuse, PeerTypes
<1>3. down' = Emitted(subs[taskOf[c]], taskOf[c], "failed")
  BY DEF Refuse
<1>4. UNCHANGED <<client, conn, running>> /\ orderly' = FALSE
  BY DEF Refuse
<1>5. PeerTypes /\ "failed" \in {"executing"} \cup Final
  BY DEF Final
<1>6. /\ Status(taskOf[c], "failed") \in Messages
      /\ Emitted(subs[taskOf[c]], taskOf[c], "failed") \in [Sockets -> Seq(Messages)]
      /\ \A r \in Sockets :
           Emitted(subs[taskOf[c]], taskOf[c], "failed")[r] =
             IF r \in subs[taskOf[c]] /\ conn[r] # "closed"
             THEN Append(down[r], Status(taskOf[c], "failed")) ELSE down[r]
  <2> HIDE DEF NetInv
  <2> QED
    BY <1>1, <1>5, EmittedTo
<1> HIDE DEF NetInv
<1> QED
  BY <1>2, <1>3, <1>4, <1>6

LEMMA Running ==
  ASSUME NetInv, NEW i \in 1..Len(running)
  PROVE  \E s \in Sockets, c \in Calls : running[i] = <<s, c>> /\ running[i][1] = s /\ running[i][2] = c
<1>1. running[i] \in Sockets \X Calls
  BY ElementOfSeq DEF NetInv, PeerTypes
<1> QED
  BY <1>1

\* What goes out when a handler returns: the status, then the result.
Sends(s, c, v, reported) ==
  /\ \A r \in Sockets :
       reported[r] = IF r \in subs[taskOf[c]] /\ conn[r] # "closed"
                     THEN Append(down[r], Status(taskOf[c], v)) ELSE down[r]
  /\ \A r \in Sockets :
       down'[r] = IF r = s /\ conn[s] # "closed"
                  THEN Append(reported[r], Artifact(c)) ELSE reported[r]

LEMMA FinishTells ==
  ASSUME NetInv, taskOf \in [Calls -> Tasks],
         NEW x \in 1..Len(running), NEW v \in Final, Finish(x, v),
         NEW s \in Sockets, NEW c \in Calls, running[x] = <<s, c>>
  PROVE  /\ down' \in [Sockets -> Seq(Messages)]
         /\ \E reported \in [Sockets -> Seq(Messages)] : Sends(s, c, v, reported)
<1> USE DEF NetInv
<1>1. running[x][1] = s /\ running[x][2] = c
  OBVIOUS
<1>2. taskOf[c] \in Tasks /\ subs[taskOf[c]] \in SUBSET Sockets /\ v \in {"executing"} \cup Final
  BY DEF PeerTypes
<1>3. PICK reported \in [Sockets -> Seq(Messages)] : reported = Emitted(subs[taskOf[c]], taskOf[c], v)
  BY <1>2, EmittedTo
<1>4. \A r \in Sockets :
        reported[r] = IF r \in subs[taskOf[c]] /\ conn[r] # "closed"
                      THEN Append(down[r], Status(taskOf[c], v)) ELSE down[r]
  BY <1>2, <1>3, EmittedTo
<1>5. down' = IF conn[s] = "closed" THEN reported
              ELSE [reported EXCEPT ![s] = Append(@, Artifact(c))]
  BY <1>1, <1>3 DEF Finish
<1>6. Artifact(c) \in Messages
  BY DEF Artifact, Messages
<1>7. Append(reported[s], Artifact(c)) \in Seq(Messages)
  BY <1>6, AppendProperties
<1>8. /\ down' \in [Sockets -> Seq(Messages)]
      /\ \A r \in Sockets :
           down'[r] = IF r = s /\ conn[s] # "closed"
                      THEN Append(reported[r], Artifact(c)) ELSE reported[r]
  BY <1>5, <1>7
<1> QED
  BY <1>4, <1>8 DEF Sends

LEMMA FinishDoes ==
  ASSUME NetInv, taskOf \in [Calls -> Tasks],
         NEW i \in 1..Len(running), NEW v \in Final, Finish(i, v),
         NEW s \in Sockets, NEW c \in Calls, running[i] = <<s, c>>
  PROVE  /\ \A t \in Tasks : subs'[t] = IF t = taskOf[c] THEN {} ELSE subs[t]
         /\ subs' \in [Tasks -> SUBSET Sockets]
         /\ down' \in [Sockets -> Seq(Messages)]
         /\ Status(taskOf[c], v) \in Messages /\ Artifact(c) \in Messages
         /\ running' = RemoveAt(running, i)
         /\ running' \in Seq(Sockets \X Calls)
         /\ orderly' = (orderly /\ (conn[s] # "closed" => \A j \in 1..(i - 1) : running[j][1] # s))
         /\ UNCHANGED <<client, conn, up>>
<1> USE DEF NetInv
<1>1. running[i][1] = s /\ running[i][2] = c
  OBVIOUS
<1>2. taskOf[c] \in Tasks /\ subs[taskOf[c]] \in SUBSET Sockets
  BY DEF PeerTypes
<1>3. Status(taskOf[c], v) \in Messages /\ Artifact(c) \in Messages
  BY <1>2 DEF Status, Artifact, Messages
<1>4. down' \in [Sockets -> Seq(Messages)]
  BY FinishTells
<1>5. \A t \in Tasks : subs'[t] = IF t = taskOf[c] THEN {} ELSE subs[t]
  BY <1>1 DEF Finish, PeerTypes
<1>6. subs' \in [Tasks -> SUBSET Sockets]
  BY <1>1 DEF Finish, PeerTypes
<1>7. running' = RemoveAt(running, i) /\ running' \in Seq(Sockets \X Calls)
  BY Removed DEF Finish, PeerTypes
<1>8. /\ orderly' = (orderly /\ (conn[s] # "closed" => \A j \in 1..(i - 1) : running[j][1] # s))
       /\ UNCHANGED <<client, conn, up>>
  BY <1>1 DEF Finish
<1> QED
  BY <1>3, <1>4, <1>5, <1>6, <1>7, <1>8

LEMMA ThrowsDoes ==
  ASSUME NetInv, taskOf \in [Calls -> Tasks], NEW i \in 1..Len(running), Throws(i),
         NEW s \in Sockets, NEW c \in Calls, running[i] = <<s, c>>
  PROVE  /\ \A t \in Tasks : subs'[t] = IF t = taskOf[c] THEN {} ELSE subs[t]
         /\ subs' \in [Tasks -> SUBSET Sockets]
         /\ down' \in [Sockets -> Seq(Messages)]
         /\ Status(taskOf[c], "failed") \in Messages
         /\ \A r \in Sockets :
              down'[r] = IF r \in subs[taskOf[c]] /\ conn[r] # "closed"
                         THEN Append(down[r], Status(taskOf[c], "failed")) ELSE down[r]
         /\ running' = RemoveAt(running, i)
         /\ running' \in Seq(Sockets \X Calls)
         /\ orderly' = (orderly /\ conn[s] = "closed")
         /\ UNCHANGED <<client, conn, up>>
<1> USE DEF NetInv
<1>1. running[i][1] = s /\ running[i][2] = c
  OBVIOUS
<1>2. taskOf[c] \in Tasks /\ subs[taskOf[c]] \in SUBSET Sockets
  BY DEF PeerTypes
<1>3. down' = Emitted(subs[taskOf[c]], taskOf[c], "failed")
  BY <1>1 DEF Throws
<1>4. (\A t \in Tasks : subs'[t] = IF t = taskOf[c] THEN {} ELSE subs[t]) /\ subs' \in [Tasks -> SUBSET Sockets]
  BY <1>1 DEF Throws, PeerTypes
<1>5. running' = RemoveAt(running, i) /\ running' \in Seq(Sockets \X Calls)
  BY Removed DEF Throws, PeerTypes
<1>6. orderly' = (orderly /\ conn[s] = "closed") /\ UNCHANGED <<client, conn, up>>
  BY <1>1 DEF Throws
<1>7. "failed" \in {"executing"} \cup Final
  BY DEF Final
<1>8. /\ Status(taskOf[c], "failed") \in Messages
      /\ down' \in [Sockets -> Seq(Messages)]
      /\ \A r \in Sockets :
           down'[r] = IF r \in subs[taskOf[c]] /\ conn[r] # "closed"
                      THEN Append(down[r], Status(taskOf[c], "failed")) ELSE down[r]
  BY <1>2, <1>3, <1>7, EmittedTo
<1> QED
  BY <1>3, <1>4, <1>5, <1>6, <1>8

\* Followers and callers have sockets that were made.
LEMMA Made ==
  ASSUME Bookkeeping
  PROVE  /\ made \in Nat
         /\ NetInv /\ taskOf \in [Calls -> Tasks]
         /\ \A s \in Sockets : s \in Int
         /\ \A s \in Sockets : conn[s] = "none" => ~(s <= made)
         /\ \A s \in Sockets : conn[s] # "none" => s <= made
         /\ \A t \in Tasks : \A s \in subs[t] : s \in Sockets /\ s <= made
<1>1. made \in Nat /\ NetInv /\ taskOf \in [Calls -> Tasks]
  BY SocketAssumption DEF Bookkeeping, ClientInv, ClientTypes
<1>2. \A s \in Sockets : s \in Int
  BY DEF Sockets
<1>3. \A s \in Sockets : conn[s] = "none" <=> s > made
  BY <1>1 DEF NetInv, SocketsWhere
<1>4. \A t \in Tasks : \A s \in subs[t] : s \in Sockets /\ s <= made
  BY <1>1 DEF NetInv, PeerTypes, SocketsWhere
<1> QED
  BY <1>1, <1>2, <1>3, <1>4

LEMMA AcceptKeeps ==
  ASSUME Bookkeeping, NEW s \in Sockets, NEW c \in Calls, Accept(s, c), UNCHANGED <<taskOf, unread>>
  PROVE  Bookkeeping'
<1>1. NetInv /\ taskOf \in [Calls -> Tasks] /\ Arrives(s, c) /\ taskOf[c] \in Tasks
  BY Made DEF Accept
<1>2. /\ conn[s] \in {"open", "closing"}
      /\ up' \in [Sockets -> Seq(Calls)]
      /\ \A r \in Sockets : r # s => up'[r] = up[r]
  BY <1>1, ArrivesKeeps
<1>3. s <= made
  BY <1>2, Made
<1>4. /\ subs' = [subs EXCEPT ![taskOf[c]] = @ \cup {s}]
      /\ subs' \in [Tasks -> SUBSET Sockets]
      /\ down' \in [Sockets -> Seq(Messages)]
      /\ \A r \in Sockets :
           r \notin subs[taskOf[c]] \cup {s} \/ conn[r] = "closed" => down'[r] = down[r]
      /\ running' = Append(running, <<s, c>>)
      /\ running' \in Seq(Sockets \X Calls)
      /\ UNCHANGED <<client, conn, orderly>>
  BY <1>1, AcceptDoes
<1>5. \A i \in 1..Len(running') : running'[i][1] <= made
  <2>1. <<s, c>> \in Sockets \X Calls /\ running \in Seq(Sockets \X Calls)
    BY <1>1 DEF NetInv, PeerTypes
  <2>2. PICK n \in Nat : n = Len(running)
    BY <2>1, LenProperties
  <2>3. /\ Len(running') = n + 1
        /\ running'[n + 1] = <<s, c>>
        /\ \A i \in 1..n : running'[i] = running[i]
    BY <1>4, <2>1, <2>2, AppendProperties
  <2>4. \A i \in 1..(n + 1) : i = n + 1 \/ i \in 1..n
    BY <2>2
  <2> QED
    BY <1>1, <1>3, <2>2, <2>3, <2>4 DEF NetInv, SocketsWhere
<1>6. \A t \in Tasks : \A r \in subs'[t] : r <= made
  BY <1>1, <1>3, <1>4, Made DEF NetInv, PeerTypes
<1>7. \A r \in Sockets : conn[r] \in {"none", "closed"} => up'[r] = up[r] /\ down'[r] = down[r]
  BY <1>1, <1>2, <1>3, <1>4, Made
<1>8. orderly' \in BOOLEAN
  BY <1>1, <1>4 DEF NetInv, PeerTypes
<1> QED
  BY <1>2, <1>4, <1>5, <1>6, <1>7, <1>8, PeerKeeps

LEMMA RejectKeeps ==
  ASSUME Bookkeeping, NEW s \in Sockets, NEW c \in Calls, Reject(s, c), UNCHANGED <<taskOf, unread>>
  PROVE  Bookkeeping'
<1>1. NetInv /\ Arrives(s, c)
  BY Made DEF Reject
<1>2. /\ conn[s] \in {"open", "closing"}
      /\ up' \in [Sockets -> Seq(Calls)]
      /\ \A r \in Sockets : r # s => up'[r] = up[r]
  BY <1>1, ArrivesKeeps
<1>3. orderly' = FALSE /\ UNCHANGED <<client, conn, down, running, subs>>
  BY DEF Reject, peer
<1> QED
  BY <1>1, <1>2, <1>3, PeerKeeps DEF NetInv, PeerTypes, SocketsWhere

LEMMA RefuseKeeps ==
  ASSUME Bookkeeping, NEW s \in Sockets, NEW c \in Calls, Refuse(s, c), UNCHANGED <<taskOf, unread>>
  PROVE  Bookkeeping'
<1>1. NetInv /\ taskOf \in [Calls -> Tasks] /\ Arrives(s, c) /\ taskOf[c] \in Tasks
  BY Made DEF Refuse
<1>2. /\ conn[s] \in {"open", "closing"}
      /\ up' \in [Sockets -> Seq(Calls)]
      /\ \A r \in Sockets : r # s => up'[r] = up[r]
  BY <1>1, ArrivesKeeps
<1>3. /\ \A t \in Tasks : subs'[t] = IF t = taskOf[c] THEN {} ELSE subs[t]
      /\ subs' \in [Tasks -> SUBSET Sockets]
      /\ down' \in [Sockets -> Seq(Messages)]
      /\ \A r \in Sockets : r \notin subs[taskOf[c]] \/ conn[r] = "closed" => down'[r] = down[r]
      /\ orderly' = FALSE
      /\ UNCHANGED <<client, conn, running>>
  BY <1>1, RefuseDoes
<1>4. \A t \in Tasks : \A r \in subs'[t] : r <= made
  BY <1>1, <1>3, Made DEF NetInv, PeerTypes
<1>5. \A r \in Sockets : conn[r] \in {"none", "closed"} => up'[r] = up[r] /\ down'[r] = down[r]
  BY <1>1, <1>2, <1>3, Made
<1> QED
  BY <1>1, <1>2, <1>3, <1>4, <1>5, PeerKeeps DEF NetInv, PeerTypes, SocketsWhere

\* Those still running, once one of them is over.
LEMMA StillRunning ==
  ASSUME NetInv, NEW i \in 1..Len(running), running' = RemoveAt(running, i)
  PROVE  \A j \in 1..Len(running') : \E k \in 1..Len(running) :
           /\ running'[j] = running[k] /\ k # i
           /\ k = IF j < i THEN j ELSE j + 1
<1>1. PICK n \in Nat : n = Len(running)
  BY LenProperties DEF NetInv, PeerTypes
<1>2. /\ Len(running') = n - 1
      /\ \A j \in 1..(n - 1) : running'[j] = IF j < i THEN running[j] ELSE running[j + 1]
  BY <1>1, Removed DEF NetInv, PeerTypes
<1> QED
  BY <1>1, <1>2

LEMMA FinishKeeps ==
  ASSUME Bookkeeping, NEW i \in 1..Len(running), NEW v \in Final, Finish(i, v), UNCHANGED <<taskOf, unread>>
  PROVE  Bookkeeping'
<1>1. NetInv /\ taskOf \in [Calls -> Tasks]
  BY Made
<1>2. PICK s \in Sockets, c \in Calls : running[i] = <<s, c>> /\ running[i][1] = s
  BY <1>1, Running
<1>3. taskOf[c] \in Tasks /\ s <= made
  BY <1>1, <1>2 DEF NetInv, SocketsWhere
<1>4. /\ \A t \in Tasks : subs'[t] = IF t = taskOf[c] THEN {} ELSE subs[t]
      /\ subs' \in [Tasks -> SUBSET Sockets]
      /\ down' \in [Sockets -> Seq(Messages)]
      /\ running' = RemoveAt(running, i)
      /\ running' \in Seq(Sockets \X Calls)
      /\ UNCHANGED <<client, conn, up>>
  BY <1>1, <1>2, FinishDoes
<1>5. \A r \in Sockets : (r \notin subs[taskOf[c]] /\ r # s) \/ conn[r] = "closed" => down'[r] = down[r]
  BY <1>1, <1>2, FinishTells DEF Sends
<1>6. \A t \in Tasks : \A r \in subs'[t] : r <= made
  BY <1>1, <1>3, <1>4, Made DEF NetInv, PeerTypes
<1>7. \A r \in Sockets : conn[r] \in {"none", "closed"} => up'[r] = up[r] /\ down'[r] = down[r]
  BY <1>1, <1>3, <1>4, <1>5, Made
<1>8. orderly' \in BOOLEAN /\ up' \in [Sockets -> Seq(Calls)]
  BY <1>1, <1>4 DEF Finish, NetInv, PeerTypes
<1>9. ASSUME NEW j \in 1..Len(running') PROVE running'[j][1] <= made
  <2>1. PICK k \in 1..Len(running) : running'[j] = running[k]
    BY <1>1, <1>2, <1>4, StillRunning
  <2>2. running[k][1] <= made
    BY <1>1 DEF NetInv, SocketsWhere
  <2> QED
    BY <2>1, <2>2
<1> QED
  BY <1>4, <1>6, <1>7, <1>8, <1>9, PeerKeeps

LEMMA ThrowsKeeps ==
  ASSUME Bookkeeping, NEW i \in 1..Len(running), Throws(i), UNCHANGED <<taskOf, unread>>
  PROVE  Bookkeeping'
<1>1. NetInv /\ taskOf \in [Calls -> Tasks]
  BY Made
<1>2. PICK s \in Sockets, c \in Calls : running[i] = <<s, c>> /\ running[i][1] = s
  BY <1>1, Running
<1>3. taskOf[c] \in Tasks
  BY <1>1
<1>4. /\ \A t \in Tasks : subs'[t] = IF t = taskOf[c] THEN {} ELSE subs[t]
      /\ subs' \in [Tasks -> SUBSET Sockets]
      /\ down' \in [Sockets -> Seq(Messages)]
      /\ \A r \in Sockets : r \notin subs[taskOf[c]] \/ conn[r] = "closed" => down'[r] = down[r]
      /\ running' = RemoveAt(running, i)
      /\ running' \in Seq(Sockets \X Calls)
      /\ UNCHANGED <<client, conn, up>>
  BY <1>1, <1>2, ThrowsDoes
<1>5. \A t \in Tasks : \A r \in subs'[t] : r <= made
  BY <1>1, <1>3, <1>4, Made DEF NetInv, PeerTypes
<1>6. \A r \in Sockets : conn[r] \in {"none", "closed"} => up'[r] = up[r] /\ down'[r] = down[r]
  BY <1>1, <1>3, <1>4, Made
<1>7. orderly' \in BOOLEAN /\ up' \in [Sockets -> Seq(Calls)]
  BY <1>1, <1>4 DEF Throws, NetInv, PeerTypes
<1>8. ASSUME NEW j \in 1..Len(running') PROVE running'[j][1] <= made
  <2>1. PICK k \in 1..Len(running) : running'[j] = running[k]
    BY <1>1, <1>2, <1>4, StillRunning
  <2>2. running[k][1] <= made
    BY <1>1 DEF NetInv, SocketsWhere
  <2> QED
    BY <2>1, <2>2
<1> QED
  BY <1>4, <1>5, <1>6, <1>7, <1>8, PeerKeeps

LEMMA StepBookkeeping == Bookkeeping /\ [Next]_vars => Bookkeeping'
<1> SUFFICES ASSUME Bookkeeping, [Next]_vars PROVE Bookkeeping'
  OBVIOUS
<1>1. ASSUME UNCHANGED vars PROVE Bookkeeping'
  <2>1. ClientInv'
    BY <1>1 DEF vars, client, Bookkeeping, ClientInv, ClientTypes, KeysDiffer, Distinct,
         CallsWhere, NoneForgotten, Unique
  <2>2. NetInv'
    BY <1>1 DEF vars, client, net, peer, Bookkeeping, NetInv, PeerTypes, SocketsWhere
  <2> QED
    BY <2>1, <2>2 DEF Bookkeeping
<1>2. ASSUME NEW c \in Calls, ExecuteOpen(c) \/ ExecuteConnect(c) \/ Opened(c) \/ Timeout(c),
             UNCHANGED <<taskOf, unread>>
      PROVE  Bookkeeping'
  BY <1>2, ExecuteOpenKeeps, ExecuteConnectKeeps, OpenedKeeps, TimeoutLeaves
<1>3. ASSUME NEW s \in Sockets, Closed(s) \/ Receive(s), UNCHANGED <<taskOf, unread>>
      PROVE  Bookkeeping'
  BY <1>3, ClosedKeeps, ReceiveKeeps
<1>4. ASSUME NEW s \in Sockets, NEW c \in Calls, Accept(s, c) \/ Reject(s, c) \/ Refuse(s, c),
             UNCHANGED <<taskOf, unread>>
      PROVE  Bookkeeping'
  BY <1>4, AcceptKeeps, RejectKeeps, RefuseKeeps
<1>5. ASSUME NEW i \in 1..Len(running), UNCHANGED <<taskOf, unread>>,
             Throws(i) \/ \E v \in Final : Finish(i, v)
      PROVE  Bookkeeping'
  BY <1>5, FinishKeeps, ThrowsKeeps
<1> QED
  BY <1>1, <1>2, <1>3, <1>4, <1>5, CloseKeeps, UnverifiedKeeps DEF Next, Final

LEMMA BookkeepingHolds == Spec => []Bookkeeping
<1> QED
  BY InitBookkeeping, StepBookkeeping, PTL DEF Spec

\* Nothing is lost from the client's map, and nothing stays in it: NoneForgotten, of
\* executeTask, its timeout and the handlers of 'message' and 'close'.
THEOREM RequestsAreKept == Spec => []NoneForgotten
<1>1. Bookkeeping => NoneForgotten
  BY DEF Bookkeeping, ClientInv
<1> QED
  BY <1>1, BookkeepingHolds, PTL

-----------------------------------------------------------------------------
(* Results in turn                                                          *)
(*                                                                          *)
(* While the connection is orderly, what is under way on it is what is      *)
(* pending, in the same order: results first, then the requests being       *)
(* handled, then those that have not arrived.                               *)

\* On leg k of its way, at place i: request c of socket s.
Item(s, k, i, c) ==
  \/ k = 1 /\ i \in 1..Len(down[s]) /\ down[s][i] = Artifact(c)
  \/ k = 2 /\ i \in 1..Len(running) /\ running[i] = <<s, c>>
  \/ k = 3 /\ i \in 1..Len(up[s]) /\ up[s][i] = c

Earlier(k, i, l, j) == k < l \/ (k = l /\ i < j)
Before(c, d) == \E i, j \in 1..Len(pending) : i < j /\ pending[i] = c /\ pending[j] = d

InOrder(s) ==
  /\ \A k \in 1..3, i \in Nat, c \in Calls : Item(s, k, i, c) => c \in Range(pending)
  /\ \A c \in Range(pending) : \E k \in 1..3, i \in Nat : Item(s, k, i, c)
  /\ \A k, l \in 1..3, i, j \in Nat, c, d \in Calls :
       Item(s, k, i, c) /\ Item(s, l, j, d) /\ Earlier(k, i, l, j) => Before(c, d)

OneLive == \A s \in Sockets : conn[s] \in Live => s = made
InTurn ==
  orderly =>
    /\ OneLive
    /\ pending # <<>> => made # 0 /\ conn[made] \in Live
    /\ made # 0 /\ conn[made] \in Live => InOrder(made)

\* A message that reaches the client's end comes over the latest connection, and the
\* result that comes first is that of the first request.
LEMMA FirstComesFirst ==
  ASSUME Bookkeeping, InTurn, orderly, NEW s \in Sockets, conn[s] \in Live, down[s] # <<>>,
         NEW c \in Calls, Head(down[s]) = Artifact(c)
  PROVE  /\ s = made
         /\ pending # <<>>
         /\ Head(pending) = c
<1>1. s = made /\ made # 0 /\ InOrder(s)
  BY SocketAssumption DEF InTurn, OneLive, Sockets
<1>2. Item(s, 1, 1, c)
  <2>1. down[s] \in Seq(Messages)
    BY DEF Bookkeeping, NetInv, PeerTypes
  <2>2. 1 \in 1..Len(down[s]) /\ down[s][1] = Head(down[s])
    BY <2>1, EmptySeq
  <2> QED
    BY <2>2 DEF Item
<1>3. c \in Range(pending)
  BY <1>1, <1>2 DEF InOrder
<1>4. PICK n \in Nat : n = Len(pending)
  BY LenProperties DEF Bookkeeping, ClientInv, ClientTypes
<1>5. pending \in Seq(Calls)
  BY DEF Bookkeeping, ClientInv, ClientTypes
<1>6. PICK x \in 1..n : pending[x] = c
  BY <1>3, <1>4, <1>5, InRange
<1>7. PICK h \in Calls : h = pending[1]
  BY <1>4, <1>5, <1>6, ElementOfSeq
<1>8. h \in Range(pending) /\ 1 \in 1..n
  BY <1>4, <1>5, <1>6, <1>7, InRange
<1>9. PICK k \in 1..3, i \in Nat : Item(s, k, i, h)
  BY <1>1, <1>8 DEF InOrder
<1>10. CASE Earlier(1, 1, k, i)
  <2>1. Before(c, h)
    BY <1>1, <1>2, <1>9, <1>10 DEF InOrder
  <2>2. PICK a \in 1..n, b \in 1..n : a < b /\ pending[b] = h
    BY <1>4, <2>1 DEF Before
  <2>3. b = 1
    BY <1>4, <1>7, <1>8, <2>2 DEF Bookkeeping, ClientInv, KeysDiffer, Distinct
  <2> QED
    BY <2>2, <2>3
<1>11. CASE ~Earlier(1, 1, k, i)
  <2>1. k = 1 /\ i = 1
    BY <1>9, <1>11 DEF Earlier, Item
  <2>2. Artifact(h) = Artifact(c)
    BY <1>2, <1>9, <2>1 DEF Item
  <2>3. h = c
    BY <2>2 DEF Artifact
  <2>4. pending # <<>>
    BY <1>4, <1>6, EmptySeq
  <2>5. Head(pending) = h
    BY <1>7
  <2> QED
    BY <1>1, <2>3, <2>4, <2>5
<1> QED
  BY <1>10, <1>11

\* A request is sent on the open connection.
LEMMA SubmitInTurn ==
  ASSUME Bookkeeping, InTurn, NEW c \in Calls, Submit(c), orderly',
         NEW m \in Sockets, m = made, ws = m, conn'[m] = "open", conn[m] \in Live,
         \A s \in Sockets : s # m => conn'[s] = conn[s]
  PROVE  InTurn'
<1>1. orderly /\ Keys(taskOf[c]) = {}
  BY DEF Submit
<1>2. pending' = Append(pending, c) /\ pending \in Seq(Calls) /\ KeysDiffer
  BY <1>1, EnteredOnce DEF Submit, Bookkeeping, ClientInv, ClientTypes
<1>3. m # 0 /\ InOrder(m) /\ OneLive
  BY <1>1, SocketAssumption DEF InTurn, Sockets
<1>4. /\ up[m] \in Seq(Calls) /\ up \in [Sockets -> Seq(Calls)]
      /\ up' = [up EXCEPT ![m] = Append(@, c)]
      /\ UNCHANGED <<made, down, running>>
  BY <1>3 DEF Submit, peer, Bookkeeping, NetInv, PeerTypes
<1>5. PICK n \in Nat, u \in Nat : n = Len(pending) /\ u = Len(up[m])
  BY <1>2, <1>4, LenProperties
<1>6. /\ Len(pending') = n + 1 /\ pending'[n + 1] = c
      /\ \A i \in 1..n : pending'[i] = pending[i]
  BY <1>2, <1>5, AppendProperties
<1>7. /\ Len(up'[m]) = u + 1 /\ up'[m][u + 1] = c
      /\ \A i \in 1..u : up'[m][i] = up[m][i]
  BY <1>4, <1>5, AppendProperties
<1>8. \A d : d \in Range(pending') <=> d = c \/ d \in Range(pending)
  BY <1>2, AppendInRange
<1>9. \A k \in 1..3, i \in Nat, d \in Calls :
        Item(m, k, i, d)' <=> Item(m, k, i, d) \/ (k = 3 /\ i = u + 1 /\ d = c)
  BY <1>4, <1>5, <1>7 DEF Item
<1>10. \A d, e \in Calls : Before(d, e) => Before(d, e)'
  BY <1>5, <1>6 DEF Before
<1>11. \A d \in Range(pending) : Before(d, c)'
  <2>1. \A d \in Range(pending) : \E i \in 1..n : pending[i] = d
    BY <1>2, <1>5, InRange
  <2>2. n + 1 \in 1..(n + 1) /\ \A i \in 1..n : i \in 1..(n + 1) /\ i < n + 1
    BY <1>5
  <2> QED
    BY <1>6, <2>1, <2>2 DEF Before
<1>12. \A k \in 1..3, i \in Nat, d \in Calls : Item(m, k, i, d)' => d \in Range(pending')
  BY <1>3, <1>8, <1>9 DEF InOrder
<1>13. \A d \in Range(pending') : \E k \in 1..3, i \in Nat : Item(m, k, i, d)'
  <2>1. Range(pending) \subseteq Calls
    BY <1>2, RangeOfSeq
  <2> QED
    BY <1>3, <1>5, <1>8, <1>9, <2>1 DEF InOrder
<1>14. \A k, l \in 1..3, i, j \in Nat, d, e \in Calls :
         Item(m, k, i, d)' /\ Item(m, l, j, e)' /\ Earlier(k, i, l, j) => Before(d, e)'
  <2> SUFFICES ASSUME NEW k \in 1..3, NEW l \in 1..3, NEW i \in Nat, NEW j \in Nat,
                      NEW d \in Calls, NEW e \in Calls,
                      Item(m, k, i, d)', Item(m, l, j, e)', Earlier(k, i, l, j)
               PROVE  Before(d, e)'
    OBVIOUS
  <2>1. \A i1 \in Nat : \A d1 \in Calls : Item(m, 3, i1, d1) => i1 <= u
    BY <1>5 DEF Item
  <2>2. Item(m, k, i, d)
    <3>1. CASE k = 3 /\ i = u + 1
      BY <1>5, <1>9, <2>1, <3>1 DEF Earlier
    <3> QED
      BY <1>9, <3>1
  <2>3. CASE Item(m, l, j, e)
    BY <1>3, <1>10, <2>2, <2>3 DEF InOrder
  <2>4. CASE e = c
    BY <1>3, <1>11, <2>2, <2>4 DEF InOrder
  <2> QED
    BY <1>9, <2>3, <2>4
<1>15. InOrder(m)'
  BY <1>12, <1>13, <1>14 DEF InOrder
<1>16. OneLive'
  BY <1>3, <1>4 DEF OneLive
<1> QED
  BY <1>3, <1>4, <1>15, <1>16 DEF InTurn, Live

LEMMA ExecuteOpenInTurn ==
  ASSUME Bookkeeping, InTurn, NEW c \in Calls, ExecuteOpen(c)
  PROVE  InTurn'
<1> SUFFICES ASSUME orderly' PROVE InTurn'
  BY DEF InTurn
<1>1. PICK m \in Sockets : m = made /\ ws = m
  BY SocketAssumption DEF ExecuteOpen, HasOpen, Bookkeeping, ClientInv, ClientTypes, NetInv,
     SocketsWhere, Sockets
<1>2. Submit(c) /\ conn' = conn /\ conn[m] = "open"
  BY <1>1 DEF ExecuteOpen, HasOpen
<1> QED
  BY <1>1, <1>2, SubmitInTurn DEF Live

\* The call that opens a socket while no other lives has made the latest one, and the
\* client still has it: otherwise the socket would be closing or closed.
LEMMA OpenedInTurn ==
  ASSUME Bookkeeping, InTurn, NEW c \in Calls, Opened(c)
  PROVE  InTurn'
<1> SUFFICES ASSUME orderly' PROVE InTurn'
  BY DEF InTurn
<1>1. Submit(c) /\ orderly /\ OneLive
  BY DEF Opened, Submit, InTurn
<1>2. via[c] \in Sockets /\ made \in Nat
  BY SocketAssumption DEF Opened, Bookkeeping, ClientInv, CallsWhere, ClientTypes, Sockets
<1>3. PICK m \in Sockets : m = via[c]
  BY <1>2
<1>4. conn[m] = "connecting" /\ conn' = [conn EXCEPT ![m] = "open"]
  BY <1>3 DEF Opened
<1>5. m = made
  BY <1>1, <1>4 DEF OneLive, Live
<1>6. ws = m
  BY <1>4, <1>5, SocketAssumption DEF Bookkeeping, NetInv, SocketsWhere, Sockets
<1>7. conn'[m] = "open" /\ \A s \in Sockets : s # m => conn'[s] = conn[s]
  BY <1>4 DEF Bookkeeping, NetInv, PeerTypes
<1> QED
  BY <1>1, <1>4, <1>5, <1>6, <1>7, SubmitInTurn DEF Live

\* A connection made while none lives starts with nothing pending and nothing under way.
LEMMA ExecuteConnectInTurn ==
  ASSUME Bookkeeping, InTurn, NEW c \in Calls, ExecuteConnect(c)
  PROVE  InTurn'
<1> USE SocketAssumption
<1> SUFFICES ASSUME orderly' PROVE InTurn'
  BY DEF InTurn
<1>1. PICK n \in Sockets : n = made + 1
  BY DEF ExecuteConnect, Bookkeeping, ClientInv, ClientTypes, Sockets
<1>2. /\ made' = n
      /\ conn' = [conn EXCEPT ![n] = "connecting"]
      /\ orderly /\ \A s \in Sockets : conn[s] \notin Live
      /\ UNCHANGED <<pending, up, down, running>>
  BY <1>1 DEF ExecuteConnect, peer
<1>3. pending = <<>>
  BY <1>1, <1>2 DEF InTurn, Bookkeeping, ClientInv, ClientTypes, Sockets
<1>4. conn[n] = "none" /\ up[n] = <<>> /\ down[n] = <<>>
  <2>1. n > made
    BY <1>1, Made
  <2> QED
    BY <2>1 DEF Bookkeeping, NetInv, SocketsWhere
<1>5. \A i \in 1..Len(running) : running[i][1] # n
  <2>1. \A i \in 1..Len(running) : running[i][1] <= made
    BY DEF Bookkeeping, NetInv, SocketsWhere
  <2>2. ~(n <= made)
    BY <1>1, Made
  <2> QED
    BY <2>1, <2>2
<1>6. \A k \in 1..3, i \in Nat, d \in Calls : ~Item(n, k, i, d)'
  BY <1>2, <1>4, <1>5, EmptySeq DEF Item
<1>7. Range(pending') = {}
  <2>1. <<>> \in Seq({})
    BY EmptySeq
  <2> QED
    BY <1>2, <1>3, <2>1, RangeOfSeq
<1>8. InOrder(n)'
  BY <1>6, <1>7 DEF InOrder
<1>9. OneLive'
  BY <1>2 DEF OneLive, Bookkeeping, NetInv, PeerTypes
<1>10. n # 0
  BY DEF Sockets
<1> QED
  BY <1>2, <1>3, <1>8, <1>9 DEF InTurn

LEMMA ClosedInTurn ==
  ASSUME Bookkeeping, InTurn, NEW s \in Sockets, Closed(s)
  PROVE  InTurn'
<1> SUFFICES ASSUME orderly' PROVE InTurn'
  BY DEF InTurn
<1>1. /\ \A r \in Sockets \ {s} : conn[r] \notin Live
      /\ conn' = [conn EXCEPT ![s] = "closed"]
      /\ pending' = <<>>
      /\ made' = made
  BY DEF Closed
<1>2. \A r \in Sockets : conn'[r] \notin Live
  BY <1>1 DEF Bookkeeping, NetInv, PeerTypes, Live
<1>3. made # 0 => made \in Sockets
  BY SocketAssumption DEF Bookkeeping, ClientInv, ClientTypes, Sockets
<1> QED
  BY <1>1, <1>2, <1>3 DEF InTurn, OneLive

\* What moves nothing keeps the order.
LEMMA StillInTurn ==
  ASSUME Bookkeeping, InTurn, orderly' => orderly,
         UNCHANGED <<made, pending, up, running>>,
         \A s \in Sockets : conn'[s] \in Live <=> conn[s] \in Live,
         \A s \in Sockets, k \in 1..3, i \in Nat, c \in Calls : Item(s, k, i, c)' <=> Item(s, k, i, c)
  PROVE  InTurn'
<1>1. made # 0 => made \in Sockets
  BY SocketAssumption DEF Bookkeeping, ClientInv, ClientTypes, Sockets
<1>2. \A c, d : Before(c, d)' <=> Before(c, d)
  BY DEF Before
<1>3. OneLive' <=> OneLive
  BY DEF OneLive
<1>4. ASSUME NEW m \in Sockets, m = made, InOrder(m) PROVE InOrder(m)'
  <2>1. \A k \in 1..3, i \in Nat, c \in Calls : Item(m, k, i, c)' <=> Item(m, k, i, c)
    OBVIOUS
  <2>2. Range(pending') = Range(pending) /\ Range(pending) \subseteq Calls
    BY RangeOfSeq DEF Bookkeeping, ClientInv, ClientTypes
  <2>3. \A c \in Range(pending') : \E k \in 1..3, i \in Nat : Item(m, k, i, c)'
    BY <1>4, <2>1, <2>2 DEF InOrder
  <2>4. \A k \in 1..3, i \in Nat, c \in Calls : Item(m, k, i, c)' => c \in Range(pending')
    BY <1>4, <2>1, <2>2 DEF InOrder
  <2>5. \A k, l \in 1..3, i, j \in Nat, c, d \in Calls :
          Item(m, k, i, c)' /\ Item(m, l, j, d)' /\ Earlier(k, i, l, j) => Before(c, d)'
    BY <1>2, <1>4, <2>1 DEF InOrder
  <2> QED
    BY <2>3, <2>4, <2>5 DEF InOrder
<1>5. ASSUME orderly', made' # 0, conn'[made'] \in Live PROVE InOrder(made)'
  <2>1. PICK m \in Sockets : m = made
    BY <1>1, <1>5
  <2>2. InOrder(m)
    BY <1>1, <1>5, <2>1 DEF InTurn
  <2>3. InOrder(m)' /\ m = made'
    BY <1>4, <2>1, <2>2
  <2> QED
    BY <2>3
<1>6. orderly' /\ pending' # <<>> => made' # 0 /\ conn'[made'] \in Live
  BY <1>1 DEF InTurn
<1>7. orderly' => OneLive'
  BY <1>3 DEF InTurn
<1> QED
  BY <1>5, <1>6, <1>7 DEF InTurn

LEMMA CloseInTurn ==
  ASSUME Bookkeeping, InTurn, Close
  PROVE  InTurn'
<1>1. /\ ws \in Sockets /\ ws = made
      /\ conn[ws] # "none"
  BY SocketAssumption DEF Close, Bookkeeping, NetInv, SocketsWhere, ClientInv, ClientTypes, Sockets
<1>2. \A s \in Sockets : conn'[s] \in Live <=> conn[s] \in Live
  BY <1>1 DEF Close, Bookkeeping, NetInv, PeerTypes, Live
<1>3. UNCHANGED <<made, pending, up, down, running, orderly>>
  BY DEF Close, peer
<1>4. \A s \in Sockets, k \in 1..3, i \in Nat, c \in Calls : Item(s, k, i, c)' <=> Item(s, k, i, c)
  BY <1>3 DEF Item
<1> QED
  BY <1>2, <1>3, <1>4, StillInTurn

LEMMA TimeoutInTurn ==
  ASSUME Bookkeeping, InTurn, NEW c \in Calls, Timeout(c)
  PROVE  InTurn'
<1> SUFFICES ASSUME orderly' PROVE InTurn'
  BY DEF InTurn
<1>1. orderly /\ pending' = pending /\ UNCHANGED <<made, conn, up, down, running>>
  BY DEF Timeout, Deleted, net, peer
<1>2. \A s \in Sockets, k \in 1..3, i \in Nat, d \in Calls : Item(s, k, i, d)' <=> Item(s, k, i, d)
  BY <1>1 DEF Item
<1> QED
  BY <1>1, <1>2, StillInTurn

\* On its way between the client and socket m: nothing new, nothing lost, and of two the
\* order is kept.
NothingAdded(m) ==
  \A k \in 1..3, i \in Nat, c \in Calls :
    Item(m, k, i, c)' => \E l \in 1..3, j \in Nat : Item(m, l, j, c)

NothingDropped(m) ==
  \A k \in 1..3, i \in Nat, c \in Calls :
    Item(m, k, i, c) => \E l \in 1..3, j \in Nat : Item(m, l, j, c)'

Ahead(m, c, d) ==
  \E k, l \in 1..3, i, j \in Nat : Item(m, k, i, c) /\ Item(m, l, j, d) /\ Earlier(k, i, l, j)

NothingOvertakes(m) ==
  \A c, d \in Calls : Ahead(m, c, d)' => Ahead(m, c, d)

\* Requests and results that move on without overtaking stay in order.
LEMMA MovesInOrder ==
  ASSUME Bookkeeping, NEW m \in Sockets, InOrder(m), pending' = pending,
         NothingAdded(m),
         NothingDropped(m),
         NothingOvertakes(m)
  PROVE  InOrder(m)'
<1>1. Range(pending') = Range(pending) /\ Range(pending) \subseteq Calls
  BY RangeOfSeq DEF Bookkeeping, ClientInv, ClientTypes
<1>2. \A c \in Calls, d \in Calls : Before(c, d)' <=> Before(c, d)
  BY DEF Before
<1>3. \A k \in 1..3, i \in Nat, c \in Calls : Item(m, k, i, c)' => c \in Range(pending')
  BY <1>1 DEF InOrder, NothingAdded
<1>4. \A c \in Range(pending') : \E k \in 1..3, i \in Nat : Item(m, k, i, c)'
  BY <1>1 DEF InOrder, NothingDropped
<1>5. \A k, l \in 1..3, i, j \in Nat, c, d \in Calls :
        Item(m, k, i, c)' /\ Item(m, l, j, d)' /\ Earlier(k, i, l, j) => Before(c, d)'
  <2> SUFFICES ASSUME NEW k \in 1..3, NEW l \in 1..3, NEW i \in Nat, NEW j \in Nat,
                      NEW c \in Calls, NEW d \in Calls,
                      Item(m, k, i, c)', Item(m, l, j, d)', Earlier(k, i, l, j)
               PROVE  Before(c, d)'
    OBVIOUS
  <2>1. Ahead(m, c, d)'
    BY DEF Ahead
  <2>2. Ahead(m, c, d)
    BY <2>1 DEF NothingOvertakes
  <2>3. PICK k0 \in 1..3, l0 \in 1..3, i0 \in Nat, j0 \in Nat :
          Item(m, k0, i0, c) /\ Item(m, l0, j0, d) /\ Earlier(k0, i0, l0, j0)
    BY <2>2 DEF Ahead
  <2>4. Before(c, d)
    BY <2>3 DEF InOrder
  <2> QED
    BY <1>2, <2>4
<1> QED
  BY <1>3, <1>4, <1>5 DEF InOrder

LEMMA LatestInOrder ==
  ASSUME Bookkeeping, InTurn, orderly' => orderly, UNCHANGED <<made, conn>>,
         pending' = <<>> \/ pending # <<>>,
         \A m \in Sockets : m = made /\ conn[m] \in Live /\ orderly' => InOrder(m)'
  PROVE  InTurn'
<1>1. made # 0 => made \in Sockets
  BY SocketAssumption DEF Bookkeeping, ClientInv, ClientTypes, Sockets
<1>2. ASSUME orderly', made' # 0, conn'[made'] \in Live PROVE InOrder(made)'
  <2>1. PICK m \in Sockets : m = made
    BY <1>1, <1>2
  <2>2. InOrder(m)' /\ m = made'
    BY <1>2, <2>1
  <2> QED
    BY <2>2
<1>3. orderly' /\ pending' # <<>> => made' # 0 /\ conn'[made'] \in Live
  BY DEF InTurn
<1>4. orderly' => OneLive'
  BY DEF InTurn, OneLive
<1> QED
  BY <1>2, <1>3, <1>4 DEF InTurn

LEMMA NotBoth ==
  ASSUME NEW t, NEW v, NEW c
  PROVE  Status(t, v) # Artifact(c)
<1>1. Status(t, v).kind = "status" /\ Artifact(c).kind = "artifact"
  BY DEF Status, Artifact
<1> QED
  BY <1>1

LEMMA AcceptInTurn ==
  ASSUME Bookkeeping, InTurn, NEW s \in Sockets, NEW c \in Calls, Accept(s, c)
  PROVE  InTurn'
<1>1. NetInv /\ taskOf \in [Calls -> Tasks] /\ Arrives(s, c) /\ UNCHANGED <<client, conn, orderly>>
  BY Made DEF Accept
<1>2. UNCHANGED <<made, conn, pending>> /\ (orderly' => orderly)
  BY <1>1 DEF client
<1>3. ASSUME NEW m \in Sockets, m = made, conn[m] \in Live, orderly PROVE InOrder(m)'
  <2>1. m = s /\ InOrder(m)
    <3>1. m # 0
      BY DEF Sockets
    <3>2. conn[s] \in Live
      BY <1>1 DEF Arrives, Live
    <3> QED
      BY <1>3, <3>1, <3>2 DEF InTurn, OneLive
  <2>2. PICK n \in Nat, u \in Nat, a \in Nat :
          n = Len(running) /\ u = Len(up[m]) /\ a = Len(down[m])
    BY <1>1, LenProperties DEF NetInv, PeerTypes
  <2>3. /\ up[m] # <<>> /\ c = Head(up[m]) /\ up'[m] = Tail(up[m]) /\ up[m] \in Seq(Calls)
    BY <1>1, <2>1, ArrivesKeeps
  <2>4. /\ u > 0 /\ up[m][1] = c
        /\ Len(up'[m]) = u - 1
        /\ \A i \in 1..(u - 1) : up'[m][i] = up[m][i + 1]
    BY <2>2, <2>3, HeadTailProperties, EmptySeq
  <2>5. running' = Append(running, <<m, c>>) /\ <<m, c>> \in Sockets \X Calls
    BY <1>1, <2>1, AcceptDoes
  <2>6. /\ Len(running') = n + 1 /\ running'[n + 1] = <<m, c>>
        /\ \A i \in 1..n : running'[i] = running[i]
    BY <1>1, <2>2, <2>5, AppendProperties DEF NetInv, PeerTypes
  <2>7. PICK st \in Messages : st = Status(taskOf[c], "executing") /\ \A d : st # Artifact(d)
    BY <1>1, AcceptDoes, NotBoth
  <2>8. down'[m] = Append(down[m], st)
    BY <1>1, <1>3, <2>1, <2>7, AcceptDoes DEF Live
  <2>9. /\ Len(down'[m]) = a + 1 /\ down'[m][a + 1] = st
        /\ \A i \in 1..a : down'[m][i] = down[m][i]
    BY <1>1, <2>2, <2>8, AppendProperties DEF NetInv, PeerTypes
  <2>10. \A i \in Nat, d \in Calls : Item(m, 1, i, d)' <=> Item(m, 1, i, d)
    BY <2>2, <2>7, <2>9 DEF Item
  <2>11. \A i \in Nat, d \in Calls : Item(m, 2, i, d)' <=> Item(m, 2, i, d) \/ (i = n + 1 /\ d = c)
    BY <2>2, <2>6 DEF Item
  <2>12. \A i \in Nat, d \in Calls : Item(m, 3, i, d)' <=> i # 0 /\ Item(m, 3, i + 1, d)
    BY <2>2, <2>4 DEF Item
  <2>13. \A d \in Calls : Item(m, 3, 1, d) <=> d = c
    BY <2>2, <2>4 DEF Item
  <2>14. \A i \in Nat, d \in Calls : Item(m, 3, i, d) => i = 1 \/ (i - 1 \in Nat /\ Item(m, 3, i - 1, d)')
    BY <2>2, <2>4 DEF Item
  <2>15. \A i \in Nat, d \in Calls : Item(m, 2, i, d) => i <= n
    BY <2>2 DEF Item
  <2>16. NothingAdded(m)
    BY <2>10, <2>11, <2>12, <2>13 DEF NothingAdded
  <2>17. NothingDropped(m)
    BY <2>10, <2>11, <2>13, <2>14 DEF NothingDropped
  <2>18. NothingOvertakes(m)
    <3> DEFINE K(k, i) == IF k = 2 /\ i = n + 1 THEN 3 ELSE k
               I(k, i) == IF k = 2 /\ i = n + 1 THEN 1 ELSE IF k = 3 THEN i + 1 ELSE i
    <3>1. \A k \in 1..3, i \in Nat, d \in Calls : Item(m, k, i, d)' =>
            K(k, i) \in 1..3 /\ I(k, i) \in Nat /\ Item(m, K(k, i), I(k, i), d)
      <4> SUFFICES ASSUME NEW k \in 1..3, NEW i \in Nat, NEW d \in Calls, Item(m, k, i, d)'
                   PROVE  K(k, i) \in 1..3 /\ I(k, i) \in Nat /\ Item(m, K(k, i), I(k, i), d)
        OBVIOUS
      <4>1. CASE k = 1
        BY <2>10, <4>1
      <4>2. CASE k = 2 /\ i = n + 1
        <5>1. d = c
          BY <2>11, <2>15, <4>2
        <5>2. K(k, i) = 3 /\ I(k, i) = 1
          BY <4>2
        <5> QED
          BY <2>13, <5>1, <5>2
      <4>3. CASE k = 2 /\ i # n + 1
        BY <2>11, <4>3
      <4>4. CASE k = 3
        BY <2>12, <4>4
      <4> QED
        BY <4>1, <4>2, <4>3, <4>4
    <3>2. \A k, l \in 1..3, i, j \in Nat, d, e \in Calls :
            Item(m, k, i, d)' /\ Item(m, l, j, e)' /\ Earlier(k, i, l, j) =>
              Earlier(K(k, i), I(k, i), K(l, j), I(l, j))
      BY <2>11, <2>12, <2>15 DEF Earlier
    <3> HIDE DEF K, I
    <3>3. NothingOvertakes(m)
      <4> SUFFICES ASSUME NEW c1 \in Calls, NEW c2 \in Calls, Ahead(m, c1, c2)'
                   PROVE  Ahead(m, c1, c2)
        BY DEF NothingOvertakes
      <4>1. PICK k \in 1..3, l \in 1..3, i \in Nat, j \in Nat :
              Item(m, k, i, c1)' /\ Item(m, l, j, c2)' /\ Earlier(k, i, l, j)
        BY DEF Ahead
      <4>2. I(k, i) \in Nat /\ I(l, j) \in Nat /\ K(k, i) \in 1..3 /\ K(l, j) \in 1..3
        BY <4>1, <3>1
      <4>3. Item(m, K(k, i), I(k, i), c1) /\ Item(m, K(l, j), I(l, j), c2)
        BY <4>1, <3>1
      <4>4. Earlier(K(k, i), I(k, i), K(l, j), I(l, j))
        BY <4>1, <3>2
      <4> QED
        BY <4>2, <4>3, <4>4 DEF Ahead
    <3> QED
      BY <3>3
  <2> QED
    BY <1>2, <2>1, <2>16, <2>17, <2>18, MovesInOrder
<1> QED
  BY <1>2, <1>3, LatestInOrder

\* A status adds no result.
LEMMA StatusOnly ==
  ASSUME NetInv, NEW m \in Sockets, NEW st \in Messages, \A d : st # Artifact(d),
         down'[m] = down[m] \/ down'[m] = Append(down[m], st)
  PROVE  \A i \in Nat, d \in Calls : Item(m, 1, i, d)' <=> Item(m, 1, i, d)
<1>1. PICK a \in Nat : a = Len(down[m])
  BY LenProperties DEF NetInv, PeerTypes
<1>2. CASE down'[m] = down[m]
  BY <1>2 DEF Item
<1>3. CASE down'[m] = Append(down[m], st)
  <2>1. /\ Len(down'[m]) = a + 1 /\ down'[m][a + 1] = st
        /\ \A i \in 1..a : down'[m][i] = down[m][i]
    BY <1>1, <1>3, AppendProperties DEF NetInv, PeerTypes
  <2> QED
    BY <1>1, <2>1 DEF Item
<1> QED
  BY <1>2, <1>3

\* Handlers of other sockets may end at any time.
LEMMA OthersLeave ==
  ASSUME Bookkeeping, NEW m \in Sockets, InOrder(m), pending' = pending, up' = up,
         NEW x \in 1..Len(running), running' = RemoveAt(running, x),
         NEW s \in Sockets, NEW c \in Calls, running[x] = <<s, c>>, s # m,
         \A i \in Nat, d \in Calls : Item(m, 1, i, d)' <=> Item(m, 1, i, d)
  PROVE  InOrder(m)'
<1>1. PICK n \in Nat : n = Len(running)
  BY LenProperties DEF Bookkeeping, NetInv, PeerTypes
<1>2. /\ x \in 1..n
      /\ Len(running') = n - 1
      /\ \A j \in 1..(n - 1) : running'[j] = IF j < x THEN running[j] ELSE running[j + 1]
  BY <1>1, Removed DEF Bookkeeping, NetInv, PeerTypes
<1> DEFINE Was(k, i) == IF k = 2 /\ i >= x THEN i + 1 ELSE i
<1>3. \A i \in Nat, d \in Calls : Item(m, 2, i, d)' => Item(m, 2, Was(2, i), d)
  BY <1>1, <1>2 DEF Item
<1>4. \A i \in Nat, d \in Calls : Item(m, 2, i, d) =>
        i # x /\ (IF i < x THEN i ELSE i - 1) \in Nat /\ Item(m, 2, IF i < x THEN i ELSE i - 1, d)'
  <2> SUFFICES ASSUME NEW i \in Nat, NEW d \in Calls, Item(m, 2, i, d)
               PROVE  i # x /\ (IF i < x THEN i ELSE i - 1) \in Nat
                        /\ Item(m, 2, IF i < x THEN i ELSE i - 1, d)'
    OBVIOUS
  <2>1. i \in 1..n /\ running[i] = <<m, d>> /\ i # x
    BY <1>1 DEF Item
  <2>2. CASE i < x
    BY <1>2, <2>1, <2>2 DEF Item
  <2>3. CASE i > x
    <3>1. i - 1 \in 1..(n - 1) /\ ~(i - 1 < x) /\ i - 1 + 1 = i
      BY <1>2, <2>1, <2>3
    <3> QED
      BY <1>2, <2>1, <2>3, <3>1 DEF Item
  <2> QED
    BY <1>2, <2>1, <2>2, <2>3
<1>5. \A i \in Nat, d \in Calls : Item(m, 3, i, d)' <=> Item(m, 3, i, d)
  BY DEF Item
<1>6. \A k \in 1..3, i \in Nat, d \in Calls : Item(m, k, i, d)' => Was(k, i) \in Nat /\ Item(m, k, Was(k, i), d)
  BY <1>3, <1>5
<1>7. \A k, l \in 1..3, i, j \in Nat : Earlier(k, i, l, j) => Earlier(k, Was(k, i), l, Was(l, j))
  BY <1>2 DEF Earlier
<1> HIDE DEF Was
<1>8. NothingAdded(m)
  BY <1>6 DEF NothingAdded
<1>9. NothingDropped(m)
  BY <1>4, <1>5 DEF NothingDropped
<1>10. NothingOvertakes(m)
  <2> SUFFICES ASSUME NEW c1 \in Calls, NEW c2 \in Calls, Ahead(m, c1, c2)'
               PROVE  Ahead(m, c1, c2)
    BY DEF NothingOvertakes
  <2>1. PICK k \in 1..3, l \in 1..3, i \in Nat, j \in Nat :
          Item(m, k, i, c1)' /\ Item(m, l, j, c2)' /\ Earlier(k, i, l, j)
    BY DEF Ahead
  <2>2. Was(k, i) \in Nat /\ Was(l, j) \in Nat
    BY <2>1, <1>6
  <2>3. Item(m, k, Was(k, i), c1) /\ Item(m, l, Was(l, j), c2)
    BY <2>1, <1>6
  <2>4. Earlier(k, Was(k, i), l, Was(l, j))
    BY <2>1, <1>7
  <2> QED
    BY <2>2, <2>3, <2>4 DEF Ahead
<1> QED
  BY <1>8, <1>9, <1>10, MovesInOrder

\* The handler of the first request to be handled returns its result.
LEMMA FirstFinishes ==
  ASSUME Bookkeeping, NEW m \in Sockets, InOrder(m), pending' = pending, up' = up,
         NEW x \in 1..Len(running), running' = RemoveAt(running, x),
         NEW c \in Calls, running[x] = <<m, c>>,
         \A j \in 1..(x - 1) : running[j][1] # m,
         NEW reported \in Seq(Messages), NEW st \in Messages, \A d : st # Artifact(d),
         reported = down[m] \/ reported = Append(down[m], st),
         down'[m] = Append(reported, Artifact(c))
  PROVE  InOrder(m)'
<1>1. PICK n \in Nat, a \in Nat, b \in Nat : n = Len(running) /\ a = Len(down[m]) /\ b = Len(reported)
  BY LenProperties DEF Bookkeeping, NetInv, PeerTypes
<1>2. /\ x \in 1..n
      /\ Len(running') = n - 1
      /\ \A j \in 1..(n - 1) : running'[j] = IF j < x THEN running[j] ELSE running[j + 1]
  BY <1>1, Removed DEF Bookkeeping, NetInv, PeerTypes
<1>3. a <= b /\ \A i \in 1..b : reported[i] = IF i <= a THEN down[m][i] ELSE st
  <2>1. CASE reported = down[m]
    BY <1>1, <2>1
  <2>2. CASE reported = Append(down[m], st)
    <3>1. /\ b = a + 1 /\ reported[a + 1] = st
          /\ \A i \in 1..a : reported[i] = down[m][i]
      BY <1>1, <2>2, AppendProperties DEF Bookkeeping, NetInv, PeerTypes
    <3> QED
      BY <1>1, <3>1
  <2> QED
    BY <2>1, <2>2
<1>4. Artifact(c) \in Messages
  BY DEF Artifact, Messages
<1>5. /\ Len(down'[m]) = b + 1 /\ down'[m][b + 1] = Artifact(c)
      /\ \A i \in 1..b : down'[m][i] = reported[i]
  BY <1>1, <1>4, AppendProperties
<1>6. \A d \in Calls : Artifact(d) = Artifact(c) => d = c
  BY DEF Artifact
<1>7. \A i \in Nat, d \in Calls : Item(m, 1, i, d)' <=> Item(m, 1, i, d) \/ (i = b + 1 /\ d = c)
  BY <1>1, <1>3, <1>5, <1>6 DEF Item
<1>8. \A i \in Nat, d \in Calls : Item(m, 2, i, d) => i >= x
  BY <1>1, <1>2 DEF Item
<1>9. \A d \in Calls : Item(m, 2, x, d) <=> d = c
  BY <1>1, <1>2 DEF Item
<1>10. \A i \in Nat, d \in Calls : Item(m, 2, i, d)' <=> i # 0 /\ i >= x /\ Item(m, 2, i + 1, d)
  <2> SUFFICES ASSUME NEW i \in Nat, NEW d \in Calls
               PROVE  Item(m, 2, i, d)' <=> i # 0 /\ i >= x /\ Item(m, 2, i + 1, d)
    OBVIOUS
  <2>1. CASE i < x
    <3>1. ~Item(m, 2, i, d)
      BY <1>2, <1>8, <2>1
    <3> QED
      BY <1>1, <1>2, <2>1, <3>1 DEF Item
  <2>2. CASE i >= x
    BY <1>1, <1>2, <2>2 DEF Item
  <2> QED
    BY <1>2, <2>1, <2>2
<1>11. \A i \in Nat, d \in Calls : Item(m, 3, i, d)' <=> Item(m, 3, i, d)
  BY DEF Item
<1>12. \A i \in Nat, d \in Calls : Item(m, 1, i, d) => i <= b
  BY <1>1, <1>3 DEF Item
<1> DEFINE K(k, i) == IF k = 1 /\ i = b + 1 THEN 2 ELSE k
           I(k, i) == IF k = 1 /\ i = b + 1 THEN x ELSE IF k = 2 THEN i + 1 ELSE i
<1>13. \A k \in 1..3, i \in Nat, d \in Calls : Item(m, k, i, d)' =>
         K(k, i) \in 1..3 /\ I(k, i) \in Nat /\ Item(m, K(k, i), I(k, i), d)
  <2> SUFFICES ASSUME NEW k \in 1..3, NEW i \in Nat, NEW d \in Calls, Item(m, k, i, d)'
               PROVE  K(k, i) \in 1..3 /\ I(k, i) \in Nat /\ Item(m, K(k, i), I(k, i), d)
    OBVIOUS
  <2>1. CASE k = 1 /\ i = b + 1
    <3>1. d = c /\ K(k, i) = 2 /\ I(k, i) = x
      BY <1>7, <1>12, <2>1
    <3> QED
      BY <1>2, <1>9, <3>1
  <2>2. CASE k = 1 /\ i # b + 1
    BY <1>7, <2>2
  <2>3. CASE k = 2
    BY <1>10, <2>3
  <2>4. CASE k = 3
    BY <1>11, <2>4
  <2> QED
    BY <2>1, <2>2, <2>3, <2>4
<1>14. \A k, l \in 1..3, i, j \in Nat, d, e \in Calls :
         Item(m, k, i, d)' /\ Item(m, l, j, e)' /\ Earlier(k, i, l, j) =>
           Earlier(K(k, i), I(k, i), K(l, j), I(l, j))
  BY <1>2, <1>7, <1>10, <1>12 DEF Earlier
<1> HIDE DEF K, I
<1>15. NothingAdded(m)
  BY <1>13 DEF NothingAdded
<1>16. NothingDropped(m)
  <2> SUFFICES ASSUME NEW k \in 1..3, NEW i \in Nat, NEW d \in Calls, Item(m, k, i, d)
               PROVE  \E l \in 1..3, j \in Nat : Item(m, l, j, d)'
    BY DEF NothingDropped
  <2>1. CASE k = 1
    BY <1>7, <2>1
  <2>2. CASE k = 2 /\ i = x
    <3>1. d = c /\ b + 1 \in Nat
      BY <1>9, <2>2
    <3>2. Item(m, 1, b + 1, d)'
      BY <1>7, <3>1
    <3> QED
      BY <3>1, <3>2
  <2>3. CASE k = 2 /\ i # x
    <3>1. i - 1 \in Nat /\ i - 1 # 0 /\ i - 1 >= x /\ i - 1 + 1 = i
      BY <1>2, <1>8, <2>3
    <3>2. Item(m, 2, i - 1, d)'
      BY <1>10, <2>3, <3>1
    <3> QED
      BY <3>1, <3>2
  <2>4. CASE k = 3
    BY <1>11, <2>4
  <2> QED
    BY <2>1, <2>2, <2>3, <2>4
<1>17. NothingOvertakes(m)
  <2> SUFFICES ASSUME NEW c1 \in Calls, NEW c2 \in Calls, Ahead(m, c1, c2)'
               PROVE  Ahead(m, c1, c2)
    BY DEF NothingOvertakes
  <2>1. PICK k \in 1..3, l \in 1..3, i \in Nat, j \in Nat :
          Item(m, k, i, c1)' /\ Item(m, l, j, c2)' /\ Earlier(k, i, l, j)
    BY DEF Ahead
  <2>2. I(k, i) \in Nat /\ I(l, j) \in Nat /\ K(k, i) \in 1..3 /\ K(l, j) \in 1..3
    BY <2>1, <1>13
  <2>3. Item(m, K(k, i), I(k, i), c1) /\ Item(m, K(l, j), I(l, j), c2)
    BY <2>1, <1>13
  <2>4. Earlier(K(k, i), I(k, i), K(l, j), I(l, j))
    BY <2>1, <1>14
  <2> QED
    BY <2>2, <2>3, <2>4 DEF Ahead
<1> QED
  BY <1>15, <1>16, <1>17, MovesInOrder

LEMMA FinishInTurn ==
  ASSUME Bookkeeping, InTurn, NEW x \in 1..Len(running), NEW v \in Final, Finish(x, v)
  PROVE  InTurn'
<1>1. NetInv /\ taskOf \in [Calls -> Tasks]
  BY Made
<1>2. PICK s \in Sockets, c \in Calls : running[x] = <<s, c>> /\ running[x][1] = s
  BY <1>1, Running
<1>3. running' = RemoveAt(running, x) /\ UNCHANGED <<client, conn, up>>
  BY <1>1, <1>2, FinishDoes
<1>4. UNCHANGED <<made, conn, pending>> /\ (orderly' => orderly)
  BY <1>3 DEF client, Finish
<1>5. PICK reported \in [Sockets -> Seq(Messages)] : Sends(s, c, v, reported)
  BY <1>1, <1>2, FinishTells
<1>6. PICK st \in Messages : st = Status(taskOf[c], v) /\ \A d : st # Artifact(d)
  BY <1>1, <1>2, FinishDoes, NotBoth
<1>7. ASSUME NEW m \in Sockets, m = made, conn[m] \in Live, orderly' PROVE InOrder(m)'
  <2>1. InOrder(m) /\ orderly
    BY <1>4, <1>7 DEF InTurn, Sockets
  <2>2. reported[m] = down[m] \/ reported[m] = Append(down[m], st)
    BY <1>5, <1>6 DEF Sends
  <2>3. CASE s = m
    <3>1. conn[s] # "closed"
      BY <1>7, <2>3 DEF Live
    <3>2. \A j \in 1..(x - 1) : running[j][1] # m
      BY <1>2, <1>7, <2>3, <3>1 DEF Finish
    <3>3. down'[m] = Append(reported[m], Artifact(c))
      BY <1>5, <2>3, <3>1 DEF Sends
    <3> QED
      BY <1>2, <1>3, <1>4, <1>6, <2>1, <2>2, <2>3, <3>2, <3>3, FirstFinishes
  <2>4. CASE s # m
    <3>1. down'[m] = down[m] \/ down'[m] = Append(down[m], st)
      BY <1>5, <2>2, <2>4 DEF Sends
    <3>2. \A i \in Nat, d \in Calls : Item(m, 1, i, d)' <=> Item(m, 1, i, d)
      BY <1>1, <1>6, <3>1, StatusOnly
    <3> QED
      BY <1>2, <1>3, <1>4, <2>1, <2>4, <3>2, OthersLeave
  <2> QED
    BY <2>3, <2>4
<1> QED
  BY <1>4, <1>7, LatestInOrder

LEMMA ThrowsInTurn ==
  ASSUME Bookkeeping, InTurn, NEW x \in 1..Len(running), Throws(x)
  PROVE  InTurn'
<1>1. NetInv /\ taskOf \in [Calls -> Tasks]
  BY Made
<1>2. PICK s \in Sockets, c \in Calls : running[x] = <<s, c>> /\ running[x][1] = s
  BY <1>1, Running
<1>3. running' = RemoveAt(running, x) /\ UNCHANGED <<client, conn, up>>
  BY <1>1, <1>2, ThrowsDoes
<1>4. UNCHANGED <<made, conn, pending>> /\ (orderly' => orderly)
  BY <1>3 DEF client, Throws
<1>5. PICK st \in Messages : st = Status(taskOf[c], "failed") /\ \A d : st # Artifact(d)
  BY <1>1, <1>2, ThrowsDoes, NotBoth
<1>6. \A r \in Sockets : down'[r] = down[r] \/ down'[r] = Append(down[r], st)
  <2>1. \A r \in Sockets :
          down'[r] = IF r \in subs[taskOf[c]] /\ conn[r] # "closed"
                     THEN Append(down[r], Status(taskOf[c], "failed")) ELSE down[r]
    BY <1>1, <1>2, ThrowsDoes
  <2> QED
    BY <1>5, <2>1
<1>7. ASSUME NEW m \in Sockets, m = made, conn[m] \in Live, orderly' PROVE InOrder(m)'
  <2>1. InOrder(m)
    BY <1>4, <1>7 DEF InTurn, Sockets
  <2>2. s # m
    BY <1>2, <1>7 DEF Throws, Live
  <2>3. \A i \in Nat, d \in Calls : Item(m, 1, i, d)' <=> Item(m, 1, i, d)
    BY <1>1, <1>5, <1>6, StatusOnly
  <2> QED
    BY <1>2, <1>3, <1>4, <2>1, <2>2, <2>3, OthersLeave
<1> QED
  BY <1>4, <1>7, LatestInOrder

\* The first message is read.
LEMMA ReadShifts ==
  ASSUME NetInv, NEW m \in Sockets, down[m] # <<>>, down'[m] = Tail(down[m]), UNCHANGED <<running, up>>
  PROVE  /\ \A i \in Nat, d \in Calls : Item(m, 1, i, d)' <=> i # 0 /\ Item(m, 1, i + 1, d)
         /\ \A k \in 2..3, i \in Nat, d \in Calls : Item(m, k, i, d)' <=> Item(m, k, i, d)
<1>1. PICK a \in Nat : a = Len(down[m]) /\ a > 0
  BY LenProperties, EmptySeq DEF NetInv, PeerTypes
<1>2. Len(down'[m]) = a - 1 /\ \A i \in 1..(a - 1) : down'[m][i] = down[m][i + 1]
  BY <1>1, HeadTailProperties DEF NetInv, PeerTypes
<1>3. \A i \in Nat, d \in Calls : Item(m, 1, i, d)' <=> i # 0 /\ Item(m, 1, i + 1, d)
  BY <1>1, <1>2 DEF Item
<1>4. \A k \in 2..3, i \in Nat, d \in Calls : Item(m, k, i, d)' <=> Item(m, k, i, d)
  BY DEF Item
<1> QED
  BY <1>3, <1>4

\* A status is read: the rest moves up.
LEMMA ReadInOrder ==
  ASSUME Bookkeeping, NEW m \in Sockets, InOrder(m), pending' = pending,
         down[m] # <<>>, down'[m] = Tail(down[m]), UNCHANGED <<running, up>>,
         \A d : Head(down[m]) # Artifact(d)
  PROVE  InOrder(m)'
<1>1. /\ \A i \in Nat, d \in Calls : Item(m, 1, i, d)' <=> i # 0 /\ Item(m, 1, i + 1, d)
      /\ \A k \in 2..3, i \in Nat, d \in Calls : Item(m, k, i, d)' <=> Item(m, k, i, d)
  BY ReadShifts DEF Bookkeeping
<1>2. \A d \in Calls : ~Item(m, 1, 1, d)
  <2>1. Head(down[m]) = down[m][1]
    OBVIOUS
  <2> QED
    BY <2>1 DEF Item
<1>3. \A i \in Nat, d \in Calls : Item(m, 1, i, d) => i > 1
  BY <1>2 DEF Item
<1> DEFINE I(k, i) == IF k = 1 THEN i + 1 ELSE i
<1>4. \A k \in 1..3, i \in Nat, d \in Calls : Item(m, k, i, d)' => I(k, i) \in Nat /\ Item(m, k, I(k, i), d)
  BY <1>1
<1>5. \A k, l \in 1..3, i, j \in Nat : Earlier(k, i, l, j) => Earlier(k, I(k, i), l, I(l, j))
  BY DEF Earlier
<1>6. NothingDropped(m)
  <2> SUFFICES ASSUME NEW k \in 1..3, NEW i \in Nat, NEW d \in Calls, Item(m, k, i, d)
               PROVE  \E l \in 1..3, j \in Nat : Item(m, l, j, d)'
    BY DEF NothingDropped
  <2>1. CASE k = 1
    <3>1. i - 1 \in Nat /\ i - 1 # 0 /\ i - 1 + 1 = i
      BY <1>3, <2>1
    <3>2. Item(m, 1, i - 1, d)'
      BY <1>1, <2>1, <3>1
    <3> QED
      BY <3>1, <3>2
  <2>2. CASE k # 1
    BY <1>1, <2>2
  <2> QED
    BY <2>1, <2>2
<1> HIDE DEF I
<1>7. NothingAdded(m)
  BY <1>4 DEF NothingAdded
<1>8. NothingOvertakes(m)
  <2> SUFFICES ASSUME NEW c1 \in Calls, NEW c2 \in Calls, Ahead(m, c1, c2)'
               PROVE  Ahead(m, c1, c2)
    BY DEF NothingOvertakes
  <2>1. PICK k \in 1..3, l \in 1..3, i \in Nat, j \in Nat :
          Item(m, k, i, c1)' /\ Item(m, l, j, c2)' /\ Earlier(k, i, l, j)
    BY DEF Ahead
  <2>2. I(k, i) \in Nat /\ I(l, j) \in Nat
    BY <2>1, <1>4
  <2>3. Item(m, k, I(k, i), c1) /\ Item(m, l, I(l, j), c2)
    BY <2>1, <1>4
  <2>4. Earlier(k, I(k, i), l, I(l, j))
    BY <2>1, <1>5
  <2> QED
    BY <2>2, <2>3, <2>4 DEF Ahead
<1> QED
  BY <1>6, <1>7, <1>8, MovesInOrder

\* A result is read, and settles the first request: both are gone.
LEMMA SettledInOrder ==
  ASSUME Bookkeeping, NEW m \in Sockets, InOrder(m), pending # <<>>, pending' = Tail(pending),
         down[m] # <<>>, down'[m] = Tail(down[m]), UNCHANGED <<running, up>>,
         NEW c \in Calls, Head(down[m]) = Artifact(c), Head(pending) = c
  PROVE  InOrder(m)'
<1>1. /\ \A i \in Nat, d \in Calls : Item(m, 1, i, d)' <=> i # 0 /\ Item(m, 1, i + 1, d)
      /\ \A k \in 2..3, i \in Nat, d \in Calls : Item(m, k, i, d)' <=> Item(m, k, i, d)
  BY ReadShifts DEF Bookkeeping
<1>2. \A d \in Calls : Item(m, 1, 1, d) <=> d = c
  <2>1. 1 \in 1..Len(down[m])
    BY EmptySeq DEF Bookkeeping, NetInv, PeerTypes
  <2>2. Head(down[m]) = down[m][1]
    OBVIOUS
  <2>3. \A d \in Calls : Artifact(d) = Artifact(c) => d = c
    BY DEF Artifact
  <2> QED
    BY <2>1, <2>2, <2>3 DEF Item
<1>3. PICK n \in Nat : n = Len(pending) /\ n > 0
  BY LenProperties, EmptySeq DEF Bookkeeping, ClientInv, ClientTypes
<1>4. /\ Len(pending') = n - 1
      /\ \A i \in 1..(n - 1) : pending'[i] = pending[i + 1]
      /\ pending[1] = c
  BY <1>3, HeadTailProperties DEF Bookkeeping, ClientInv, ClientTypes
<1>5. \A i \in 1..n : pending[i] = c => i = 1
  BY <1>3, <1>4 DEF Bookkeeping, ClientInv, KeysDiffer, Distinct
<1>6. \A d : d \in Range(pending') <=> d \in Range(pending) /\ d # c
  BY TailDistinct DEF Bookkeeping, ClientInv
<1>7. \A d, e : Before(d, e) /\ d # c => Before(d, e)'
  <2> SUFFICES ASSUME NEW d, NEW e, Before(d, e), d # c PROVE Before(d, e)'
    OBVIOUS
  <2>1. PICK i \in 1..n, j \in 1..n : i < j /\ pending[i] = d /\ pending[j] = e
    BY <1>3 DEF Before
  <2>2. i - 1 \in 1..(n - 1) /\ j - 1 \in 1..(n - 1) /\ i - 1 < j - 1 /\ i - 1 + 1 = i /\ j - 1 + 1 = j
    BY <1>3, <1>4, <2>1
  <2>3. pending'[i - 1] = d /\ pending'[j - 1] = e
    BY <1>4, <2>1, <2>2
  <2> QED
    BY <1>4, <2>2, <2>3 DEF Before
<1>8. \A k \in 1..3, i \in Nat, d \in Calls : Item(m, k, i, d) /\ ~(k = 1 /\ i = 1) => d # c
  <2> SUFFICES ASSUME NEW k \in 1..3, NEW i \in Nat, Item(m, k, i, c), ~(k = 1 /\ i = 1)
               PROVE  FALSE
    OBVIOUS
  <2>1. Earlier(1, 1, k, i)
    BY DEF Earlier, Item
  <2>2. Before(c, c)
    BY <1>2, <2>1 DEF InOrder
  <2>3. PICK a \in 1..n, b \in 1..n : a < b /\ pending[a] = c /\ pending[b] = c
    BY <1>3, <2>2 DEF Before
  <2> QED
    BY <1>5, <2>3
<1> DEFINE I(k, i) == IF k = 1 THEN i + 1 ELSE i
<1>9. \A k \in 1..3, i \in Nat, d \in Calls :
        Item(m, k, i, d)' => /\ I(k, i) \in Nat
                             /\ Item(m, k, I(k, i), d)
                             /\ ~(k = 1 /\ I(k, i) = 1)
  BY <1>1
<1>10. \A k, l \in 1..3, i, j \in Nat : Earlier(k, i, l, j) => Earlier(k, I(k, i), l, I(l, j))
  BY DEF Earlier
<1>11. \A k \in 1..3, i \in Nat, d \in Calls :
         Item(m, k, i, d) /\ d # c => \E l \in 1..3, j \in Nat : Item(m, l, j, d)'
  <2> SUFFICES ASSUME NEW k \in 1..3, NEW i \in Nat, NEW d \in Calls, Item(m, k, i, d), d # c
               PROVE  \E l \in 1..3, j \in Nat : Item(m, l, j, d)'
    OBVIOUS
  <2>1. CASE k = 1
    <3>1. i \in Nat \ {0, 1}
      BY <1>2, <2>1 DEF Item
    <3>2. i - 1 \in Nat /\ i - 1 # 0 /\ i - 1 + 1 = i
      BY <3>1
    <3>3. Item(m, 1, i - 1, d)'
      BY <1>1, <2>1, <3>2
    <3> QED
      BY <3>2, <3>3
  <2>2. CASE k # 1
    BY <1>1, <2>2
  <2> QED
    BY <2>1, <2>2
<1> HIDE DEF I
<1>12. \A k \in 1..3, i \in Nat, d \in Calls : Item(m, k, i, d)' => d \in Range(pending')
  BY <1>6, <1>8, <1>9 DEF InOrder
<1>13. \A d \in Range(pending') : \E k \in 1..3, i \in Nat : Item(m, k, i, d)'
  <2>1. Range(pending) \subseteq Calls
    BY RangeOfSeq DEF Bookkeeping, ClientInv, ClientTypes
  <2> QED
    BY <1>6, <1>11, <2>1 DEF InOrder
<1>14. \A k, l \in 1..3, i, j \in Nat, d, e \in Calls :
         Item(m, k, i, d)' /\ Item(m, l, j, e)' /\ Earlier(k, i, l, j) => Before(d, e)'
  BY <1>7, <1>8, <1>9, <1>10 DEF InOrder
<1> QED
  BY <1>12, <1>13, <1>14 DEF InOrder

LEMMA ReceiveInTurn ==
  ASSUME Bookkeeping, InTurn, NEW s \in Sockets, Receive(s)
  PROVE  InTurn'
<1> DEFINE msg == Head(down[s])
<1>1. msg \in Messages
  BY HeadTailProperties DEF Receive, Bookkeeping, NetInv, PeerTypes
<1>2. /\ conn[s] \in Live /\ down[s] # <<>>
      /\ (msg.kind = "status" /\ Report(msg)) \/ (msg.kind = "artifact" /\ Resolve(msg))
      /\ down' = [down EXCEPT ![s] = Tail(@)]
      /\ UNCHANGED <<made, conn, up, running, orderly>>
  BY DEF Receive, peer, Live
<1>3. down'[s] = Tail(down[s]) /\ down \in [Sockets -> Seq(Messages)]
  BY <1>2 DEF Bookkeeping, NetInv, PeerTypes
<1>4. (msg.kind = "status" /\ \A d : msg # Artifact(d))
        \/ \E c \in Calls : msg.kind = "artifact" /\ msg = Artifact(c)
  BY <1>1 DEF Messages, Artifact
<1> HIDE DEF msg
<1>5. ASSUME orderly, NEW m \in Sockets, m = made, conn[m] \in Live PROVE m = s /\ InOrder(m)
  <2>1. m # 0
    BY DEF Sockets
  <2> QED
    BY <1>2, <1>5, <2>1 DEF InTurn, OneLive
<1>6. CASE msg.kind = "status" /\ \A d : msg # Artifact(d)
  <2>1. pending' = pending
    BY <1>2, <1>6 DEF Report
  <2>2. ASSUME orderly, NEW m \in Sockets, m = made, conn[m] \in Live PROVE InOrder(m)'
    BY <1>2, <1>3, <1>5, <1>6, <2>1, <2>2, ReadInOrder DEF msg
  <2>3. pending' = <<>> \/ pending # <<>>
    BY <2>1
  <2>4. UNCHANGED <<made, conn>> /\ orderly' = orderly
    BY <1>2
  <2> QED
    BY <2>2, <2>3, <2>4, LatestInOrder
<1>7. ASSUME NEW c \in Calls, msg.kind = "artifact", msg = Artifact(c) PROVE InTurn'
  <2>1. pending' = IF pending = <<>> THEN pending ELSE Tail(pending)
    BY <1>2, <1>7 DEF Resolve
  <2>2. ASSUME orderly, NEW m \in Sockets, m = made, conn[m] \in Live PROVE InOrder(m)'
    <3>1. pending # <<>> /\ Head(pending) = c
      BY <1>2, <1>7, <2>2, FirstComesFirst DEF msg
    <3>2. m = s /\ InOrder(m)
      BY <1>5, <2>2
    <3>3. pending' = Tail(pending)
      BY <2>1, <3>1
    <3> QED
      BY <1>2, <1>3, <1>7, <3>1, <3>2, <3>3, SettledInOrder DEF msg
  <2>3. pending' = <<>> \/ pending # <<>>
    BY <2>1
  <2>4. UNCHANGED <<made, conn>> /\ orderly' = orderly
    BY <1>2
  <2> QED
    BY <2>2, <2>3, <2>4, LatestInOrder
<1> QED
  BY <1>4, <1>6, <1>7

LEMMA InitInTurn == Init => InTurn
<1> SUFFICES ASSUME Init PROVE InTurn
  OBVIOUS
<1> QED
  BY DEF Init, InTurn, OneLive, Live

LEMMA StepInTurn == Bookkeeping /\ InTurn /\ [Next]_vars => InTurn'
<1> SUFFICES ASSUME Bookkeeping, InTurn, [Next]_vars PROVE InTurn'
  OBVIOUS
<1>1. ASSUME UNCHANGED vars PROVE InTurn'
  <2>1. UNCHANGED <<made, conn, pending, up, down, running, orderly>>
    BY <1>1 DEF vars, client, net, peer
  <2>2. \A s \in Sockets, k \in 1..3, i \in Nat, c \in Calls : Item(s, k, i, c)' <=> Item(s, k, i, c)
    BY <2>1 DEF Item
  <2> QED
    BY <2>1, <2>2, StillInTurn
<1>2. ASSUME NEW c \in Calls, ExecuteOpen(c) \/ ExecuteConnect(c) \/ Opened(c) \/ Timeout(c)
      PROVE  InTurn'
  BY <1>2, ExecuteOpenInTurn, ExecuteConnectInTurn, OpenedInTurn, TimeoutInTurn
<1>3. ASSUME NEW s \in Sockets, Closed(s) \/ Receive(s) PROVE InTurn'
  BY <1>3, ClosedInTurn, ReceiveInTurn
<1>4. ASSUME NEW s \in Sockets, NEW c \in Calls, Accept(s, c) PROVE InTurn'
  BY <1>4, AcceptInTurn
<1>5. ASSUME NEW s \in Sockets, NEW c \in Calls, Reject(s, c) \/ Refuse(s, c) PROVE InTurn'
  BY <1>5 DEF Reject, Refuse, InTurn
<1>6. ASSUME NEW i \in 1..Len(running), Throws(i) \/ \E v \in Final : Finish(i, v) PROVE InTurn'
  BY <1>6, FinishInTurn, ThrowsInTurn
<1>7. ASSUME NEW s \in Sockets, Unverified(s) PROVE InTurn'
  BY <1>7 DEF Unverified, InTurn
<1> QED
  BY <1>1, <1>2, <1>3, <1>4, <1>5, <1>6, <1>7, CloseInTurn DEF Next, Final

\* A step that gives a call a result reads that result, and the call is the first that waits.
LEMMA OnlyReceiveAnswers ==
  ASSUME Bookkeeping, [Next]_vars, NEW c \in Calls, answer'[c] \in Calls, answer'[c] # answer[c]
  PROVE  \E s \in Sockets :
           /\ conn[s] \in Live /\ down[s] # <<>>
           /\ Head(down[s]).kind = "artifact"
           /\ pending # <<>> /\ c = Head(pending) /\ answer'[c] = Head(down[s]).call
           /\ pc[c] = "waiting" /\ told' = told
<1>1. answer \in [Calls -> Calls \cup {"none", "threw", "closed", "timeout"}]
  BY DEF Bookkeeping, ClientInv, ClientTypes
<1>2. /\ "none" \notin Calls /\ "threw" \notin Calls /\ "closed" \notin Calls /\ "timeout" \notin Calls
  BY SocketAssumption
<1>3. ASSUME UNCHANGED answer PROVE FALSE
  BY <1>1, <1>2, <1>3
<1>4. ASSUME NEW d \in Calls, Submit(d) PROVE FALSE
  BY <1>1, <1>2, <1>4 DEF Submit
<1>5. ASSUME NEW d \in Calls, Timeout(d) PROVE FALSE
  BY <1>1, <1>2, <1>5 DEF Timeout
<1>6. ASSUME NEW s \in Sockets, Closed(s) PROVE FALSE
  BY <1>1, <1>2, <1>6 DEF Closed
<1>7. ASSUME NEW s \in Sockets, Receive(s)
      PROVE  /\ conn[s] \in Live /\ down[s] # <<>>
             /\ Head(down[s]).kind = "artifact"
             /\ pending # <<>> /\ c = Head(pending) /\ answer'[c] = Head(down[s]).call
             /\ pc[c] = "waiting" /\ told' = told
  <2> DEFINE msg == Head(down[s])
  <2>1. conn[s] \in Live /\ down[s] # <<>>
    BY <1>7 DEF Receive, Live
  <2>2. (msg.kind = "status" /\ Report(msg)) \/ (msg.kind = "artifact" /\ Resolve(msg))
    BY <1>7 DEF Receive
  <2> HIDE DEF msg
  <2>3. ~Report(msg)
    BY <1>3 DEF Report
  <2>4. msg.kind = "artifact" /\ Resolve(msg)
    BY <2>2, <2>3
  <2>5. pending # <<>> /\ pc[Head(pending)] = "waiting" /\ answer' = [answer EXCEPT ![Head(pending)] = msg.call]
    BY <1>3, <2>4 DEF Resolve
  <2>6. c = Head(pending) /\ answer'[c] = msg.call /\ pc[c] = "waiting"
    BY <1>1, <1>2, <2>5
  <2>7. told' = told
    BY <2>4 DEF Resolve
  <2> QED
    BY <2>1, <2>4, <2>5, <2>6, <2>7 DEF msg
<1>8. Next
  BY <1>3 DEF vars, client
<1>9. \/ \E d \in Calls : Submit(d)
      \/ \E d \in Calls : Timeout(d)
      \/ \E s \in Sockets : Closed(s) \/ Receive(s)
      \/ UNCHANGED answer
  BY <1>8 DEF Next, ExecuteOpen, ExecuteConnect, Opened, Close, Accept, Reject, Refuse, Finish,
     Throws, Unverified, client
<1> QED
  BY <1>3, <1>4, <1>5, <1>6, <1>7, <1>9

\* Results matched by their order alone reach the calls they answer, as long as the peer
\* answers in turn: OwnResultInTurn, of the handler of 'artifact_delivery'.
THEOREM ResultsInTurn == Spec => OwnResultInTurn
<1> DEFINE Own == \A c \in Calls :
                    pc[c] = "waiting" /\ answer'[c] \in Calls /\ orderly => answer'[c] = c
<1>1. Bookkeeping /\ InTurn /\ [Next]_vars => Own
  <2> SUFFICES ASSUME Bookkeeping, InTurn, [Next]_vars, NEW c \in Calls,
                      pc[c] = "waiting", answer'[c] \in Calls, orderly
               PROVE  answer'[c] = c
    OBVIOUS
  <2>1. PICK s \in Sockets :
          /\ conn[s] \in Live /\ down[s] # <<>>
          /\ Head(down[s]).kind = "artifact"
          /\ pending # <<>> /\ c = Head(pending) /\ answer'[c] = Head(down[s]).call
    <3>1. answer[c] = "none" /\ "none" \notin Calls
      BY SocketAssumption DEF Bookkeeping, ClientInv, CallsWhere
    <3> QED
      BY <3>1, OnlyReceiveAnswers
  <2>2. Head(down[s]) \in Messages
    BY <2>1, HeadTailProperties DEF Bookkeeping, NetInv, PeerTypes
  <2>3. PICK d \in Calls : Head(down[s]) = Artifact(d) /\ Head(down[s]).call = d
    BY <2>1, <2>2 DEF Messages, Artifact
  <2>4. Head(pending) = d
    BY <2>1, <2>3, FirstComesFirst
  <2> QED
    BY <2>1, <2>3, <2>4
<1>2. Spec => [](Bookkeeping /\ InTurn)
  BY InitBookkeeping, InitInTurn, StepBookkeeping, StepInTurn, PTL DEF Spec
<1> HIDE DEF Own
<1>3. Spec => [][Own]_vars
  BY <1>1, <1>2, PTL DEF Spec
<1> QED
  BY <1>3 DEF OwnResultInTurn, Own

-----------------------------------------------------------------------------
(* Told before answered                                                     *)
(*                                                                          *)
(* A call with a task id of its own leaves its traces on one socket, and    *)
(* they change in one order: a request under way, a handler with its        *)
(* subscription, the last status, the result.                               *)

\* A message that is about call c, whose task is t.
About(msg, c, t) == IF msg.kind = "status" THEN msg.task = t ELSE msg.call = c

Silent(q, c, t) == \A i \in 1..Len(q) : ~About(q[i], c, t)

FinalAt(q, i, t) == \E f \in Final : q[i] = Status(t, f)

\* What the messages q tell of c, to a caller told v so far: nothing is said to go on
\* once it was over, and if the caller still minds, a result comes after the end.
Tells(q, c, t, v, minds) ==
  /\ \A i \in 1..Len(q) : q[i] = Status(t, "executing") =>
       v \notin Final /\ \A j \in 1..(i - 1) : ~FinalAt(q, j, t)
  /\ minds => \A i \in 1..Len(q) : q[i] = Artifact(c) =>
       v \in Final \/ \E j \in 1..(i - 1) : FinalAt(q, j, t)

LEMMA AboutThem ==
  ASSUME NEW c \in Calls, NEW t \in Tasks, NEW v
  PROVE  /\ About(Status(t, v), c, t)
         /\ About(Artifact(c), c, t)
         /\ \A w : \A u \in Tasks : u # t => ~About(Status(u, w), c, t)
         /\ \A d \in Calls : d # c => ~About(Artifact(d), c, t)
BY DEF About, Status, Artifact

\* What says nothing can say nothing wrong.
LEMMA SilentTells ==
  ASSUME NEW q \in Seq(Messages), NEW c \in Calls, NEW t \in Tasks, NEW v, NEW minds \in BOOLEAN,
         Silent(q, c, t)
  PROVE  Tells(q, c, t, v, minds)
BY AboutThem DEF Silent, Tells

\* A caller that does not mind any more.
LEMMA TellsLess ==
  ASSUME NEW q, NEW c, NEW t, NEW v, NEW minds, NEW less, less => minds, Tells(q, c, t, v, minds)
  PROVE  Tells(q, c, t, v, less)
BY DEF Tells

LEMMA NothingThere ==
  ASSUME NEW S, NEW q \in Seq(S), Len(q) = 0, NEW c, NEW t, NEW v, NEW minds
  PROVE  c \notin Range(q) /\ Silent(q, c, t) /\ Tells(q, c, t, v, minds)
<1>1. c \in Range(q) <=> \E i \in 1..Len(q) : q[i] = c
  BY InRange
<1> QED
  BY <1>1 DEF Silent, Tells

LEMMA SilentTail ==
  ASSUME NEW q \in Seq(Messages), q # <<>>, NEW c \in Calls, NEW t \in Tasks, Silent(q, c, t)
  PROVE  Silent(Tail(q), c, t)
BY HeadTailProperties DEF Silent

LEMMA SilentAppend ==
  ASSUME NEW q \in Seq(Messages), NEW msg \in Messages, NEW c \in Calls, NEW t \in Tasks,
         Silent(q, c, t), ~About(msg, c, t)
  PROVE  Silent(Append(q, msg), c, t)
<1>1. PICK n \in Nat : n = Len(q)
  BY LenProperties
<1>2. PICK r \in Seq(Messages) : r = Append(q, msg)
  BY AppendProperties
<1>3. Len(r) = n + 1 /\ r[n + 1] = msg /\ \A i \in 1..n : r[i] = q[i]
  BY <1>1, <1>2, AppendProperties
<1>4. \A i \in 1..(n + 1) : i = n + 1 \/ i \in 1..n
  BY <1>1
<1> QED
  BY <1>1, <1>2, <1>3, <1>4 DEF Silent

\* The first message is read, and was not a status of the task, or was not heeded.
LEMMA TellsTail ==
  ASSUME NEW q \in Seq(Messages), q # <<>>, NEW c \in Calls, NEW t \in Tasks, NEW v, NEW minds \in BOOLEAN,
         Tells(q, c, t, v, minds),
         minds => \A f \in Final : Head(q) # Status(t, f)
  PROVE  Tells(Tail(q), c, t, v, minds)
<1>1. PICK n \in Nat : n = Len(q) /\ n > 0
  BY LenProperties, EmptySeq
<1>2. PICK r \in Seq(Messages) : r = Tail(q)
  BY HeadTailProperties
<1>3. Len(r) = n - 1 /\ \A i \in 1..(n - 1) : r[i] = q[i + 1]
  BY <1>1, <1>2, HeadTailProperties
<1>4. Head(q) = q[1]
  OBVIOUS
<1>5. \A i \in 1..(n - 1) : i + 1 \in 1..n /\ \A j \in 1..(i - 1) : j + 1 \in 1..(i + 1 - 1) /\ j \in 1..(n - 1)
  BY <1>1
<1>6. \A i \in 1..(n - 1) : \A j \in 1..(i + 1 - 1) : j = 1 \/ (j - 1 \in 1..(i - 1) /\ j - 1 + 1 = j)
  BY <1>1
<1>7. \A j \in 1..(n - 1) : FinalAt(r, j, t) <=> FinalAt(q, j + 1, t)
  BY <1>3 DEF FinalAt
<1>8. \A i \in 1..(n - 1) : r[i] = Status(t, "executing") =>
        v \notin Final /\ \A j \in 1..(i - 1) : ~FinalAt(r, j, t)
  BY <1>1, <1>3, <1>5, <1>7 DEF Tells
<1>9. ASSUME minds, NEW i \in 1..(n - 1), r[i] = Artifact(c)
      PROVE  v \in Final \/ \E j \in 1..(i - 1) : FinalAt(r, j, t)
  <2>1. q[i + 1] = Artifact(c) /\ i + 1 \in 1..n
    BY <1>3, <1>5, <1>9
  <2>2. CASE v \in Final
    BY <2>2
  <2>3. ASSUME NEW j \in 1..(i + 1 - 1), FinalAt(q, j, t)
        PROVE  \E k \in 1..(i - 1) : FinalAt(r, k, t)
    <3>1. j # 1
      BY <1>4, <1>9, <2>3 DEF FinalAt
    <3>2. j - 1 \in 1..(i - 1) /\ j - 1 + 1 = j /\ j - 1 \in 1..(n - 1)
      BY <1>5, <1>6, <3>1
    <3> QED
      BY <1>7, <2>3, <3>2
  <2> QED
    BY <1>1, <1>9, <2>1, <2>2, <2>3 DEF Tells
<1> QED
  BY <1>2, <1>3, <1>8, <1>9 DEF Tells

\* A status of the task is read, and is what the caller is told from now on.
LEMMA TellsRead ==
  ASSUME NEW q \in Seq(Messages), q # <<>>, NEW c \in Calls, NEW t \in Tasks, NEW v, NEW minds \in BOOLEAN,
         Tells(q, c, t, v, minds),
         NEW w \in {"executing"} \cup Final, Head(q) = Status(t, w)
  PROVE  Tells(Tail(q), c, t, w, minds)
<1>1. PICK n \in Nat : n = Len(q) /\ n > 0
  BY LenProperties, EmptySeq
<1>2. PICK r \in Seq(Messages) : r = Tail(q)
  BY HeadTailProperties
<1>3. Len(r) = n - 1 /\ \A i \in 1..(n - 1) : r[i] = q[i + 1]
  BY <1>1, <1>2, HeadTailProperties
<1>4. q[1] = Status(t, w) /\ 1 \in 1..n
  BY <1>1
<1>5. "executing" \notin Final
  BY DEF Final
<1>6. CASE w \in Final
  <2>1. \A i \in 1..(n - 1) : r[i] # Status(t, "executing")
    <3> SUFFICES ASSUME NEW i \in 1..(n - 1), r[i] = Status(t, "executing") PROVE FALSE
      OBVIOUS
    <3>1. i + 1 \in 1..n /\ 1 \in 1..(i + 1 - 1) /\ q[i + 1] = Status(t, "executing")
      BY <1>1, <1>3
    <3>2. FinalAt(q, 1, t)
      BY <1>4, <1>6 DEF FinalAt
    <3> QED
      BY <1>1, <3>1, <3>2 DEF Tells
  <2> QED
    BY <1>2, <1>3, <1>6, <2>1 DEF Tells
<1>7. CASE w = "executing"
  <2>1. v \notin Final
    BY <1>1, <1>4, <1>7 DEF Tells
  <2>2. \A f \in Final : Status(t, f) # Status(t, "executing")
    BY <1>5 DEF Status
  <2>3. Tells(r, c, t, v, minds)
    BY <1>2, <1>7, <2>2, TellsTail
  <2> QED
    BY <1>2, <1>5, <1>7, <2>1, <2>3 DEF Tells
<1> QED
  BY <1>6, <1>7

\* A message is added.
LEMMA TellsAppend ==
  ASSUME NEW q \in Seq(Messages), NEW c \in Calls, NEW t \in Tasks, NEW v, NEW minds \in BOOLEAN,
         Tells(q, c, t, v, minds), NEW msg \in Messages,
         msg = Status(t, "executing") => v \notin Final /\ \A j \in 1..Len(q) : ~FinalAt(q, j, t),
         minds /\ msg = Artifact(c) => v \in Final \/ \E j \in 1..Len(q) : FinalAt(q, j, t)
  PROVE  Tells(Append(q, msg), c, t, v, minds)
<1>1. PICK n \in Nat : n = Len(q)
  BY LenProperties
<1>2. PICK r \in Seq(Messages) : r = Append(q, msg)
  BY AppendProperties
<1>3. Len(r) = n + 1 /\ r[n + 1] = msg /\ \A i \in 1..n : r[i] = q[i]
  BY <1>1, <1>2, AppendProperties
<1>4. \A i \in 1..(n + 1) : (i = n + 1 \/ i \in 1..n) /\ \A j \in 1..(i - 1) : j \in 1..n
  BY <1>1
<1>5. \A j \in 1..n : FinalAt(r, j, t) <=> FinalAt(q, j, t)
  BY <1>3 DEF FinalAt
<1>6. ASSUME NEW i \in 1..(n + 1), r[i] = Status(t, "executing")
      PROVE  v \notin Final /\ \A j \in 1..(i - 1) : ~FinalAt(r, j, t)
  <2>1. CASE i = n + 1
    BY <1>1, <1>3, <1>4, <1>5, <1>6, <2>1
  <2>2. CASE i \in 1..n
    BY <1>1, <1>3, <1>4, <1>5, <1>6, <2>2 DEF Tells
  <2> QED
    BY <1>4, <2>1, <2>2
<1>7. ASSUME minds, NEW i \in 1..(n + 1), r[i] = Artifact(c)
      PROVE  v \in Final \/ \E j \in 1..(i - 1) : FinalAt(r, j, t)
  <2>1. CASE i = n + 1
    <3>1. n + 1 - 1 = n
      BY <1>1
    <3> QED
      BY <1>1, <1>3, <1>5, <1>7, <2>1, <3>1
  <2>2. CASE i \in 1..n
    BY <1>1, <1>3, <1>4, <1>5, <1>7, <2>2 DEF Tells
  <2> QED
    BY <1>4, <2>1, <2>2
<1> QED
  BY <1>2, <1>3, <1>6, <1>7 DEF Tells

LEMMA TellsMore ==
  ASSUME NEW q \in Seq(Messages), NEW c \in Calls, NEW t \in Tasks, NEW v, NEW minds \in BOOLEAN,
         Tells(q, c, t, v, minds), NEW msg \in Messages, ~About(msg, c, t)
  PROVE  Tells(Append(q, msg), c, t, v, minds)
<1>1. msg # Status(t, "executing") /\ msg # Artifact(c)
  BY AboutThem
<1> QED
  BY <1>1, TellsAppend

\* The traces of a call on a socket.
Trace(s, c) ==
  \/ c \in Range(up[s])
  \/ <<s, c>> \in Range(running)
  \/ s \in subs[taskOf[c]]
  \/ ~Silent(down[s], c, taskOf[c])

Minds(c) == pc[c] = "waiting" /\ ~unread
Once(q, c) == \A i, j \in 1..Len(q) : q[i] = c /\ q[j] = c => i = j

OneSocket(c) == \A s, r \in Sockets : Trace(s, c) /\ Trace(r, c) => s = r
Unsent(c) ==
  pc[c] \in {"idle", "connecting"} => told[c] = "nothing" /\ \A s \in Sockets : ~Trace(s, c)
UnderWay(c) ==
  \A s \in Sockets : c \in Range(up[s]) =>
    /\ Once(up[s], c)
    /\ \A i \in 1..Len(running) : running[i][2] # c
    /\ subs[taskOf[c]] = {}
    /\ \A r \in Sockets : Silent(down[r], c, taskOf[c])
    /\ told[c] = "nothing"
Handled(c) ==
  /\ \A i, j \in 1..Len(running) : running[i][2] = c /\ running[j][2] = c => i = j
  /\ \A i \in 1..Len(running) :
       running[i][2] = c /\ conn[running[i][1]] # "closed" => running[i][1] \in subs[taskOf[c]]
InWords(c) == \A s \in Sockets : Tells(down[s], c, taskOf[c], told[c], Minds(c))

Course(c) == OneSocket(c) /\ Unsent(c) /\ UnderWay(c) /\ Handled(c) /\ InWords(c)

\* Who is being handled where, in other words.
LEMMA HandledThere ==
  ASSUME NetInv, NEW s, NEW c
  PROVE  <<s, c>> \in Range(running) <=> \E i \in 1..Len(running) : running[i] = <<s, c>>
BY InRange DEF NetInv, PeerTypes

\* Nothing about the call has changed, but for what its caller waits for.
LEMMA SameCourse ==
  ASSUME Bookkeeping, NEW c \in Calls, Course(c),
         UNCHANGED <<taskOf, up, down, running, subs>>, told'[c] = told[c],
         pc'[c] \in {"idle", "connecting"} => pc[c] \in {"idle", "connecting"},
         Minds(c)' => Minds(c),
         \A i \in 1..Len(running) : conn[running[i][1]] = "closed" => conn'[running[i][1]] = "closed"
  PROVE  Course(c)'
<1>1. \A s \in Sockets : Trace(s, c)' <=> Trace(s, c)
  BY DEF Trace
<1>2. OneSocket(c)' /\ Unsent(c)'
  BY <1>1 DEF Course, OneSocket, Unsent
<1>3. UnderWay(c)'
  BY DEF Course, UnderWay
<1>4. Handled(c)'
  BY DEF Course, Handled
<1>5. InWords(c)'
  BY TellsLess DEF Course, InWords
<1> QED
  BY <1>2, <1>3, <1>4, <1>5 DEF Course

LEMMA OnceTail ==
  ASSUME NEW q \in Seq(Calls), q # <<>>, NEW c, Once(q, c)
  PROVE  /\ Once(Tail(q), c)
         /\ c \in Range(Tail(q)) => c \in Range(q) /\ c # Head(q)
<1>1. PICK n \in Nat : n = Len(q) /\ n > 0
  BY LenProperties, EmptySeq
<1>2. Len(Tail(q)) = n - 1 /\ \A i \in 1..(n - 1) : Tail(q)[i] = q[i + 1]
  BY <1>1, HeadTailProperties
<1>3. Once(Tail(q), c)
  BY <1>1, <1>2 DEF Once
<1>4. ASSUME c \in Range(Tail(q)) PROVE c \in Range(q) /\ c # Head(q)
  <2>1. PICK i \in 2..n : q[i] = c
    BY <1>1, <1>4, TailInRange
  <2>2. i \in 1..n /\ i # 1 /\ 1 \in 1..n
    BY <1>1
  <2>3. Head(q) = q[1]
    OBVIOUS
  <2>4. q[1] # c
    BY <1>1, <2>1, <2>2 DEF Once
  <2>5. c \in Range(q)
    BY <1>1, <2>1, <2>2, InRange
  <2> QED
    BY <2>3, <2>4, <2>5
<1> QED
  BY <1>3, <1>4

LEMMA OnceAppend ==
  ASSUME NEW q \in Seq(Calls), NEW d \in Calls, NEW c, c # d \/ c \notin Range(q), Once(q, c)
  PROVE  Once(Append(q, d), c)
<1>1. PICK n \in Nat : n = Len(q)
  BY LenProperties
<1>2. /\ Len(Append(q, d)) = n + 1 /\ Append(q, d)[n + 1] = d
      /\ \A i \in 1..n : Append(q, d)[i] = q[i]
  BY <1>1, AppendProperties
<1>3. \A i \in 1..n : q[i] = c => c \in Range(q)
  BY <1>1, InRange
<1>4. \A i \in 1..(n + 1) : i = n + 1 \/ i \in 1..n
  BY <1>1
<1> QED
  BY <1>1, <1>2, <1>3, <1>4 DEF Once

\* A call is sent when there is no trace of it; another is sent without leaving one.
LEMMA SubmitCourse ==
  ASSUME Bookkeeping, NEW d \in Calls, pc[d] \in {"idle", "connecting"}, Submit(d),
         UNCHANGED <<taskOf, unread>>,
         \A s \in Sockets : conn[s] = "closed" => conn'[s] = "closed",
         NEW c \in Calls, Course(c)
  PROVE  Course(c)'
<1>1. /\ taskOf \in [Calls -> Tasks] /\ up \in [Sockets -> Seq(Calls)]
      /\ pc \in [Calls -> {"idle", "connecting", "waiting", "done"}]
      /\ down \in [Sockets -> Seq(Messages)]
      /\ running \in Seq(Sockets \X Calls)
  BY DEF Bookkeeping, ClientInv, ClientTypes, NetInv, PeerTypes
<1>2. /\ UNCHANGED <<told, down, running, subs>>
      /\ \/ up' = up
         \/ ws \in Sockets /\ up' = [up EXCEPT ![ws] = Append(@, d)] /\ pc' = [pc EXCEPT ![d] = "waiting"]
      /\ pc' = [pc EXCEPT ![d] = "waiting"] \/ pc' = [pc EXCEPT ![d] = "done"]
  BY SocketAssumption DEF Submit, peer, Bookkeeping, ClientInv, ClientTypes, Sockets
<1>3. \A i \in 1..Len(running) : running[i][1] \in Sockets
  BY <1>1, ElementOfSeq
<1>4. \A s \in Sockets : up[s] \in Seq(Calls) /\ (up'[s] = up[s] \/ up'[s] = Append(up[s], d))
  BY <1>1, <1>2
<1>5. \A s \in Sockets : c # d \/ c \notin Range(up[s]) => (Once(up[s], c) => Once(up'[s], c))
  <2> SUFFICES ASSUME NEW s \in Sockets, c # d \/ c \notin Range(up[s]), Once(up[s], c)
               PROVE  Once(up'[s], c)
    OBVIOUS
  <2>1. Once(Append(up[s], d), c)
    BY <1>4, OnceAppend
  <2> QED
    BY <1>4, <2>1
<1>6. \A s \in Sockets : c \in Range(up'[s]) => c = d \/ c \in Range(up[s])
  <2> SUFFICES ASSUME NEW s \in Sockets PROVE c \in Range(up'[s]) => c = d \/ c \in Range(up[s])
    OBVIOUS
  <2>1. c \in Range(Append(up[s], d)) => c = d \/ c \in Range(up[s])
    BY <1>4, AppendInRange
  <2> QED
    BY <1>4, <2>1
<1>7. CASE c # d
  <2>1. pc'[c] = pc[c] /\ Minds(c)' = Minds(c)
    BY <1>1, <1>2, <1>7 DEF Minds
  <2>2. \A s \in Sockets : Once(up[s], c) => Once(up'[s], c)
    BY <1>5, <1>7
  <2>3. \A s \in Sockets : c \in Range(up'[s]) => c \in Range(up[s])
    BY <1>6, <1>7
  <2>4. \A s \in Sockets : Trace(s, c)' => Trace(s, c)
    BY <1>2, <2>3 DEF Trace
  <2>5. OneSocket(c)' /\ Unsent(c)'
    BY <1>2, <2>1, <2>4 DEF Course, OneSocket, Unsent
  <2>6. UnderWay(c)'
    BY <1>2, <2>2, <2>3 DEF Course, UnderWay
  <2>7. Handled(c)'
    BY <1>2, <1>3 DEF Course, Handled
  <2>8. InWords(c)'
    BY <1>2, <2>1 DEF Course, InWords
  <2> QED
    BY <2>5, <2>6, <2>7, <2>8 DEF Course
<1>8. CASE c = d
  <2>1. told[c] = "nothing" /\ \A s \in Sockets : ~Trace(s, c)
    BY <1>8 DEF Course, Unsent
  <2>2. /\ \A s \in Sockets : c \notin Range(up[s]) /\ Silent(down[s], c, taskOf[c])
        /\ \A s \in Sockets : <<s, c>> \notin Range(running) /\ s \notin subs[taskOf[c]]
    BY <2>1 DEF Trace
  <2>3. \A i \in 1..Len(running) : running[i][2] # c
    <3> SUFFICES ASSUME NEW i \in 1..Len(running), running[i][2] = c PROVE FALSE
      OBVIOUS
    <3>1. PICK s \in Sockets : running[i] = <<s, c>>
      BY Running DEF Bookkeeping
    <3>2. <<s, c>> \in Range(running)
      BY <3>1, HandledThere DEF Bookkeeping
    <3> QED
      BY <2>2, <3>2
  <2>4. subs[taskOf[c]] = {}
    <3>1. subs[taskOf[c]] \subseteq Sockets
      BY <1>1 DEF Bookkeeping, NetInv, PeerTypes
    <3> QED
      BY <2>2, <3>1
  <2>5. \A s \in Sockets : Trace(s, c)' <=> c \in Range(up'[s])
    BY <1>2, <2>2 DEF Trace
  <2>6. \A s \in Sockets : c \in Range(up'[s]) => s = ws /\ Once(up'[s], c)
    <3>1. \A s \in Sockets : Once(up[s], c)
      <4> SUFFICES ASSUME NEW s \in Sockets, NEW i \in 1..Len(up[s]), up[s][i] = c PROVE FALSE
        BY DEF Once
      <4>1. c \in Range(up[s])
        BY <1>4, InRange
      <4> QED
        BY <2>2, <4>1
    <3>2. \A s \in Sockets : Once(up'[s], c)
      BY <1>5, <2>2, <3>1
    <3>3. \A s \in Sockets : s # ws => up'[s] = up[s]
      BY <1>1, <1>2
    <3> QED
      BY <2>2, <3>2, <3>3
  <2>7. OneSocket(c)'
    BY <2>5, <2>6 DEF OneSocket
  <2>8. Unsent(c)'
    BY <1>1, <1>2, <1>8 DEF Unsent
  <2>9. UnderWay(c)'
    BY <1>2, <2>1, <2>2, <2>3, <2>4, <2>6 DEF UnderWay
  <2>10. Handled(c)'
    BY <1>2, <2>3 DEF Handled
  <2>11. InWords(c)'
    <3>1. Minds(c)' \in BOOLEAN
      BY DEF Minds
    <3>2. \A s \in Sockets : down[s] \in Seq(Messages)
      BY <1>1
    <3> QED
      BY <1>1, <1>2, <2>2, <3>1, <3>2, SilentTells DEF InWords
  <2> QED
    BY <2>7, <2>8, <2>9, <2>10, <2>11 DEF Course
<1> QED
  BY <1>7, <1>8

LEMMA CloseCourse ==
  ASSUME Bookkeeping, Close, UNCHANGED <<taskOf, unread>>, NEW c \in Calls, Course(c)
  PROVE  Course(c)'
<1>1. UNCHANGED <<up, down, running, subs, told, pc>>
  BY DEF Close, peer
<1>2. \A s \in Sockets : conn[s] = "closed" => conn'[s] = "closed"
  BY DEF Close, Bookkeeping, NetInv, PeerTypes
<1>3. \A i \in 1..Len(running) : running[i][1] \in Sockets
  BY ElementOfSeq DEF Bookkeeping, NetInv, PeerTypes
<1>4. Minds(c)' => Minds(c)
  BY <1>1 DEF Minds
<1> QED
  BY <1>1, <1>2, <1>3, <1>4, SameCourse

LEMMA ExecuteConnectCourse ==
  ASSUME Bookkeeping, NEW d \in Calls, ExecuteConnect(d), UNCHANGED <<taskOf, unread>>,
         NEW c \in Calls, Course(c)
  PROVE  Course(c)'
<1>1. UNCHANGED <<up, down, running, subs, told>> /\ pc' = [pc EXCEPT ![d] = "connecting"] /\ pc[d] = "idle"
  BY DEF ExecuteConnect, peer
<1>2. \A s \in Sockets : conn[s] = "closed" => conn'[s] = "closed"
  <2>1. conn' = [conn EXCEPT ![made + 1] = "connecting"]
    BY DEF ExecuteConnect
  <2>2. \A s \in Sockets : s = made + 1 => conn[s] = "none"
    BY Made DEF Bookkeeping, NetInv, SocketsWhere
  <2> QED
    BY <2>1, <2>2 DEF Bookkeeping, NetInv, PeerTypes
<1>3. \A i \in 1..Len(running) : running[i][1] \in Sockets
  BY ElementOfSeq DEF Bookkeeping, NetInv, PeerTypes
<1>4. /\ pc'[c] \in {"idle", "connecting"} => pc[c] \in {"idle", "connecting"}
      /\ Minds(c)' => Minds(c)
  BY <1>1 DEF Minds, Bookkeeping, ClientInv, ClientTypes
<1> QED
  BY <1>1, <1>2, <1>3, <1>4, SameCourse

LEMMA TimeoutCourse ==
  ASSUME Bookkeeping, NEW d \in Calls, Timeout(d), UNCHANGED <<taskOf, unread>>,
         NEW c \in Calls, Course(c)
  PROVE  Course(c)'
<1>1. UNCHANGED <<up, down, running, subs, told, conn>>
  BY DEF Timeout, net, peer
<1>2. pc' = pc \/ pc' = [pc EXCEPT ![d] = "done"]
  BY DEF Timeout
<1>3. /\ pc'[c] \in {"idle", "connecting"} => pc[c] \in {"idle", "connecting"}
      /\ Minds(c)' => Minds(c)
  BY <1>2 DEF Minds, Bookkeeping, ClientInv, ClientTypes
<1> QED
  BY <1>1, <1>3, SameCourse

\* A socket that closes takes the traces on it away, but for the handlers.
LEMMA ClosedCourse ==
  ASSUME Bookkeeping, NEW s \in Sockets, Closed(s), UNCHANGED <<taskOf, unread>>,
         NEW c \in Calls, Course(c)
  PROVE  Course(c)'
<1>1. /\ taskOf[c] \in Tasks /\ subs \in [Tasks -> SUBSET Sockets]
      /\ conn \in [Sockets -> {"none", "closed"} \cup Live]
      /\ up \in [Sockets -> Seq(Calls)] /\ down \in [Sockets -> Seq(Messages)]
      /\ pc \in [Calls -> {"idle", "connecting", "waiting", "done"}]
  BY DEF Bookkeeping, ClientInv, ClientTypes, NetInv, PeerTypes
<1>2. /\ conn' = [conn EXCEPT ![s] = "closed"]
      /\ up' = [up EXCEPT ![s] = <<>>]
      /\ down' = [down EXCEPT ![s] = <<>>]
      /\ subs' = [t \in Tasks |-> subs[t] \ {s}]
      /\ pc'[c] \in {"done", pc[c]}
      /\ UNCHANGED <<told, running>>
  BY DEF Closed
<1>3. /\ \A r \in Sockets : r # s => conn'[r] = conn[r] /\ up'[r] = up[r] /\ down'[r] = down[r]
      /\ conn'[s] = "closed" /\ up'[s] = <<>> /\ down'[s] = <<>>
      /\ subs'[taskOf[c]] = subs[taskOf[c]] \ {s}
  BY <1>1, <1>2
<1>4. c \notin Range(up'[s]) /\ Silent(down'[s], c, taskOf[c])
  <2>1. up'[s] \in Seq(Calls) /\ Len(up'[s]) = 0 /\ down'[s] \in Seq(Messages) /\ Len(down'[s]) = 0
    BY <1>3, EmptySeq
  <2> QED
    BY <2>1, NothingThere
<1>5. \A r \in Sockets : Trace(r, c)' => Trace(r, c)
  BY <1>2, <1>3, <1>4 DEF Trace
<1>6. (pc'[c] \in {"idle", "connecting"} => pc[c] \in {"idle", "connecting"}) /\ (Minds(c)' => Minds(c))
  BY <1>2 DEF Minds
<1>7. OneSocket(c)' /\ Unsent(c)'
  BY <1>2, <1>5, <1>6 DEF Course, OneSocket, Unsent
<1>8. UnderWay(c)'
  BY <1>2, <1>3, <1>4 DEF Course, UnderWay
<1>9. Handled(c)'
  <2>1. \A i \in 1..Len(running) : running[i][1] \in Sockets
    BY ElementOfSeq DEF Bookkeeping, NetInv, PeerTypes
  <2> QED
    BY <1>2, <1>3, <2>1 DEF Course, Handled
<1>10. InWords(c)'
  <2>1. PICK m \in BOOLEAN : m = Minds(c)'
    BY DEF Minds
  <2>2. Tells(down'[s], c, taskOf[c], told[c], m)
    <3>1. down'[s] \in Seq(Messages) /\ Len(down'[s]) = 0
      BY <1>3, EmptySeq
    <3> QED
      BY <3>1, NothingThere
  <2>3. ASSUME NEW r \in Sockets PROVE Tells(down[r], c, taskOf[c], told[c], m)
    <3>1. PICK k \in BOOLEAN : k = Minds(c)
      BY DEF Minds
    <3>2. Tells(down[r], c, taskOf[c], told[c], k) /\ (m => k)
      BY <1>6, <2>1, <3>1 DEF Course, InWords
    <3> QED
      BY <3>2, TellsLess
  <2> QED
    BY <1>2, <1>3, <2>1, <2>2, <2>3 DEF InWords
<1> QED
  BY <1>7, <1>8, <1>9, <1>10 DEF Course

\* The first message of a socket is read.
LEMMA ReadCourse ==
  ASSUME Bookkeeping, NEW s \in Sockets, down[s] # <<>>, down' = [down EXCEPT ![s] = Tail(@)],
         UNCHANGED <<taskOf, conn, up, running, subs>>,
         NEW c \in Calls, Course(c),
         pc'[c] \in {"done", pc[c]},
         told'[c] # told[c] => About(Head(down[s]), c, taskOf[c]) /\ pc[c] \in {"waiting", "done"},
         Tells(Tail(down[s]), c, taskOf[c], told'[c], Minds(c)'),
         Minds(c)' => Minds(c)
  PROVE  Course(c)'
<1>1. /\ taskOf[c] \in Tasks
      /\ down \in [Sockets -> Seq(Messages)]
      /\ pc \in [Calls -> {"idle", "connecting", "waiting", "done"}]
  BY DEF Bookkeeping, ClientInv, ClientTypes, NetInv, PeerTypes
<1>2. down'[s] = Tail(down[s]) /\ \A r \in Sockets : r # s => down'[r] = down[r]
  BY <1>1
<1>3. \A r \in Sockets : Silent(down[r], c, taskOf[c]) => Silent(down'[r], c, taskOf[c])
  BY <1>1, <1>2, SilentTail
<1>4. \A r \in Sockets : Trace(r, c)' => Trace(r, c)
  BY <1>3 DEF Trace
<1>5. told'[c] # told[c] => ~Silent(down[s], c, taskOf[c])
  <2>1. 1 \in 1..Len(down[s]) /\ Head(down[s]) = down[s][1]
    BY <1>1, EmptySeq
  <2> QED
    BY <2>1 DEF Silent
<1>6. OneSocket(c)' /\ Unsent(c)'
  BY <1>1, <1>4 DEF Course, OneSocket, Unsent
<1>7. UnderWay(c)'
  BY <1>3, <1>5 DEF Course, UnderWay
<1>8. Handled(c)'
  BY DEF Course, Handled
<1>9. \A r \in Sockets : r # s => Tells(down'[r], c, taskOf[c], told'[c], Minds(c)')
  <2> SUFFICES ASSUME NEW r \in Sockets, r # s
               PROVE  Tells(down[r], c, taskOf[c], told'[c], Minds(c)')
    BY <1>2
  <2>1. Minds(c)' \in BOOLEAN
    BY DEF Minds
  <2>2. CASE told'[c] = told[c]
    BY <2>2, TellsLess DEF Course, InWords
  <2>3. CASE told'[c] # told[c]
    <3>1. Trace(s, c) /\ ~Trace(r, c)
      BY <1>5, <2>3 DEF Trace, Course, OneSocket
    <3>2. Silent(down[r], c, taskOf[c])
      BY <3>1 DEF Trace
    <3>3. down[r] \in Seq(Messages)
      BY <1>1
    <3> QED
      BY <1>1, <2>1, <3>2, <3>3, SilentTells
  <2> QED
    BY <2>2, <2>3
<1>10. InWords(c)'
  BY <1>2, <1>9 DEF InWords
<1> QED
  BY <1>6, <1>7, <1>8, <1>10 DEF Course

LEMMA UnverifiedCourse ==
  ASSUME Bookkeeping, NEW s \in Sockets, Unverified(s), UNCHANGED taskOf,
         NEW c \in Calls, Course(c)
  PROVE  Course(c)'
<1>1. /\ down[s] # <<>> /\ down' = [down EXCEPT ![s] = Tail(@)]
      /\ UNCHANGED <<conn, up, running, subs, pc, told>>
      /\ unread' = TRUE
  BY DEF Unverified, client, peer
<1>2. ~Minds(c)'
  BY <1>1 DEF Minds
<1>3. taskOf[c] \in Tasks /\ down[s] \in Seq(Messages)
  BY DEF Bookkeeping, ClientInv, ClientTypes, NetInv, PeerTypes
<1>4. Tells(down[s], c, taskOf[c], told[c], FALSE)
  BY TellsLess DEF Course, InWords
<1>5. Tells(Tail(down[s]), c, taskOf[c], told[c], FALSE)
  BY <1>1, <1>3, <1>4, TellsTail
<1>6. Tells(Tail(down[s]), c, taskOf[c], told'[c], Minds(c)')
  BY <1>1, <1>2, <1>5, TellsLess
<1> QED
  BY <1>1, <1>2, <1>6, ReadCourse

LEMMA ReceiveCourse ==
  ASSUME Bookkeeping, NEW s \in Sockets, Receive(s), UNCHANGED <<taskOf, unread>>,
         NEW c \in Calls, Unique(c), Course(c)
  PROVE  Course(c)'
<1> DEFINE msg == Head(down[s])
<1>1. /\ msg \in Messages /\ down[s] \in Seq(Messages) /\ taskOf[c] \in Tasks
      /\ pc \in [Calls -> {"idle", "connecting", "waiting", "done"}]
      /\ taskOf \in [Calls -> Tasks]
  BY HeadTailProperties DEF Receive, Bookkeeping, ClientInv, ClientTypes, NetInv, PeerTypes
<1>2. /\ down[s] # <<>>
      /\ (msg.kind = "status" /\ Report(msg)) \/ (msg.kind = "artifact" /\ Resolve(msg))
      /\ down' = [down EXCEPT ![s] = Tail(@)]
      /\ UNCHANGED <<conn, up, running, subs>>
  BY DEF Receive, peer
<1> HIDE DEF msg
<1>3. PICK t \in Tasks : t = taskOf[c]
  BY <1>1
<1>4. PICK m \in BOOLEAN : m = Minds(c)
  BY DEF Minds
<1>9. Tells(down[s], c, t, told[c], m)
  BY <1>3, <1>4 DEF Course, InWords
<1>5. Range(pending) \subseteq Calls
  BY RangeOfSeq DEF Bookkeeping, ClientInv, ClientTypes
<1>6. c \in Range(pending) => pc[c] \in {"waiting", "done"}
  BY DEF Bookkeeping, ClientInv, CallsWhere
<1>7. CASE msg.kind = "status" /\ Report(msg)
  <2>1. PICK u \in Tasks, w \in {"executing"} \cup Final :
          msg = Status(u, w) /\ msg.task = u /\ msg.status = w
    BY <1>1, <1>7 DEF Messages, Status
  <2>2. pc' = pc /\ told'[c] = IF c \in Range(pending) /\ t = u THEN w ELSE told[c]
    BY <1>3, <1>7, <2>1 DEF Report
  <2>3. Minds(c)' = Minds(c)
    BY <2>2 DEF Minds
  <2>4. CASE c \in Range(pending) /\ u = t
    <3>1. Tells(Tail(down[s]), c, t, w, m)
      BY <1>1, <1>2, <1>9, <2>1, <2>4, TellsRead DEF msg
    <3>2. About(msg, c, t)
      BY <1>7, <2>1, <2>4 DEF About
    <3> QED
      BY <1>2, <1>3, <1>4, <1>6, <2>2, <2>3, <2>4, <3>1, <3>2, ReadCourse DEF msg
  <2>5. CASE ~(c \in Range(pending) /\ u = t)
    <3>1. Minds(c) => u # t
      BY <2>5 DEF Minds, Bookkeeping, ClientInv, NoneForgotten
    <3>2. Minds(c) => \A f \in Final : msg # Status(t, f)
      BY <2>1, <3>1 DEF Status
    <3>3. Tells(Tail(down[s]), c, t, told[c], m)
      BY <1>1, <1>2, <1>4, <1>9, <3>2, TellsTail DEF msg
    <3>4. told'[c] = told[c]
      BY <2>2, <2>5
    <3> QED
      BY <1>2, <1>3, <1>4, <2>2, <2>3, <3>3, <3>4, ReadCourse
  <2> QED
    BY <2>4, <2>5
<1>8. CASE msg.kind = "artifact" /\ Resolve(msg)
  <2>1. told' = told /\ pc'[c] \in {"done", pc[c]}
    BY <1>1, <1>8 DEF Resolve
  <2>2. Minds(c)' => Minds(c)
    BY <2>1 DEF Minds
  <2>3. \A f \in Final : msg # Status(t, f)
    <3>1. \A f : Status(t, f).kind = "status"
      BY DEF Status
    <3> QED
      BY <1>8, <3>1
  <2>4. Tells(Tail(down[s]), c, t, told[c], m)
    BY <1>1, <1>2, <1>9, <2>3, TellsTail DEF msg
  <2>5. Tells(Tail(down[s]), c, t, told[c], Minds(c)')
    BY <1>4, <2>2, <2>4, TellsLess
  <2> QED
    BY <1>2, <1>3, <2>1, <2>2, <2>5, ReadCourse
<1> QED
  BY <1>2, <1>7, <1>8

\* A message about another task or call changes nothing.
LEMMA OtherMessage ==
  ASSUME NEW q \in Seq(Messages), NEW msg \in Messages, NEW c \in Calls, NEW t \in Tasks,
         ~About(msg, c, t), NEW r, r = q \/ r = Append(q, msg)
  PROVE  /\ Silent(q, c, t) => Silent(r, c, t)
         /\ \A v : \A minds \in BOOLEAN : Tells(q, c, t, v, minds) => Tells(r, c, t, v, minds)
<1>1. CASE r = q
  BY <1>1
<1>2. CASE r = Append(q, msg)
  <2>1. Silent(q, c, t) => Silent(r, c, t)
    BY <1>2, SilentAppend
  <2>2. ASSUME NEW v, NEW minds \in BOOLEAN, Tells(q, c, t, v, minds) PROVE Tells(r, c, t, v, minds)
    BY <1>2, <2>2, TellsMore
  <2> QED
    BY <2>1, <2>2
<1> QED
  BY <1>1, <1>2

\* A step of the peer that adds nothing about the call.
LEMMA ApartCourse ==
  ASSUME Bookkeeping, Bookkeeping', UNCHANGED <<taskOf, unread, pc, told, conn>>,
         NEW c \in Calls, Course(c),
         \A r \in Sockets : c \in Range(up'[r]) => c \in Range(up[r]),
         \A r \in Sockets : Once(up[r], c) => Once(up'[r], c),
         \A j \in 1..Len(running') : running'[j][2] = c => \E k \in 1..Len(running) : running[k] = running'[j],
         \A i, j \in 1..Len(running') : running'[i][2] = c /\ running'[j][2] = c => i = j,
         subs'[taskOf[c]] = subs[taskOf[c]],
         \A r \in Sockets : Silent(down[r], c, taskOf[c]) => Silent(down'[r], c, taskOf[c]),
         \A r \in Sockets : \A v : \A minds \in BOOLEAN :
            Tells(down[r], c, taskOf[c], v, minds) => Tells(down'[r], c, taskOf[c], v, minds)
  PROVE  Course(c)'
<1>1. running \in Seq(Sockets \X Calls) /\ running' \in Seq(Sockets \X Calls)
  BY DEF Bookkeeping, NetInv, PeerTypes
<1>2. ASSUME NEW s \in Sockets, <<s, c>> \in Range(running') PROVE <<s, c>> \in Range(running)
  <2>1. PICK x : x = <<s, c>>
    OBVIOUS
  <2>2. x \in Range(running') <=> \E j \in 1..Len(running') : running'[j] = x
    BY <1>1, InRange
  <2>3. x \in Range(running) <=> \E k \in 1..Len(running) : running[k] = x
    BY <1>1, InRange
  <2>4. PICK j \in 1..Len(running') : running'[j] = x
    BY <1>2, <2>1, <2>2
  <2>5. running'[j][2] = c
    BY <2>1, <2>4
  <2> QED
    BY <2>1, <2>3, <2>4, <2>5
<1>3. \A s \in Sockets : Trace(s, c)' => Trace(s, c)
  BY <1>2 DEF Trace
<1>4. OneSocket(c)' /\ Unsent(c)'
  BY <1>3 DEF Course, OneSocket, Unsent
<1>5. UnderWay(c)'
  BY DEF Course, UnderWay
<1>6. Handled(c)'
  BY DEF Course, Handled
<1>7. InWords(c)'
  <2>1. PICK m \in BOOLEAN : m = Minds(c)
    BY DEF Minds
  <2>2. Minds(c)' = m
    BY <2>1 DEF Minds
  <2>3. \A s \in Sockets : Tells(down[s], c, taskOf[c], told[c], m)
    BY <2>1 DEF Course, InWords
  <2>4. \A s \in Sockets : Tells(down'[s], c, taskOf[c], told[c], m)
    BY <2>3
  <2> QED
    BY <2>2, <2>4 DEF InWords
<1> QED
  BY <1>4, <1>5, <1>6, <1>7 DEF Course

\* A request that arrives leaves the socket.
LEMMA ArrivedOnce ==
  ASSUME Bookkeeping, NEW s \in Sockets, NEW d \in Calls, Arrives(s, d), NEW c \in Calls, Course(c)
  PROVE  /\ \A r \in Sockets : c \in Range(up'[r]) => c \in Range(up[r]) /\ c # d
         /\ \A r \in Sockets : Once(up[r], c) => Once(up'[r], c)
         /\ d \in Range(up[s])
<1>1. NetInv /\ up[s] # <<>> /\ up[s] \in Seq(Calls) /\ d = Head(up[s]) /\ up'[s] = Tail(up[s])
  BY ArrivesKeeps DEF Bookkeeping
<1>2. \A r \in Sockets : r # s => up'[r] = up[r]
  BY ArrivesKeeps DEF Bookkeeping
<1>3. d \in Range(up[s])
  <2>1. 1 \in 1..Len(up[s]) /\ up[s][1] = d
    BY <1>1, EmptySeq
  <2> QED
    BY <1>1, <2>1, InRange
<1>4. Once(up[s], c) => Once(up'[s], c)
  BY <1>1, OnceTail
<1>5. c \in Range(up'[s]) => c \in Range(up[s]) /\ c # d
  <2> SUFFICES ASSUME c \in Range(up'[s]) PROVE c \in Range(up[s]) /\ c # d
    OBVIOUS
  <2>1. \E i \in 2..Len(up[s]) : up[s][i] = c
    BY <1>1, TailInRange
  <2>2. \E i \in 1..Len(up[s]) : up[s][i] = c
    BY <2>1
  <2>3. c \in Range(up[s])
    BY <1>1, <2>2, InRange
  <2>4. Once(up[s], c)
    BY <2>3 DEF Course, UnderWay
  <2> QED
    BY <1>1, <2>3, <2>4, OnceTail
<1>6. ASSUME NEW r \in Sockets, r # s, c \in Range(up[r]) PROVE c # d
  <2>1. c = d => Trace(r, c) /\ Trace(s, c)
    BY <1>3, <1>6 DEF Trace
  <2> QED
    BY <1>6, <2>1 DEF Course, OneSocket
<1> QED
  BY <1>2, <1>3, <1>4, <1>5, <1>6

\* While its request is under way there is no other trace of a call.
LEMMA NoneYet ==
  ASSUME Bookkeeping, NEW s \in Sockets, NEW c \in Calls, Course(c), c \in Range(up[s])
  PROVE  /\ \A i \in 1..Len(running) : running[i][2] # c
         /\ subs[taskOf[c]] = {} /\ told[c] = "nothing"
         /\ \A r \in Sockets : Silent(down[r], c, taskOf[c])
         /\ pc[c] \notin {"idle", "connecting"}
<1>1. Trace(s, c)
  BY DEF Trace
<1> QED
  BY <1>1 DEF Course, UnderWay, Unsent

LEMMA RejectCourse ==
  ASSUME Bookkeeping, Bookkeeping', NEW s \in Sockets, NEW d \in Calls, Reject(s, d),
         UNCHANGED <<taskOf, unread>>, NEW c \in Calls, Course(c)
  PROVE  Course(c)'
<1>1. Arrives(s, d) /\ UNCHANGED <<pc, told, conn, down, running, subs>>
  BY DEF Reject, client, peer
<1>2. /\ \A r \in Sockets : c \in Range(up'[r]) => c \in Range(up[r])
      /\ \A r \in Sockets : Once(up[r], c) => Once(up'[r], c)
  BY <1>1, ArrivedOnce
<1>3. \A i, j \in 1..Len(running) : running[i][2] = c /\ running[j][2] = c => i = j
  BY DEF Course, Handled
<1> QED
  BY <1>1, <1>2, <1>3, ApartCourse

LEMMA RefuseCourse ==
  ASSUME Bookkeeping, Bookkeeping', NEW s \in Sockets, NEW d \in Calls, Refuse(s, d),
         UNCHANGED <<taskOf, unread>>, NEW c \in Calls, Unique(c), Course(c)
  PROVE  Course(c)'
<1>1. Arrives(s, d) /\ UNCHANGED <<pc, told, conn, running>> /\ NetInv /\ taskOf \in [Calls -> Tasks]
  BY Made DEF Refuse, client
<1>2. /\ \A r \in Sockets : c \in Range(up'[r]) => c \in Range(up[r])
      /\ \A r \in Sockets : Once(up[r], c) => Once(up'[r], c)
      /\ d \in Range(up[s])
  BY <1>1, ArrivedOnce
<1>3. \A i, j \in 1..Len(running) : running[i][2] = c /\ running[j][2] = c => i = j
  BY DEF Course, Handled
<1>4. PICK msg \in Messages : msg = Status(taskOf[d], "failed")
  BY <1>1, RefuseDoes
<1>5. /\ \A t \in Tasks : subs'[t] = IF t = taskOf[d] THEN {} ELSE subs[t]
      /\ \A r \in Sockets :
           down'[r] = IF r \in subs[taskOf[d]] /\ conn[r] # "closed" THEN Append(down[r], msg) ELSE down[r]
  BY <1>1, <1>4, RefuseDoes
<1>6. down \in [Sockets -> Seq(Messages)] /\ taskOf[c] \in Tasks /\ taskOf[d] \in Tasks
  BY <1>1 DEF NetInv, PeerTypes
<1>7. CASE c = d
  <2>1. subs[taskOf[c]] = {}
    BY <1>2, <1>7, NoneYet
  <2>2. \A r \in Sockets : down'[r] = down[r]
    BY <1>5, <1>7, <2>1
  <2>3. subs'[taskOf[c]] = subs[taskOf[c]]
    BY <1>5, <1>6, <1>7, <2>1
  <2> QED
    BY <1>1, <1>2, <1>3, <2>2, <2>3, ApartCourse
<1>8. CASE c # d
  <2>1. taskOf[d] # taskOf[c]
    BY <1>8 DEF Unique
  <2>2. ~About(msg, c, taskOf[c])
    BY <1>4, <1>6, <2>1, AboutThem
  <2>3. subs'[taskOf[c]] = subs[taskOf[c]]
    BY <1>5, <1>6, <2>1
  <2>4. ASSUME NEW r \in Sockets
        PROVE  /\ Silent(down[r], c, taskOf[c]) => Silent(down'[r], c, taskOf[c])
               /\ \A v : \A minds \in BOOLEAN :
                    Tells(down[r], c, taskOf[c], v, minds) => Tells(down'[r], c, taskOf[c], v, minds)
    <3>1. down[r] \in Seq(Messages) /\ (down'[r] = down[r] \/ down'[r] = Append(down[r], msg))
      BY <1>5, <1>6
    <3> QED
      BY <1>6, <2>2, <3>1, OtherMessage
  <2> QED
    BY <1>1, <1>2, <1>3, <2>3, <2>4, ApartCourse
<1> QED
  BY <1>7, <1>8

\* The handler is called: to other calls it is nothing; for the call itself a handler, a
\* subscription and a status take the place of the request.
LEMMA AcceptCourse ==
  ASSUME Bookkeeping, Bookkeeping', NEW s \in Sockets, NEW d \in Calls, Accept(s, d),
         UNCHANGED <<taskOf, unread>>, NEW c \in Calls, Unique(c), Course(c)
  PROVE  Course(c)'
<1>1. Arrives(s, d) /\ UNCHANGED <<pc, told, conn>> /\ NetInv /\ taskOf \in [Calls -> Tasks]
  BY Made DEF Accept, client
<1>2. /\ \A r \in Sockets : c \in Range(up'[r]) => c \in Range(up[r]) /\ c # d
      /\ \A r \in Sockets : Once(up[r], c) => Once(up'[r], c)
      /\ d \in Range(up[s])
  BY <1>1, ArrivedOnce
<1>3. PICK msg \in Messages : msg = Status(taskOf[d], "executing")
  BY <1>1, AcceptDoes
<1>4. /\ subs' = [subs EXCEPT ![taskOf[d]] = @ \cup {s}]
      /\ running' = Append(running, <<s, d>>)
      /\ \A r \in Sockets :
           down'[r] = IF r \in subs[taskOf[d]] \cup {s} /\ conn[r] # "closed"
                      THEN Append(down[r], msg) ELSE down[r]
  BY <1>1, <1>3, AcceptDoes
<1>5. /\ down \in [Sockets -> Seq(Messages)] /\ taskOf[c] \in Tasks /\ taskOf[d] \in Tasks
      /\ running \in Seq(Sockets \X Calls) /\ running' \in Seq(Sockets \X Calls)
      /\ subs \in [Tasks -> SUBSET Sockets]
  BY <1>1, AcceptDoes DEF NetInv, PeerTypes
<1>6. PICK n \in Nat : n = Len(running)
  BY <1>5, LenProperties
<1>7. PICK e \in Sockets \X Calls : e = <<s, d>>
  OBVIOUS
<1>8. /\ Len(running') = n + 1 /\ running'[n + 1] = e /\ \A i \in 1..n : running'[i] = running[i]
      /\ \A i \in 1..(n + 1) : i = n + 1 \/ i \in 1..n
  BY <1>4, <1>5, <1>6, <1>7, AppendProperties
<1>9. e[1] = s /\ e[2] = d
  BY <1>7
<1>10. CASE c # d
  <2>1. taskOf[d] # taskOf[c]
    BY <1>10 DEF Unique
  <2>2. ~About(msg, c, taskOf[c])
    BY <1>3, <1>5, <2>1, AboutThem
  <2>3. subs'[taskOf[c]] = subs[taskOf[c]]
    BY <1>4, <1>5, <2>1
  <2>4. ASSUME NEW r \in Sockets
        PROVE  /\ Silent(down[r], c, taskOf[c]) => Silent(down'[r], c, taskOf[c])
               /\ \A v : \A minds \in BOOLEAN :
                    Tells(down[r], c, taskOf[c], v, minds) => Tells(down'[r], c, taskOf[c], v, minds)
    <3>1. down[r] \in Seq(Messages) /\ (down'[r] = down[r] \/ down'[r] = Append(down[r], msg))
      BY <1>4, <1>5
    <3> QED
      BY <1>5, <2>2, <3>1, OtherMessage
  <2>5. \A j \in 1..Len(running') : running'[j][2] = c => j \in 1..n
    BY <1>8, <1>9, <1>10
  <2>6. \A j \in 1..Len(running') :
          running'[j][2] = c => \E k \in 1..Len(running) : running[k] = running'[j]
    BY <1>6, <1>8, <2>5
  <2>7. \A i, j \in 1..Len(running') : running'[i][2] = c /\ running'[j][2] = c => i = j
    BY <1>6, <1>8, <2>5 DEF Course, Handled
  <2> QED
    BY <1>1, <1>2, <2>3, <2>4, <2>6, <2>7, ApartCourse
<1>11. CASE c = d
  <2>1. /\ \A i \in 1..Len(running) : running[i][2] # c
        /\ subs[taskOf[c]] = {} /\ told[c] = "nothing"
        /\ \A r \in Sockets : Silent(down[r], c, taskOf[c])
        /\ pc[c] \notin {"idle", "connecting"}
    BY <1>2, <1>11, NoneYet
  <2>2. /\ subs'[taskOf[c]] = {s}
        /\ \A r \in Sockets : r # s => down'[r] = down[r]
        /\ down'[s] = down[s] \/ down'[s] = Append(down[s], msg)
    BY <1>4, <1>5, <1>11, <2>1
  <2>3. \A j \in 1..Len(running') : running'[j][2] = c => j = n + 1 /\ running'[j] = e
    BY <1>6, <1>8, <2>1
  <2>4. ASSUME NEW r \in Sockets, Trace(r, c)' PROVE r = s
    <3>1. c \notin Range(up'[r])
      BY <1>2, <1>11
    <3>2. <<r, c>> \in Range(running') => r = s
      <4> SUFFICES ASSUME <<r, c>> \in Range(running') PROVE r = s
        OBVIOUS
      <4>1. PICK x : x = <<r, c>>
        OBVIOUS
      <4>2. x \in Range(running') <=> \E j \in 1..Len(running') : running'[j] = x
        BY <1>5, InRange
      <4>3. PICK j \in 1..Len(running') : running'[j] = x
        BY <4>1, <4>2
      <4>4. x[2] = c /\ x[1] = r
        BY <4>1
      <4> QED
        BY <1>9, <2>3, <4>3, <4>4
    <3>3. r # s => Silent(down'[r], c, taskOf[c])
      BY <2>1, <2>2
    <3> QED
      BY <1>1, <2>2, <2>4, <3>1, <3>2, <3>3 DEF Trace
  <2>5. OneSocket(c)' /\ Unsent(c)'
    BY <1>1, <2>1, <2>4 DEF OneSocket, Unsent
  <2>6. UnderWay(c)'
    BY <1>2, <1>11 DEF UnderWay
  <2>7. Handled(c)'
    BY <1>9, <2>2, <2>3 DEF Handled
  <2>8. InWords(c)'
    <3>1. PICK m \in BOOLEAN : m = Minds(c)
      BY DEF Minds
    <3>2. Minds(c)' = m
      BY <1>1, <3>1 DEF Minds
    <3>3. \A r \in Sockets : Tells(down[r], c, taskOf[c], told[c], m)
      BY <3>1 DEF Course, InWords
    <3>4. \A j \in 1..Len(down[s]) : ~FinalAt(down[s], j, taskOf[c])
      BY <1>5, <2>1, AboutThem DEF Silent, FinalAt
    <3>5. told[c] \notin Final /\ msg # Artifact(c)
      BY <1>3, <2>1, NotBoth DEF Final
    <3>6. PICK q \in Seq(Messages) : q = down[s]
      BY <1>5
    <3>7. Tells(q, c, taskOf[c], told[c], m)
      BY <3>3, <3>6
    <3>8. Tells(Append(q, msg), c, taskOf[c], told[c], m)
      BY <1>5, <3>4, <3>5, <3>6, <3>7, TellsAppend
    <3>9. \A r \in Sockets : Tells(down'[r], c, taskOf[c], told[c], m)
      BY <2>2, <3>3, <3>6, <3>8
    <3> QED
      BY <1>1, <3>2, <3>9 DEF InWords
  <2> QED
    BY <2>5, <2>6, <2>7, <2>8 DEF Course
<1> QED
  BY <1>10, <1>11

\* A handler that ends is gone, and the others are still there.
LEMMA HandlerGone ==
  ASSUME NetInv, NEW x \in 1..Len(running), running' = RemoveAt(running, x), NEW c,
         \A i, j \in 1..Len(running) : running[i][2] = c /\ running[j][2] = c => i = j
  PROVE  /\ \A j \in 1..Len(running') : \E k \in 1..Len(running) : running[k] = running'[j]
         /\ \A i, j \in 1..Len(running') : running'[i][2] = c /\ running'[j][2] = c => i = j
         /\ running[x][2] = c => \A j \in 1..Len(running') : running'[j][2] # c
<1>1. \A j \in 1..Len(running') : \E k \in 1..Len(running) :
        running'[j] = running[k] /\ k # x /\ k = IF j < x THEN j ELSE j + 1
  BY StillRunning
<1>2. ASSUME NEW i \in 1..Len(running'), NEW j \in 1..Len(running'),
             running'[i][2] = c, running'[j][2] = c
      PROVE  i = j
  <2>1. PICK k \in 1..Len(running) : running'[i] = running[k] /\ k = IF i < x THEN i ELSE i + 1
    BY <1>1
  <2>2. PICK l \in 1..Len(running) : running'[j] = running[l] /\ l = IF j < x THEN j ELSE j + 1
    BY <1>1
  <2>3. running[k][2] = c /\ running[l][2] = c
    BY <1>2, <2>1, <2>2
  <2>4. k = l
    BY <2>3
  <2>5. i \in Int /\ j \in Int /\ x \in Int
    OBVIOUS
  <2> QED
    BY <2>1, <2>2, <2>4, <2>5
<1> QED
  BY <1>1, <1>2

\* Where a call is handled are all its traces.
LEMMA HandledHere ==
  ASSUME Bookkeeping, NEW c \in Calls, Course(c), NEW x \in 1..Len(running), NEW s \in Sockets,
         running[x] = <<s, c>>
  PROVE  /\ Trace(s, c) /\ \A r \in Sockets : r # s => ~Trace(r, c)
         /\ \A r \in Sockets : c \notin Range(up[r])
         /\ subs[taskOf[c]] \subseteq {s}
         /\ conn[s] # "closed" => s \in subs[taskOf[c]]
         /\ pc[c] \notin {"idle", "connecting"}
<1>1. running[x][1] = s /\ running[x][2] = c
  OBVIOUS
<1>2. Trace(s, c)
  BY HandledThere DEF Trace, Bookkeeping
<1>3. \A r \in Sockets : r # s => ~Trace(r, c)
  BY <1>2 DEF Course, OneSocket
<1>4. \A r \in Sockets : c \notin Range(up[r])
  BY <1>1 DEF Course, UnderWay
<1>5. subs[taskOf[c]] \subseteq {s}
  <2>1. subs[taskOf[c]] \subseteq Sockets
    BY DEF Bookkeeping, ClientInv, ClientTypes, NetInv, PeerTypes
  <2> QED
    BY <1>3, <2>1 DEF Trace
<1>6. conn[s] # "closed" => s \in subs[taskOf[c]]
  BY <1>1 DEF Course, Handled
<1>7. pc[c] \notin {"idle", "connecting"}
  BY <1>2 DEF Course, Unsent
<1> QED
  BY <1>2, <1>3, <1>4, <1>5, <1>6, <1>7

\* The handler of the call itself ends: all that is left are the messages on its socket.
LEMMA EndedCourse ==
  ASSUME Bookkeeping, Bookkeeping', UNCHANGED <<taskOf, unread, pc, told, conn, up>>,
         NEW c \in Calls, Course(c), NEW x \in 1..Len(running), NEW s \in Sockets,
         running[x] = <<s, c>>, running' = RemoveAt(running, x), subs'[taskOf[c]] = {},
         \A r \in Sockets : r # s => down'[r] = down[r],
         \A m \in BOOLEAN : Tells(down[s], c, taskOf[c], told[c], m) =>
                            Tells(down'[s], c, taskOf[c], told[c], m)
  PROVE  Course(c)'
<1>1. /\ \A r \in Sockets : r # s => ~Trace(r, c)
      /\ \A r \in Sockets : c \notin Range(up[r])
      /\ pc[c] \notin {"idle", "connecting"}
  BY HandledHere
<1>2. \A j \in 1..Len(running') : running'[j][2] # c
  <2>1. NetInv
    BY DEF Bookkeeping
  <2>2. \A i, j \in 1..Len(running) : running[i][2] = c /\ running[j][2] = c => i = j
    BY DEF Course, Handled
  <2>3. running[x][2] = c => \A j \in 1..Len(running') : running'[j][2] # c
    BY <2>1, <2>2, HandlerGone, ZenonT(40)
  <2> QED
    BY <2>3
<1>3. running' \in Seq(Sockets \X Calls)
  BY DEF Bookkeeping, NetInv, PeerTypes
<1>4. ASSUME NEW r \in Sockets, Trace(r, c)' PROVE r = s
  <2>1. <<r, c>> \notin Range(running')
    <3>1. PICK y : y = <<r, c>>
      OBVIOUS
    <3>2. y \in Range(running') <=> \E j \in 1..Len(running') : running'[j] = y
      BY <1>3, InRange
    <3>3. y[2] = c
      BY <3>1
    <3> QED
      BY <1>2, <3>1, <3>2, <3>3
  <2>2. r # s => Silent(down'[r], c, taskOf[c])
    BY <1>1 DEF Trace
  <2> QED
    BY <1>1, <1>4, <2>1, <2>2 DEF Trace
<1>5. OneSocket(c)' /\ Unsent(c)'
  BY <1>1, <1>4 DEF OneSocket, Unsent
<1>6. UnderWay(c)' /\ Handled(c)'
  BY <1>1, <1>2 DEF UnderWay, Handled
<1>7. InWords(c)'
  <2>1. PICK m \in BOOLEAN : m = Minds(c)
    BY DEF Minds
  <2>2. Minds(c)' = m
    BY <2>1 DEF Minds
  <2>3. \A r \in Sockets : Tells(down[r], c, taskOf[c], told[c], m)
    BY <2>1 DEF Course, InWords
  <2>4. \A r \in Sockets : Tells(down'[r], c, taskOf[c], told[c], m)
    BY <2>3
  <2> QED
    BY <2>2, <2>4 DEF InWords
<1> QED
  BY <1>5, <1>6, <1>7 DEF Course

LEMMA ThrowsCourse ==
  ASSUME Bookkeeping, Bookkeeping', NEW x \in 1..Len(running), Throws(x),
         UNCHANGED <<taskOf, unread>>, NEW c \in Calls, Unique(c), Course(c)
  PROVE  Course(c)'
<1>1. NetInv /\ taskOf \in [Calls -> Tasks]
  BY Made
<1>2. PICK s \in Sockets, d \in Calls : running[x] = <<s, d>> /\ running[x][1] = s /\ running[x][2] = d
  BY <1>1, Running
<1>3. PICK msg \in Messages : msg = Status(taskOf[d], "failed")
  BY <1>1, <1>2, ThrowsDoes
<1>4. /\ \A t \in Tasks : subs'[t] = IF t = taskOf[d] THEN {} ELSE subs[t]
      /\ \A r \in Sockets :
           down'[r] = IF r \in subs[taskOf[d]] /\ conn[r] # "closed" THEN Append(down[r], msg) ELSE down[r]
      /\ running' = RemoveAt(running, x)
      /\ UNCHANGED <<pc, told, conn, up>>
  BY <1>1, <1>2, <1>3, ThrowsDoes DEF client
<1>5. down \in [Sockets -> Seq(Messages)] /\ taskOf[c] \in Tasks /\ taskOf[d] \in Tasks
  BY <1>1 DEF NetInv, PeerTypes
<1>6. CASE c # d
  <2>1. taskOf[d] # taskOf[c]
    BY <1>6 DEF Unique
  <2>2. ~About(msg, c, taskOf[c])
    BY <1>3, <1>5, <2>1, AboutThem
  <2>3. subs'[taskOf[c]] = subs[taskOf[c]]
    BY <1>4, <1>5, <2>1
  <2>4. ASSUME NEW r \in Sockets
        PROVE  /\ Silent(down[r], c, taskOf[c]) => Silent(down'[r], c, taskOf[c])
               /\ \A v : \A minds \in BOOLEAN :
                    Tells(down[r], c, taskOf[c], v, minds) => Tells(down'[r], c, taskOf[c], v, minds)
    <3>1. down[r] \in Seq(Messages) /\ (down'[r] = down[r] \/ down'[r] = Append(down[r], msg))
      BY <1>4, <1>5
    <3> QED
      BY <1>5, <2>2, <3>1, OtherMessage
  <2>5. \A i, j \in 1..Len(running) : running[i][2] = c /\ running[j][2] = c => i = j
    BY DEF Course, Handled
  <2>6. /\ \A j \in 1..Len(running') : \E k \in 1..Len(running) : running[k] = running'[j]
        /\ \A i, j \in 1..Len(running') : running'[i][2] = c /\ running'[j][2] = c => i = j
    BY <1>1, <1>4, <2>5, HandlerGone
  <2> QED
    BY <1>4, <2>3, <2>4, <2>6, ApartCourse
<1>7. CASE c = d
  <2>1. running[x] = <<s, c>>
    BY <1>2, <1>7
  <2>2. subs[taskOf[c]] \subseteq {s}
    BY <2>1, HandledHere
  <2>3. \A r \in Sockets : r # s => down'[r] = down[r]
    BY <1>4, <1>7, <2>2
  <2>4. subs'[taskOf[c]] = {}
    BY <1>4, <1>5, <1>7
  <2>5. ASSUME NEW m \in BOOLEAN, Tells(down[s], c, taskOf[c], told[c], m)
        PROVE  Tells(down'[s], c, taskOf[c], told[c], m)
    <3>1. msg # Status(taskOf[c], "executing") /\ msg # Artifact(c)
      BY <1>3, <1>7, NotBoth DEF Status
    <3>2. down[s] \in Seq(Messages)
      BY <1>5
    <3>3. Tells(Append(down[s], msg), c, taskOf[c], told[c], m)
      BY <1>5, <2>5, <3>1, <3>2, TellsAppend
    <3> QED
      BY <1>4, <2>5, <3>3
  <2> QED
    BY <1>4, <2>1, <2>3, <2>4, <2>5, EndedCourse
<1> QED
  BY <1>6, <1>7

LEMMA FinishCourse ==
  ASSUME Bookkeeping, Bookkeeping', NEW x \in 1..Len(running), NEW f \in Final, Finish(x, f),
         UNCHANGED <<taskOf, unread>>, NEW c \in Calls, Unique(c), Course(c)
  PROVE  Course(c)'
<1>1. NetInv /\ taskOf \in [Calls -> Tasks]
  BY Made
<1>2. PICK s \in Sockets, d \in Calls : running[x] = <<s, d>> /\ running[x][1] = s /\ running[x][2] = d
  BY <1>1, Running
<1>3. PICK msg \in Messages, result \in Messages : msg = Status(taskOf[d], f) /\ result = Artifact(d)
  BY <1>1, <1>2, FinishDoes
<1>4. /\ \A t \in Tasks : subs'[t] = IF t = taskOf[d] THEN {} ELSE subs[t]
      /\ running' = RemoveAt(running, x)
      /\ UNCHANGED <<pc, told, conn, up>>
  BY <1>1, <1>2, FinishDoes DEF client
<1>5. PICK reported \in [Sockets -> Seq(Messages)] : Sends(s, d, f, reported)
  BY <1>1, <1>2, FinishTells
<1>6. /\ \A r \in Sockets :
           reported[r] = IF r \in subs[taskOf[d]] /\ conn[r] # "closed" THEN Append(down[r], msg) ELSE down[r]
      /\ \A r \in Sockets :
           down'[r] = IF r = s /\ conn[s] # "closed" THEN Append(reported[r], result) ELSE reported[r]
  BY <1>3, <1>5 DEF Sends
<1>7. down \in [Sockets -> Seq(Messages)] /\ taskOf[c] \in Tasks /\ taskOf[d] \in Tasks
  BY <1>1 DEF NetInv, PeerTypes
<1>8. CASE c # d
  <2>1. taskOf[d] # taskOf[c]
    BY <1>8 DEF Unique
  <2>2. ~About(msg, c, taskOf[c]) /\ ~About(result, c, taskOf[c])
    BY <1>3, <1>7, <1>8, <2>1, AboutThem
  <2>3. subs'[taskOf[c]] = subs[taskOf[c]]
    BY <1>4, <1>7, <2>1
  <2>4. ASSUME NEW r \in Sockets
        PROVE  /\ Silent(down[r], c, taskOf[c]) => Silent(down'[r], c, taskOf[c])
               /\ \A v : \A minds \in BOOLEAN :
                    Tells(down[r], c, taskOf[c], v, minds) => Tells(down'[r], c, taskOf[c], v, minds)
    <3>1. down[r] \in Seq(Messages) /\ (reported[r] = down[r] \/ reported[r] = Append(down[r], msg))
      BY <1>6, <1>7
    <3>2. reported[r] \in Seq(Messages) /\ (down'[r] = reported[r] \/ down'[r] = Append(reported[r], result))
      BY <1>6
    <3>3. /\ Silent(down[r], c, taskOf[c]) => Silent(reported[r], c, taskOf[c])
          /\ \A v : \A minds \in BOOLEAN :
               Tells(down[r], c, taskOf[c], v, minds) => Tells(reported[r], c, taskOf[c], v, minds)
      BY <1>7, <2>2, <3>1, OtherMessage
    <3>4. /\ Silent(reported[r], c, taskOf[c]) => Silent(down'[r], c, taskOf[c])
          /\ \A v : \A minds \in BOOLEAN :
               Tells(reported[r], c, taskOf[c], v, minds) => Tells(down'[r], c, taskOf[c], v, minds)
      BY <1>7, <2>2, <3>2, OtherMessage
    <3> QED
      BY <3>3, <3>4
  <2>5. \A i, j \in 1..Len(running) : running[i][2] = c /\ running[j][2] = c => i = j
    BY DEF Course, Handled
  <2>6. /\ \A j \in 1..Len(running') : \E k \in 1..Len(running) : running[k] = running'[j]
        /\ \A i, j \in 1..Len(running') : running'[i][2] = c /\ running'[j][2] = c => i = j
    BY <1>1, <1>4, <2>5, HandlerGone
  <2> QED
    BY <1>4, <2>3, <2>4, <2>6, ApartCourse
<1>9. CASE c = d
  <2>1. running[x] = <<s, c>>
    BY <1>2, <1>9
  <2>2. subs[taskOf[c]] \subseteq {s} /\ (conn[s] # "closed" => s \in subs[taskOf[c]])
    BY <2>1, HandledHere
  <2>3. \A r \in Sockets : r # s => down'[r] = down[r]
    BY <1>6, <1>9, <2>2
  <2>4. subs'[taskOf[c]] = {}
    BY <1>4, <1>7, <1>9
  <2>5. ASSUME NEW m \in BOOLEAN, Tells(down[s], c, taskOf[c], told[c], m)
        PROVE  Tells(down'[s], c, taskOf[c], told[c], m)
    <3>1. CASE conn[s] = "closed"
      BY <1>6, <2>5, <3>1
    <3>2. CASE conn[s] # "closed"
      <4>1. PICK q \in Seq(Messages), r \in Seq(Messages) : q = down[s] /\ r = Append(q, msg)
        BY <1>7, AppendProperties
      <4>2. down'[s] = Append(r, result)
        BY <1>6, <1>9, <2>2, <3>2, <4>1
      <4>3. msg # Status(taskOf[c], "executing") /\ msg # Artifact(c) /\ result # Status(taskOf[c], "executing")
        BY <1>3, <1>9, NotBoth DEF Status, Final
      <4>4. Tells(r, c, taskOf[c], told[c], m)
        BY <1>7, <2>5, <4>1, <4>3, TellsAppend
      <4>5. \E j \in 1..Len(r) : FinalAt(r, j, taskOf[c])
        <5>1. PICK n \in Nat : n = Len(q)
          BY LenProperties
        <5>2. Len(r) = n + 1 /\ r[n + 1] = msg /\ n + 1 \in 1..Len(r)
          BY <4>1, <5>1, AppendProperties
        <5>3. FinalAt(r, n + 1, taskOf[c])
          BY <1>3, <1>9, <5>2 DEF FinalAt
        <5> QED
          BY <5>2, <5>3
      <4>6. Tells(Append(r, result), c, taskOf[c], told[c], m)
        BY <1>7, <4>3, <4>4, <4>5, TellsAppend
      <4> QED
        BY <4>2, <4>6
    <3> QED
      BY <3>1, <3>2
  <2> QED
    BY <1>4, <2>1, <2>3, <2>4, <2>5, EndedCourse
<1> QED
  BY <1>8, <1>9

LEMMA ExecuteOpenCourse ==
  ASSUME Bookkeeping, NEW d \in Calls, ExecuteOpen(d), UNCHANGED <<taskOf, unread>>,
         NEW c \in Calls, Course(c)
  PROVE  Course(c)'
<1>1. Submit(d) /\ pc[d] = "idle" /\ \A s \in Sockets : conn[s] = "closed" => conn'[s] = "closed"
  BY DEF ExecuteOpen
<1> QED
  BY <1>1, SubmitCourse

LEMMA OpenedCourse ==
  ASSUME Bookkeeping, NEW d \in Calls, Opened(d), UNCHANGED <<taskOf, unread>>,
         NEW c \in Calls, Course(c)
  PROVE  Course(c)'
<1>1. Submit(d) /\ pc[d] = "connecting"
  BY DEF Opened
<1>2. \A s \in Sockets : conn[s] = "closed" => conn'[s] = "closed"
  BY DEF Opened, Bookkeeping, NetInv, PeerTypes
<1> QED
  BY <1>1, <1>2, SubmitCourse

\* The calls with a task id of their own run their course.
Courses == \A c \in Calls : Unique(c) => Course(c)

LEMMA InitCourses == Init => Courses
<1> SUFFICES ASSUME Init, NEW c \in Calls PROVE Course(c)
  BY DEF Courses
<1>1. /\ \A s \in Sockets : up[s] \in Seq(Calls) /\ Len(up[s]) = 0
      /\ \A s \in Sockets : down[s] \in Seq(Messages) /\ Len(down[s]) = 0
      /\ running \in Seq(Sockets \X Calls) /\ Len(running) = 0
      /\ taskOf[c] \in Tasks /\ \A t \in Tasks : subs[t] = {}
      /\ told[c] = "nothing"
  BY EmptySeq DEF Init
<1>2. \A s \in Sockets : c \notin Range(up[s])
  BY <1>1, NothingThere
<1>3. \A s \in Sockets : Silent(down[s], c, taskOf[c])
  BY <1>1, NothingThere
<1>4. \A s \in Sockets : <<s, c>> \notin Range(running)
  <2> SUFFICES ASSUME NEW s \in Sockets PROVE <<s, c>> \notin Range(running)
    OBVIOUS
  <2>1. PICK x : x = <<s, c>>
    OBVIOUS
  <2>2. x \notin Range(running)
    BY <1>1, NothingThere
  <2> QED
    BY <2>1, <2>2
<1>5. \A s \in Sockets : ~Trace(s, c)
  BY <1>1, <1>2, <1>3, <1>4 DEF Trace
<1>6. InWords(c)
  <2> SUFFICES ASSUME NEW s \in Sockets PROVE Tells(down[s], c, taskOf[c], told[c], Minds(c))
    BY DEF InWords
  <2>1. PICK m \in BOOLEAN : m = Minds(c)
    BY DEF Minds
  <2>2. Tells(down[s], c, taskOf[c], told[c], m)
    BY <1>1, NothingThere
  <2> QED
    BY <2>1, <2>2
<1> QED
  BY <1>1, <1>2, <1>5, <1>6 DEF Course, OneSocket, Unsent, UnderWay, Handled

LEMMA StepCourses == Bookkeeping /\ Courses /\ [Next]_vars => Courses'
<1> SUFFICES ASSUME Bookkeeping, Courses, [Next]_vars, NEW c \in Calls, Unique(c)' PROVE Course(c)'
  BY DEF Courses
<1>1. taskOf' = taskOf
  BY DEF Next, vars
<1>2. Unique(c) /\ Course(c)
  BY <1>1 DEF Unique, Courses
<1>3. Bookkeeping'
  BY StepBookkeeping
<1>4. ASSUME UNCHANGED vars PROVE Course(c)'
  <2>1. UNCHANGED <<taskOf, up, down, running, subs, told, pc, unread, conn>>
    BY <1>4 DEF vars, client, net, peer
  <2>2. Minds(c)' => Minds(c)
    BY <2>1 DEF Minds
  <2> QED
    BY <1>2, <2>1, <2>2, SameCourse
<1>5. ASSUME NEW d \in Calls, ExecuteOpen(d) \/ ExecuteConnect(d) \/ Opened(d) \/ Timeout(d),
             UNCHANGED <<taskOf, unread>>
      PROVE  Course(c)'
  BY <1>2, <1>5, ExecuteOpenCourse, ExecuteConnectCourse, OpenedCourse, TimeoutCourse
<1>6. ASSUME NEW s \in Sockets, Closed(s) \/ Receive(s), UNCHANGED <<taskOf, unread>>
      PROVE  Course(c)'
  BY <1>2, <1>6, ClosedCourse, ReceiveCourse
<1>7. ASSUME NEW s \in Sockets, NEW d \in Calls, Accept(s, d) \/ Reject(s, d) \/ Refuse(s, d),
             UNCHANGED <<taskOf, unread>>
      PROVE  Course(c)'
  BY <1>2, <1>3, <1>7, AcceptCourse, RejectCourse, RefuseCourse
<1>8. ASSUME NEW i \in 1..Len(running), UNCHANGED <<taskOf, unread>>,
             Throws(i) \/ \E f \in Final : Finish(i, f)
      PROVE  Course(c)'
  BY <1>2, <1>3, <1>8, FinishCourse, ThrowsCourse
<1>9. ASSUME Close, UNCHANGED <<taskOf, unread>> PROVE Course(c)'
  BY <1>2, <1>9, CloseCourse
<1>10. ASSUME NEW s \in Sockets, Unverified(s) PROVE Course(c)'
  BY <1>1, <1>2, <1>10, UnverifiedCourse
<1> QED
  BY <1>4, <1>5, <1>6, <1>7, <1>8, <1>9, <1>10 DEF Next, Final

\* Once a call has its result nothing is reported to it any more.
LEMMA ToldNoMore ==
  ASSUME Bookkeeping, [Next]_vars, NEW c \in Calls, Unique(c), answer[c] = c
  PROVE  told'[c] = told[c]
<1>1. c \notin {"none", "threw"} /\ told \in [Calls -> {"nothing", "executing"} \cup Final]
  BY SocketAssumption DEF Bookkeeping, ClientInv, ClientTypes
<1>2. c \notin Range(pending)
  BY <1>1 DEF Bookkeeping, ClientInv, CallsWhere, NoneForgotten
<1>3. ASSUME NEW s \in Sockets, Receive(s) PROVE told'[c] = told[c]
  BY <1>2, <1>3 DEF Receive, Report, Resolve
<1>4. (\E s \in Sockets : Receive(s)) \/ told' = told
  BY DEF Next, vars, client, Submit, ExecuteOpen, ExecuteConnect, Opened, Timeout, Close, Closed,
     Accept, Reject, Refuse, Finish, Throws, Unverified
<1> QED
  BY <1>3, <1>4

LEMMA StepTold == Bookkeeping /\ Courses /\ ToldFirst /\ [Next]_vars => ToldFirst'
<1> SUFFICES ASSUME Bookkeeping, Courses, ToldFirst, [Next]_vars,
                    NEW c \in Calls, Unique(c)', answer'[c] = c, ~unread'
             PROVE  told'[c] \in Final
  BY DEF ToldFirst, Final
<1>1. taskOf' = taskOf /\ (unread' = unread \/ unread' = TRUE)
  BY DEF Next, vars, Unverified
<1>2. Unique(c) /\ Course(c) /\ ~unread
  BY <1>1 DEF Unique, Courses, Bookkeeping, NetInv, PeerTypes
<1>3. CASE answer[c] = c
  <2>1. told[c] \in Final
    BY <1>2, <1>3 DEF ToldFirst, Final
  <2> QED
    BY <1>2, <1>3, <2>1, ToldNoMore
<1>4. CASE answer[c] # c
  <2>1. PICK s \in Sockets :
          /\ down[s] # <<>> /\ Head(down[s]).kind = "artifact" /\ Head(down[s]).call = c
          /\ pc[c] = "waiting" /\ told' = told
    BY <1>4, OnlyReceiveAnswers
  <2>2. down[s] \in Seq(Messages)
    BY DEF Bookkeeping, NetInv, PeerTypes
  <2>3. 1 \in 1..Len(down[s]) /\ Head(down[s]) = down[s][1] /\ Head(down[s]) \in Messages
    BY <2>1, <2>2, EmptySeq, HeadTailProperties
  <2>4. down[s][1] = Artifact(c)
    BY <2>1, <2>3 DEF Messages, Artifact
  <2>5. Tells(down[s], c, taskOf[c], told[c], TRUE)
    <3>1. PICK m \in BOOLEAN : m = Minds(c)
      BY DEF Minds
    <3>2. m = TRUE /\ Tells(down[s], c, taskOf[c], told[c], m)
      BY <1>2, <2>1, <3>1 DEF Minds, Course, InWords
    <3> QED
      BY <3>2
  <2>6. told[c] \in Final \/ \E j \in 1..(1 - 1) : FinalAt(down[s], j, taskOf[c])
    BY <2>3, <2>4, <2>5 DEF Tells
  <2> QED
    BY <2>1, <2>6
<1> QED
  BY <1>3, <1>4

\* A result is read after the status that says the task is over, as they are sent in this
\* order on one connection: ToldFirst, of handleVerifiedMessage at the peer and the handlers of
\* 'task_status' and 'artifact_delivery' at the client.
THEOREM ToldBeforeAnswered == Spec => []ToldFirst
<1>1. Init => ToldFirst
  BY SocketAssumption DEF Init, ToldFirst
<1> QED
  BY <1>1, InitBookkeeping, StepBookkeeping, InitCourses, StepCourses, StepTold, PTL DEF Spec
=============================================================================
