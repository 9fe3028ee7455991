--------------------------- MODULE PersistenceProofs ------------------------
(***************************************************************************)
(* What the agent keeps, for any number of tasks, payments, polls, retries  *)
(* and restarts: the records of the escrow, the books and counts of the     *)
(* payments found on chain, and the files both are saved to.                *)
(***************************************************************************)
EXTENDS Escrow, Custody, FiniteSetTheorems, SequenceTheorems, TLAPS

-----------------------------------------------------------------------------
(* The escrow                                                               *)

\* The records keep their types, in memory and on disk, across crashes too.
THEOREM EscrowTypes == Spec => []TypeOK
<1>1. Init => TypeOK
  BY DEF Init, TypeOK, NoRecord, Records, Statuses
<1>2. TypeOK /\ [Next]_escrowVars => TypeOK'
  <2> SUFFICES ASSUME TypeOK, [Next]_escrowVars PROVE TypeOK'
    OBVIOUS
  <2> USE DEF TypeOK
  <2>1. ASSUME NEW t \in Tasks, NEW amount \in Amounts, Lock(t, amount)
        PROVE  TypeOK'
    <3>1. [status |-> "LOCKED", amount |-> amount] \in Records
      BY EscrowAssumption DEF Records, Statuses
    <3> QED
      BY <2>1, <3>1 DEF Lock
  <2>2. ASSUME NEW t \in Tasks, NEW status \in Statuses, SetStatus(t, status)
        PROVE  store' \in [Tasks -> Records]
    <3>1. [store[t] EXCEPT !.status = status] \in Records
      BY DEF Records
    <3> QED
      BY <2>2, <3>1 DEF SetStatus
  <2>3. ASSUME NEW t \in Tasks, Release(t) \/ Refund(t) \/ RefundFails(t)
        PROVE  TypeOK'
    <3>1. \E status \in Statuses : SetStatus(t, status)
      BY <2>3 DEF Release, Refund, RefundFails, Statuses
    <3>2. store' \in [Tasks -> Records]
      BY <2>2, <3>1
    <3> QED
      BY <2>3, <3>2 DEF Release, Refund, RefundFails
  <2>4. CASE Save \/ Crash \/ UNCHANGED escrowVars
    BY <2>4 DEF Save, Crash, escrowVars
  <2> QED
    BY <2>1, <2>3, <2>4 DEF Next
<1> QED
  BY <1>1, <1>2, PTL DEF Spec

\* A step that gives one record a new status moves that task's funds.
LEMMA StatusMovesFunds ==
  ASSUME TypeOK, NEW t \in Tasks, NEW r \in Records, store' = [store EXCEPT ![t] = r]
  PROVE  /\ PlacesOf(store') = [PlacesOf(store) EXCEPT ![t] = PlaceOf(r.status)]
         /\ PlacesOf(store)[t] = PlaceOf(store[t].status)
BY DEF TypeOK, PlacesOf

\* An escrow keeps its contract: funds are held once and leave once, and only a
\* crash takes them back.
THEOREM EscrowKeepsContract == Spec => KeepsContract
<1> DEFINE abstractVars == <<PlacesOf(store), PlacesOf(saved)>>
<1>1. Init => Contract!Init
  BY DEF Init, Contract!Init, NoRecord, PlaceOf, PlacesOf
<1>2. TypeOK /\ [Next]_escrowVars => [Contract!Next]_abstractVars
  <2> SUFFICES ASSUME TypeOK, [Next]_escrowVars
               PROVE  Contract!Next \/ UNCHANGED abstractVars
    OBVIOUS
  <2>0. ASSUME saved' = saved PROVE PlacesOf(saved)' = PlacesOf(saved)
    BY <2>0 DEF PlacesOf
  <2>1. CASE UNCHANGED escrowVars
    BY <2>1 DEF escrowVars, PlacesOf
  <2>2. ASSUME NEW t \in Tasks, NEW amount \in Amounts, Lock(t, amount)
        PROVE  Contract!Next
    <3> DEFINE r == [status |-> "LOCKED", amount |-> amount]
    <3>1. r \in Records /\ r.status = "LOCKED"
      BY EscrowAssumption DEF Records, Statuses
    <3>2. /\ store' = [store EXCEPT ![t] = r]
          /\ store[t].status = "NONE"
          /\ PlacesOf(saved)' = PlacesOf(saved)
      BY <2>0, <2>2 DEF Lock
    <3> HIDE DEF r
    <3>3. PlacesOf(store') = [PlacesOf(store) EXCEPT ![t] = PlaceOf(r.status)]
      BY <3>1, <3>2, StatusMovesFunds
    <3>4. PlacesOf(store)[t] = "none" /\ PlaceOf(r.status) = "held"
      BY <3>1, <3>2, StatusMovesFunds DEF PlaceOf
    <3> QED
      BY <3>2, <3>3, <3>4 DEF Contract!Next, Contract!Hold, Contract!Move
  <2>3. ASSUME NEW t \in Tasks, Release(t) \/ Refund(t) \/ RefundFails(t)
        PROVE  Contract!Next
    <3>1. PICK status \in {"RELEASED", "REFUNDED", "FAILED"} :
            store' = [store EXCEPT ![t] = [store[t] EXCEPT !.status = status]]
      BY <2>3 DEF Release, Refund, RefundFails, SetStatus
    <3> DEFINE r == [store[t] EXCEPT !.status = status]
    <3>2. r \in Records /\ r.status = status
      BY DEF TypeOK, Records, Statuses
    <3>3. /\ store' = [store EXCEPT ![t] = r]
          /\ store[t].status = "LOCKED"
          /\ PlacesOf(saved)' = PlacesOf(saved)
      BY <2>0, <2>3, <3>1 DEF Release, Refund, RefundFails
    <3> HIDE DEF r
    <3>4. PlacesOf(store') = [PlacesOf(store) EXCEPT ![t] = PlaceOf(r.status)]
      BY <3>2, <3>3, StatusMovesFunds
    <3>5. PlacesOf(store)[t] = "held" /\ PlaceOf(r.status) \in {"paid", "returned", "stuck"}
      BY <3>2, <3>3, StatusMovesFunds DEF PlaceOf
    <3> QED
      BY <3>3, <3>4, <3>5 DEF Contract!Next, Contract!Pay, Contract!Return,
                              Contract!Strand, Contract!Move
  <2>4. CASE Save
    BY <2>4 DEF Save, PlacesOf, Contract!Next, Contract!Record
  <2>5. CASE Crash
    BY <2>5 DEF Crash, PlacesOf, Contract!Next, Contract!Lose
  <2> QED
    BY <2>1, <2>2, <2>3, <2>4, <2>5 DEF Next
<1> QED
  BY <1>1, <1>2, EscrowTypes, PTL DEF Spec, KeepsContract, Contract!Spec

\* A record that was saved closed stays closed, whatever crashes follow.
THEOREM SavedStaysClosed == Spec => []SavedIsFinal
<1> DEFINE Closed == {"RELEASED", "REFUNDED", "FAILED"}
<1>1. Init => SavedIsFinal
  BY DEF Init, SavedIsFinal, NoRecord
<1>2. TypeOK /\ SavedIsFinal /\ [Next]_escrowVars => SavedIsFinal'
  <2> SUFFICES ASSUME TypeOK, SavedIsFinal, [Next]_escrowVars
               PROVE  SavedIsFinal'
    OBVIOUS
  <2>1. ASSUME NEW t \in Tasks, store[t].status \notin Closed, saved' = saved,
               \A u \in Tasks \ {t} : store'[u] = store[u]
        PROVE  SavedIsFinal'
    BY <2>1 DEF SavedIsFinal
  <2>2. ASSUME NEW t \in Tasks, NEW amount \in Amounts, Lock(t, amount)
        PROVE  SavedIsFinal'
    BY <2>1, <2>2 DEF Lock, TypeOK
  <2>3. ASSUME NEW t \in Tasks, Release(t) \/ Refund(t) \/ RefundFails(t)
        PROVE  SavedIsFinal'
    BY <2>1, <2>3 DEF Release, Refund, RefundFails, SetStatus, TypeOK
  <2>4. CASE Save \/ Crash \/ UNCHANGED escrowVars
    BY <2>4 DEF Save, Crash, escrowVars, SavedIsFinal
  <2> QED
    BY <2>2, <2>3, <2>4 DEF Next
<1> QED
  BY <1>1, <1>2, EscrowTypes, PTL DEF Spec

\* Only tasks whose refund failed are reported as stuck: a record leaves FAILED in a
\* crash only, which empties the queue.
THEOREM StuckHasFailed == Spec => []OnlyFailedIsStuck
<1>1. Init => OnlyFailedIsStuck
  BY DEF Init, OnlyFailedIsStuck
<1>2. TypeOK /\ OnlyFailedIsStuck /\ [Next]_escrowVars => OnlyFailedIsStuck'
  <2> SUFFICES ASSUME TypeOK, OnlyFailedIsStuck, [Next]_escrowVars
               PROVE  OnlyFailedIsStuck'
    OBVIOUS
  <2> USE DEF TypeOK, OnlyFailedIsStuck
  <2>1. ASSUME NEW t \in Tasks, NEW amount \in Amounts, Lock(t, amount)
        PROVE  OnlyFailedIsStuck'
    BY <2>1 DEF Lock
  <2>2. ASSUME NEW t \in Tasks, Release(t) \/ Refund(t) \/ RefundFails(t)
        PROVE  OnlyFailedIsStuck'
    BY <2>2 DEF Release, Refund, RefundFails, SetStatus, Records
  <2>3. CASE Save \/ Crash \/ UNCHANGED escrowVars
    BY <2>3 DEF Save, Crash, escrowVars
  <2> QED
    BY <2>1, <2>2, <2>3 DEF Next
<1> QED
  BY <1>1, <1>2, EscrowTypes, PTL DEF Spec

-----------------------------------------------------------------------------
(* Payments: types                                                          *)

Counts == [Payments -> Nat]
Busy == {"fetching", "selecting", "booking"}
AtRest == {"idle", "scanning"}
PollStates == AtRest \cup Busy
PollRecords == [pc : PollStates, at : {"none"} \cup Stores, todo : Seq(Payments)]

\* A poll that is on its way has a signature to look at.
PollsOK ==
  /\ poll \in [Polls -> PollRecords]
  /\ \A p \in Polls : poll[p].pc # "idle" => poll[p].todo # <<>>

CustodyTypes ==
  /\ chain \in Seq(Payments)
  /\ PollsOK
  /\ processed \subseteq Payments /\ switched \in BOOLEAN
  /\ booked \in [Stores -> Counts] /\ counted \in Counts
  /\ memory \in [Files -> Counts] /\ export \in [Files -> Counts] /\ cut \in [Files -> Counts]
  /\ save \in [Files -> {"idle", "exported", "writing", "saved", "failed"}]
  /\ file \in [Files -> [is : {"none", "whole"}, holds : Counts]]

LEMMA NewestType == CustodyTypes => Newest \in Seq(Payments)
<1> SUFFICES ASSUME CustodyTypes PROVE Newest \in Seq(Payments)
  OBVIOUS
<1> DEFINE first == IF Len(chain) > Page THEN Len(chain) - Page + 1 ELSE 1
           page == SubSeq(chain, first, Len(chain))
<1>1. Len(chain) \in Nat /\ \A i \in 1..Len(chain) : chain[i] \in Payments
  BY LenProperties, ElementOfSeq DEF CustodyTypes
<1>2. first \in Int /\ first >= 1
  BY <1>1, CustodyAssumption
<1> HIDE DEF first
<1>3. page \in Seq(Payments)
  BY <1>1, <1>2, SubSeqProperties
<1> HIDE DEF page
<1>4. Len(page) \in Nat /\ \A i \in 1..Len(page) : page[i] \in Payments
  BY <1>3, LenProperties, ElementOfSeq
<1>5. Reverse(page) \in Seq(Payments)
  BY <1>4 DEF Reverse
<1> QED
  BY <1>5 DEF Newest, page, first

\* A poll with signatures left looks at the first of them.
LEMMA SigType ==
  ASSUME CustodyTypes, NEW p \in Polls, poll[p].todo # <<>>
  PROVE  Sig(p) \in Payments /\ Others(p) \in Seq(Payments)
<1>1. poll[p].todo \in Seq(Payments)
  BY DEF CustodyTypes, PollsOK, PollRecords
<1> QED
  BY <1>1, HeadTailProperties DEF Sig, Others

LEMMA GoesType ==
  ASSUME CustodyTypes, NEW p \in Polls, NEW pc \in PollStates, NEW todo \in Seq(Payments),
         todo # <<>>, Goes(p, pc, todo)
  PROVE  /\ PollsOK'
         /\ poll'[p] = [pc |-> pc, at |-> "none", todo |-> todo]
         /\ \A q \in Polls : q # p => poll'[q] = poll[q]
<1>1. poll' = [poll EXCEPT ![p] = [pc |-> pc, at |-> "none", todo |-> todo]]
  BY DEF Goes
<1>2. [pc |-> pc, at |-> "none", todo |-> todo] \in PollRecords
  BY DEF PollRecords
<1> QED
  BY <1>1, <1>2 DEF CustodyTypes, PollsOK

\* A poll that goes on works on nothing.
LEMMA GoesOnType ==
  ASSUME CustodyTypes, NEW p \in Polls, NEW todo \in Seq(Payments), GoesOn(p, todo)
  PROVE  /\ PollsOK'
         /\ poll'[p].pc \in AtRest /\ poll'[p].at = "none"
         /\ \A q \in Polls : q # p => poll'[q] = poll[q]
<1>1. CASE todo = <<>>
  <2>1. poll' = [poll EXCEPT ![p] = Rest]
    BY <1>1 DEF GoesOn
  <2>2. Rest \in PollRecords /\ Rest.pc = "idle" /\ Rest.at = "none"
    BY EmptySeq DEF Rest, PollRecords, PollStates, AtRest
  <2> HIDE DEF Rest
  <2> QED
    BY <2>1, <2>2 DEF CustodyTypes, PollsOK, AtRest
<1>2. CASE todo # <<>>
  <2>1. Goes(p, "scanning", todo)
    BY <1>2 DEF GoesOn
  <2>2. /\ PollsOK' /\ poll'[p] = [pc |-> "scanning", at |-> "none", todo |-> todo]
        /\ \A q \in Polls : q # p => poll'[q] = poll[q]
    BY <1>2, <2>1, GoesType DEF PollStates, AtRest
  <2> QED
    BY <2>2 DEF AtRest
<1> QED
  BY <1>1, <1>2

\* A poll that turns to a store keeps its signatures.
LEMMA TurnsType ==
  ASSUME CustodyTypes, NEW p \in Polls, NEW pc \in {"selecting", "booking"},
         poll[p].todo # <<>>, Turns(p, pc)
  PROVE  /\ PollsOK'
         /\ poll'[p].pc = pc /\ poll'[p].todo = poll[p].todo
         /\ poll'[p].at = (IF switched' THEN "memory" ELSE "postgres")
         /\ \A q \in Polls : q # p => poll'[q] = poll[q]
<1>1. PICK at \in Stores : at = (IF switched' THEN "memory" ELSE "postgres")
  BY DEF Stores
<1>2. poll' = [poll EXCEPT ![p] = [pc |-> pc, at |-> at, todo |-> poll[p].todo]]
  BY <1>1 DEF Turns
<1>3. [pc |-> pc, at |-> at, todo |-> poll[p].todo] \in PollRecords
  BY DEF PollRecords, PollStates, AtRest, Busy, CustodyTypes, PollsOK
<1>4. poll'[p] = [pc |-> pc, at |-> at, todo |-> poll[p].todo]
      /\ \A q \in Polls : q # p => poll'[q] = poll[q]
  BY <1>2 DEF CustodyTypes, PollsOK
<1> QED
  BY <1>1, <1>2, <1>3, <1>4 DEF CustodyTypes, PollsOK

\* What a transaction may end in.
LEMMA EndsIn ==
  ASSUME NEW at \in {"none"} \cup Stores, NEW where \in Ends(at)
  PROVE  /\ where \subseteq Stores /\ where # {}
         /\ "postgres" \in where => at = "postgres"
         /\ "memory" \notin where => "postgres" \in where
BY DEF Ends, Stores

LEMMA HandledType ==
  ASSUME CustodyTypes, NEW p \in Polls, poll[p].todo # <<>>, Handled(p)
  PROVE  /\ PollsOK' /\ poll'[p].pc \in AtRest
         /\ \A q \in Polls : q # p => poll'[q] = poll[q]
         /\ memory' \in [Files -> Counts] /\ counted' \in Counts /\ processed' \subseteq Payments
<1>1. Sig(p) \in Payments /\ Others(p) \in Seq(Payments)
  BY SigType
<1>2. /\ PollsOK' /\ poll'[p].pc \in AtRest
      /\ \A q \in Polls : q # p => poll'[q] = poll[q]
  BY <1>1, GoesOnType DEF Handled
<1> QED
  BY <1>1, <1>2 DEF CustodyTypes, Handled, Counts

\* What is booked late, as the process dies, is a number of bookings.
LEMMA LateBookings ==
  ASSUME NEW late \in SUBSET Polls, NEW s
  PROVE  Cardinality({p \in late : Sig(p) = s}) \in Nat
<1>1. IsFiniteSet({p \in late : Sig(p) = s})
  BY CustodyAssumption, FS_Subset
<1> QED
  BY <1>1, FS_CardinalityType

LEMMA CustodyTypesInit == CustodyInit => CustodyTypes
<1> SUFFICES ASSUME CustodyInit PROVE CustodyTypes
  OBVIOUS
<1>1. Zero \in Counts /\ Rest \in PollRecords /\ chain \in Seq(Payments)
  BY EmptySeq DEF Zero, Counts, Rest, PollRecords, PollStates, AtRest, Busy, CustodyInit
<1> QED
  BY <1>1 DEF CustodyInit, CustodyTypes, PollsOK, Rest, Busy

LEMMA CustodyTypesStep == CustodyTypes /\ [CustodyNext]_vars => CustodyTypes'
<1> SUFFICES ASSUME CustodyTypes, [CustodyNext]_vars PROVE CustodyTypes'
  OBVIOUS
<1>0. Zero \in Counts /\ Rest \in PollRecords
  BY EmptySeq DEF Zero, Counts, Rest, PollRecords, PollStates, AtRest, Busy
<1>1. ASSUME NEW s \in Payments, Pay(s) PROVE CustodyTypes'
  <2>1. Append(chain, s) \in Seq(Payments)
    BY AppendProperties DEF CustodyTypes
  <2> QED
    BY <1>1, <2>1 DEF Pay, CustodyTypes, PollsOK, process, history
<1>2. ASSUME NEW p \in Polls, Look(p) \/ Skip(p) \/ Fetch(p) \/ Missed(p)
      PROVE  CustodyTypes'
  <2>1. PollsOK'
    <3>1. CASE Look(p)
      <4>1. Goes(p, "scanning", Newest) /\ Newest \in Seq(Payments)
        BY <3>1, NewestType DEF Look
      <4>2. Newest # <<>>
        BY <3>1 DEF Look
      <4> HIDE DEF Newest
      <4> QED
        BY <4>1, <4>2, GoesType DEF PollStates, AtRest
    <3>2. CASE Skip(p) \/ Missed(p)
      <4>1. poll[p].todo # <<>>
        BY <3>2 DEF Skip, Missed, At, CustodyTypes, PollsOK, Busy
      <4>2. GoesOn(p, Others(p)) /\ Others(p) \in Seq(Payments)
        BY <3>2, <4>1, SigType DEF Skip, Missed
      <4> QED
        BY <4>2, GoesOnType
    <3>3. CASE Fetch(p)
      <4>1. poll[p].todo \in Seq(Payments)
        BY DEF CustodyTypes, PollsOK, PollRecords
      <4>2. Goes(p, "fetching", poll[p].todo) /\ poll[p].todo # <<>>
        BY <3>3 DEF Fetch, At, CustodyTypes, PollsOK
      <4> QED
        BY <4>1, <4>2, GoesType DEF PollStates, AtRest, Busy
    <3> QED
      BY <1>2, <3>1, <3>2, <3>3
  <2> QED
    BY <1>2, <2>1 DEF Look, Skip, Fetch, Missed, CustodyTypes, history
<1>3. ASSUME NEW p \in Polls, Ask(p) PROVE CustodyTypes'
  <2>1. poll[p].todo # <<>> /\ Turns(p, "selecting")
    BY <1>3 DEF Ask, At, CustodyTypes, PollsOK, Busy
  <2>2. PollsOK'
    BY <2>1, TurnsType
  <2> QED
    BY <1>3, <2>2 DEF Ask, CustodyTypes, history
<1>8. ASSUME NEW p \in Polls, Select(p) PROVE CustodyTypes'
  <2>1. poll[p].todo # <<>> /\ booked' = booked
    BY <1>8 DEF Select, At, CustodyTypes, PollsOK, Busy
  <2>2. switched' \in BOOLEAN
    BY <1>8 DEF Select, CustodyTypes
  <2>3. \/ Turns(p, "booking") /\ UNCHANGED <<processed, memory, counted>>
        \/ Handled(p)
    BY <1>8 DEF Select, Answered
  <2>4. /\ PollsOK' /\ memory' \in [Files -> Counts]
        /\ counted' \in Counts /\ processed' \subseteq Payments
    <3>1. CASE Handled(p)
      BY <2>1, <3>1, HandledType
    <3>2. CASE Turns(p, "booking") /\ UNCHANGED <<processed, memory, counted>>
      BY <2>1, <3>2, TurnsType DEF CustodyTypes
    <3> QED
      BY <2>3, <3>1, <3>2
  <2> QED
    BY <1>8, <2>1, <2>2, <2>4 DEF Select, CustodyTypes
<1>9. ASSUME NEW p \in Polls, Insert(p) PROVE CustodyTypes'
  <2>1. poll[p].todo # <<>> /\ Handled(p)
    BY <1>9 DEF Insert, At, CustodyTypes, PollsOK, Busy
  <2>2. /\ PollsOK' /\ memory' \in [Files -> Counts]
        /\ counted' \in Counts /\ processed' \subseteq Payments
    BY <2>1, HandledType
  <2>3. PICK where : /\ switched' = (switched \/ "memory" \in where)
                     /\ booked' = [st \in Stores |-> IF st \in where
                                     THEN [booked[st] EXCEPT ![Sig(p)] = @ + 1] ELSE booked[st]]
    BY <1>9 DEF Insert
  <2>4. \A st \in Stores : [booked[st] EXCEPT ![Sig(p)] = @ + 1] \in Counts
    BY <2>1, SigType DEF CustodyTypes, Counts
  <2>5. booked' \in [Stores -> Counts] /\ switched' \in BOOLEAN
    BY <2>3, <2>4 DEF CustodyTypes
  <2> QED
    BY <1>9, <2>2, <2>5 DEF Insert, CustodyTypes
<1>10. CASE PoolError
  BY <1>10 DEF PoolError, CustodyTypes, PollsOK, history
<1>4. CASE SaveAll \/ \E f \in Files : Write(f) \/ Rename(f)
  <2>1. CASE SaveAll
    BY <2>1 DEF SaveAll, CustodyTypes, PollsOK
  <2>2. ASSUME NEW f \in Files, Write(f) PROVE CustodyTypes'
    BY <2>2 DEF Write, CustodyTypes, PollsOK, history
  <2>3. ASSUME NEW f \in Files, Rename(f) PROVE CustodyTypes'
    <3>1. save' \in [Files -> {"idle", "exported", "writing", "saved", "failed"}]
      BY <2>3 DEF Rename, CustodyTypes
    <3>2. [is |-> "whole", holds |-> export[f]] \in [is : {"none", "whole"}, holds : Counts]
      BY DEF CustodyTypes
    <3>3. file' \in [Files -> [is : {"none", "whole"}, holds : Counts]]
      BY <2>3, <3>2 DEF Rename, CustodyTypes
    <3> QED
      BY <2>3, <3>1, <3>3 DEF Rename, CustodyTypes, PollsOK, history
  <2> QED
    BY <1>4, <2>1, <2>2, <2>3
<1>5. CASE Exit
  <2>1. PICK late \in SUBSET Polls :
          booked' = [postgres |-> [s \in Payments |-> booked["postgres"][s]
                                                    + Cardinality({p \in late : Sig(p) = s})],
                     memory |-> Zero]
    BY <1>5 DEF Exit
  <2>2. PICK books : books = [s \in Payments |-> booked["postgres"][s]
                                                 + Cardinality({p \in late : Sig(p) = s})]
    OBVIOUS
  <2>3. books \in Counts
    <3>1. ASSUME NEW s \in Payments
          PROVE  booked["postgres"][s] + Cardinality({p \in late : Sig(p) = s}) \in Nat
      <4>1. PICK n \in Nat : n = Cardinality({p \in late : Sig(p) = s})
        BY LateBookings
      <4>2. booked["postgres"][s] \in Nat
        BY DEF CustodyTypes, Counts, Stores
      <4> QED
        BY <4>1, <4>2
    <3> QED
      BY <2>2, <3>1, Zenon DEF Counts
  <2>4. booked' \in [Stores -> Counts]
    <3>1. booked' = [postgres |-> books, memory |-> Zero]
      BY <2>1, <2>2, Zenon
    <3> QED
      BY <1>0, <2>3, <3>1 DEF Stores
  <2>5. /\ chain' = chain /\ file' = file /\ processed' = {} /\ counted' = Zero
        /\ poll' = [p \in Polls |-> Rest] /\ memory' = [f \in Files |-> Zero]
        /\ export' = [f \in Files |-> Zero] /\ cut' = [f \in Files |-> Zero]
        /\ save' = [f \in Files |-> "idle"] /\ switched' = FALSE
    BY <1>5 DEF Exit
  <2>6. PollsOK'
    BY <1>0, <2>5 DEF PollsOK, Rest, Busy
  <2> QED
    BY <1>0, <2>4, <2>5, <2>6 DEF CustodyTypes
<1>6. CASE Restart
  <2>1. memory' \in [Files -> Counts]
    BY <1>0, <1>6 DEF Restart, CustodyTypes
  <2> QED
    BY <1>6, <2>1 DEF Restart, CustodyTypes, PollsOK, history
<1>7. CASE UNCHANGED vars
  BY <1>7 DEF vars, process, history, CustodyTypes, PollsOK
<1> QED
  BY <1>1, <1>2, <1>3, <1>4, <1>5, <1>6, <1>7, <1>8, <1>9, <1>10 DEF CustodyNext

-----------------------------------------------------------------------------
(* Payments: saves                                                          *)

\* While a save lasts, what it writes is what was counted when it began.
Snapshot ==
  \A f \in Files :
    /\ save[f] # "idle" => export[f] = cut[f]
    /\ save[f] = "saved" => file[f].holds = cut[f]

\* A save that is through has put one moment into both files, though others were counted
\* while the first of them was written.
THEOREM SavesAreWhole == CustodySpec => []SavesHold
<1>1. CustodyInit => Snapshot
  BY DEF CustodyInit, Snapshot
<1>2. CustodyTypes /\ Snapshot /\ [CustodyNext]_vars => Snapshot'
  <2> SUFFICES ASSUME CustodyTypes, Snapshot, [CustodyNext]_vars PROVE Snapshot'
    OBVIOUS
  <2>1. CASE UNCHANGED <<save, export, cut, file>>
    BY <2>1 DEF Snapshot
  <2>2. CASE SaveAll
    BY <2>2 DEF SaveAll, Snapshot
  <2>3. ASSUME NEW f \in Files, Write(f) PROVE Snapshot'
    BY <2>3 DEF Write, Snapshot, CustodyTypes, history
  <2>4. ASSUME NEW f \in Files, Rename(f) PROVE Snapshot'
    BY <2>4 DEF Rename, Snapshot, CustodyTypes, history
  <2>5. CASE Exit
    BY <2>5 DEF Exit, Snapshot
  <2>6. CASE Restart
    BY <2>6 DEF Restart, Snapshot, history
  <2>7. ASSUME NEW s \in Payments, Pay(s) PROVE UNCHANGED <<save, export, cut, file>>
    BY <2>7 DEF Pay, process, history
  <2>8. ASSUME NEW p \in Polls,
               \/ Look(p) \/ Skip(p) \/ Fetch(p) \/ Missed(p)
               \/ Ask(p) \/ Select(p) \/ Insert(p)
        PROVE  UNCHANGED <<save, export, cut, file>>
    BY <2>8 DEF Look, Skip, Fetch, Missed, Ask, Select, Insert, history
  <2>9. CASE PoolError
    BY <2>9 DEF PoolError, Snapshot, history
  <2> QED
    BY <2>1, <2>2, <2>3, <2>4, <2>5, <2>6, <2>7, <2>8, <2>9 DEF CustodyNext, vars, process, history
<1>3. Snapshot => SavesHold
  BY DEF Snapshot, SavesHold
<1> QED
  BY <1>1, <1>2, <1>3, CustodyTypesInit, CustodyTypesStep, PTL DEF CustodySpec

-----------------------------------------------------------------------------
(* Payments: counting                                                       *)

Working(p, s) == poll[p].pc \in Busy /\ Sig(p) = s

\* A payment that polls take in turn is with one of them at a time, is with none once it is
\* processed, and is about to be booked in Postgres only while Postgres does not have it.
OneAtATime ==
  \A s \in Payments \ overlapped :
    /\ \A p, q \in Polls : Working(p, s) /\ Working(q, s) => p = q
    /\ \A p \in Polls : Working(p, s) => s \notin processed
    /\ \A p \in Polls : poll[p].pc = "booking" /\ poll[p].at = "postgres" /\ Sig(p) = s
                          => booked["postgres"][s] = 0

Tallied ==
  \A s \in Payments \ overlapped :
    /\ booked["postgres"][s] <= 1 /\ booked["memory"][s] <= 1 /\ counted[s] <= 1
    /\ s \notin processed => counted[s] = 0 /\ booked["memory"][s] = 0

Accounted ==
  /\ \A s \in processed :
       booked["postgres"][s] > 0 \/ booked["memory"][s] > 0 \/ s \in ignored
  /\ \A s \in Payments : booked["memory"][s] > 0 => switched
  /\ \A p \in Polls : poll[p].at = "memory" => switched

Counting == CustodyTypes /\ OneAtATime /\ Tallied /\ Accounted

counts == <<booked, processed, counted, ignored>>

LEMMA CountingTypes ==
  ASSUME Counting
  PROVE  /\ booked \in [Stores -> Counts] /\ counted \in Counts /\ switched \in BOOLEAN
         /\ \A p \in Polls : /\ poll[p].at \in {"none"} \cup Stores
                             /\ poll[p].at = "memory" => switched
                             /\ poll[p].pc \in Busy => poll[p].todo # <<>>
<1>1. CustodyTypes /\ Accounted
  BY Zenon DEF Counting
<1>2. booked \in [Stores -> Counts] /\ counted \in Counts /\ switched \in BOOLEAN
  BY <1>1, Zenon DEF CustodyTypes
<1>3. PollsOK
  BY <1>1, Zenon DEF CustodyTypes
<1> QED
  BY <1>1, <1>2, <1>3 DEF PollsOK, PollRecords, Accounted, Busy

\* A poll that moves on, or dies, takes nothing with it.
LEMMA CountingRests ==
  ASSUME Counting, UNCHANGED counts, overlapped' = overlapped, switched => switched',
         \A q \in Polls : \/ poll'[q] = poll[q]
                          \/ poll'[q].pc \notin Busy /\ poll'[q].at = "none"
  PROVE  OneAtATime' /\ Tallied' /\ Accounted'
<1>1. ASSUME NEW q \in Polls, NEW s, Working(q, s)'
      PROVE  Working(q, s) /\ poll'[q] = poll[q] /\ Sig(q)' = Sig(q)
  BY <1>1 DEF Working, Sig
<1>2. OneAtATime'
  <2> SUFFICES ASSUME NEW s \in Payments \ overlapped
               PROVE  /\ \A p, q \in Polls : Working(p, s)' /\ Working(q, s)' => p = q
                      /\ \A p \in Polls : Working(p, s)' => s \notin processed
                      /\ \A p \in Polls : /\ poll'[p].pc = "booking" /\ poll'[p].at = "postgres"
                                          /\ Sig(p)' = s
                                          => booked["postgres"][s] = 0
    BY DEF OneAtATime, counts
  <2>1. ASSUME NEW p \in Polls, poll'[p].pc = "booking", Sig(p)' = s
        PROVE  poll'[p] = poll[p] /\ Sig(p) = s
    BY <1>1, <2>1 DEF Working, Busy
  <2> QED
    BY <1>1, <2>1 DEF Counting, OneAtATime
<1>3. Tallied'
  BY DEF Counting, Tallied, counts
<1>4. Accounted'
  <2>1. \A p \in Polls : poll'[p].at = "memory" => switched'
    BY DEF Counting, Accounted
  <2> QED
    BY <2>1 DEF Counting, Accounted, counts
<1> QED
  BY <1>2, <1>3, <1>4

\* A poll turns to a store, and to Postgres for a booking only when it was not found there.
LEMMA CountingTurns ==
  ASSUME Counting, UNCHANGED counts, overlapped' = overlapped,
         switched => switched', switched' \in BOOLEAN,
         NEW p \in Polls, NEW pc \in {"selecting", "booking"}, poll[p].pc \in Busy,
         Turns(p, pc),
         pc = "booking" /\ ~switched' => booked["postgres"][Sig(p)] = 0
  PROVE  OneAtATime' /\ Tallied' /\ Accounted'
<1>1. poll[p].todo # <<>>
  BY CountingTypes, Zenon
<1>2. /\ poll'[p].pc = pc /\ poll'[p].todo = poll[p].todo
      /\ poll'[p].at = (IF switched' THEN "memory" ELSE "postgres")
      /\ \A q \in Polls : q # p => poll'[q] = poll[q]
  BY <1>1, TurnsType DEF Counting
<1>3. ASSUME NEW q \in Polls
      PROVE  Sig(q)' = Sig(q) /\ (poll'[q].pc \in Busy <=> poll[q].pc \in Busy)
  BY <1>2 DEF Sig, Busy
<1>4. OneAtATime'
  <2> SUFFICES ASSUME NEW s \in Payments \ overlapped
               PROVE  /\ \A q, r \in Polls : Working(q, s)' /\ Working(r, s)' => q = r
                      /\ \A q \in Polls : Working(q, s)' => s \notin processed
                      /\ \A q \in Polls : /\ poll'[q].pc = "booking" /\ poll'[q].at = "postgres"
                                          /\ Sig(q)' = s
                                          => booked["postgres"][s] = 0
    BY DEF OneAtATime, counts
  <2>1. \A q \in Polls : Working(q, s)' <=> Working(q, s)
    BY <1>3 DEF Working
  <2>2. ASSUME NEW q \in Polls, poll'[q].pc = "booking", poll'[q].at = "postgres", Sig(q)' = s
        PROVE  booked["postgres"][s] = 0
    <3>1. CASE q = p
      BY <1>2, <1>3, <2>2, <3>1
    <3>2. CASE q # p
      BY <1>2, <1>3, <2>2, <3>2 DEF Counting, OneAtATime
    <3> QED
      BY <3>1, <3>2
  <2> QED
    BY <2>1, <2>2 DEF Counting, OneAtATime
<1>5. Tallied'
  BY DEF Counting, Tallied, counts
<1>6. Accounted'
  <2>1. \A q \in Polls : poll'[q].at = "memory" => switched'
    BY <1>2 DEF Counting, Accounted
  <2> QED
    BY <2>1 DEF Counting, Accounted, counts
<1> QED
  BY <1>4, <1>5, <1>6

\* Poll p books its payment in these stores.
Books(p, where) ==
  booked' = [st \in Stores |-> IF st \in where THEN [booked[st] EXCEPT ![Sig(p)] = @ + 1]
                               ELSE booked[st]]

\* A poll that is through with a payment has counted and kept it.
LEMMA CountingHandles ==
  ASSUME Counting, NEW p \in Polls, poll[p].pc \in Busy, Handled(p),
         overlapped' = overlapped, switched => switched',
         NEW where, where \subseteq Stores,
         Books(p, where),
         "postgres" \in where => poll[p].pc = "booking" /\ poll[p].at = "postgres",
         "memory" \in where => switched',
         \/ where # {} \/ booked["postgres"][Sig(p)] > 0 \/ booked["memory"][Sig(p)] > 0
         \/ Sig(p) \in ignored',
         ignored \subseteq ignored'
  PROVE  OneAtATime' /\ Tallied' /\ Accounted'
<1>0. poll[p].todo # <<>> /\ Sig(p) \in Payments
  <2>1. poll[p].todo # <<>>
    BY CountingTypes, Zenon
  <2> QED
    BY <2>1, SigType, Zenon DEF Counting
<1>s. PICK sig \in Payments : sig = Sig(p)
  BY <1>0
<1>1. Working(p, sig)
  BY <1>s DEF Working
<1>2. /\ poll'[p].pc \in AtRest /\ poll'[p].at = "none"
      /\ \A q \in Polls : q # p => poll'[q] = poll[q]
  <2>1. GoesOn(p, Others(p)) /\ Others(p) \in Seq(Payments)
    BY <1>0, SigType DEF Handled, Counting
  <2> QED
    BY <2>1, GoesOnType DEF Counting
<1>3. /\ counted' = [counted EXCEPT ![sig] = @ + 1]
      /\ processed' = processed \cup {sig}
  BY <1>s DEF Handled
<1>4. /\ booked["postgres"] \in Counts /\ booked["memory"] \in Counts /\ counted \in Counts
      /\ booked["postgres"][sig] \in Nat /\ booked["memory"][sig] \in Nat /\ counted[sig] \in Nat
  BY CountingTypes DEF Stores, Counts
<1>5. ASSUME NEW q \in Polls, NEW s, Working(q, s)'
      PROVE  q # p /\ Working(q, s) /\ poll'[q] = poll[q]
  BY <1>2, <1>5 DEF Working, Sig, Busy, AtRest
<1>6. ASSUME NEW st \in Stores
      PROVE  /\ \A s \in Payments : s # sig => booked'[st][s] = booked[st][s]
             /\ booked'[st][sig] = booked[st][sig] + (IF st \in where THEN 1 ELSE 0)
  <2>1. booked[st] \in Counts
    BY CountingTypes
  <2>2. booked'[st] = IF st \in where THEN [booked[st] EXCEPT ![sig] = @ + 1] ELSE booked[st]
    BY <1>s DEF Books
  <2>3. booked[st][sig] \in Nat
    BY <2>1 DEF Counts
  <2> QED
    BY <2>1, <2>2, <2>3 DEF Counts
<1>7. /\ \A s \in Payments : s # sig => counted'[s] = counted[s]
      /\ counted'[sig] = counted[sig] + 1
  BY <1>3, <1>4 DEF Counts
<1>8. sig \notin overlapped => \A q \in Polls : ~Working(q, sig)'
  BY <1>1, <1>5 DEF Counting, OneAtATime
<1>m. "postgres" \in Stores /\ "memory" \in Stores
  BY DEF Stores
<1>9. OneAtATime'
  <2> SUFFICES ASSUME NEW s \in Payments \ overlapped
               PROVE  /\ \A q, r \in Polls : Working(q, s)' /\ Working(r, s)' => q = r
                      /\ \A q \in Polls : Working(q, s)' => s \notin processed'
                      /\ \A q \in Polls : /\ poll'[q].pc = "booking" /\ poll'[q].at = "postgres"
                                          /\ Sig(q)' = s
                                          => booked'["postgres"][s] = 0
    BY DEF OneAtATime
  <2>1. \A q \in Polls : Working(q, s)' => s # sig /\ Working(q, s)
    BY <1>5, <1>8
  <2>2. \A q, r \in Polls : Working(q, s)' /\ Working(r, s)' => q = r
    BY <2>1 DEF Counting, OneAtATime
  <2>3. \A q \in Polls : Working(q, s)' => s \notin processed'
    BY <1>3, <2>1 DEF Counting, OneAtATime
  <2>4. ASSUME NEW q \in Polls, poll'[q].pc = "booking", poll'[q].at = "postgres", Sig(q)' = s
        PROVE  booked'["postgres"][s] = 0
    <3>1. Working(q, s)'
      BY <2>4 DEF Working, Busy
    <3>2. poll[q].pc = "booking" /\ poll[q].at = "postgres" /\ Sig(q) = s /\ s # sig
      BY <1>5, <2>1, <2>4, <3>1 DEF Working
    <3> QED
      BY <1>6, <1>m, <3>2 DEF Counting, OneAtATime
  <2> QED
    BY <2>2, <2>3, <2>4
<1>10. Tallied'
  <2> SUFFICES ASSUME NEW s \in Payments \ overlapped
               PROVE  /\ booked'["postgres"][s] <= 1 /\ booked'["memory"][s] <= 1
                      /\ counted'[s] <= 1
                      /\ s \notin processed' => counted'[s] = 0 /\ booked'["memory"][s] = 0
    BY DEF Tallied
  <2>1. CASE s # sig
    BY <1>3, <1>6, <1>7, <1>m, <2>1 DEF Counting, Tallied
  <2>2. CASE s = sig
    <3>1. counted[sig] = 0 /\ booked["memory"][sig] = 0 /\ sig \in processed'
      BY <1>1, <1>3, <2>2 DEF Counting, OneAtATime, Tallied
    <3>2. booked["postgres"][sig] <= 1 /\ ("postgres" \in where => booked["postgres"][sig] = 0)
      BY <1>s, <2>2 DEF Counting, OneAtATime, Tallied
    <3>3. booked'["postgres"][sig] <= 1 /\ booked'["memory"][sig] <= 1
      BY <1>4, <1>6, <1>m, <3>1, <3>2
    <3> QED
      BY <1>7, <2>2, <3>1, <3>3
  <2> QED
    BY <2>1, <2>2
<1>11. Accounted'
  <2>1. ASSUME NEW s \in processed'
        PROVE  booked'["postgres"][s] > 0 \/ booked'["memory"][s] > 0 \/ s \in ignored'
    <3>1. CASE s = sig
      <4>1. where # {} => "postgres" \in where \/ "memory" \in where
        BY DEF Stores
      <4>2. \/ "postgres" \in where \/ "memory" \in where
            \/ booked["postgres"][sig] > 0 \/ booked["memory"][sig] > 0 \/ sig \in ignored'
        BY <1>s, <4>1
      <4> QED
        BY <1>4, <1>6, <1>m, <3>1, <4>2
    <3>2. CASE s # sig
      <4>1. s \in processed /\ s \in Payments
        BY <1>3, <2>1, <3>2 DEF Counting, CustodyTypes
      <4> QED
        BY <1>6, <1>m, <3>2, <4>1 DEF Counting, Accounted
    <3> QED
      BY <3>1, <3>2
  <2>2. ASSUME NEW s \in Payments, booked'["memory"][s] > 0 PROVE switched'
    <3>1. booked["memory"][s] > 0 \/ "memory" \in where
      BY <1>4, <1>6, <1>m, <2>2
    <3> QED
      BY <3>1 DEF Counting, Accounted
  <2>3. \A q \in Polls : poll'[q].at = "memory" => switched'
    BY <1>2 DEF Counting, Accounted
  <2> QED
    BY <2>1, <2>2, <2>3 DEF Accounted
<1> QED
  BY <1>9, <1>10, <1>11

\* What dies while it books may still be booked, once for a payment that polls take in turn.
LEMMA CountingExits == Counting /\ Exit => OneAtATime' /\ Tallied' /\ Accounted'
<1> SUFFICES ASSUME Counting, Exit PROVE OneAtATime' /\ Tallied' /\ Accounted'
  OBVIOUS
<1>1. PICK late \in SUBSET {p \in Polls : poll[p].pc = "booking" /\ {"postgres"} \in Ends(poll[p].at)} :
        booked' = [postgres |-> [s \in Payments |-> booked["postgres"][s]
                                                  + Cardinality({p \in late : Sig(p) = s})],
                   memory |-> Zero]
  BY DEF Exit
<1>2. /\ processed' = {} /\ counted' = Zero /\ overlapped' = overlapped
      /\ \A p \in Polls : poll'[p].pc = "idle" /\ poll'[p].at = "none"
  BY DEF Exit, Rest
<1>p. PICK books : books = [s \in Payments |-> booked["postgres"][s]
                                               + Cardinality({p \in late : Sig(p) = s})]
  OBVIOUS
<1>b. booked'["postgres"] = books /\ booked'["memory"] = Zero
  BY <1>1, <1>p
<1>3. ASSUME NEW s \in Payments \ overlapped PROVE books[s] <= 1
  <2> DEFINE D == {p \in late : Sig(p) = s}
  <2>1. booked["postgres"][s] \in Nat /\ booked["postgres"][s] <= 1
    <3>1. booked["postgres"][s] \in Nat
      BY CountingTypes DEF Counts, Stores
    <3> QED
      BY <3>1, Zenon DEF Counting, Tallied
  <2>2. books[s] = booked["postgres"][s] + Cardinality(D)
    BY <1>p
  <2>3. CASE D = {}
    <3>1. Cardinality(D) = 0
      BY <2>3, FS_EmptySet, Zenon
    <3>2. books[s] = booked["postgres"][s] + 0
      BY <2>2, <3>1, Zenon
    <3> QED
      BY <2>1, <3>2
  <2>4. CASE D # {}
    <3>1. PICK p \in D : TRUE
      BY <2>4
    <3>2. /\ poll[p].pc = "booking" /\ Sig(p) = s /\ p \in Polls
          /\ {"postgres"} \in Ends(poll[p].at)
      BY <3>1
    <3>a. poll[p].at = "postgres"
      <4>1. poll[p].at \in {"none"} \cup Stores
        BY <3>2, CountingTypes, Zenon
      <4> QED
        BY <3>2, <4>1, EndsIn
    <3>3. booked["postgres"][s] = 0
      BY <3>2, <3>a DEF Counting, OneAtATime
    <3>4. \A q \in D : q \in Polls /\ Working(q, s)
      BY DEF Working, Busy
    <3>5. D = {p}
      BY <3>1, <3>4 DEF Counting, OneAtATime
    <3>6. Cardinality(D) = 1
      BY <3>5, FS_Singleton
    <3> QED
      BY <2>2, <3>3, <3>6
  <2> QED
    BY <2>3, <2>4
<1>4. OneAtATime'
  BY <1>2 DEF OneAtATime, Working, Busy
<1>5. Tallied'
  <2> SUFFICES ASSUME NEW s \in Payments \ overlapped
               PROVE  /\ booked'["postgres"][s] <= 1 /\ booked'["memory"][s] = 0 /\ counted'[s] = 0
    BY <1>2 DEF Tallied
  <2> QED
    BY <1>2, <1>3, <1>b DEF Zero
<1>6. Accounted'
  BY <1>2, <1>b DEF Accounted, Zero
<1> QED
  BY <1>4, <1>5, <1>6

\* What a poll finds, or does not find, in the store that answers it.
LEMMA SelectCounts ==
  ASSUME Counting, NEW p \in Polls, Select(p)
  PROVE  OneAtATime' /\ Tallied' /\ Accounted'
<1>1. /\ poll[p].pc = "selecting" /\ poll[p].pc \in Busy
      /\ poll[p].todo # <<>> /\ Sig(p) \in Payments
  <2>1. poll[p].pc = "selecting" /\ poll[p].pc \in Busy
    BY DEF Select, At, Busy
  <2>2. poll[p].todo # <<>>
    BY <2>1, CountingTypes, Zenon
  <2> QED
    BY <2>1, <2>2, SigType, Zenon DEF Counting
<1>2. booked' = booked /\ overlapped' = overlapped
  BY DEF Select
<1>3. PICK st \in Stores :
        /\ \/ st = poll[p].at /\ UNCHANGED switched
           \/ poll[p].at = "postgres" /\ st = "memory" /\ switched' = TRUE
        /\ Answered(p, st)
  BY DEF Select
<1>4. /\ switched => switched'
      /\ switched' \in BOOLEAN
      /\ st = "memory" => switched'
  <2>1. switched \in BOOLEAN
    BY CountingTypes, Zenon
  <2>2. poll[p].at = "memory" => switched
    BY CountingTypes, Zenon
  <2>3. CASE st = poll[p].at /\ switched' = switched
    <3>1. st = "memory" => switched
      BY <2>2, <2>3, Zenon
    <3> QED
      BY <2>1, <2>3, <3>1, SMT
  <2>4. CASE switched' = TRUE
    BY <2>4
  <2> QED
    BY <1>3, <2>3, <2>4, Zenon
<1>5. /\ booked \in [Stores -> Counts] /\ booked[st][Sig(p)] \in Nat
  BY <1>1, CountingTypes DEF Counts
<1>6. Books(p, {})
  BY <1>2, <1>5 DEF Books
<1>7. CASE booked[st][Sig(p)] > 0 /\ Handled(p) /\ UNCHANGED ignored
  <2>1. booked["postgres"][Sig(p)] > 0 \/ booked["memory"][Sig(p)] > 0
    BY <1>7 DEF Stores
  <2> QED
    BY <1>1, <1>2, <1>4, <1>6, <1>7, <2>1, CountingHandles
<1>8. CASE Handled(p) /\ ignored' = ignored \cup {Sig(p)}
  <2>1. Sig(p) \in ignored' /\ ignored \subseteq ignored'
    BY <1>8
  <2> QED
    BY <1>1, <1>2, <1>4, <1>6, <1>8, <2>1, CountingHandles
<1>9. CASE /\ ~(booked[st][Sig(p)] > 0)
           /\ Turns(p, "booking") /\ UNCHANGED <<processed, memory, counted, ignored>>
  <2>1. UNCHANGED counts
    BY <1>2, <1>9 DEF counts
  <2>2. ~switched' => booked["postgres"][Sig(p)] = 0
    BY <1>4, <1>5, <1>9 DEF Stores
  <2> QED
    BY <1>1, <1>2, <1>4, <1>9, <2>1, <2>2, CountingTurns
<1> QED
  BY <1>3, <1>7, <1>8, <1>9 DEF Answered

LEMMA CountingStep == Counting /\ [CustodyNext]_vars => OneAtATime' /\ Tallied' /\ Accounted'
<1> SUFFICES ASSUME Counting, [CustodyNext]_vars PROVE OneAtATime' /\ Tallied' /\ Accounted'
  OBVIOUS
<1>1. CASE /\ UNCHANGED <<booked, processed, poll, counted, ignored, overlapped>>
           /\ switched => switched'
  BY <1>1, CountingRests DEF counts
<1>2. ASSUME NEW p \in Polls, Look(p) \/ Skip(p) \/ Missed(p)
      PROVE  OneAtATime' /\ Tallied' /\ Accounted'
  <2>1. UNCHANGED counts /\ overlapped' = overlapped /\ switched' = switched
    BY <1>2 DEF Look, Skip, Missed, counts, history
  <2>2. \A q \in Polls : \/ poll'[q] = poll[q]
                         \/ poll'[q].pc \notin Busy /\ poll'[q].at = "none"
    <3>1. poll \in [Polls -> PollRecords]
      BY DEF Counting, CustodyTypes, PollsOK
    <3>2. \/ \E todo : poll' = [poll EXCEPT ![p] = [pc |-> "scanning", at |-> "none", todo |-> todo]]
          \/ poll' = [poll EXCEPT ![p] = Rest]
      BY <1>2 DEF Look, Skip, Missed, Goes, GoesOn
    <3> QED
      BY <3>1, <3>2 DEF Rest, Busy
  <2> QED
    BY <2>1, <2>2, CountingRests
<1>3. ASSUME NEW p \in Polls, Fetch(p) PROVE OneAtATime' /\ Tallied' /\ Accounted'
  <2>1. UNCHANGED counts /\ overlapped \subseteq overlapped' /\ switched' = switched
    BY <1>3 DEF Fetch, NowAt, counts
  <2>2. poll' = [poll EXCEPT ![p] = [pc |-> "fetching", at |-> "none", todo |-> poll[p].todo]]
    BY <1>3 DEF Fetch, Goes
  <2>3. /\ poll'[p].pc = "fetching" /\ poll'[p].at = "none" /\ poll'[p].todo = poll[p].todo
        /\ \A q \in Polls : q # p => poll'[q] = poll[q]
    BY <2>2 DEF Counting, CustodyTypes, PollsOK
  <2>4. ASSUME NEW q \in Polls, NEW s, Working(q, s)'
        PROVE  \/ q # p /\ Working(q, s) /\ poll'[q] = poll[q]
               \/ q = p /\ s = Sig(p)
    BY <2>3, <2>4 DEF Working, Sig
  <2>5. Sig(p) \notin processed
    BY <1>3 DEF Fetch
  <2>6. Sig(p) \notin overlapped' => \A q \in Polls \ {p} : ~Working(q, Sig(p))
    BY <1>3 DEF Fetch, NowAt, Meets, Working, Busy
  <2>7. OneAtATime'
    <3> SUFFICES ASSUME NEW s \in Payments \ overlapped'
                 PROVE  /\ \A q, r \in Polls : Working(q, s)' /\ Working(r, s)' => q = r
                        /\ \A q \in Polls : Working(q, s)' => s \notin processed
                        /\ \A q \in Polls : /\ poll'[q].pc = "booking"
                                            /\ poll'[q].at = "postgres" /\ Sig(q)' = s
                                            => booked["postgres"][s] = 0
      BY <2>1 DEF OneAtATime, counts
    <3>1. s \in Payments \ overlapped
      BY <2>1
    <3>2. \A q, r \in Polls : Working(q, s)' /\ Working(r, s)' => q = r
      BY <2>4, <2>6, <3>1 DEF Counting, OneAtATime
    <3>3. \A q \in Polls : Working(q, s)' => s \notin processed
      BY <2>4, <2>5, <3>1 DEF Counting, OneAtATime
    <3>4. ASSUME NEW q \in Polls, poll'[q].pc = "booking", poll'[q].at = "postgres", Sig(q)' = s
          PROVE booked["postgres"][s] = 0
      <4>1. q # p
        BY <2>3, <3>4
      <4>2. poll[q].pc = "booking" /\ poll[q].at = "postgres" /\ Sig(q) = s
        BY <2>3, <3>4, <4>1 DEF Sig
      <4> QED
        BY <3>1, <4>2 DEF Counting, OneAtATime
    <3> QED
      BY <3>2, <3>3, <3>4
  <2>8. Tallied'
    BY <2>1 DEF Counting, Tallied, counts
  <2>9. \A q \in Polls : poll'[q].at = "memory" => switched
    BY <2>3 DEF Counting, Accounted
  <2> QED
    BY <2>1, <2>7, <2>8, <2>9 DEF Counting, Accounted, counts
<1>4. ASSUME NEW p \in Polls, Ask(p) PROVE OneAtATime' /\ Tallied' /\ Accounted'
  <2>1. /\ poll[p].pc \in Busy /\ Turns(p, "selecting") /\ switched' = switched
        /\ UNCHANGED counts /\ overlapped' = overlapped
    BY <1>4 DEF Ask, At, Busy, counts, history
  <2>2. switched' \in BOOLEAN
    BY <2>1 DEF Counting, CustodyTypes
  <2> QED
    BY <2>1, <2>2, CountingTurns
<1>5. ASSUME NEW p \in Polls, Insert(p) PROVE OneAtATime' /\ Tallied' /\ Accounted'
  <2>1. poll[p].pc = "booking" /\ Handled(p) /\ overlapped' = overlapped /\ ignored' = ignored
    BY <1>5 DEF Insert, At
  <2>2. PICK where \in Ends(poll[p].at) :
          Books(p, where) /\ switched' = (switched \/ "memory" \in where)
    BY <1>5 DEF Insert, Books
  <2>3. poll[p].at \in {"none"} \cup Stores
    BY CountingTypes, Zenon
  <2>4. /\ where \subseteq Stores /\ where # {}
        /\ "postgres" \in where => poll[p].at = "postgres"
    BY <2>2, <2>3, EndsIn
  <2>5. poll[p].pc \in Busy /\ (switched => switched') /\ ("memory" \in where => switched')
        /\ ignored \subseteq ignored'
    BY <2>1, <2>2 DEF Busy
  <2> QED
    BY <2>1, <2>2, <2>4, <2>5, CountingHandles
<1>6. ASSUME \/ \E s \in Payments : Pay(s)
             \/ SaveAll \/ (\E f \in Files : Write(f) \/ Rename(f)) \/ PoolError
      PROVE  /\ UNCHANGED <<booked, processed, poll, counted, ignored, overlapped>>
             /\ switched => switched'
  BY <1>6 DEF Pay, SaveAll, Write, Rename, PoolError, process, history
<1>7. CASE Restart
  BY <1>1, <1>7 DEF Restart, history
<1> QED
  BY <1>1, <1>2, <1>3, <1>4, <1>5, <1>6, <1>7, SelectCounts, CountingExits
  DEF CustodyNext, vars, process, history

\* A payment that polls take in turn is booked at most once in Postgres, through every exit
\* and restart, and at most once in the memory of a life, which counts it at most once; only
\* a life that has left Postgres books in memory; and what a life holds for processed is in
\* one of the stores, or rounds to nothing.
THEOREM PaymentsOnce == CustodySpec => []PaymentsCountOnce
<1>1. CustodyInit => Counting
  <2> SUFFICES ASSUME CustodyInit PROVE Counting
    OBVIOUS
  <2>1. OneAtATime /\ Tallied /\ Accounted
    BY DEF CustodyInit, OneAtATime, Tallied, Accounted, Working, Rest, Zero, Stores, Busy
  <2> QED
    BY <2>1, CustodyTypesInit DEF Counting
<1>2. Counting /\ [CustodyNext]_vars => Counting'
  BY CountingStep, CustodyTypesStep DEF Counting
<1>3. Counting => PaymentsCountOnce
  BY DEF Counting, Tallied, Accounted, PaymentsCountOnce
<1> QED
  BY <1>1, <1>2, <1>3, PTL DEF CustodySpec
=============================================================================
