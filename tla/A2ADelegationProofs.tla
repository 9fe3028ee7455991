----------------------- MODULE A2ADelegationProofs -----------------------
(***************************************************************************)
(* What the orchestrator answers about the escrow is so, for any number of  *)
(* requests, any sharing of task ids among them, any costs and any number   *)
(* of retries, across graceful restarts.                                    *)
(*                                                                          *)
(* The argument: an answer is fixed in the step of the escrow call that     *)
(* makes it true (Release, Refund), and a record that is RELEASED or        *)
(* REFUNDED keeps its status in every step.  The answer is given one step   *)
(* later, so the invariant speaks of requests that are "charging" too.      *)
(***************************************************************************)
EXTENDS A2ADelegation, TLAPS

\* The escrow's records, as far as the proof looks.
RecordsOK ==
  store \in [Tasks -> [status : {"NONE", "LOCKED", "RELEASED", "REFUNDED", "FAILED"},
                       amount : Int]]

Answered(r) == pc[r] \in {"charging", "done"}

Truthful(r) ==
  /\ result[r].escrowStatus = "released" => store[TaskOf[r]].status = "RELEASED"
  /\ result[r].escrowStatus = "refunded" => store[TaskOf[r]].status = "REFUNDED"

States == {"idle", "executing", "evaluating", "releasing", "refunding", "charging",
           "done", "lost"}

Results == [success : BOOLEAN, cost : Nat,
            escrowStatus : {"none", "released", "refunded", "failed"}]

Typed ==
  /\ RecordsOK
  /\ pc \in [Requests -> States]
  /\ result \in [Requests -> Results]

AnswersTrue ==
  /\ Typed
  /\ \A r \in Requests \ HttpRequests : Answered(r) => Truthful(r)

\* A closed record stays as it is.
ClosedStay ==
  \A t \in Tasks : store[t].status \in {"RELEASED", "REFUNDED"} =>
    store'[t].status = store[t].status

\* Every call of the escrow leaves its records well formed, and the closed closed.
LEMMA EscrowSteps ==
  ASSUME RecordsOK, NEW t \in Tasks, NEW amount \in Int,
         \/ E!Lock(t, amount)
         \/ E!Release(t)
         \/ E!Refund(t)
         \/ E!RefundFails(t)
         \/ UNCHANGED escrowVars
  PROVE  RecordsOK' /\ ClosedStay
<1>1. CASE E!Lock(t, amount)
  BY <1>1 DEF RecordsOK, ClosedStay, E!Lock
<1>2. CASE E!Release(t)
  BY <1>2 DEF RecordsOK, ClosedStay, E!Release, E!SetStatus
<1>3. CASE E!Refund(t)
  BY <1>3 DEF RecordsOK, ClosedStay, E!Refund, E!SetStatus
<1>4. CASE E!RefundFails(t)
  BY <1>4 DEF RecordsOK, ClosedStay, E!RefundFails, E!SetStatus
<1>5. CASE UNCHANGED escrowVars
  BY <1>5 DEF RecordsOK, ClosedStay, escrowVars
<1> QED BY <1>1, <1>2, <1>3, <1>4, <1>5

\* A step that closes no answer and disturbs no closed record keeps answers true.
LEMMA OthersStayTrue ==
  ASSUME AnswersTrue, ClosedStay, NEW r \in Requests,
         \A s \in Requests : s # r => pc'[s] = pc[s] /\ result'[s] = result[s]
  PROVE  \A s \in Requests \ HttpRequests : s # r /\ Answered(s)' => Truthful(s)'
BY DelegationAssumption
DEF AnswersTrue, Typed, ClosedStay, Answered, Truthful, DelegationAssumption

\* The initial state.
LEMMA AnswersTrueInit == Init => AnswersTrue
<1> SUFFICES ASSUME Init PROVE AnswersTrue
  OBVIOUS
<1>1. RecordsOK
  BY DEF Init, E!Init, E!NoRecord, RecordsOK
<1>2. pc \in [Requests -> States] /\ result \in [Requests -> Results]
  BY DEF Init, NoResult, Result, States, Results
<1> QED BY <1>1, <1>2 DEF AnswersTrue, Typed, Answered, Init

\* Every step of a request, and the restart, keep the answers true.
LEMMA AnswersTrueStep ==
  ASSUME AnswersTrue, Next \/ Restart \/ UNCHANGED vars
  PROVE  AnswersTrue'
<1> USE DEF States, Results
<1>1. ASSUME NEW r \in Requests, Refuse(r) \/ Start(r) \/ Proceed(r)
      PROVE  AnswersTrue'
  <2>1. TaskOf[r] \in Tasks /\ CostOf[r] \in Nat /\ CostOf[r] \in Int /\ PeerCosts \subseteq Nat
    BY DelegationAssumption DEF DelegationAssumption
  <2>2. RecordsOK' /\ ClosedStay
    <3>1. RecordsOK
      BY DEF AnswersTrue, Typed
    <3>2. \/ E!Lock(TaskOf[r], CostOf[r])
          \/ E!Release(TaskOf[r])
          \/ E!Refund(TaskOf[r])
          \/ E!RefundFails(TaskOf[r])
          \/ UNCHANGED escrowVars
      BY <1>1 DEF Refuse, Start, Proceed, Delivered, ExecutionFails, PeerFails, Passes,
                  FailsVerification, FailsEvaluation, Discard,
                  Release, ReleaseRefused, Refund, RefundCall, Charge
    <3> QED BY <2>1, <3>1, <3>2, EscrowSteps
  <2>3. pc' \in [Requests -> States] /\ \A s \in Requests : s # r => pc'[s] = pc[s]
    BY <1>1 DEF AnswersTrue, Typed, Refuse, Start, Proceed, Delivered, ExecutionFails,
                PeerFails, Passes, FailsVerification, FailsEvaluation, Discard, Release,
                ReleaseRefused, Refund, Charge, Go
  <2>4. result' \in [Requests -> Results] /\ \A s \in Requests : s # r => result'[s] = result[s]
    <3> USE DEF AnswersTrue, Typed, Become, Result
    <3>1. CASE Refuse(r)
      BY <3>1 DEF Refuse
    <3>8. CASE ExecutionFails(r)
      BY <2>1, <3>8 DEF ExecutionFails
    <3>2. CASE Start(r) \/ Passes(r) \/ Charge(r)
      BY <3>2 DEF Start, Passes, Charge
    <3>3. CASE Delivered(r)
      BY <2>1, <3>3 DEF Delivered
    <3>4. CASE PeerFails(r)
      BY <2>1, <3>4 DEF PeerFails
    <3>5. CASE FailsVerification(r) \/ FailsEvaluation(r) \/ ReleaseRefused(r)
      BY <3>5 DEF FailsVerification, FailsEvaluation, Discard, ReleaseRefused
    <3>6. CASE Release(r)
      BY <3>6 DEF Release
    <3>7. CASE Refund(r)
      BY <3>7 DEF Refund
    <3> QED BY <1>1, <3>1, <3>2, <3>3, <3>4, <3>5, <3>6, <3>7, <3>8 DEF Proceed
  <2>5. \A s \in Requests \ HttpRequests : s # r /\ Answered(s)' => Truthful(s)'
    BY <2>2, <2>3, <2>4, OthersStayTrue
  <2>6. ASSUME r \notin HttpRequests, Answered(r)' PROVE Truthful(r)'
    <3>1. CASE Refuse(r)
      BY <3>1 DEF Refuse, Become, Result, Truthful, AnswersTrue, Typed
    <3>2. CASE Release(r)
      BY <2>1, <3>2 DEF Release, E!Release, E!SetStatus, Truthful, AnswersTrue, Typed, RecordsOK,
                        escrowVars
    <3>3. CASE Refund(r)
      BY <2>1, <2>6, <3>3, DelegationAssumption
      DEF Refund, RefundCall, Http, E!Refund, E!RefundFails, E!RefundGranted, E!SetStatus,
          Truthful, AnswersTrue, Typed, RecordsOK, escrowVars, DelegationAssumption
    <3>4. CASE Charge(r)
      BY <2>6, <3>4 DEF Charge, Go, Truthful, AnswersTrue, Typed, Answered, escrowVars
    <3>5. CASE Start(r) \/ Delivered(r) \/ ExecutionFails(r) \/ PeerFails(r) \/ Passes(r)
               \/ FailsVerification(r) \/ FailsEvaluation(r) \/ ReleaseRefused(r)
      BY <2>6, <3>5 DEF Start, Delivered, ExecutionFails, PeerFails, Passes, FailsVerification,
                        FailsEvaluation, Discard, ReleaseRefused, Go, Http, Answered, AnswersTrue, Typed
    <3> QED BY <1>1, <3>1, <3>2, <3>3, <3>4, <3>5 DEF Proceed
  <2> QED BY <2>2, <2>3, <2>4, <2>5, <2>6 DEF AnswersTrue, Typed
<1>2. CASE Restart
  BY <1>2 DEF Restart, AnswersTrue, Typed, RecordsOK, Answered, Truthful, Underway
<1>3. CASE UNCHANGED vars
  BY <1>3 DEF vars, escrowVars, AnswersTrue, Typed, RecordsOK, Answered, Truthful
<1> QED BY <1>1, <1>2, <1>3 DEF Next

\* What the orchestrator answers is so, and stays so (a2a-orchestrator.ts, all
\* its returns, and refundSafely).
THEOREM OrchestratorIsHonest == RestartSpec => []HonestReports
<1>1. AnswersTrue => HonestReports
  BY DEF AnswersTrue, Answered, Truthful, HonestReports
<1>2. AnswersTrue /\ [Next \/ Restart]_vars => AnswersTrue'
  BY AnswersTrueStep
<1> QED BY <1>1, <1>2, AnswersTrueInit, PTL DEF RestartSpec

-----------------------------------------------------------------------------
\* Requests past their start whose escrow call is still to come.
Waiting(r) == pc[r] \in {"executing", "evaluating", "releasing", "refunding"}

\* Somebody is left to settle what is locked, who has not settled it yet.
Answerable(r) == Waiting(r) \/ pc[r] = "lost" \/ Http(r)

SettlersLeft ==
  \A t \in Tasks : store[t].status = "LOCKED" =>
    \E r \in Requests : TaskOf[r] = t /\ Answerable(r)

\* A step that takes no settler away from a task that is locked.
LEMMA SettlersStay ==
  ASSUME SettlersLeft, NEW r \in Requests, pc \in [Requests -> States],
         \A s \in Requests : s # r => pc'[s] = pc[s],
         \A t \in Tasks : t # TaskOf[r] => store'[t] = store[t],
         \/ store'[TaskOf[r]].status # "LOCKED"
         \/ Answerable(r)'
         \/ store'[TaskOf[r]] = store[TaskOf[r]] /\ ~Answerable(r)
  PROVE  SettlersLeft'
BY DEF SettlersLeft, Answerable, Waiting, Http

\* Every step of a request, and the restart, leave somebody to settle what is locked.
LEMMA SettlersStep ==
  ASSUME AnswersTrue, SettlersLeft, Next \/ Restart \/ UNCHANGED vars
  PROVE  SettlersLeft'
<1> USE DEF AnswersTrue, Typed
<1>1. ASSUME NEW r \in Requests, Refuse(r) \/ Start(r) \/ Proceed(r)
      PROVE  SettlersLeft'
  <2>1. TaskOf[r] \in Tasks
    BY DelegationAssumption
  <2>2. \A s \in Requests : s # r => pc'[s] = pc[s]
    BY <1>1 DEF Refuse, Start, Proceed, Delivered, ExecutionFails, PeerFails, Passes,
                FailsVerification, FailsEvaluation, Discard, Release, ReleaseRefused,
                Refund, Charge, Go
  <2>3. \A t \in Tasks : t # TaskOf[r] => store'[t] = store[t]
    BY <1>1, <2>1
    DEF RecordsOK, Refuse, Start, Proceed, Delivered, ExecutionFails, PeerFails, Passes,
        FailsVerification, FailsEvaluation, Discard, Release, ReleaseRefused, Refund,
        RefundCall, Charge, E!Lock, E!Release, E!Refund, E!RefundFails, E!SetStatus,
        escrowVars
  <2>4. CASE Refuse(r) \/ Charge(r)
    BY <2>1, <2>2, <2>3, <2>4, SettlersStay
    DEF Refuse, Charge, Go, Answerable, Waiting, escrowVars, Http
  <2>5. CASE Start(r)
    <3>1. Answerable(r)'
      BY <2>5 DEF Start, Go, Answerable, Waiting
    <3> QED
      BY <2>2, <2>3, <3>1, SettlersStay
  <2>6. CASE Delivered(r) \/ ExecutionFails(r) \/ PeerFails(r) \/ Passes(r)
             \/ FailsVerification(r) \/ FailsEvaluation(r) \/ ReleaseRefused(r)
    <3>1. Answerable(r)'
      BY <2>6 DEF Delivered, ExecutionFails, PeerFails, Passes, FailsVerification,
                  FailsEvaluation, Discard, ReleaseRefused, Go, Answerable, Waiting, Http
    <3> QED
      BY <2>2, <2>3, <3>1, SettlersStay
  <2>7. CASE Release(r)
    <3>1. store'[TaskOf[r]].status # "LOCKED"
      BY <2>1, <2>7 DEF Release, E!Release, E!SetStatus, RecordsOK, escrowVars
    <3> QED
      BY <2>2, <2>3, <3>1, SettlersStay
  <2>8. CASE Refund(r)
    <3>1. store'[TaskOf[r]].status # "LOCKED"
      BY <2>1, <2>8 DEF Refund, RefundCall, E!Refund, E!RefundFails, E!SetStatus,
                        RecordsOK, escrowVars
    <3> QED
      BY <2>2, <2>3, <3>1, SettlersStay
  <2> QED
    BY <1>1, <2>4, <2>5, <2>6, <2>7, <2>8 DEF Proceed
<1>2. CASE Restart
  BY <1>2 DEF Restart, SettlersLeft, Answerable, Waiting, Underway, Http, States
<1>3. CASE UNCHANGED vars
  BY <1>3 DEF vars, escrowVars, SettlersLeft, Answerable, Waiting, Http
<1> QED BY <1>1, <1>2, <1>3 DEF Next

\* Funds the orchestrator locked are not left behind by it: as long as they are locked
\* a request for the task is under way, or died with the process, or is a peer's.
THEOREM LocalFundsReturn == RestartSpec => []LocalFundsComeFree
<1>1. Init => SettlersLeft
  BY DEF Init, E!Init, E!NoRecord, SettlersLeft
<1>2. AnswersTrue /\ SettlersLeft /\ [Next \/ Restart]_vars => SettlersLeft'
  BY SettlersStep
<1>3. AnswersTrue /\ [Next \/ Restart]_vars => AnswersTrue'
  BY AnswersTrueStep
<1>4. SettlersLeft => LocalFundsComeFree
  BY DEF SettlersLeft, Answerable, Waiting, LocalFundsComeFree, Underway
<1> QED
  BY <1>1, <1>2, <1>3, <1>4, AnswersTrueInit, PTL DEF RestartSpec

-----------------------------------------------------------------------------
Rest ==
  /\ saved \in [Tasks -> E!Records]
  /\ reconciliationQueue \subseteq Tasks
  /\ balance \in Nat

\* The escrow, the requests and the wallet keep their types, across restarts too.
THEOREM DelegationTypes == RestartSpec => []TypeOK
<1> USE DEF E!Records, E!Statuses
<1>1. Init => Rest
  BY DelegationAssumption DEF Init, E!Init, E!NoRecord, Rest
<1>2. AnswersTrue /\ Rest /\ [Next \/ Restart]_vars => Rest'
  <2> SUFFICES ASSUME AnswersTrue, Rest, [Next \/ Restart]_vars PROVE Rest'
    OBVIOUS
  <2>1. ASSUME NEW r \in Requests, Refuse(r) \/ Start(r) \/ Proceed(r) PROVE Rest'
    <3>1. TaskOf[r] \in Tasks
      BY DelegationAssumption
    <3>2. saved' = saved /\ reconciliationQueue' \subseteq Tasks
      BY <2>1, <3>1
      DEF Rest, Refuse, Start, Proceed, Delivered, ExecutionFails, PeerFails, Passes,
          FailsVerification, FailsEvaluation, Discard, Release, ReleaseRefused, Refund,
          RefundCall, Charge, E!Lock, E!Release, E!Refund, E!RefundFails, escrowVars
    <3>3. balance' = balance \/ Charge(r)
      BY <2>1
      DEF Refuse, Start, Proceed, Delivered, ExecutionFails, PeerFails, Passes,
          FailsVerification, FailsEvaluation, Discard, Release, ReleaseRefused, Refund
    <3>4. result[r].cost \in Nat
      BY DEF AnswersTrue, Typed, Results
    <3>5. balance' \in Nat
      BY <3>3, <3>4 DEF Rest, Charge
    <3> QED
      BY <3>2, <3>5 DEF Rest
  <2>2. CASE Restart
    BY <2>2, DelegationAssumption DEF Restart, Rest, AnswersTrue, Typed, RecordsOK
  <2>3. CASE UNCHANGED vars
    BY <2>3 DEF vars, escrowVars, Rest
  <2> QED
    BY <2>1, <2>2, <2>3 DEF Next
<1>3. AnswersTrue /\ [Next \/ Restart]_vars => AnswersTrue'
  BY AnswersTrueStep
<1>4. AnswersTrue /\ Rest => TypeOK
  BY DEF AnswersTrue, Typed, RecordsOK, States, Results, Rest, TypeOK, E!TypeOK
<1> QED
  BY <1>1, <1>2, <1>3, <1>4, AnswersTrueInit, PTL DEF RestartSpec

-----------------------------------------------------------------------------
Closing == {"RELEASED", "REFUNDED", "FAILED"}

\* A record that gets a new status is a task whose funds move.
LEMMA RecordMovesFunds ==
  ASSUME RecordsOK, NEW t \in Tasks, NEW rec, store' = [store EXCEPT ![t] = rec]
  PROVE  /\ E!PlacesOf(store') = [E!PlacesOf(store) EXCEPT ![t] = E!PlaceOf(rec.status)]
         /\ E!PlacesOf(store)[t] = E!PlaceOf(store[t].status)
BY DEF RecordsOK, E!PlacesOf

\* Requests that share a task keep the contract of its escrow: the funds are held
\* once and go one way, however many requests ask for it.
THEOREM RequestsKeepContract == RestartSpec => KeepsContract
<1> DEFINE abstractVars == <<E!PlacesOf(store), E!PlacesOf(saved)>>
<1>1. Init => E!Contract!Init
  BY DEF Init, E!Init, E!Contract!Init, E!NoRecord, E!PlaceOf, E!PlacesOf
<1>2. AnswersTrue /\ [Next \/ Restart]_vars => [E!Contract!Next]_abstractVars
  <2> SUFFICES ASSUME AnswersTrue, [Next \/ Restart]_vars
               PROVE  E!Contract!Next \/ UNCHANGED abstractVars
    OBVIOUS
  <2>0. RecordsOK
    BY DEF AnswersTrue, Typed
  <2>1. ASSUME saved' = saved PROVE E!PlacesOf(saved)' = E!PlacesOf(saved)
    BY <2>1 DEF E!PlacesOf
  <2>2. ASSUME UNCHANGED escrowVars PROVE UNCHANGED abstractVars
    BY <2>2 DEF escrowVars, E!PlacesOf
  <2>3. ASSUME NEW t \in Tasks, NEW amount \in Amounts, E!Lock(t, amount)
        PROVE  E!Contract!Next
    <3> DEFINE rec == [status |-> "LOCKED", amount |-> amount]
    <3>1. /\ store' = [store EXCEPT ![t] = rec]
          /\ store[t].status = "NONE" /\ rec.status = "LOCKED"
          /\ E!PlacesOf(saved)' = E!PlacesOf(saved)
      BY <2>1, <2>3 DEF E!Lock
    <3> HIDE DEF rec
    <3>2. E!PlacesOf(store') = [E!PlacesOf(store) EXCEPT ![t] = E!PlaceOf(rec.status)]
      BY <2>0, <3>1, RecordMovesFunds
    <3>3. E!PlacesOf(store)[t] = "none" /\ E!PlaceOf(rec.status) = "held"
      BY <2>0, <3>1, RecordMovesFunds DEF E!PlaceOf
    <3> QED
      BY <3>1, <3>2, <3>3 DEF E!Contract!Next, E!Contract!Hold, E!Contract!Move
  <2>4. ASSUME NEW t \in Tasks, E!Release(t) \/ E!Refund(t) \/ E!RefundFails(t)
        PROVE  E!Contract!Next
    <3>1. PICK status \in Closing :
            store' = [store EXCEPT ![t] = [store[t] EXCEPT !.status = status]]
      BY <2>4 DEF Closing, E!Release, E!Refund, E!RefundFails, E!SetStatus
    <3> DEFINE rec == [store[t] EXCEPT !.status = status]
    <3>2. rec.status = status
      BY <2>0 DEF RecordsOK
    <3>3. /\ store' = [store EXCEPT ![t] = rec]
          /\ store[t].status = "LOCKED"
          /\ E!PlacesOf(saved)' = E!PlacesOf(saved)
      BY <2>1, <2>4, <3>1 DEF E!Release, E!Refund, E!RefundFails
    <3> HIDE DEF rec
    <3>4. E!PlacesOf(store') = [E!PlacesOf(store) EXCEPT ![t] = E!PlaceOf(rec.status)]
      BY <2>0, <3>3, RecordMovesFunds
    <3>5. /\ E!PlacesOf(store)[t] = "held"
          /\ E!PlaceOf(rec.status) \in {"paid", "returned", "stuck"}
      BY <2>0, <3>2, <3>3, RecordMovesFunds DEF Closing, E!PlaceOf
    <3> QED
      BY <3>3, <3>4, <3>5 DEF E!Contract!Next, E!Contract!Pay, E!Contract!Return,
                              E!Contract!Strand, E!Contract!Move
  <2>5. ASSUME NEW r \in Requests, Refuse(r) \/ Start(r) \/ Proceed(r)
        PROVE  E!Contract!Next \/ UNCHANGED abstractVars
    <3>1. TaskOf[r] \in Tasks /\ CostOf[r] \in Amounts
      BY DelegationAssumption DEF Amounts
    <3>2. \/ E!Lock(TaskOf[r], CostOf[r])
          \/ E!Release(TaskOf[r]) \/ E!Refund(TaskOf[r]) \/ E!RefundFails(TaskOf[r])
          \/ UNCHANGED escrowVars
      BY <2>5 DEF Refuse, Start, Proceed, Delivered, ExecutionFails, PeerFails, Passes,
                  FailsVerification, FailsEvaluation, Discard,
                  Release, ReleaseRefused, Refund, RefundCall, Charge
    <3> QED
      BY <2>2, <2>3, <2>4, <3>1, <3>2
  <2>6. CASE Restart
    BY <2>6 DEF Restart, E!PlacesOf, E!Contract!Next, E!Contract!Record
  <2>7. CASE UNCHANGED vars
    BY <2>2, <2>7 DEF vars, escrowVars
  <2> QED
    BY <2>5, <2>6, <2>7 DEF Next
<1>3. AnswersTrue /\ [Next \/ Restart]_vars => AnswersTrue'
  BY AnswersTrueStep
<1> QED
  BY <1>1, <1>2, <1>3, AnswersTrueInit, PTL
  DEF RestartSpec, KeepsContract, E!KeepsContract, E!Contract!Spec
=============================================================================
