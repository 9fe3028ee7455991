------------------------------ MODULE Custody -------------------------------
(***************************************************************************)
(* What the agent keeps of the payments it receives on chain:               *)
(* core/solana-wallet.ts polls the chain and has each payment booked,       *)
(* core/ledger.ts books it, core/reputation.ts and the telemetry count it   *)
(* in memory, and persistence/state-persistence.ts saves those two to files *)
(* at a graceful stop.  Books, files and memory have their own ways of      *)
(* outliving the process, or not.                                           *)
(*                                                                          *)
(* persistence/pool.ts gives the ledger two stores: Postgres, and one in    *)
(* memory that is lost with the process, which the first error of a query,  *)
(* a transaction or an idle connection makes the store of the process for   *)
(* good.  What failed in Postgres, or seemed to, is then done in memory.    *)
(*                                                                          *)
(* Polls are calls of checkIncomingPayments and overlap.  A payment is its  *)
(* signature; transactions that failed or pay nothing are left out, as is   *)
(* registerIncomingPayment, which only tests call.  Every answer of the     *)
(* chain and of Postgres may be an error, or never come.  The escrow and    *)
(* card files are written as those of Files are.                                             *)
(***************************************************************************)
EXTENDS Integers, Sequences, SequencesExt

CONSTANTS
  Payments, Polls,
  Files,      \* what is counted in memory and saved: the reputation, the telemetry
  Page,       \* how many signatures the chain returns
  Seeded,     \* Postgres knows the account wallet_solana; the migrations do not add it
  MaxLives    \* bound: the lives of the process

ASSUME CustodyAssumption == 
  IsFiniteSet(Polls) /\ Page \in Nat /\ Seeded \in BOOLEAN /\ MaxLives \in Nat

Stores == {"postgres", "memory"}

VARIABLES
  chain,      \* the payments made, in order
  booked,     \* of each store: how often it has each payment in its books
  \* the process
  up, lives,
  processed,  \* processedSignatures
  switched,   \* isMockActive
  poll,       \* each poll: where it is, the store it asks, the signatures it has to look at
  memory,     \* what each of Files is saved from: how often each payment was counted
  save,       \* of each file: idle, exported, writing, saved, failed
  export,     \* what is being saved
  \* the disk
  file,       \* each file: whether it is there and whole, and what it holds
  \* history
  cut,        \* memory when the last save began
  counted,    \* how often this life has counted each payment
  ignored,    \* payments this life has found to round to nothing
  overlapped  \* payments that two polls have worked on at the same time

process == <<processed, switched, poll, memory, save, export>>
history == <<cut, counted, ignored, overlapped>>
vars == <<chain, booked, up, lives, process, file, history>>

Zero == [s \in Payments |-> 0]
Rest == [pc |-> "idle", at |-> "none", todo |-> <<>>]

CustodyInit ==
  /\ chain = <<>>
  /\ booked = [st \in Stores |-> Zero]
  /\ up = TRUE /\ lives = 1
  /\ processed = {} /\ switched = FALSE
  /\ poll = [p \in Polls |-> Rest]
  /\ memory = [f \in Files |-> Zero]
  /\ save = [f \in Files |-> "idle"]
  /\ export = [f \in Files |-> Zero]
  /\ file = [f \in Files |-> [is |-> "none", holds |-> Zero]]
  /\ cut = [f \in Files |-> Zero]
  /\ counted = Zero
  /\ ignored = {} /\ overlapped = {}

Pay(s) ==
  /\ s \notin Range(chain)
  /\ chain' = Append(chain, s)
  /\ UNCHANGED <<booked, up, lives, process, file, history>>

-----------------------------------------------------------------------------
(* SolanaReceiveWallet                                                      *)

\* The newest signatures, the newest first.
Newest == Reverse(SubSeq(chain, IF Len(chain) > Page THEN Len(chain) - Page + 1 ELSE 1, Len(chain)))

Goes(p, pc, todo) == poll' = [poll EXCEPT ![p] = [pc |-> pc, at |-> "none", todo |-> todo]]

\* To the next of the page, or to its end.
GoesOn(p, todo) ==
  IF todo = <<>> THEN poll' = [poll EXCEPT ![p] = Rest] ELSE Goes(p, "scanning", todo)

At(p, pc) == up /\ poll[p].pc = pc
Sig(p) == Head(poll[p].todo)
Others(p) == Tail(poll[p].todo)

\* Poll p turns to s while another is at it.
Meets(p, s) ==
  \E q \in Polls \ {p} : poll[q].pc \in {"fetching", "selecting", "booking"} /\ Sig(q) = s
NowAt(p, s) ==
  overlapped' = IF Meets(p, s) THEN overlapped \cup {s} ELSE overlapped

\* checkIncomingPayments; when the chain does not answer there is nothing to look at.
Look(p) ==
  /\ At(p, "idle")
  /\ Newest # <<>>
  /\ Goes(p, "scanning", Newest)
  /\ UNCHANGED <<chain, booked, up, lives, processed, switched, memory, save, export, file,
                 history>>

\* The next signature: what was processed, or is too old for the caller, is passed over.
Skip(p) ==
  /\ At(p, "scanning")
  /\ GoesOn(p, Others(p))
  /\ UNCHANGED <<chain, booked, up, lives, processed, switched, memory, save, export, file,
                 history>>

\* One that was not is looked up on the chain, which is awaited.
Fetch(p) ==
  /\ At(p, "scanning")
  /\ Sig(p) \notin processed
  /\ Goes(p, "fetching", poll[p].todo)
  /\ NowAt(p, Sig(p))
  /\ UNCHANGED <<chain, booked, up, lives, processed, switched, memory, save, export, file,
                 cut, counted, ignored>>

\* The chain does not answer: the signature is left for another poll.
Missed(p) ==
  /\ At(p, "fetching")
  /\ GoesOn(p, Others(p))
  /\ UNCHANGED <<chain, booked, up, lives, processed, switched, memory, save, export, file,
                 history>>

\* The rest of handlePaymentDetected, whatever came of the ledger: the payment is counted
\* by the telemetry and for the payer, and its signature kept.
Handled(p) ==
  /\ memory' = [f \in Files |-> [memory[f] EXCEPT ![Sig(p)] = @ + 1]]
  /\ counted' = [counted EXCEPT ![Sig(p)] = @ + 1]
  /\ processed' = processed \cup {Sig(p)}
  /\ GoesOn(p, Others(p))

-----------------------------------------------------------------------------
(* Ledger.recordPaymentDeposit                                              *)

\* getPool: the store a call turns to is that of the process as the call begins.
Turns(p, pc) ==
  poll' = [poll EXCEPT ![p] = [pc |-> pc, at |-> IF switched' THEN "memory" ELSE "postgres",
                               todo |-> poll[p].todo]]

\* It looks for a transaction of that signature.
Ask(p) ==
  /\ At(p, "fetching")
  /\ UNCHANGED switched
  /\ Turns(p, "selecting")
  /\ UNCHANGED <<chain, booked, up, lives, processed, memory, save, export, file, history>>

\* Mutant: what it finds does not matter.
AnsweredAnyhow(p, st) ==
  \/ Turns(p, "booking") /\ UNCHANGED <<processed, memory, counted, ignored>>
  \/ Handled(p) /\ ignored' = ignored \cup {Sig(p)}

\* What is there has been booked; what rounds to nothing is not booked.
Answered(p, st) ==
  IF booked[st][Sig(p)] > 0 THEN Handled(p) /\ UNCHANGED ignored
  ELSE \/ Turns(p, "booking") /\ UNCHANGED <<processed, memory, counted, ignored>>
       \/ Handled(p) /\ ignored' = ignored \cup {Sig(p)}

\* query: the store answers, or Postgres fails and memory answers at once.
Select(p) ==
  /\ At(p, "selecting")
  /\ \E st \in Stores :
       /\ \/ st = poll[p].at /\ UNCHANGED switched
          \/ poll[p].at = "postgres" /\ st = "memory" /\ switched' = TRUE
       /\ Answered(p, st)
  /\ UNCHANGED <<chain, booked, up, lives, save, export, file, cut, overlapped>>

\* withTransaction: what begins in Postgres commits there, or fails and is run again in
\* memory, be it that it was undone or that only the answer to COMMIT was lost.
Ends(st) ==
  IF st = "postgres" /\ Seeded THEN {{"postgres"}, {"memory"}, Stores} ELSE {{"memory"}}

Insert(p) ==
  /\ At(p, "booking")
  /\ Handled(p)
  /\ \E where \in Ends(poll[p].at) :
       /\ booked' = [st \in Stores |-> IF st \in where THEN [booked[st] EXCEPT ![Sig(p)] = @ + 1]
                                       ELSE booked[st]]
       /\ switched' = (switched \/ "memory" \in where)
  /\ UNCHANGED <<chain, up, lives, save, export, file, cut, ignored, overlapped>>

\* An idle connection, or a query of somebody else's, fails.
PoolError ==
  /\ up /\ ~switched
  /\ switched' = TRUE
  /\ UNCHANGED <<chain, booked, up, lives, processed, poll, memory, save, export, file, history>>

-----------------------------------------------------------------------------
(* StatePersistenceManager                                                  *)

\* saveAll, at the end of stop(): everything is exported in one turn.
SaveAll ==
  /\ up
  /\ \A f \in Files : save[f] = "idle"
  /\ save' = [f \in Files |-> "exported"]
  /\ export' = memory
  /\ cut' = memory
  /\ UNCHANGED <<chain, booked, up, lives, processed, switched, poll, memory, file, counted,
                 ignored, overlapped>>

\* Mutant: each file is exported when its turn comes.
WriteLate(f) ==
  /\ up
  /\ save[f] = "exported"
  /\ save' = [save EXCEPT ![f] = "writing"]
  /\ export' = [export EXCEPT ![f] = memory[f]]
  /\ UNCHANGED <<chain, booked, up, lives, processed, switched, poll, memory, file, history>>

\* writeAtomic begins to write a temporary file of its own ...
Write(f) ==
  /\ up
  /\ save[f] = "exported"
  /\ save' = [save EXCEPT ![f] = "writing"]
  /\ UNCHANGED <<chain, booked, up, lives, processed, switched, poll, memory, export, file,
                 history>>

\* ... and renames it when it is written; if either fails the temporary file is removed.
Rename(f) ==
  /\ up
  /\ save[f] = "writing"
  /\ \/ /\ save' = [save EXCEPT ![f] = "saved"]
        /\ file' = [file EXCEPT ![f] = [is |-> "whole", holds |-> export[f]]]
     \/ /\ save' = [save EXCEPT ![f] = "failed"]
        /\ UNCHANGED file
  /\ UNCHANGED <<chain, booked, up, lives, processed, switched, poll, memory, export, history>>

\* The process exits, or crashes: what Postgres has been sent it may still book.  The store
\* in memory is lost.
Exit ==
  /\ up
  /\ up' = FALSE
  /\ \E late \in SUBSET {p \in Polls : poll[p].pc = "booking" /\ {"postgres"} \in Ends(poll[p].at)} :
       booked' = [postgres |-> [s \in Payments |-> booked["postgres"][s]
                                                  + Cardinality({p \in late : Sig(p) = s})],
                  memory |-> Zero]
  /\ processed' = {} /\ switched' = FALSE
  /\ poll' = [p \in Polls |-> Rest]
  /\ memory' = [f \in Files |-> Zero]
  /\ save' = [f \in Files |-> "idle"]
  /\ export' = [f \in Files |-> Zero]
  /\ cut' = [f \in Files |-> Zero]
  /\ counted' = Zero /\ ignored' = {}
  /\ UNCHANGED <<chain, lives, file, overlapped>>

\* hydrateState: a file that is missing or does not parse is passed over.
Restart ==
  /\ ~up
  /\ lives < MaxLives
  /\ up' = TRUE /\ lives' = lives + 1
  /\ \E read \in SUBSET {f \in Files : file[f].is = "whole"} :
       memory' = [f \in Files |-> IF f \in read THEN file[f].holds ELSE Zero]
  /\ UNCHANGED <<chain, booked, processed, switched, poll, save, export, file, history>>

-----------------------------------------------------------------------------
CustodyNext ==
  \/ \E s \in Payments : Pay(s)
  \/ \E p \in Polls :
       \/ Look(p) \/ Skip(p) \/ Fetch(p) \/ Missed(p)
       \/ Ask(p) \/ Select(p) \/ Insert(p)
  \/ PoolError
  \/ SaveAll
  \/ \E f \in Files : Write(f) \/ Rename(f)
  \/ Exit
  \/ Restart

CustodySpec == CustodyInit /\ [][CustodyNext]_vars

-----------------------------------------------------------------------------
\* A payment that no two polls work on at the same time is booked at most once in Postgres,
\* through every crash and restart, at most once in the memory of a life, and counted at most
\* once in it.  Memory has bookings, of payments that Postgres may have as well, only in a
\* life that has left Postgres.  And a payment that a life takes for processed is in one of
\* the stores, unless it rounds to nothing.
PaymentsCountOnce ==
  /\ \A s \in Payments \ overlapped :
       booked["postgres"][s] <= 1 /\ booked["memory"][s] <= 1 /\ counted[s] <= 1
  /\ \A s \in Payments : booked["memory"][s] > 0 => switched
  /\ \A s \in processed :
       booked["postgres"][s] > 0 \/ booked["memory"][s] > 0 \/ s \in ignored

\* When a save is through, the files hold one and the same moment, whatever was counted
\* while they were written.
SavesHold ==
  (\A f \in Files : save[f] = "saved") => \A f \in Files : file[f].holds = cut[f]
=============================================================================
