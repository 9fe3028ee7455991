----------------------------- MODULE Evolution ------------------------------
(***************************************************************************)
(* How the agent changes itself and what it says of itself:                 *)
(* core/morphling-evolution.ts runs cycles that propose the code of a tool, *)
(* core/meta-tools judges it and keeps its versions, core/ratchet.ts        *)
(* hardens its policy at every refusal, core/reputation.ts moves the score, *)
(* and each of them shows on the card of AgentCard, which outlives the      *)
(* process in a file.                                                       *)
(*                                                                          *)
(* A tool is the number of versions it has; a candidate is the grade, in    *)
(* hundredths, that the evaluation pack gives it.  Nothing in src passes a  *)
(* latency or a cost to compare a candidate with, so those two gates never  *)
(* close.  A proposal the static audit refuses is refused before the        *)
(* ratchet hears of it.                                                     *)
(***************************************************************************)
EXTENDS AgentCard

CONSTANTS
  Cycles,       \* evolution cycles under way at a time
  Grades,       \* the grades of candidates that pass every check
  BaseAtStart,  \* the pricing engine's base price in a new process
  MaxBuild,     \* bound: the builds made
  MaxVersions,  \* bound: the versions of a tool
  MaxRefusals,  \* bound: the refusals in each life of the process
  MaxStarts     \* bound: the lives of the process

ASSUME EvolutionAssumption ==
  /\ BaseAtStart \in Bases
  /\ 1000 \in Scores
  /\ Grades \subseteq 0..100
  /\ MaxBuild \in Nat /\ MaxVersions \in Nat /\ MaxStarts \in Nat
  /\ MaxRefusals \in [1..MaxStarts -> Nat]

VARIABLES
  mode,      \* the process: off, starting, on, saved (it has saved, and will exit)
  starts,    \* the lives it has had
  versions,  \* MetaToolRegistry: the versions registered of each tool
  policy,    \* RatchetSystem.policy
  score,     \* ReputationSystem: the agent's own score
  base,      \* DynamicPricingEngine.config.basePriceUsd
  mgr,       \* DynamicAgentCardManager
  cycle,     \* each cycle: where it is, and its tool
  disk,      \* agent-card-history.json and reputation.json
  \* history
  refusals,  \* what was refused in this life
  highest,   \* the highest build number shown so far
  rewound,   \* the build number has gone back
  restored   \* the card comes from a rollback or a file, or the score does

self == <<versions, policy, score, base, mgr, cycle>>
vars == <<mode, starts, self, disk, refusals, highest, rewound, restored>>

NoSkills == [t \in Tools |-> 0]
Idle == [pc |-> "idle", tool |-> "none"]
DefaultPolicy == [strict |-> 1, timeout |-> 10000, double |-> FALSE]

\* What a new AgentCore begins with.
Fresh ==
  [versions |-> NoSkills, policy |-> DefaultPolicy, score |-> 1000, base |-> BaseAtStart,
   mgr |-> Created(NoSkills, 1000, BaseAtStart), cycle |-> [k \in Cycles |-> Idle]]

Init ==
  /\ mode = "off" /\ starts = 0
  /\ versions = Fresh.versions /\ policy = Fresh.policy
  /\ score = Fresh.score /\ base = Fresh.base
  /\ mgr = Fresh.mgr /\ cycle = Fresh.cycle
  /\ disk = [history |-> <<>>, score |-> <<>>]
  /\ refusals = 0
  /\ highest = 0
  /\ rewound = FALSE /\ restored = FALSE

Running == mode \in {"on", "saved"}

\* The card now current is shown; builds in between, of the same turn, were lower.
Shown == highest' = MaxOf(highest, mgr'.build)

Bounded(m) == m.build <= MaxBuild

-----------------------------------------------------------------------------
(* RatchetSystem                                                            *)

\* tightenPolicy.
Tightened ==
  [strict |-> MinOf(5, policy.strict + 1),
   timeout |-> MaxOf(1000, (policy.timeout * 8) \div 10),
   double |-> TRUE]

Refused ==
  /\ refusals < MaxRefusals[starts]
  /\ refusals' = refusals + 1
  /\ policy' = Tightened

\* derivePolicyFromRatchet: what a tool is run under, the grade in hundredths.
Derived(p) ==
  LET steps == p.strict - 1 IN
  [timeout |-> MaxOf(1000, MinOf(10000, (p.timeout * (20 - steps)) \div 20)),
   memory |-> MaxOf(64, 256 - 32 * steps),
   grade |-> MinOf(100, 70 + 5 * steps + (IF p.double THEN 5 ELSE 0))]

-----------------------------------------------------------------------------
(* MorphlingEvolutionLoop.executeCycle                                      *)

\* The generator has made a proposal, and the audit finds no fault; a cycle that gets
\* no further changes nothing.  A tool there is none of yet, or one proposed as new, goes
\* to create_tool, the rest to hot_reload.
Propose(k, t) ==
  /\ Running
  /\ cycle[k].pc = "idle"
  /\ \E to \in {"creating"} \cup (IF versions[t] > 0 THEN {"reloading"} ELSE {}) :
       cycle' = [cycle EXCEPT ![k] = [pc |-> to, tool |-> t]]
  /\ UNCHANGED <<mode, starts, versions, policy, score, base, mgr, disk, refusals, highest,
                 rewound, restored>>

\* MetaToolRegistry.register: the version after the latest there is by now.
Register(t) ==
  /\ versions[t] < MaxVersions
  /\ versions' = [versions EXCEPT ![t] = @ + 1]

TurnedAway(k) ==
  /\ Refused
  /\ cycle' = [cycle EXCEPT ![k] = Idle]
  /\ UNCHANGED versions

\* RatchetSystem.evaluateCandidateProposal.  The audit finds fault with the candidate,
\* its evaluation throws, or it fails a rule.
FailsChecks(k) == TurnedAway(k)

\* It passes them, and its grade is too low.
ScoresTooLow(k, grade, required) == grade < required /\ TurnedAway(k)

\* It is accepted, and registered in the same turn.
Accepted(k, grade, required) ==
  /\ grade >= required
  /\ Register(cycle[k].tool)
  /\ cycle' = [cycle EXCEPT ![k].pc = "accepted"]
  /\ UNCHANGED <<policy, refusals>>

Evaluate(k, required) ==
  \/ FailsChecks(k)
  \/ \E g \in Grades : ScoresTooLow(k, g, required) \/ Accepted(k, g, required)

\* create_tool: a first version has to reach minEvaluationScore.
CreateTool(k) ==
  /\ Running
  /\ cycle[k].pc = "creating"
  /\ Evaluate(k, 70)
  /\ UNCHANGED <<mode, starts, score, base, mgr, disk, highest, rewound, restored>>

\* hot_reload: a further version has to improve by minDelta on a current score which no
\* caller gives, so that it is taken to be 0.75.
HotReload(k) ==
  /\ Running
  /\ cycle[k].pc = "reloading"
  /\ Evaluate(k, 75 + 5)
  /\ UNCHANGED <<mode, starts, score, base, mgr, disk, highest, rewound, restored>>

\* Mutant: an accepted tool is not put on the card.
AnnounceNothing(k) ==
  /\ Running
  /\ cycle[k].pc = "accepted"
  /\ cycle' = [cycle EXCEPT ![k] = Idle]
  /\ UNCHANGED <<mode, starts, versions, policy, score, base, mgr, disk, refusals, highest,
                 rewound, restored>>

\* The cycle goes on after the tool is registered: the card is updated.
Announce(k) ==
  /\ Running
  /\ cycle[k].pc = "accepted"
  /\ mgr' = Updated(mgr, versions, score, base)
  /\ Bounded(mgr')
  /\ Shown
  /\ restored' = FALSE
  /\ cycle' = [cycle EXCEPT ![k] = Idle]
  /\ UNCHANGED <<mode, starts, versions, policy, score, base, disk, refusals, rewound>>

\* MetaToolManager.execute: a run of a tool that its evaluation does not pass.
ToolFails(t) ==
  /\ Running
  /\ versions[t] > 0
  /\ Refused
  /\ UNCHANGED <<mode, starts, versions, score, base, mgr, cycle, disk, highest,
                 rewound, restored>>

-----------------------------------------------------------------------------
(* The reputation and the price                                             *)

\* The end of a task of the agent's own: its feedback moves the score, the card
\* manager hears of it, and the card is updated in any case.
TaskEnds(s) ==
  /\ Running
  /\ score' = s
  /\ \E m \in Heard(mgr, versions, s, base) :
       /\ mgr' = Updated(m, versions, s, base)
       /\ Bounded(mgr')
       /\ Shown
  /\ restored' = FALSE
  /\ UNCHANGED <<mode, starts, versions, policy, base, cycle, disk, refusals, rewound>>

SyncWithReputation ==
  /\ Running
  /\ mgr' \in SyncedWithReputation(mgr, versions, score, base)
  /\ mgr' # mgr
  /\ Bounded(mgr')
  /\ Shown
  /\ restored' = FALSE
  /\ UNCHANGED <<mode, starts, versions, policy, score, base, cycle, disk, refusals, rewound>>

UpdatePricing(b) ==
  /\ Running
  /\ base' = b
  /\ mgr' = Updated(mgr, versions, score, b)
  /\ Bounded(mgr')
  /\ Shown
  /\ restored' = FALSE
  /\ UNCHANGED <<mode, starts, versions, policy, score, cycle, disk, refusals, rewound>>

Rollback(b) ==
  /\ Running
  /\ mgr' = RolledBack(mgr, b)
  /\ Shown
  /\ rewound' = (rewound \/ mgr'.build # mgr.build)
  /\ restored' = (restored \/ mgr' # mgr)
  /\ UNCHANGED <<mode, starts, versions, policy, score, base, cycle, disk, refusals>>

-----------------------------------------------------------------------------
(* The life of the process                                                  *)

\* A new AgentCore, before it has read its files.
Start ==
  /\ mode = "off"
  /\ starts < MaxStarts
  /\ mode' = "starting" /\ starts' = starts + 1
  /\ UNCHANGED <<self, disk, refusals, rewound, restored>>
  /\ Shown

\* hydrateState: a file that is missing or cannot be read is passed over.
Hydrate ==
  /\ mode = "starting"
  /\ mode' = "on"
  /\ \E saved \in {disk.history, <<>>}, s \in {disk.score, <<>>} :
       /\ mgr' = Imported(mgr, saved)
       /\ score' = IF s = <<>> THEN score ELSE Head(s)
       /\ restored' = (saved # <<>> \/ s # <<>>)
       /\ rewound' = (rewound \/ IF saved = <<>> THEN highest # 0
                                 ELSE Head(saved).build # highest)
  /\ Shown
  /\ UNCHANGED <<starts, versions, policy, base, cycle, disk, refusals>>

\* The end of stop(): both are written as they are at one moment, and either write may
\* fail.  A task that outran the drain goes on.
Save ==
  /\ mode = "on"
  /\ mode' = "saved"
  /\ \E history \in {mgr.history, disk.history}, s \in {<<score>>, disk.score} :
       disk' = [history |-> history, score |-> s]
  /\ UNCHANGED <<starts, self, refusals, highest, rewound, restored>>

\* The process exits, or crashes: what it had in memory is gone.
Exit ==
  /\ mode # "off"
  /\ mode' = "off"
  /\ versions' = Fresh.versions /\ policy' = Fresh.policy
  /\ score' = Fresh.score /\ base' = Fresh.base
  /\ mgr' = Fresh.mgr /\ cycle' = Fresh.cycle
  /\ refusals' = 0 /\ restored' = FALSE
  /\ UNCHANGED <<starts, disk, highest, rewound>>

-----------------------------------------------------------------------------
Next ==
  \/ \E k \in Cycles :
       \/ CreateTool(k) \/ HotReload(k) \/ Announce(k)
       \/ \E t \in Tools : Propose(k, t)
  \/ \E t \in Tools : ToolFails(t)
  \/ \E s \in Scores : TaskEnds(s)
  \/ SyncWithReputation
  \/ \E b \in Bases : UpdatePricing(b)
  \/ \E b \in 0..MaxBuild : Rollback(b)
  \/ Start \/ Hydrate \/ Save \/ Exit

Spec == Init /\ [][Next]_vars

-----------------------------------------------------------------------------
\* What is shown is what the manager takes to be current: the endpoint has the current
\* card, which is the newest in the history and bears the current build number, and a
\* peer registry that has an entry has that card, through updates, rollbacks and restarts.
PublishedIsCurrent ==
  /\ mgr.http = mgr.card
  /\ mgr.card = Head(mgr.history)
  /\ mgr.card.build = mgr.build
  /\ mgr.peers \in {<<>>, <<mgr.card>>}
  /\ Len(mgr.history) <= MaxHistory

\* The card tells the truth: unless it was restored, or a tool just accepted is about to
\* be announced, it has every tool in its latest version, the agent's score, and the
\* price the engine asks for at that score, whatever ran meanwhile.
CardInStep ==
  Running /\ ~restored /\ (\A k \in Cycles : cycle[k].pc # "accepted") =>
    /\ mgr.card.skills = versions
    /\ mgr.card.score = score
    /\ mgr.card.price = Price(base, score)

\* A build number names one card for good, across restarts too: a running agent changes
\* its card for one with a number never shown before, as long as the number never went
\* back, by a rollback or because a process ended whose last card had not been saved or
\* was not read again.
OneCardPerBuild ==
  [][Running /\ mgr'.card # mgr.card /\ Running' /\ ~rewound' =>
       mgr'.card.build > highest]_vars

\* Every refusal hardens the policy, by however many cycles it is reached at the same
\* time, and no number of them shuts every tool out: a perfect one still has a second
\* to run in and passes.
PolicyHardens ==
  /\ policy.strict = MinOf(5, 1 + refusals)
  /\ policy.double = (refusals > 0)
  /\ policy.timeout <= 10000 - 1000 * MinOf(refusals, 5)
  /\ Derived(policy).grade < 100 /\ Derived(policy).timeout >= 1000
  /\ Derived(policy).memory >= 64
=============================================================================
