---------------------------- MODULE AgentRegistry ----------------------------
(* contracts/src/agent_registry.rs: identities and reputations of the      *)
(* council's agents.  A reputation is an exponentially weighted average in *)
(* whole basis points: every update rounds down, and the roundings add up. *)
(* Abstracted: an agent's role, a string stored at registration and never  *)
(* read or changed again.  The u64 product is at most 10^8 and cannot      *)
(* overflow; the u32 counters are bounded here by MaxEvents.               *)
EXTENDS Integers, Sequences

CONSTANTS
    Accounts,   \* the accounts that call the contract
    AgentIds,   \* agent ids, the keys of the registry
    NoAgent,    \* the value of the mapping at a key never written
    Outcomes,   \* the values tried as the outcome of a call, in BOOLEAN
    MaxEvents   \* bound on the number of calls that change the registry

Bps                  == 10000
AlphaBps             == 2000
InitialReputationBps == 5000

AgentInfo == [reputation : 0 .. Bps, calls : Nat, correct : Nat]

AgentRegistered == [name : {"AgentRegistered"}, id : AgentIds]
OutcomeRecorded == [name       : {"OutcomeRecorded"},
                    id         : AgentIds,
                    correct    : BOOLEAN,
                    reputation : 0 .. Bps]

ASSUME RegistryAssumption ==
    /\ NoAgent \notin AgentInfo
    /\ Outcomes \subseteq BOOLEAN
    /\ MaxEvents \in Nat

VARIABLES
    council,        \* the account that installed the registry
    agents,         \* [AgentIds -> AgentInfo or NoAgent]
    agentIds,       \* the ids, in the order of their registration
    registryEvents  \* the events emitted so far

vars == <<council, agents, agentIds, registryEvents>>

Init ==
    /\ council \in Accounts
    /\ agents = [a \in AgentIds |-> NoAgent]
    /\ agentIds = << >>
    /\ registryEvents = << >>

IsRegistered(a) == agents[a] # NoAgent

WithinBound == Len(registryEvents) < MaxEvents

(* Faulty variant: registering an agent again resets it.                   *)
CanRegisterAgain(caller, a) == caller = council

CanRegister(caller, a) ==
    /\ caller = council
    /\ ~IsRegistered(a)

RegisterAgent(caller, a) ==
    /\ WithinBound
    /\ CanRegister(caller, a)
    /\ agents' = [agents EXCEPT ![a] =
           [reputation |-> InitialReputationBps, calls |-> 0, correct |-> 0]]
    /\ agentIds' = Append(agentIds, a)
    /\ registryEvents' = Append(registryEvents, [name |-> "AgentRegistered", id |-> a])
    /\ UNCHANGED council

OutcomeBps(correct) == IF correct THEN Bps ELSE 0

(* Faulty variant: the step is taken on the truncated difference, as       *)
(* rep + alpha (outcome - rep) reads when each term is truncated to zero.  *)
TruncatedReputation(rep, correct) ==
    IF correct
    THEN rep + ((Bps - rep) * AlphaBps) \div Bps
    ELSE rep - (rep * AlphaBps) \div Bps

(* Faulty variant: the old reputation keeps its full weight.               *)
UndampedReputation(rep, correct) == (rep * Bps + OutcomeBps(correct) * AlphaBps) \div Bps

UpdatedReputation(rep, correct) ==
    (rep * (Bps - AlphaBps) + OutcomeBps(correct) * AlphaBps) \div Bps

RecordOutcome(caller, a, correct) ==
    /\ WithinBound
    /\ caller = council
    /\ IsRegistered(a)
    /\ LET rep == UpdatedReputation(agents[a].reputation, correct)
       IN  /\ agents' = [agents EXCEPT ![a] =
                  [reputation |-> rep,
                   calls      |-> @.calls + 1,
                   correct    |-> @.correct + (IF correct THEN 1 ELSE 0)]]
           /\ registryEvents' = Append(registryEvents,
                  [name |-> "OutcomeRecorded", id |-> a,
                   correct |-> correct, reputation |-> rep])
    /\ UNCHANGED <<council, agentIds>>

Next == \E caller \in Accounts, a \in AgentIds :
    \/ RegisterAgent(caller, a)
    \/ \E correct \in Outcomes : RecordOutcome(caller, a, correct)

Spec == Init /\ [][Next]_vars

(***************************************************************************)
(* Properties.                                                             *)
(***************************************************************************)

(* The type of the registry: a reputation stays within 0 .. 10000.         *)
TypeOK ==
    /\ council \in Accounts
    /\ agents \in [AgentIds -> AgentInfo \cup {NoAgent}]
    /\ agentIds \in Seq(AgentIds)
    /\ registryEvents \in Seq(AgentRegistered \cup OutcomeRecorded)

OutcomeOf(a, i) ==
    registryEvents[i].name = "OutcomeRecorded" /\ registryEvents[i].id = a

(* "Pure integer math, fully reproducible off-chain"                       *)
(* (contracts/src/agent_registry.rs:5): replaying the outcomes of an agent *)
(* from its initial reputation, in the order of the events, gives the      *)
(* stored reputation and both counters, whatever was recorded in between   *)
(* for the other agents, and each event announced the reputation of its    *)
(* own moment.                                                             *)
Replay(a) ==
    LET start == [reputation |-> InitialReputationBps, calls |-> 0, correct |-> 0]
        after[i \in 0 .. Len(registryEvents)] ==
            IF i = 0 THEN start
            ELSE IF ~OutcomeOf(a, i) THEN after[i - 1]
            ELSE [reputation |-> registryEvents[i].reputation,
                  calls      |-> after[i - 1].calls + 1,
                  correct    |-> after[i - 1].correct
                                    + (IF registryEvents[i].correct THEN 1 ELSE 0)]
    IN  after

Reproducible ==
    \A a \in AgentIds :
        LET after == Replay(a)
        IN  IF IsRegistered(a)
            THEN /\ agents[a] = after[Len(registryEvents)]
                 /\ \A i \in DOMAIN registryEvents : OutcomeOf(a, i) =>
                        registryEvents[i].reputation =
                            (4 * after[i - 1].reputation
                                 + OutcomeBps(registryEvents[i].correct)) \div 5
            ELSE \A i \in DOMAIN registryEvents : registryEvents[i].id # a

(* rep' = rep + alpha (outcome - rep), read over the rationals: its value  *)
(* after n outcomes of agent a, times 5^n.                                 *)
Exact(a) ==
    LET after[i \in 0 .. Len(registryEvents)] ==
            IF i = 0 THEN [scale |-> 1, value |-> InitialReputationBps]
            ELSE IF ~OutcomeOf(a, i) THEN after[i - 1]
            ELSE [scale |-> 5 * after[i - 1].scale,
                  value |-> 4 * after[i - 1].value
                              + after[i - 1].scale * OutcomeBps(registryEvents[i].correct)]
    IN  after[Len(registryEvents)]

(* The roundings never add up to 5 basis points: the stored reputation is  *)
(* at most the exact average and less than 5 below it, after any history.  *)
DriftBounded ==
    \A a \in AgentIds : IsRegistered(a) =>
        LET exact == Exact(a)
            drift == exact.value - agents[a].reputation * exact.scale
        IN  0 <= drift /\ drift < 5 * exact.scale

(* From 9996 on, one more correct call rounds back to where it was: no     *)
(* agent ever gets past it, so a full 10000 is out of reach.               *)
CeilingBps == 9996

ReputationCeiling ==
    \A a \in AgentIds : IsRegistered(a) => agents[a].reputation <= CeilingBps

(* A wrong call always costs reputation, down to the last basis point; a   *)
(* correct one always earns some, until the ceiling; a step changes one    *)
(* agent only, and never unregisters or re-registers one.                  *)
Scored(a) ==
    LET old == agents[a]
        new == agents'[a]
    IN  /\ new # NoAgent
        /\ new.calls = old.calls + 1
        /\ \/ /\ new.correct = old.correct + 1
              /\ new.reputation > old.reputation \/ old.reputation = CeilingBps
              /\ new.reputation >= old.reputation
           \/ /\ new.correct = old.correct
              /\ new.reputation < old.reputation \/ old.reputation = 0
              /\ new.reputation <= old.reputation

OutcomesPayOffStep ==
    /\ \A a \in AgentIds : IsRegistered(a) => agents'[a] = agents[a] \/ Scored(a)
    /\ \A a, b \in AgentIds :
           agents'[a] # agents[a] /\ agents'[b] # agents[b] => a = b

OutcomesPayOff == [][OutcomesPayOffStep]_vars
=============================================================================
