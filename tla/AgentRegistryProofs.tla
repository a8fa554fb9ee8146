------------------------- MODULE AgentRegistryProofs -------------------------
(* Proofs about AgentRegistry, for every set of accounts and agents and    *)
(* any number of recorded outcomes.                                        *)
EXTENDS AgentRegistry, TLAPS

LEMMA WithinCeiling ==
    ASSUME NEW rep, rep \in 0 .. Bps, rep <= CeilingBps
    PROVE  rep \in 0 .. CeilingBps
BY SMT DEF Bps, CeilingBps

LEMMA CeilingWithin ==
    ASSUME NEW rep, rep \in 0 .. CeilingBps
    PROVE  rep \in 0 .. Bps /\ rep <= CeilingBps
<1>1. rep \in 0 .. Bps
  BY SMT DEF Bps, CeilingBps
<1>2. rep <= CeilingBps
  BY SMT DEF CeilingBps
<1> QED
  BY <1>1, <1>2, Zenon

(* The arithmetic of a correct and of a wrong call.                         *)
LEMMA Raised ==
    ASSUME NEW rep \in Nat, NEW new \in Nat, rep <= 9996,
           5 * new <= 4 * rep + 10000, 4 * rep + 10000 < 5 * new + 5
    PROVE  new <= 9996 /\ (rep # 9996 => new > rep) /\ new >= rep
BY SMT

LEMMA Lowered ==
    ASSUME NEW rep \in Nat, NEW new \in Nat, rep <= 9996,
           5 * new <= 4 * rep, 4 * rep < 5 * new + 5
    PROVE  new <= 9996 /\ (rep # 0 => new < rep) /\ new <= rep
BY SMT

(* The rounding of either update, for a reputation up to the ceiling.       *)
AfterCorrect(rep, new) == new = (rep * 8000 + 10000 * 2000) \div 10000
AfterWrong(rep, new)   == new = (rep * 8000) \div 10000

LEMMA CorrectArithmetic ==
    ASSUME NEW rep, rep \in 0 .. CeilingBps, NEW new, AfterCorrect(rep, new)
    PROVE  /\ new \in 0 .. CeilingBps
           /\ rep # CeilingBps => new > rep
           /\ new >= rep
<1>1. rep \in Nat /\ rep <= 9996
  BY SMT DEF CeilingBps
<1>2. PICK r \in Nat, n \in Int : r = rep /\ n = new
  BY <1>1 DEF AfterCorrect
<1>3. n >= 0 /\ 5 * n <= 4 * r + 10000 /\ 4 * r + 10000 < 5 * n + 5
  BY <1>2, SMT DEF AfterCorrect
<1>4. n <= 9996 /\ (r # 9996 => n > r) /\ n >= r
  <2>1. n \in Nat /\ r <= 9996
    BY <1>1, <1>2, <1>3
  <2> QED
    BY <1>3, <2>1, Raised
<1>5. new \in 0 .. CeilingBps
  BY <1>2, <1>3, <1>4 DEF CeilingBps
<1>6. rep # CeilingBps => new > rep
  BY <1>2, <1>4 DEF CeilingBps
<1>7. new >= rep
  BY <1>2, <1>4
<1> QED
  BY <1>5, <1>6, <1>7

LEMMA WrongArithmetic ==
    ASSUME NEW rep, rep \in 0 .. CeilingBps, NEW new, AfterWrong(rep, new)
    PROVE  /\ new \in 0 .. CeilingBps
           /\ rep # 0 => new < rep
           /\ new <= rep
<1>1. rep \in Nat /\ rep <= 9996
  BY SMT DEF CeilingBps
<1>2. PICK r \in Nat, n \in Int : r = rep /\ n = new
  BY <1>1 DEF AfterWrong
<1>3. n >= 0 /\ 5 * n <= 4 * r /\ 4 * r < 5 * n + 5
  BY <1>2, SMT DEF AfterWrong
<1>4. n <= 9996 /\ (r # 0 => n < r) /\ n <= r
  <2>1. n \in Nat /\ r <= 9996
    BY <1>1, <1>2, <1>3
  <2> QED
    BY <1>3, <2>1, Lowered
<1>5. new \in 0 .. CeilingBps
  BY <1>2, <1>3, <1>4 DEF CeilingBps
<1>6. rep # 0 => new < rep
  BY <1>2, <1>4 DEF CeilingBps
<1>7. new <= rep
  BY <1>2, <1>4
<1> QED
  BY <1>5, <1>6, <1>7

(* What a correct call does to a reputation up to the ceiling: it stays up *)
(* to the ceiling, and grows until it is there.                            *)
LEMMA CorrectCall ==
    ASSUME NEW rep, rep \in 0 .. CeilingBps, NEW new, new = UpdatedReputation(rep, TRUE)
    PROVE  /\ new \in 0 .. CeilingBps
           /\ rep # CeilingBps => new > rep
           /\ new >= rep
<1>1. AfterCorrect(rep, new)
  BY SMT DEF UpdatedReputation, OutcomeBps, Bps, AlphaBps, AfterCorrect
<1> QED
  BY <1>1, CorrectArithmetic, Zenon

(* What a wrong call does: it costs at least one basis point while there   *)
(* is one.                                                                 *)
LEMMA WrongCall ==
    ASSUME NEW rep, rep \in 0 .. CeilingBps, NEW new, new = UpdatedReputation(rep, FALSE)
    PROVE  /\ new \in 0 .. CeilingBps
           /\ rep # 0 => new < rep
           /\ new <= rep
<1>1. AfterWrong(rep, new)
  BY SMT DEF UpdatedReputation, OutcomeBps, Bps, AlphaBps, AfterWrong
<1> QED
  BY <1>1, WrongArithmetic, Zenon

(* The inductive invariant: types and the ceiling.  The ceiling alone is   *)
(* not inductive (a reputation that is no number is not below it), and the *)
(* range 0 .. 10000 alone does not give the ceiling.                       *)
RegistryInv == TypeOK /\ ReputationCeiling

LEMMA RegistryInit == Init => RegistryInv
BY DEF Init, RegistryInv, TypeOK, ReputationCeiling, IsRegistered

LEMMA RegisterKeeps ==
    ASSUME RegistryInv, NEW caller \in Accounts, NEW a \in AgentIds, RegisterAgent(caller, a)
    PROVE  RegistryInv' /\ OutcomesPayOffStep
<1> DEFINE new == [reputation |-> InitialReputationBps, calls |-> 0, correct |-> 0]
<1>1. new \in AgentInfo /\ new.reputation <= CeilingBps
  BY DEF AgentInfo, InitialReputationBps, Bps, CeilingBps
<1>2. agents' = [agents EXCEPT ![a] = new] /\ ~IsRegistered(a)
  BY DEF RegisterAgent, CanRegister
<1>3. [name |-> "AgentRegistered", id |-> a] \in AgentRegistered
  BY DEF AgentRegistered
<1>4. TypeOK'
  BY <1>1, <1>2, <1>3 DEF RegisterAgent, RegistryInv, TypeOK
<1>5. ReputationCeiling'
  BY <1>1, <1>2 DEF RegistryInv, TypeOK, ReputationCeiling, IsRegistered
<1>6. OutcomesPayOffStep
  BY <1>2 DEF OutcomesPayOffStep, RegistryInv, TypeOK, IsRegistered
<1> QED
  BY <1>4, <1>5, <1>6 DEF RegistryInv

LEMMA OutcomeKeeps ==
    ASSUME RegistryInv, NEW caller \in Accounts, NEW a \in AgentIds, NEW correct \in Outcomes,
           RecordOutcome(caller, a, correct)
    PROVE  RegistryInv' /\ OutcomesPayOffStep
<1>1. correct \in BOOLEAN
  BY RegistryAssumption
<1>2. IsRegistered(a)
  BY DEF RecordOutcome
<1>3. agents[a] \in AgentInfo /\ agents[a] # NoAgent
  BY <1>2 DEF IsRegistered, RegistryInv, TypeOK
<1>4. agents[a].reputation \in 0 .. CeilingBps
  <2>1. agents[a].reputation \in 0 .. Bps
    BY <1>3 DEF AgentInfo
  <2>2. agents[a].reputation <= CeilingBps
    BY <1>2 DEF RegistryInv, ReputationCeiling
  <2> QED
    BY <2>1, <2>2, WithinCeiling
<1>5. PICK rep \in 0 .. CeilingBps :
          /\ rep = UpdatedReputation(agents[a].reputation, correct)
          /\ correct => /\ agents[a].reputation # CeilingBps => rep > agents[a].reputation
                        /\ rep >= agents[a].reputation
          /\ ~correct => /\ agents[a].reputation # 0 => rep < agents[a].reputation
                         /\ rep <= agents[a].reputation
  <2>1. CASE correct
    <3>1. correct = TRUE
      BY <2>1, <1>1
    <3> QED
      BY <3>1, <1>4, CorrectCall, Zenon
  <2>2. CASE ~correct
    <3>1. correct = FALSE
      BY <2>2, <1>1
    <3> QED
      BY <3>1, <1>4, WrongCall, Zenon
  <2> QED
    BY <2>1, <2>2
<1>6. PICK one \in {0, 1} : one = (IF correct THEN 1 ELSE 0)
  OBVIOUS
<1> DEFINE new == [reputation |-> rep, calls |-> agents[a].calls + 1,
                   correct |-> agents[a].correct + one]
           e == [name |-> "OutcomeRecorded", id |-> a, correct |-> correct, reputation |-> rep]
<1>7. /\ agents' = [agents EXCEPT ![a] = new]
      /\ registryEvents' = Append(registryEvents, e)
      /\ UNCHANGED <<council, agentIds>>
  BY <1>5, <1>6 DEF RecordOutcome
<1>8. rep \in 0 .. Bps /\ rep <= CeilingBps
  BY CeilingWithin
<1>9. new \in AgentInfo /\ new # NoAgent
  <2>1. agents[a].calls \in Nat /\ agents[a].correct \in Nat
    BY <1>3 DEF AgentInfo
  <2>2. agents[a].calls + 1 \in Nat /\ agents[a].correct + one \in Nat
    BY <1>6, <2>1
  <2>3. new \in AgentInfo
    BY <1>8, <2>2 DEF AgentInfo
  <2> QED
    BY <2>3, RegistryAssumption
<1>10. e \in OutcomeRecorded
  BY <1>1, <1>8 DEF OutcomeRecorded
<1>11. TypeOK'
  BY <1>7, <1>9, <1>10 DEF RegistryInv, TypeOK
<1>12. agents'[a] = new /\ \A b \in AgentIds \ {a} : agents'[b] = agents[b]
  BY <1>7 DEF RegistryInv, TypeOK
<1>14. ReputationCeiling'
  BY <1>8, <1>12 DEF RegistryInv, ReputationCeiling, IsRegistered
<1>15. Scored(a)
  <2>1. CASE correct
    <3>1. /\ rep > agents[a].reputation \/ agents[a].reputation = CeilingBps
          /\ rep >= agents[a].reputation
      BY <1>5, <2>1, Zenon
    <3>2. one = 1
      BY <1>6, <2>1, Zenon
    <3> QED
      BY <1>9, <1>12, <3>1, <3>2 DEF Scored
  <2>2. CASE ~correct
    <3>1. /\ rep < agents[a].reputation \/ agents[a].reputation = 0
          /\ rep <= agents[a].reputation
      BY <1>5, <2>2, Zenon
    <3>2. one = 0
      BY <1>6, <2>2, Zenon
    <3>3. agents[a].correct + one = agents[a].correct
      BY <1>3, <3>2 DEF AgentInfo
    <3> QED
      BY <1>9, <1>12, <3>1, <3>3 DEF Scored
  <2> QED
    BY <2>1, <2>2
<1>16. OutcomesPayOffStep
  BY <1>12, <1>15 DEF OutcomesPayOffStep
<1> QED
  BY <1>11, <1>14, <1>16 DEF RegistryInv

LEMMA RegistryStep == RegistryInv /\ [Next]_vars => RegistryInv' /\ [OutcomesPayOffStep]_vars
<1> SUFFICES ASSUME RegistryInv, [Next]_vars
             PROVE  RegistryInv' /\ [OutcomesPayOffStep]_vars
  OBVIOUS
<1>1. CASE UNCHANGED vars
  BY <1>1 DEF vars, RegistryInv, TypeOK, ReputationCeiling, IsRegistered
<1>2. CASE Next
  BY <1>2, RegisterKeeps, OutcomeKeeps DEF Next
<1> QED
  BY <1>1, <1>2

(* Type correctness: a reputation never leaves 0 .. 10000, after any       *)
(* number of outcomes.                                                     *)
THEOREM RegistryTypeCorrect == Spec => []TypeOK
BY RegistryInit, RegistryStep, PTL DEF Spec, RegistryInv

(* No agent ever gets past 9996 basis points.                              *)
THEOREM CeilingHolds == Spec => []ReputationCeiling
BY RegistryInit, RegistryStep, PTL DEF Spec, RegistryInv

(* Every outcome moves the reputation the right way.                       *)
THEOREM OutcomesAlwaysPayOff == Spec => OutcomesPayOff
BY RegistryInit, RegistryStep, PTL DEF Spec, OutcomesPayOff

(***************************************************************************)
(* Replaying the events.  What the recursive definitions compute is proved *)
(* along the behaviour: each step adds one event, and so one element to    *)
(* the function that satisfies the recursion.                              *)
(***************************************************************************)
LastEvent == Len(registryEvents)

Start == [reputation |-> InitialReputationBps, calls |-> 0, correct |-> 0]

Replayed(x, e) == [reputation |-> e.reputation,
                   calls      |-> x.calls + 1,
                   correct    |-> x.correct + (IF e.correct THEN 1 ELSE 0)]

IsReplay(a, after) ==
    after = [i \in 0 .. LastEvent |->
                IF i = 0 THEN Start
                ELSE IF ~OutcomeOf(a, i) THEN after[i - 1]
                ELSE [reputation |-> registryEvents[i].reputation,
                      calls      |-> after[i - 1].calls + 1,
                      correct    |-> after[i - 1].correct
                                        + (IF registryEvents[i].correct THEN 1 ELSE 0)]]

LEMMA ReplayIsChosen ==
    ASSUME NEW a
    PROVE  Replay(a) = CHOOSE after : IsReplay(a, after)
BY DEF Replay, IsReplay, Start, LastEvent

(* What appending an event does to the indices.                            *)
LEMMA EventAppended ==
    ASSUME TypeOK, NEW e, registryEvents' = Append(registryEvents, e)
    PROVE  /\ LastEvent \in Nat /\ LastEvent' = LastEvent + 1
           /\ DOMAIN registryEvents = 1 .. LastEvent
           /\ DOMAIN registryEvents' = 1 .. LastEvent + 1
           /\ \A i \in 1 .. LastEvent : registryEvents'[i] = registryEvents[i]
           /\ registryEvents'[LastEvent + 1] = e
BY DEF TypeOK, LastEvent

(* A replay of the longer history restricts to one of the shorter.         *)
LEMMA ReplayRestricts ==
    ASSUME TypeOK, NEW e, registryEvents' = Append(registryEvents, e), NEW a,
           NEW g, IsReplay(a, g)', NEW h, h = [i \in 0 .. LastEvent |-> g[i]]
    PROVE  /\ IsReplay(a, h)
           /\ g[LastEvent'] = IF e.name = "OutcomeRecorded" /\ e.id = a
                              THEN Replayed(h[LastEvent], e)
                              ELSE h[LastEvent]
           /\ \A i \in 0 .. LastEvent : g[i] = h[i]
<1> DEFINE n == LastEvent
           next(i) == IF i = 0 THEN Start
                      ELSE IF ~OutcomeOf(a, i)' THEN g[i - 1]
                      ELSE Replayed(g[i - 1], registryEvents'[i])
<1>1. n \in Nat /\ n' = n + 1
  BY EventAppended
<1>2. \A i \in 0 .. n + 1 : g[i] = next(i)
  BY <1>1 DEF IsReplay, Replayed
<1> HIDE DEF next
<1>3. \A i \in 1 .. n : OutcomeOf(a, i)' <=> OutcomeOf(a, i)
  BY EventAppended DEF OutcomeOf
<1>4. \A i \in 0 .. n : h[i] = IF i = 0 THEN Start
                               ELSE IF ~OutcomeOf(a, i) THEN h[i - 1]
                               ELSE Replayed(h[i - 1], registryEvents[i])
  <2> SUFFICES ASSUME NEW i \in 0 .. n
               PROVE  h[i] = IF i = 0 THEN Start
                             ELSE IF ~OutcomeOf(a, i) THEN h[i - 1]
                             ELSE Replayed(h[i - 1], registryEvents[i])
    OBVIOUS
  <2>1. h[i] = next(i)
    BY <1>1, <1>2
  <2>2. CASE i = 0
    BY <2>1, <2>2 DEF next
  <2>3. CASE i # 0
    <3>1. i \in 1 .. n /\ i - 1 \in 0 .. n
      BY <1>1, <2>3
    <3>2. h[i - 1] = g[i - 1] /\ registryEvents'[i] = registryEvents[i]
      BY <3>1, EventAppended
    <3> QED
      BY <2>1, <2>3, <3>1, <3>2, <1>3 DEF next
  <2> QED
    BY <2>2, <2>3
<1>5. IsReplay(a, h)
  BY <1>4 DEF IsReplay, Replayed
<1>6. g[n + 1] = IF e.name = "OutcomeRecorded" /\ e.id = a
                 THEN Replayed(h[n], e) ELSE h[n]
  <2>1. g[n + 1] = next(n + 1) /\ n + 1 # 0 /\ (n + 1) - 1 = n
    BY <1>1, <1>2
  <2>2. h[n] = g[n]
    BY <1>1
  <2>3. OutcomeOf(a, n + 1)' <=> e.name = "OutcomeRecorded" /\ e.id = a
    BY <1>1, EventAppended DEF OutcomeOf
  <2>4. registryEvents'[n + 1] = e
    BY EventAppended
  <2> QED
    BY <2>1, <2>2, <2>3, <2>4 DEF next
<1> QED
  BY <1>1, <1>5, <1>6

(* A replay of the shorter history extends to one of the longer.           *)
LEMMA ReplayExtends ==
    ASSUME TypeOK, NEW e, registryEvents' = Append(registryEvents, e), NEW a,
           NEW h, IsReplay(a, h), NEW last,
           last = IF e.name = "OutcomeRecorded" /\ e.id = a
                  THEN Replayed(h[LastEvent], e) ELSE h[LastEvent],
           NEW g, g = [i \in 0 .. LastEvent + 1 |-> IF i = LastEvent + 1 THEN last ELSE h[i]]
    PROVE  IsReplay(a, g)'
<1> DEFINE n == LastEvent
           next(i) == IF i = 0 THEN Start
                      ELSE IF ~OutcomeOf(a, i)' THEN g[i - 1]
                      ELSE Replayed(g[i - 1], registryEvents'[i])
<1>1. n \in Nat /\ n' = n + 1
  BY EventAppended
<1>2. \A i \in 0 .. n : h[i] = IF i = 0 THEN Start
                               ELSE IF ~OutcomeOf(a, i) THEN h[i - 1]
                               ELSE Replayed(h[i - 1], registryEvents[i])
  BY DEF IsReplay, Replayed
<1>3. /\ g[n + 1] = last
      /\ \A i \in 0 .. n : g[i] = h[i]
      /\ DOMAIN g = 0 .. n + 1
  BY <1>1
<1>4. g = [i \in 0 .. n + 1 |-> g[i]]
  BY <1>3
<1>5. ASSUME NEW i \in 0 .. n + 1 PROVE g[i] = next(i)
  <2>1. CASE i = 0
    BY <2>1, <1>1, <1>2, <1>3
  <2>2. CASE i \in 1 .. n
    <3>1. g[i] = h[i] /\ g[i - 1] = h[i - 1] /\ i \in 0 .. n /\ i # 0
      BY <1>1, <1>3, <2>2
    <3>2. registryEvents'[i] = registryEvents[i] /\ (OutcomeOf(a, i)' <=> OutcomeOf(a, i))
      BY <2>2, EventAppended DEF OutcomeOf
    <3> QED
      BY <1>2, <3>1, <3>2
  <2>3. CASE i = n + 1
    <3>1. i # 0 /\ i - 1 = n /\ g[n] = h[n]
      BY <1>1, <1>3, <2>3
    <3>2. registryEvents'[i] = e /\ (OutcomeOf(a, i)' <=> e.name = "OutcomeRecorded" /\ e.id = a)
      BY <2>3, EventAppended DEF OutcomeOf
    <3>3. next(i) = last
      BY <3>1, <3>2
    <3> QED
      BY <1>3, <2>3, <3>3
  <2>4. i = 0 \/ i \in 1 .. n \/ i = n + 1
    BY <1>1
  <2> HIDE DEF next
  <2> QED
    BY <2>1, <2>2, <2>3, <2>4
<1> HIDE DEF next
<1> QED
  BY <1>1, <1>4, <1>5 DEF IsReplay, Replayed, next

(* What a replay says of the registry.  For an agent not registered yet it *)
(* is still where it started.                                              *)
Agrees(a, after) ==
    IF IsRegistered(a)
    THEN /\ agents[a] = after[LastEvent]
         /\ \A i \in DOMAIN registryEvents : OutcomeOf(a, i) =>
                registryEvents[i].reputation =
                    (4 * after[i - 1].reputation
                         + OutcomeBps(registryEvents[i].correct)) \div 5
    ELSE /\ after[LastEvent] = Start
         /\ \A i \in DOMAIN registryEvents : registryEvents[i].id # a

ReplayInv ==
    \A a \in AgentIds :
        /\ \E after : IsReplay(a, after)
        /\ \A after : IsReplay(a, after) => Agrees(a, after)

LEMMA ReplayInit == Init => ReplayInv
<1> SUFFICES ASSUME Init, NEW a \in AgentIds
             PROVE  /\ \E after : IsReplay(a, after)
                    /\ \A after : IsReplay(a, after) => Agrees(a, after)
  BY DEF ReplayInv
<1>1. LastEvent = 0 /\ DOMAIN registryEvents = {}
  BY DEF Init, LastEvent
<1>2. IsReplay(a, [i \in 0 .. 0 |-> Start])
  BY <1>1 DEF IsReplay
<1>3. ASSUME NEW after, IsReplay(a, after) PROVE after[LastEvent] = Start
  BY <1>1, <1>3 DEF IsReplay
<1> QED
  BY <1>1, <1>2, <1>3 DEF Init, IsRegistered, Agrees

(* Updating by ten-thousandths is updating by fifths.                     *)
LEMMA UpdateInFifths ==
    ASSUME NEW rep \in 0 .. Bps, NEW correct \in BOOLEAN
    PROVE  UpdatedReputation(rep, correct) = (4 * rep + OutcomeBps(correct)) \div 5
<1>1. rep \in Nat
  OBVIOUS
<1>2. OutcomeBps(correct) \in {0, 10000}
  BY DEF OutcomeBps, Bps
<1> QED
  BY <1>1, <1>2 DEF UpdatedReputation, Bps, AlphaBps

(* Where the replay of an agent stands.                                    *)
Standing(a) == IF IsRegistered(a) THEN agents[a] ELSE Start

LEMMA ReplayAppend ==
    ASSUME TypeOK, ReplayInv, NEW e, registryEvents' = Append(registryEvents, e),
           NEW a \in AgentIds,
           IsRegistered(a)' \/ (~IsRegistered(a) /\ e.id # a),
           NEW isOutcome \in BOOLEAN,
           isOutcome <=> e.name = "OutcomeRecorded" /\ e.id = a,
           NEW x, x = Standing(a),
           IsRegistered(a)' => agents'[a] = IF isOutcome THEN Replayed(x, e) ELSE x,
           ~IsRegistered(a) => ~isOutcome,
           isOutcome => e.reputation = (4 * x.reputation + OutcomeBps(e.correct)) \div 5
    PROVE  /\ \E after : IsReplay(a, after)'
           /\ \A after : IsReplay(a, after)' => Agrees(a, after)'
<1> DEFINE n == LastEvent
<1>1. n \in Nat /\ n' = n + 1 /\ DOMAIN registryEvents' = 1 .. n + 1 /\ DOMAIN registryEvents = 1 .. n
  BY EventAppended
<1>2. \E after : IsReplay(a, after)'
  <2>1. PICK h : IsReplay(a, h)
    BY DEF ReplayInv
  <2>2. PICK last : last = IF e.name = "OutcomeRecorded" /\ e.id = a
                           THEN Replayed(h[LastEvent], e) ELSE h[LastEvent]
    OBVIOUS
  <2>3. PICK g : g = [i \in 0 .. LastEvent + 1 |-> IF i = LastEvent + 1 THEN last ELSE h[i]]
    OBVIOUS
  <2>4. IsReplay(a, g)'
    BY <2>1, <2>2, <2>3, ReplayExtends
  <2> QED
    BY <2>4
<1>3. ASSUME NEW after, IsReplay(a, after)' PROVE Agrees(a, after)'
  <2>1. PICK h : h = [i \in 0 .. LastEvent |-> after[i]]
    OBVIOUS
  <2>2. /\ IsReplay(a, h)
        /\ after[n + 1] = IF isOutcome THEN Replayed(h[n], e) ELSE h[n]
        /\ \A i \in 0 .. n : after[i] = h[i]
    BY <1>1, <1>3, <2>1, ReplayRestricts
  <2>3. Agrees(a, h)
    BY <2>2 DEF ReplayInv
  <2>4. h[n] = x
    BY <2>3 DEF Agrees, Standing
  <2>5. ASSUME IsRegistered(a)', NEW i \in 1 .. n + 1, OutcomeOf(a, i)'
        PROVE  registryEvents'[i].reputation =
                   (4 * after[i - 1].reputation + OutcomeBps(registryEvents'[i].correct)) \div 5
    <3>1. CASE i = n + 1
      <4>1. registryEvents'[i] = e /\ isOutcome /\ i - 1 = n
        BY <1>1, <2>5, <3>1, EventAppended DEF OutcomeOf
      <4>2. after[i - 1] = x
        BY <1>1, <2>2, <2>4, <4>1
      <4> QED
        BY <4>1, <4>2
    <3>2. CASE i \in 1 .. n
      <4>1. registryEvents'[i] = registryEvents[i] /\ i - 1 \in 0 .. n /\ i \in DOMAIN registryEvents
        BY <1>1, <3>2, EventAppended
      <4>2. OutcomeOf(a, i) /\ registryEvents[i].id = a
        BY <2>5, <4>1 DEF OutcomeOf
      <4>3. IsRegistered(a)
        BY <2>3, <4>1, <4>2 DEF Agrees
      <4>4. registryEvents[i].reputation =
                (4 * h[i - 1].reputation + OutcomeBps(registryEvents[i].correct)) \div 5
        BY <2>3, <4>1, <4>2, <4>3 DEF Agrees
      <4> QED
        BY <2>2, <4>1, <4>4
    <3> QED
      BY <1>1, <3>1, <3>2
  <2>6. ASSUME ~IsRegistered(a)', NEW i \in 1 .. n + 1 PROVE registryEvents'[i].id # a
    <3>1. CASE i = n + 1
      BY <1>1, <2>6, <3>1, EventAppended
    <3>2. CASE i \in 1 .. n
      <4>1. registryEvents'[i] = registryEvents[i] /\ i \in DOMAIN registryEvents
        BY <1>1, <3>2, EventAppended
      <4> QED
        BY <2>3, <2>6, <4>1 DEF Agrees
    <3> QED
      BY <1>1, <3>1, <3>2
  <2>7. IsRegistered(a)' => agents'[a] = after[n']
    BY <1>1, <2>2, <2>4
  <2>8. ~IsRegistered(a)' => after[n'] = Start
    BY <1>1, <2>2, <2>4 DEF Standing
  <2> QED
    BY <1>1, <2>5, <2>6, <2>7, <2>8 DEF Agrees
<1> QED
  BY <1>2, <1>3

(***************************************************************************)
(* The exact average.                                                      *)
(***************************************************************************)
Opening == [scale |-> 1, value |-> InitialReputationBps]

Averaged(x, e) == [scale |-> 5 * x.scale,
                   value |-> 4 * x.value + x.scale * OutcomeBps(e.correct)]

IsAverage(a, after) ==
    after = [i \in 0 .. LastEvent |->
                IF i = 0 THEN Opening
                ELSE IF ~OutcomeOf(a, i) THEN after[i - 1]
                ELSE [scale |-> 5 * after[i - 1].scale,
                      value |-> 4 * after[i - 1].value
                                  + after[i - 1].scale * OutcomeBps(registryEvents[i].correct)]]

LEMMA ExactIsChosen ==
    ASSUME NEW a
    PROVE  Exact(a) = (CHOOSE after : IsAverage(a, after))[LastEvent]
BY DEF Exact, IsAverage, Opening, LastEvent

(* As for the replay: an average of the longer history restricts to one of *)
(* the shorter.                                                            *)
LEMMA AverageRestricts ==
    ASSUME TypeOK, NEW e, registryEvents' = Append(registryEvents, e), NEW a,
           NEW g, IsAverage(a, g)', NEW h, h = [i \in 0 .. LastEvent |-> g[i]]
    PROVE  /\ IsAverage(a, h)
           /\ g[LastEvent'] = IF e.name = "OutcomeRecorded" /\ e.id = a
                              THEN Averaged(h[LastEvent], e)
                              ELSE h[LastEvent]
           /\ \A i \in 0 .. LastEvent : g[i] = h[i]
<1> DEFINE n == LastEvent
           next(i) == IF i = 0 THEN Opening
                      ELSE IF ~OutcomeOf(a, i)' THEN g[i - 1]
                      ELSE Averaged(g[i - 1], registryEvents'[i])
<1>1. n \in Nat /\ n' = n + 1
  BY EventAppended
<1>2. \A i \in 0 .. n + 1 : g[i] = next(i)
  BY <1>1 DEF IsAverage, Averaged
<1> HIDE DEF next
<1>3. \A i \in 1 .. n : OutcomeOf(a, i)' <=> OutcomeOf(a, i)
  BY EventAppended DEF OutcomeOf
<1>4. \A i \in 0 .. n : h[i] = IF i = 0 THEN Opening
                               ELSE IF ~OutcomeOf(a, i) THEN h[i - 1]
                               ELSE Averaged(h[i - 1], registryEvents[i])
  <2> SUFFICES ASSUME NEW i \in 0 .. n
               PROVE  h[i] = IF i = 0 THEN Opening
                             ELSE IF ~OutcomeOf(a, i) THEN h[i - 1]
                             ELSE Averaged(h[i - 1], registryEvents[i])
    OBVIOUS
  <2>1. h[i] = next(i)
    BY <1>1, <1>2
  <2>2. CASE i = 0
    BY <2>1, <2>2 DEF next
  <2>3. CASE i # 0
    <3>1. i \in 1 .. n /\ i - 1 \in 0 .. n
      BY <1>1, <2>3
    <3>2. h[i - 1] = g[i - 1] /\ registryEvents'[i] = registryEvents[i]
      BY <3>1, EventAppended
    <3> QED
      BY <2>1, <2>3, <3>1, <3>2, <1>3 DEF next
  <2> QED
    BY <2>2, <2>3
<1>5. IsAverage(a, h)
  BY <1>4 DEF IsAverage, Averaged
<1>6. g[n + 1] = IF e.name = "OutcomeRecorded" /\ e.id = a
                 THEN Averaged(h[n], e) ELSE h[n]
  <2>1. g[n + 1] = next(n + 1) /\ n + 1 # 0 /\ (n + 1) - 1 = n
    BY <1>1, <1>2
  <2>2. h[n] = g[n]
    BY <1>1
  <2>3. OutcomeOf(a, n + 1)' <=> e.name = "OutcomeRecorded" /\ e.id = a
    BY <1>1, EventAppended DEF OutcomeOf
  <2>4. registryEvents'[n + 1] = e
    BY EventAppended
  <2> QED
    BY <2>1, <2>2, <2>3, <2>4 DEF next
<1> QED
  BY <1>1, <1>5, <1>6

(* ... and an average of the shorter history extends to one of the longer. *)
LEMMA AverageExtends ==
    ASSUME TypeOK, NEW e, registryEvents' = Append(registryEvents, e), NEW a,
           NEW h, IsAverage(a, h), NEW last,
           last = IF e.name = "OutcomeRecorded" /\ e.id = a
                  THEN Averaged(h[LastEvent], e) ELSE h[LastEvent],
           NEW g, g = [i \in 0 .. LastEvent + 1 |-> IF i = LastEvent + 1 THEN last ELSE h[i]]
    PROVE  IsAverage(a, g)'
<1> DEFINE n == LastEvent
           next(i) == IF i = 0 THEN Opening
                      ELSE IF ~OutcomeOf(a, i)' THEN g[i - 1]
                      ELSE Averaged(g[i - 1], registryEvents'[i])
<1>1. n \in Nat /\ n' = n + 1
  BY EventAppended
<1>2. \A i \in 0 .. n : h[i] = IF i = 0 THEN Opening
                               ELSE IF ~OutcomeOf(a, i) THEN h[i - 1]
                               ELSE Averaged(h[i - 1], registryEvents[i])
  BY DEF IsAverage, Averaged
<1>3. /\ g[n + 1] = last
      /\ \A i \in 0 .. n : g[i] = h[i]
      /\ DOMAIN g = 0 .. n + 1
  BY <1>1
<1>4. g = [i \in 0 .. n + 1 |-> g[i]]
  BY <1>3
<1>5. ASSUME NEW i \in 0 .. n + 1 PROVE g[i] = next(i)
  <2>1. CASE i = 0
    BY <2>1, <1>1, <1>2, <1>3
  <2>2. CASE i \in 1 .. n
    <3>1. g[i] = h[i] /\ g[i - 1] = h[i - 1] /\ i \in 0 .. n /\ i # 0
      BY <1>1, <1>3, <2>2
    <3>2. registryEvents'[i] = registryEvents[i] /\ (OutcomeOf(a, i)' <=> OutcomeOf(a, i))
      BY <2>2, EventAppended DEF OutcomeOf
    <3> QED
      BY <1>2, <3>1, <3>2
  <2>3. CASE i = n + 1
    <3>1. i # 0 /\ i - 1 = n /\ g[n] = h[n]
      BY <1>1, <1>3, <2>3
    <3>2. registryEvents'[i] = e /\ (OutcomeOf(a, i)' <=> e.name = "OutcomeRecorded" /\ e.id = a)
      BY <2>3, EventAppended DEF OutcomeOf
    <3>3. next(i) = last
      BY <3>1, <3>2
    <3> QED
      BY <1>3, <2>3, <3>3
  <2>4. i = 0 \/ i \in 1 .. n \/ i = n + 1
    BY <1>1
  <2> HIDE DEF next
  <2> QED
    BY <2>1, <2>2, <2>3, <2>4
<1> HIDE DEF next
<1> QED
  BY <1>1, <1>4, <1>5 DEF IsAverage, Averaged, next

(* How far a stored reputation may be from an exact average: the bound of  *)
(* DriftBounded, with the types that its arithmetic needs.                 *)
Near(x, rep) ==
    /\ x.scale \in Nat \ {0}
    /\ x.value \in Int
    /\ 0 <= x.value - rep * x.scale
    /\ x.value - rep * x.scale < 5 * x.scale

AverageInv ==
    \A a \in AgentIds :
        /\ \E after : IsAverage(a, after)
        /\ \A after : IsAverage(a, after) =>
               IF IsRegistered(a)
               THEN Near(after[LastEvent], agents[a].reputation)
               ELSE after[LastEvent] = Opening

LEMMA AverageInit == Init => AverageInv
<1> SUFFICES ASSUME Init, NEW a \in AgentIds
             PROVE  /\ \E after : IsAverage(a, after)
                    /\ \A after : IsAverage(a, after) => after[LastEvent] = Opening
  BY DEF Init, IsRegistered, AverageInv
<1>1. LastEvent = 0
  BY DEF Init, LastEvent
<1>2. IsAverage(a, [i \in 0 .. 0 |-> Opening])
  BY <1>1 DEF IsAverage
<1>3. ASSUME NEW after, IsAverage(a, after) PROVE after[LastEvent] = Opening
  BY <1>1, <1>3 DEF IsAverage
<1> QED
  BY <1>2, <1>3

(* The remainder r that an update drops weighs r scales; four fifths of    *)
(* the drift before it, at most, are left.                                 *)
LEMMA DriftUpdate ==
    ASSUME NEW rep \in 0 .. Bps, NEW e, e.correct \in BOOLEAN, NEW x, Near(x, rep)
    PROVE  Near(Averaged(x, e), UpdatedReputation(rep, e.correct))
<1> DEFINE s == x.scale
           v == x.value
           o == OutcomeBps(e.correct)
           new == (4 * rep + o) \div 5
           r == (4 * rep + o) - 5 * new
<1>1. rep \in Nat /\ s \in Nat \ {0} /\ v \in Int
  BY DEF Near
<1>2. o \in Nat
  BY DEF OutcomeBps, Bps
<1>3. UpdatedReputation(rep, e.correct) = new
  BY UpdateInFifths
<1>4. new \in Nat /\ r \in Nat /\ r < 5
  BY <1>1, <1>2
<1> DEFINE w == 4 * v + s * o
<1>5. 0 <= v - rep * s /\ v - rep * s < 5 * s
  BY DEF Near
<1> HIDE DEF s, v, o
<1>6. 4 * rep + o = 5 * new + r
  BY <1>1, <1>2, <1>4
<1> HIDE DEF new, r
<1>7. s * (4 * rep + o) = s * (5 * new + r)
  BY <1>6
<1>8. w - new * (5 * s) = 4 * (v - rep * s) + s * r
  BY <1>1, <1>2, <1>4, <1>7
<1>9. 0 <= s * r /\ s * r < 5 * s
  BY <1>1, <1>4
<1>10. 0 <= w - new * (5 * s) /\ w - new * (5 * s) < 5 * (5 * s)
  <2> DEFINE d == v - rep * s
             q == s * r
  <2>1. d \in Int /\ q \in Int /\ 0 <= d /\ d < 5 * s /\ 0 <= q /\ q < 5 * s
    BY <1>1, <1>4, <1>5, <1>9
  <2> HIDE DEF d, q
  <2>2. 0 <= 4 * d + q /\ 4 * d + q < 5 * (5 * s)
    BY <1>1, <2>1
  <2> QED
    BY <1>8, <2>2 DEF d, q
<1>11. 5 * s \in Nat \ {0} /\ w \in Int
  BY <1>1, <1>2
<1>12. Averaged(x, e) = [scale |-> 5 * s, value |-> w]
  BY DEF Averaged, s, v, o
<1> HIDE DEF w
<1>13. Near([scale |-> 5 * s, value |-> w], new)
  BY <1>10, <1>11 DEF Near
<1> QED
  BY <1>3, <1>12, <1>13

LEMMA OpeningIsNear == Near(Opening, InitialReputationBps)
BY DEF Near, Opening, InitialReputationBps

LEMMA AverageAppend ==
    ASSUME TypeOK, AverageInv, NEW e, registryEvents' = Append(registryEvents, e),
           NEW a \in AgentIds,
           NEW isOutcome \in BOOLEAN,
           isOutcome <=> e.name = "OutcomeRecorded" /\ e.id = a,
           isOutcome => IsRegistered(a) /\ e.correct \in BOOLEAN,
           IsRegistered(a) =>
               /\ IsRegistered(a)'
               /\ agents[a].reputation \in 0 .. Bps
               /\ agents'[a].reputation = IF isOutcome
                                          THEN UpdatedReputation(agents[a].reputation, e.correct)
                                          ELSE agents[a].reputation,
           ~IsRegistered(a) /\ IsRegistered(a)' => agents'[a].reputation = InitialReputationBps
    PROVE  /\ \E after : IsAverage(a, after)'
           /\ \A after : IsAverage(a, after)' =>
                  IF IsRegistered(a)'
                  THEN Near(after[LastEvent'], agents'[a].reputation)
                  ELSE after[LastEvent'] = Opening
<1> DEFINE n == LastEvent
<1>1. n \in Nat /\ n' = n + 1
  BY EventAppended
<1>2. \E after : IsAverage(a, after)'
  <2>1. PICK h : IsAverage(a, h)
    BY DEF AverageInv
  <2>2. PICK last : last = IF e.name = "OutcomeRecorded" /\ e.id = a
                           THEN Averaged(h[LastEvent], e) ELSE h[LastEvent]
    OBVIOUS
  <2>3. PICK g : g = [i \in 0 .. LastEvent + 1 |-> IF i = LastEvent + 1 THEN last ELSE h[i]]
    OBVIOUS
  <2>4. IsAverage(a, g)'
    BY <2>1, <2>2, <2>3, AverageExtends
  <2> QED
    BY <2>4
<1>3. ASSUME NEW after, IsAverage(a, after)'
      PROVE  IF IsRegistered(a)'
             THEN Near(after[LastEvent'], agents'[a].reputation)
             ELSE after[LastEvent'] = Opening
  <2>1. PICK h : h = [i \in 0 .. LastEvent |-> after[i]]
    OBVIOUS
  <2>2. /\ IsAverage(a, h)
        /\ after[n'] = IF isOutcome THEN Averaged(h[n], e) ELSE h[n]
    BY <1>1, <1>3, <2>1, AverageRestricts
  <2>3. IF IsRegistered(a) THEN Near(h[n], agents[a].reputation) ELSE h[n] = Opening
    BY <2>2 DEF AverageInv
  <2>4. CASE isOutcome
    BY <2>2, <2>3, <2>4, DriftUpdate
  <2>5. CASE ~isOutcome /\ IsRegistered(a)
    BY <2>2, <2>3, <2>5
  <2>6. CASE ~isOutcome /\ ~IsRegistered(a)
    BY <2>2, <2>3, <2>6, OpeningIsNear
  <2> QED
    BY <2>4, <2>5, <2>6
<1> QED
  BY <1>2, <1>3

(***************************************************************************)
(* Both histories along a behaviour.                                       *)
(***************************************************************************)
HistoryInv == ReplayInv /\ AverageInv

LEMMA HistoryRegister ==
    ASSUME RegistryInv, HistoryInv, NEW caller \in Accounts, NEW b \in AgentIds,
           RegisterAgent(caller, b)
    PROVE  HistoryInv'
<1>1. PICK e : e = [name |-> "AgentRegistered", id |-> b]
  OBVIOUS
<1>2. /\ registryEvents' = Append(registryEvents, e)
      /\ e.name = "AgentRegistered" /\ e.id = b
      /\ ~IsRegistered(b)
      /\ agents'[b] = Start
      /\ \A a \in AgentIds \ {b} : agents'[a] = agents[a]
  BY <1>1 DEF RegisterAgent, CanRegister, RegistryInv, TypeOK, Start
<1>3. Start # NoAgent
  <2>1. Start \in AgentInfo
    BY DEF Start, AgentInfo, InitialReputationBps, Bps
  <2> QED
    BY <2>1, RegistryAssumption
<1>4. Start.reputation = InitialReputationBps
  BY DEF Start
<1>5. ASSUME NEW a \in AgentIds, IsRegistered(a)
      PROVE  agents[a].reputation \in 0 .. Bps
  BY <1>5 DEF IsRegistered, RegistryInv, TypeOK, AgentInfo
<1>6. ReplayInv'
  <2> SUFFICES ASSUME NEW a \in AgentIds
               PROVE  /\ \E after : IsReplay(a, after)'
                      /\ \A after : IsReplay(a, after)' => Agrees(a, after)'
    BY DEF ReplayInv
  <2>1. IsRegistered(a)' <=> IsRegistered(a) \/ a = b
    BY <1>2, <1>3 DEF IsRegistered
  <2>2. IsRegistered(a)' => agents'[a] = Standing(a)
    BY <1>2, <2>1 DEF Standing
  <2>3. ~(e.name = "OutcomeRecorded" /\ e.id = a)
    BY <1>2
  <2> QED
    BY <1>2, <2>1, <2>2, <2>3, ReplayAppend DEF RegistryInv, HistoryInv
<1>7. AverageInv'
  <2> SUFFICES ASSUME NEW a \in AgentIds
               PROVE  /\ \E after : IsAverage(a, after)'
                      /\ \A after : IsAverage(a, after)' =>
                             IF IsRegistered(a)'
                             THEN Near(after[LastEvent'], agents'[a].reputation)
                             ELSE after[LastEvent'] = Opening
    BY DEF AverageInv
  <2>1. IsRegistered(a)' <=> IsRegistered(a) \/ a = b
    BY <1>2, <1>3 DEF IsRegistered
  <2>2. ~(e.name = "OutcomeRecorded" /\ e.id = a)
    BY <1>2
  <2>3. IsRegistered(a) => agents'[a] = agents[a]
    BY <1>2
  <2>4. ~IsRegistered(a) /\ IsRegistered(a)' => agents'[a].reputation = InitialReputationBps
    BY <1>2, <1>4, <2>1
  <2> QED
    BY <1>2, <1>5, <2>1, <2>2, <2>3, <2>4, AverageAppend DEF RegistryInv, HistoryInv
<1> QED
  BY <1>6, <1>7 DEF HistoryInv

LEMMA HistoryOutcome ==
    ASSUME RegistryInv, HistoryInv, NEW caller \in Accounts, NEW b \in AgentIds,
           NEW correct \in Outcomes, RecordOutcome(caller, b, correct)
    PROVE  HistoryInv'
<1>0. correct \in BOOLEAN
  BY RegistryAssumption
<1>1. IsRegistered(b) /\ agents[b] \in AgentInfo
  BY DEF RecordOutcome, IsRegistered, RegistryInv, TypeOK
<1>2. PICK rep : rep = UpdatedReputation(agents[b].reputation, correct)
  OBVIOUS
<1>3. PICK e : e = [name |-> "OutcomeRecorded", id |-> b,
                    correct |-> correct, reputation |-> rep]
  OBVIOUS
<1>4. /\ registryEvents' = Append(registryEvents, e)
      /\ e.name = "OutcomeRecorded" /\ e.id = b /\ e.correct = correct /\ e.reputation = rep
      /\ agents'[b] = Replayed(agents[b], e)
      /\ \A a \in AgentIds \ {b} : agents'[a] = agents[a]
  BY <1>2, <1>3 DEF RecordOutcome, RegistryInv, TypeOK, Replayed
<1>5. agents'[b].reputation = rep
  BY <1>4 DEF Replayed
<1>6. IsRegistered(b)'
  BY OutcomeKeeps, <1>1, <1>4 DEF OutcomesPayOffStep, Scored, IsRegistered
<1>7. ASSUME NEW a \in AgentIds, IsRegistered(a)
      PROVE  agents[a].reputation \in 0 .. Bps
  BY <1>7 DEF IsRegistered, RegistryInv, TypeOK, AgentInfo
<1>8. rep = (4 * agents[b].reputation + OutcomeBps(correct)) \div 5
  BY <1>0, <1>1, <1>2, <1>7, UpdateInFifths
<1>9. ReplayInv'
  <2> SUFFICES ASSUME NEW a \in AgentIds
               PROVE  /\ \E after : IsReplay(a, after)'
                      /\ \A after : IsReplay(a, after)' => Agrees(a, after)'
    BY DEF ReplayInv
  <2>1. CASE a = b
    <3>1. Standing(a) = agents[b]
      BY <1>1, <2>1 DEF Standing
    <3> QED
      BY <1>1, <1>4, <1>6, <1>8, <2>1, <3>1, ReplayAppend DEF RegistryInv, HistoryInv
  <2>2. CASE a # b
    <3>1. (IsRegistered(a)' <=> IsRegistered(a)) /\ (IsRegistered(a)' => agents'[a] = Standing(a))
      BY <1>4, <2>2 DEF Standing, IsRegistered
    <3> QED
      BY <1>4, <2>2, <3>1, ReplayAppend DEF RegistryInv, HistoryInv
  <2> QED
    BY <2>1, <2>2
<1>10. AverageInv'
  <2> SUFFICES ASSUME NEW a \in AgentIds
               PROVE  /\ \E after : IsAverage(a, after)'
                      /\ \A after : IsAverage(a, after)' =>
                             IF IsRegistered(a)'
                             THEN Near(after[LastEvent'], agents'[a].reputation)
                             ELSE after[LastEvent'] = Opening
    BY DEF AverageInv
  <2>1. CASE a = b
    BY <1>0, <1>1, <1>2, <1>4, <1>5, <1>6, <1>7, <2>1, AverageAppend DEF RegistryInv, HistoryInv
  <2>2. CASE a # b
    <3>1. (IsRegistered(a)' <=> IsRegistered(a)) /\ agents'[a] = agents[a]
      BY <1>4, <2>2 DEF IsRegistered
    <3> QED
      BY <1>4, <1>7, <2>2, <3>1, AverageAppend DEF RegistryInv, HistoryInv
  <2> QED
    BY <2>1, <2>2
<1> QED
  BY <1>9, <1>10 DEF HistoryInv

LEMMA HistoryStutter == HistoryInv /\ UNCHANGED vars => HistoryInv'
BY DEF vars, HistoryInv, ReplayInv, AverageInv, IsReplay, IsAverage, Agrees, OutcomeOf,
       LastEvent, IsRegistered

LEMMA HistoryCorrect == Spec => []HistoryInv
<1>1. RegistryInv /\ HistoryInv /\ [Next]_vars => HistoryInv'
  BY HistoryRegister, HistoryOutcome, HistoryStutter DEF Next
<1>2. Init => HistoryInv
  BY ReplayInit, AverageInit DEF HistoryInv
<1> QED
  BY <1>1, <1>2, RegistryInit, RegistryStep, PTL DEF Spec

(* Replaying an agent's events off-chain gives the stored reputation and   *)
(* counters, and every event announced the reputation of its own moment:   *)
(* for every history, of any number of agents.                             *)
THEOREM ReplayCorrect == Spec => []Reproducible
<1>1. HistoryInv => Reproducible
  <2> SUFFICES ASSUME HistoryInv, NEW a \in AgentIds PROVE Agrees(a, Replay(a))
    BY DEF Reproducible, Agrees, LastEvent
  <2>1. IsReplay(a, Replay(a))
    BY ReplayIsChosen DEF HistoryInv, ReplayInv
  <2> QED
    BY <2>1 DEF HistoryInv, ReplayInv
<1> QED
  BY <1>1, HistoryCorrect, PTL

(* The roundings never add up to five basis points, after any number of    *)
(* outcomes.                                                               *)
THEOREM DriftIsBounded == Spec => []DriftBounded
<1>1. HistoryInv => DriftBounded
  <2> SUFFICES ASSUME HistoryInv, NEW a \in AgentIds, IsRegistered(a)
               PROVE  Near(Exact(a), agents[a].reputation)
    BY DEF DriftBounded, Near
  <2>1. IsAverage(a, CHOOSE after : IsAverage(a, after))
    BY DEF HistoryInv, AverageInv
  <2> QED
    BY <2>1, ExactIsChosen DEF HistoryInv, AverageInv
<1> QED
  BY <1>1, HistoryCorrect, PTL
=============================================================================
