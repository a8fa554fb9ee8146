-------------------------- MODULE SubmissionProofs --------------------------
(* Proofs about the decision log alone, about the log and the treasuries   *)
(* that call it, for every set of addresses, of request ids, of treasuries *)
(* and of sleeves, and every argument; and then about the submission of    *)
(* reviews to the two contracts, for every number of concurrent runs,      *)
(* every set of deliberations and every setting of the client.             *)
EXTENDS Submission, AllocationProofs

(***************************************************************************)
(* The decision log: its type.                                             *)
(***************************************************************************)
(* A recording of any two numbers that the guard lets through is typed.    *)
LEMMA LogTypeRecord ==
    ASSUME LogTypeOK, NEW caller \in Addresses, NEW id \in RequestIds, NEW v \in Nat,
           NEW h \in Hashes, NEW f \in Nat, RecordDecision(caller, id, v, h, f)
    PROVE  LogTypeOK'
<1>1. v \in Verdicts /\ f \in 0 .. TotalBps
  BY LogAssumption DEF RecordDecision, CanRecord, ValidFraction, Verdicts,
              VERDICT_APPROVE, VERDICT_ABSTAIN_UPHELD
<1>2. [verdict |-> v, hashes |-> h, fraction |-> f, executed |-> FALSE] \in Decision
  BY <1>1 DEF Decision
<1>3. [name |-> "DecisionRecorded", id |-> id, verdict |-> v,
       hashes |-> h, fraction |-> f, by |-> caller] \in DecisionRecorded
  BY <1>1 DEF DecisionRecorded
<1> QED
  BY <1>2, <1>3 DEF RecordDecision, LogTypeOK

(* What the three kinds of effect leave typed.                             *)
LEMMA LogTypeStep ==
    ASSUME LogTypeOK, NEW caller \in Addresses, LogCall(caller)
    PROVE  LogTypeOK'
<1> USE DEF LogTypeOK
<1>1. CASE \E t \in Addresses : SetTreasury(caller, t)
  BY <1>1 DEF SetTreasury, CanSetTreasury
<1>2. CASE \E id \in RequestIds, v \in VerdictArgs, h \in Hashes, f \in FractionArgs :
               RecordDecision(caller, id, v, h, f)
  BY <1>2, LogTypeRecord, LogAssumption
<1>3. CASE \E id \in RequestIds : MarkExecuted(caller, id)
  <2>1. PICK id \in RequestIds : MarkExecuted(caller, id)
    BY <1>3
  <2>2. decisions[id] \in Decision
    BY <2>1 DEF MarkExecuted, CanMark, IsRecorded
  <2>3. [decisions[id] EXCEPT !.executed = TRUE] \in Decision
    BY <2>2 DEF Decision
  <2>4. [name |-> "DecisionExecuted", id |-> id, by |-> caller] \in DecisionExecuted
    BY DEF DecisionExecuted
  <2> QED
    BY <2>1, <2>3, <2>4 DEF MarkExecuted
<1> QED
  BY <1>1, <1>2, <1>3 DEF LogCall

LEMMA LogTypeInit == LogInit => LogTypeOK
BY DEF LogInit, LogTypeOK

(* Type correctness of the log: no call stores a verdict code or a         *)
(* fraction out of range, for every u8 and u32 argument.                   *)
THEOREM LogTypeCorrect == LogSpec => []LogTypeOK
<1>1. LogTypeOK /\ [LogNext]_logVars => LogTypeOK'
  <2> SUFFICES ASSUME LogTypeOK, [LogNext]_logVars PROVE LogTypeOK'
    OBVIOUS
  <2>1. CASE LogNext
    BY <2>1, LogTypeStep DEF LogNext
  <2>2. CASE UNCHANGED logVars
    BY <2>2 DEF logVars, LogTypeOK
  <2> QED
    BY <2>1, <2>2
<1> QED
  BY LogTypeInit, <1>1, PTL DEF LogSpec

(***************************************************************************)
(* The trail.  Given the types, TrailMatchesLog is inductive.              *)
(***************************************************************************)
LEMMA TrailInit == LogInit => TrailMatchesLog
BY DEF LogInit, TrailMatchesLog, TrailIsExact, RecordedOnce, ExecutedOnce,
       IsRecorded, Recording, Execution

(* Wiring the treasury leaves the trail alone; no execution was marked     *)
(* before it, for want of an address that could mark one.                  *)
LEMMA TrailSetTreasury ==
    ASSUME LogTypeOK, TrailMatchesLog,
           NEW caller \in Addresses, NEW t \in Addresses, SetTreasury(caller, t)
    PROVE  TrailMatchesLog'
<1> USE DEF LogTypeOK, SetTreasury, CanSetTreasury
<1>1. TrailIsExact' /\ RecordedOnce'
  BY DEF TrailMatchesLog, TrailIsExact, RecordedOnce, IsRecorded, Recording
<1>2. \A i \in DOMAIN logEvents : ~Execution(i)
  <2> SUFFICES ASSUME NEW i \in DOMAIN logEvents, Execution(i) PROVE FALSE
    OBVIOUS
  <2>1. logEvents[i] \in DecisionRecorded \cup DecisionExecuted
    OBVIOUS
  <2>2. logEvents[i] \in DecisionExecuted
    BY <2>1 DEF Execution, DecisionRecorded
  <2>3. logEvents[i].by \in Addresses
    BY <2>2 DEF DecisionExecuted
  <2> QED
    BY <2>3, LogAssumption DEF TrailMatchesLog, ExecutedOnce
<1>3. ExecutedOnce'
  BY <1>2 DEF TrailMatchesLog, ExecutedOnce, IsRecorded, Recording, Execution
<1> QED
  BY <1>1, <1>3 DEF TrailMatchesLog

(* A recording appends an id and an event for a key never written.         *)
LEMMA TrailRecord ==
    ASSUME LogTypeOK, TrailMatchesLog,
           NEW caller \in Addresses, NEW id \in RequestIds, NEW v \in VerdictArgs,
           NEW h \in Hashes, NEW f \in FractionArgs,
           RecordDecision(caller, id, v, h, f)
    PROVE  TrailMatchesLog'
<1> DEFINE d == [verdict |-> v, hashes |-> h, fraction |-> f, executed |-> FALSE]
           e == [name |-> "DecisionRecorded", id |-> id, verdict |-> v,
                 hashes |-> h, fraction |-> f, by |-> caller]
<1>1. /\ ~IsRecorded(id)
      /\ caller = council
      /\ decisions' = [decisions EXCEPT ![id] = d]
      /\ requestIds' = Append(requestIds, id)
      /\ logEvents' = Append(logEvents, e)
      /\ UNCHANGED <<council, treasury>>
  BY DEF RecordDecision, CanRecord
<1>2. d # NoDecision
  <2>1. v \in Verdicts /\ f \in 0 .. TotalBps
    BY LogAssumption DEF RecordDecision, CanRecord, ValidFraction, Verdicts,
                         VERDICT_APPROVE, VERDICT_ABSTAIN_UPHELD
  <2>2. d \in Decision
    BY <2>1 DEF Decision
  <2> QED
    BY <2>2, LogAssumption
<1> HIDE DEF d
<1>3. /\ logEvents' \in Seq(DecisionRecorded \cup DecisionExecuted)
      /\ requestIds' \in Seq(RequestIds)
  BY LogTypeStep DEF LogCall, LogTypeOK
<1>4. /\ decisions'[id] = d
      /\ \A r \in RequestIds \ {id} : decisions'[r] = decisions[r]
  BY <1>1 DEF LogTypeOK
<1>5. /\ DOMAIN logEvents' = 1 .. Len(logEvents) + 1
      /\ DOMAIN logEvents = 1 .. Len(logEvents)
      /\ Len(logEvents) \in Nat
      /\ \A i \in 1 .. Len(logEvents) : logEvents'[i] = logEvents[i]
      /\ logEvents'[Len(logEvents) + 1] = e
  BY <1>1 DEF LogTypeOK
<1>6. TrailIsExact'
  <2>1. \A i \in DOMAIN requestIds : requestIds[i] # id
    BY <1>1 DEF TrailMatchesLog, TrailIsExact, LogTypeOK
  <2>2. /\ DOMAIN requestIds' = 1 .. Len(requestIds) + 1
        /\ DOMAIN requestIds = 1 .. Len(requestIds)
        /\ Len(requestIds) \in Nat
        /\ \A i \in 1 .. Len(requestIds) : requestIds'[i] = requestIds[i]
        /\ requestIds'[Len(requestIds) + 1] = id
    BY <1>1 DEF LogTypeOK
  <2>3. \A i, j \in DOMAIN requestIds' : requestIds'[i] = requestIds'[j] => i = j
    BY <2>1, <2>2 DEF TrailMatchesLog, TrailIsExact
  <2>4. \A r \in RequestIds :
            IsRecorded(r)' <=> \E i \in DOMAIN requestIds' : requestIds'[i] = r
    BY <1>2, <1>4, <2>1, <2>2 DEF TrailMatchesLog, TrailIsExact, IsRecorded
  <2> QED
    BY <2>3, <2>4 DEF TrailIsExact
<1>7. \A i \in DOMAIN logEvents : logEvents[i].id \in RequestIds \ {id}
  <2> SUFFICES ASSUME NEW i \in DOMAIN logEvents
               PROVE  logEvents[i].id \in RequestIds \ {id}
    OBVIOUS
  <2>1. logEvents[i] \in DecisionRecorded \cup DecisionExecuted
    BY DEF LogTypeOK
  <2>2. logEvents[i].id \in RequestIds /\ (Recording(i) \/ Execution(i))
    BY <2>1 DEF DecisionRecorded, DecisionExecuted, Recording, Execution
  <2>3. IsRecorded(logEvents[i].id)
    BY <2>2 DEF TrailMatchesLog, RecordedOnce, ExecutedOnce, IsRecorded
  <2> QED
    BY <1>1, <2>2, <2>3
<1>8. RecordedOnce'
  <2>1. /\ \A i \in DOMAIN logEvents : Recording(i)' <=> Recording(i)
        /\ \A i \in DOMAIN logEvents' : i = Len(logEvents) + 1 => Recording(i)'
    BY <1>5 DEF Recording
  <2>2. \A r \in RequestIds : IsRecorded(r)' =>
            \E i \in DOMAIN logEvents' : Recording(i)' /\ logEvents'[i].id = r
    BY <1>4, <1>5, <2>1 DEF TrailMatchesLog, RecordedOnce, IsRecorded, Recording
  <2>3. \A i \in DOMAIN logEvents' : Recording(i)' =>
            /\ decisions'[logEvents'[i].id] # NoDecision
            /\ decisions'[logEvents'[i].id].verdict = logEvents'[i].verdict
            /\ decisions'[logEvents'[i].id].hashes = logEvents'[i].hashes
            /\ decisions'[logEvents'[i].id].fraction = logEvents'[i].fraction
            /\ logEvents'[i].by = council'
    <3> SUFFICES ASSUME NEW i \in DOMAIN logEvents', Recording(i)'
                 PROVE  /\ decisions'[logEvents'[i].id] # NoDecision
                        /\ decisions'[logEvents'[i].id].verdict = logEvents'[i].verdict
                        /\ decisions'[logEvents'[i].id].hashes = logEvents'[i].hashes
                        /\ decisions'[logEvents'[i].id].fraction = logEvents'[i].fraction
                        /\ logEvents'[i].by = council'
      OBVIOUS
    <3>1. CASE i \in DOMAIN logEvents
      BY <3>1, <1>1, <1>4, <1>5, <1>7, <2>1 DEF TrailMatchesLog, RecordedOnce
    <3>2. CASE i = Len(logEvents) + 1
      BY <3>2, <1>1, <1>2, <1>4, <1>5 DEF d
    <3> QED
      BY <3>1, <3>2, <1>5
  <2>4. \A i, j \in DOMAIN logEvents' :
            Recording(i)' /\ Recording(j)' /\ logEvents'[i].id = logEvents'[j].id => i = j
    BY <1>5, <1>7, <2>1 DEF TrailMatchesLog, RecordedOnce
  <2> QED
    BY <2>2, <2>3, <2>4 DEF RecordedOnce
<1>9. ExecutedOnce'
  <2>1. /\ \A i \in DOMAIN logEvents : Execution(i)' <=> Execution(i)
        /\ \A i \in DOMAIN logEvents : Recording(i)' <=> Recording(i)
        /\ \A i \in DOMAIN logEvents' : i = Len(logEvents) + 1 => ~Execution(i)'
    BY <1>5 DEF Execution, Recording
  <2>2. \A r \in RequestIds : IsRecorded(r)' /\ decisions'[r].executed =>
            \E i \in DOMAIN logEvents' : Execution(i)' /\ logEvents'[i].id = r
    BY <1>4, <1>5, <2>1 DEF d, TrailMatchesLog, ExecutedOnce, IsRecorded
  <2>3. \A i \in DOMAIN logEvents' : Execution(i)' =>
            /\ IsRecorded(logEvents[i].id)'
            /\ decisions'[logEvents'[i].id].executed
            /\ logEvents'[i].by = treasury'
            /\ \E j \in 1 .. (i - 1) :
                   /\ Recording(j)'
                   /\ logEvents'[j].id = logEvents'[i].id
                   /\ logEvents'[j].verdict \in Executable
    BY <1>1, <1>4, <1>5, <1>7, <2>1 DEF TrailMatchesLog, ExecutedOnce, IsRecorded
  <2>4. \A i, j \in DOMAIN logEvents' :
            Execution(i)' /\ Execution(j)' /\ logEvents'[i].id = logEvents'[j].id => i = j
    BY <1>5, <1>7, <2>1 DEF TrailMatchesLog, ExecutedOnce
  <2> QED
    BY <2>2, <2>3, <2>4 DEF ExecutedOnce
<1> QED
  BY <1>6, <1>8, <1>9 DEF TrailMatchesLog

(* Marking appends one event for an id that was recorded as executable and *)
(* has no such event yet.                                                  *)
LEMMA TrailMark ==
    ASSUME LogTypeOK, TrailMatchesLog,
           NEW caller \in Addresses, NEW id \in RequestIds, MarkExecuted(caller, id)
    PROVE  TrailMatchesLog'
<1> DEFINE d == [decisions[id] EXCEPT !.executed = TRUE]
           e == [name |-> "DecisionExecuted", id |-> id, by |-> caller]
<1>1. /\ caller = treasury
      /\ IsRecorded(id)
      /\ ~decisions[id].executed
      /\ decisions[id].verdict \in Executable
      /\ decisions' = [decisions EXCEPT ![id] = d]
      /\ logEvents' = Append(logEvents, e)
      /\ UNCHANGED <<council, treasury, requestIds>>
  BY DEF MarkExecuted, CanMark
<1>2. /\ d \in Decision
      /\ d # NoDecision
      /\ d.executed
      /\ d.verdict = decisions[id].verdict
      /\ d.hashes = decisions[id].hashes
      /\ d.fraction = decisions[id].fraction
  <2>1. decisions[id] \in Decision
    BY <1>1 DEF LogTypeOK, IsRecorded
  <2> QED
    BY <2>1, LogAssumption DEF Decision
<1> HIDE DEF d
<1>3. /\ decisions'[id] = d
      /\ \A r \in RequestIds \ {id} : decisions'[r] = decisions[r]
  BY <1>1 DEF LogTypeOK
<1>4. /\ DOMAIN logEvents' = 1 .. Len(logEvents) + 1
      /\ DOMAIN logEvents = 1 .. Len(logEvents)
      /\ Len(logEvents) \in Nat
      /\ \A i \in 1 .. Len(logEvents) : logEvents'[i] = logEvents[i]
      /\ logEvents'[Len(logEvents) + 1] = e
  BY <1>1 DEF LogTypeOK
<1>5. \A r \in RequestIds : IsRecorded(r)' <=> IsRecorded(r)
  BY <1>1, <1>2, <1>3 DEF IsRecorded
<1>6. /\ \A i \in DOMAIN logEvents : Recording(i)' <=> Recording(i)
      /\ \A i \in DOMAIN logEvents : Execution(i)' <=> Execution(i)
      /\ \A i \in DOMAIN logEvents' :
             i = Len(logEvents) + 1 => Execution(i)' /\ ~Recording(i)'
  BY <1>4 DEF Recording, Execution
<1>7. \A i \in DOMAIN logEvents : logEvents[i].id \in RequestIds
  <2> SUFFICES ASSUME NEW i \in DOMAIN logEvents PROVE logEvents[i].id \in RequestIds
    OBVIOUS
  <2>1. logEvents[i] \in DecisionRecorded \cup DecisionExecuted
    BY DEF LogTypeOK
  <2> QED
    BY <2>1 DEF DecisionRecorded, DecisionExecuted
<1>8. TrailIsExact'
  BY <1>1, <1>5 DEF TrailMatchesLog, TrailIsExact
<1>9. RecordedOnce'
  <2>1. \A r \in RequestIds : IsRecorded(r)' =>
            \E i \in DOMAIN logEvents' : Recording(i)' /\ logEvents'[i].id = r
    BY <1>4, <1>5, <1>6 DEF TrailMatchesLog, RecordedOnce
  <2>2. \A i \in DOMAIN logEvents' : Recording(i)' =>
            /\ decisions'[logEvents'[i].id] # NoDecision
            /\ decisions'[logEvents'[i].id].verdict = logEvents'[i].verdict
            /\ decisions'[logEvents'[i].id].hashes = logEvents'[i].hashes
            /\ decisions'[logEvents'[i].id].fraction = logEvents'[i].fraction
            /\ logEvents'[i].by = council'
    BY <1>1, <1>2, <1>3, <1>4, <1>6, <1>7 DEF TrailMatchesLog, RecordedOnce
  <2>3. \A i, j \in DOMAIN logEvents' :
            Recording(i)' /\ Recording(j)' /\ logEvents'[i].id = logEvents'[j].id => i = j
    BY <1>4, <1>6 DEF TrailMatchesLog, RecordedOnce
  <2> QED
    BY <2>1, <2>2, <2>3 DEF RecordedOnce
<1>10. ExecutedOnce'
  <2>1. \A i \in DOMAIN logEvents : Execution(i) => logEvents[i].id # id
    BY <1>1 DEF TrailMatchesLog, ExecutedOnce
  <2>2. \E j \in DOMAIN logEvents : Recording(j) /\ logEvents[j].id = id
    BY <1>1 DEF TrailMatchesLog, RecordedOnce
  <2>3. \A r \in RequestIds : IsRecorded(r)' /\ decisions'[r].executed =>
            \E i \in DOMAIN logEvents' : Execution(i)' /\ logEvents'[i].id = r
    <3> SUFFICES ASSUME NEW r \in RequestIds, IsRecorded(r)', decisions'[r].executed
                 PROVE  \E i \in DOMAIN logEvents' : Execution(i)' /\ logEvents'[i].id = r
      OBVIOUS
    <3>1. CASE r = id
      BY <3>1, <1>4, <1>6
    <3>2. CASE r # id
      BY <3>2, <1>3, <1>4, <1>5, <1>6 DEF TrailMatchesLog, ExecutedOnce
    <3> QED
      BY <3>1, <3>2
  <2>4. \A i \in DOMAIN logEvents' : Execution(i)' =>
            /\ IsRecorded(logEvents[i].id)'
            /\ decisions'[logEvents'[i].id].executed
            /\ logEvents'[i].by = treasury'
            /\ \E j \in 1 .. (i - 1) :
                   /\ Recording(j)'
                   /\ logEvents'[j].id = logEvents'[i].id
                   /\ logEvents'[j].verdict \in Executable
    <3> SUFFICES ASSUME NEW i \in DOMAIN logEvents', Execution(i)'
                 PROVE  /\ IsRecorded(logEvents[i].id)'
                        /\ decisions'[logEvents'[i].id].executed
                        /\ logEvents'[i].by = treasury'
                        /\ \E j \in 1 .. (i - 1) :
                               /\ Recording(j)'
                               /\ logEvents'[j].id = logEvents'[i].id
                               /\ logEvents'[j].verdict \in Executable
      OBVIOUS
    <3>1. CASE i \in DOMAIN logEvents
      BY <3>1, <1>1, <1>3, <1>4, <1>5, <1>6, <1>7, <2>1
      DEF TrailMatchesLog, ExecutedOnce
    <3>2. CASE i = Len(logEvents) + 1
      <4>1. PICK j \in DOMAIN logEvents : Recording(j) /\ logEvents[j].id = id
        BY <2>2
      <4>2. logEvents[j].verdict \in Executable
        BY <4>1, <1>1 DEF TrailMatchesLog, RecordedOnce
      <4>3. j \in 1 .. (i - 1) /\ Recording(j)' /\ logEvents'[j] = logEvents[j]
        BY <4>1, <3>2, <1>4, <1>6
      <4>4. logEvents'[i].id = id /\ logEvents'[i].by = treasury'
        BY <3>2, <1>1, <1>4
      <4> QED
        BY <4>1, <4>2, <4>3, <4>4, <1>1, <1>2, <1>3, <1>5
    <3> QED
      BY <3>1, <3>2, <1>4
  <2>5. \A i, j \in DOMAIN logEvents' :
            Execution(i)' /\ Execution(j)' /\ logEvents'[i].id = logEvents'[j].id => i = j
    BY <1>4, <1>6, <2>1 DEF TrailMatchesLog, ExecutedOnce
  <2> QED
    BY <2>3, <2>4, <2>5 DEF ExecutedOnce
<1> QED
  BY <1>8, <1>9, <1>10 DEF TrailMatchesLog

LEMMA TrailStep ==
    ASSUME LogTypeOK, TrailMatchesLog, NEW caller \in Addresses, LogCall(caller)
    PROVE  TrailMatchesLog'
<1>1. CASE \E t \in Addresses : SetTreasury(caller, t)
  BY <1>1, TrailSetTreasury
<1>2. CASE \E id \in RequestIds, v \in VerdictArgs, h \in Hashes, f \in FractionArgs :
               RecordDecision(caller, id, v, h, f)
  BY <1>2, TrailRecord
<1>3. CASE \E id \in RequestIds : MarkExecuted(caller, id)
  BY <1>3, TrailMark
<1> QED
  BY <1>1, <1>2, <1>3 DEF LogCall

LEMMA TrailStutter == TrailMatchesLog /\ UNCHANGED logVars => TrailMatchesLog'
BY DEF logVars, TrailMatchesLog, TrailIsExact, RecordedOnce, ExecutedOnce,
       IsRecorded, Recording, Execution

(* The stored log and its event stream always tell the same story.         *)
THEOREM TrailCorrect == LogSpec => []TrailMatchesLog
<1>1. LogTypeOK /\ TrailMatchesLog /\ [LogNext]_logVars => TrailMatchesLog'
  BY TrailStep, TrailStutter DEF LogNext
<1> QED
  BY LogTypeCorrect, TrailInit, <1>1, PTL DEF LogSpec

(***************************************************************************)
(* Append-only.                                                            *)
(***************************************************************************)
LEMMA PrefixReflexive ==
    ASSUME NEW S, NEW s \in Seq(S)
    PROVE  IsPrefixOf(s, s)
BY DEF IsPrefixOf

LEMMA AppendOnlyCall ==
    ASSUME LogTypeOK, NEW caller \in Addresses, LogCall(caller)
    PROVE  AppendOnlyStep
<1>1. CASE \E t \in Addresses : SetTreasury(caller, t)
  <2>1. IsPrefixOf(requestIds, requestIds) /\ IsPrefixOf(logEvents, logEvents)
    BY PrefixReflexive DEF LogTypeOK
  <2> QED
    BY <1>1, <2>1 DEF SetTreasury, CanSetTreasury, AppendOnlyStep, IsRecorded
<1>2. CASE \E id \in RequestIds, v \in VerdictArgs, h \in Hashes, f \in FractionArgs :
               RecordDecision(caller, id, v, h, f)
  <2>1. PICK id \in RequestIds, v \in VerdictArgs, h \in Hashes, f \in FractionArgs :
            RecordDecision(caller, id, v, h, f)
    BY <1>2
  <2>2. IsPrefixOf(requestIds, requestIds') /\ IsPrefixOf(logEvents, logEvents')
    <3>1. requestIds \in Seq(RequestIds) /\ requestIds' = Append(requestIds, id)
      BY <2>1 DEF LogTypeOK, RecordDecision
    <3>2. /\ logEvents \in Seq(DecisionRecorded \cup DecisionExecuted)
          /\ logEvents' = Append(logEvents,
                 [name |-> "DecisionRecorded", id |-> id, verdict |-> v,
                  hashes |-> h, fraction |-> f, by |-> caller])
      BY <2>1 DEF LogTypeOK, RecordDecision
    <3> QED
      BY <3>1, <3>2 DEF IsPrefixOf
  <2>3. \A r \in RequestIds :
            IF IsRecorded(r)
            THEN decisions'[r] = decisions[r]
            ELSE decisions'[r] # NoDecision => ~decisions'[r].executed
    BY <2>1 DEF LogTypeOK, RecordDecision, CanRecord, IsRecorded
  <2> QED
    BY <2>1, <2>2, <2>3 DEF RecordDecision, AppendOnlyStep
<1>3. CASE \E id \in RequestIds : MarkExecuted(caller, id)
  <2>1. PICK id \in RequestIds : MarkExecuted(caller, id)
    BY <1>3
  <2>2. IsPrefixOf(requestIds, requestIds') /\ IsPrefixOf(logEvents, logEvents')
    BY <2>1 DEF LogTypeOK, MarkExecuted, IsPrefixOf
  <2>3. \A r \in RequestIds :
            IF IsRecorded(r)
            THEN decisions'[r] \in {decisions[r], [decisions[r] EXCEPT !.executed = TRUE]}
            ELSE decisions'[r] # NoDecision => ~decisions'[r].executed
    BY <2>1 DEF LogTypeOK, MarkExecuted, CanMark, IsRecorded
  <2> QED
    BY <2>1, <2>2, <2>3 DEF MarkExecuted, AppendOnlyStep
<1> QED
  BY <1>1, <1>2, <1>3 DEF LogCall

(* No call ever takes anything back from the log.                          *)
THEOREM LogIsAppendOnly == LogSpec => AppendOnly
<1>1. LogTypeOK /\ [LogNext]_logVars => [AppendOnlyStep]_logVars
  BY AppendOnlyCall DEF LogNext
<1> QED
  BY LogTypeCorrect, <1>1, PTL DEF LogSpec, AppendOnly

(***************************************************************************)
(* What a step of the pair is for the log.                                 *)
(***************************************************************************)
LEMMA ReallocateMarks ==
    ASSUME NEW t \in Treasuries, NEW caller, NEW id \in RequestIds, NEW ids, NEW ws,
           Reallocate(t, caller, id, ids, ws)
    PROVE  t \in Addresses /\ LogCall(t) /\ MarkExecuted(t, id)
<1>1. t \in Addresses
  BY TreasuryAssumption
<1>2. MarkExecuted(t, id)
  BY DEF Reallocate
<1> QED
  BY <1>1, <1>2 DEF LogCall

LEMMA StepIsLogStep == [Next]_vars => [LogNext]_logVars
<1> SUFFICES ASSUME [Next]_vars PROVE [LogNext]_logVars
  OBVIOUS
<1>1. CASE UNCHANGED vars
  BY <1>1 DEF vars
<1>2. CASE \E caller \in Accounts : LogCall(caller) /\ UNCHANGED treasuryVars
  BY <1>2 DEF Accounts, LogNext
<1>3. CASE \E caller \in Accounts, t \in Treasuries : TreasuryCall(t, caller)
  <2>1. PICK caller \in Accounts, t \in Treasuries : TreasuryCall(t, caller)
    BY <1>3
  <2>2. CASE \E amount \in Amounts : Deposit(t, amount)
    BY <2>2 DEF Deposit
  <2>3. CASE \E id \in RequestIds, ids \in SleeveLists, ws \in WeightLists :
                 Reallocate(t, caller, id, ids, ws)
    BY <2>3, ReallocateMarks DEF LogNext
  <2> QED
    BY <2>1, <2>2, <2>3 DEF TreasuryCall
<1> QED
  BY <1>1, <1>2, <1>3 DEF Next

(* Whatever the treasuries do, the log behaves as DecisionLog says: what   *)
(* is proved of the log alone holds of the pair.                           *)
THEOREM TreasuryRespectsLog == Spec => LogSpec
BY StepIsLogStep, PTL DEF Spec, Init, LogSpec

(***************************************************************************)
(* Types.                                                                  *)
(***************************************************************************)
LEMMA TypeInit == Init => TypeOK
BY LogTypeInit, LogAssumption DEF Init, TreasuryInit, TypeOK, EmptyBook, Weights

LEMMA TypeReallocate ==
    ASSUME TypeOK, NEW t \in Treasuries, NEW caller \in Accounts, NEW id \in RequestIds,
           NEW ids \in Seq(Sleeves), NEW ws \in Seq(Nat),
           Reallocate(t, caller, id, ids, ws)
    PROVE  TypeOK'
<1>1. ids \in Seq(Sleeves) /\ ws \in Seq(Nat)
  OBVIOUS
<1>2. LogTypeOK'
  BY ReallocateMarks, LogTypeStep DEF TypeOK
<1>3. book' \in [Treasuries -> [Sleeves -> Weights]]
  BY DEF Reallocate, TypeOK
<1>4. sleeveIds' \in [Treasuries -> Seq(Sleeves)]
  <2>0. PICK n \in 0 .. Len(ids) : \E fresh \in [1 .. n -> Range(ids)] :
            sleeveIds' = [sleeveIds EXCEPT ![t] = @ \o fresh]
    BY DEF Reallocate
  <2>1. PICK fresh \in [1 .. n -> Range(ids)] :
            sleeveIds' = [sleeveIds EXCEPT ![t] = @ \o fresh]
    BY <2>0
  <2>2. Range(ids) \subseteq Sleeves
    BY <1>1 DEF Range
  <2>3. n \in Nat
    BY <1>1
  <2>4. fresh \in Seq(Sleeves)
    BY <2>2, <2>3
  <2>5. sleeveIds[t] \o fresh \in Seq(Sleeves)
    BY <2>4 DEF TypeOK
  <2> QED
    BY <2>1, <2>5 DEF TypeOK
<1>5. reallocations' \in [Treasuries -> Seq(Reallocated)]
  <2>1. [id |-> id, sleeves |-> ids, weights |-> ws] \in Reallocated
    BY <1>1 DEF Reallocated
  <2> QED
    BY <2>1 DEF Reallocate, TypeOK
<1> QED
  BY <1>2, <1>3, <1>4, <1>5 DEF Reallocate, MarkExecuted, TypeOK

LEMMA TypeStep == TypeOK /\ [Next]_vars => TypeOK'
<1> SUFFICES ASSUME TypeOK, [Next]_vars PROVE TypeOK'
  OBVIOUS
<1>1. CASE UNCHANGED vars
  BY <1>1 DEF vars, logVars, treasuryVars, TypeOK, LogTypeOK
<1>2. CASE \E caller \in Accounts : LogCall(caller) /\ UNCHANGED treasuryVars
  <2>1. PICK caller \in Accounts : LogCall(caller) /\ UNCHANGED treasuryVars
    BY <1>2
  <2>2. LogTypeOK'
    BY <2>1, LogTypeStep DEF TypeOK, Accounts
  <2>3. council' = council
    BY <2>1 DEF LogCall, SetTreasury, RecordDecision, MarkExecuted
  <2> QED
    BY <2>1, <2>2, <2>3 DEF TypeOK, treasuryVars
<1>3. CASE \E caller \in Accounts, t \in Treasuries : TreasuryCall(t, caller)
  <2>1. PICK caller \in Accounts, t \in Treasuries : TreasuryCall(t, caller)
    BY <1>3
  <2>2. CASE \E amount \in Amounts : Deposit(t, amount)
    BY <2>2, TreasuryAssumption DEF Deposit, TypeOK, logVars, LogTypeOK
  <2>3. CASE \E id \in RequestIds, ids \in SleeveLists, ws \in WeightLists :
                 Reallocate(t, caller, id, ids, ws)
    BY <2>3, TypeReallocate, TreasuryAssumption
  <2> QED
    BY <2>1, <2>2, <2>3 DEF TreasuryCall
<1> QED
  BY <1>1, <1>2, <1>3 DEF Next

(* Type correctness of the two contracts: in particular no sleeve's weight *)
(* ever exceeds the whole.                                                 *)
THEOREM TypeCorrect == Spec => []TypeOK
BY TypeInit, TypeStep, PTL DEF Spec

(***************************************************************************)
(* Moves and executions.                                                   *)
(***************************************************************************)
LEMMA NothingExecutedUnwired ==
    ASSUME LogTypeOK, TrailMatchesLog, treasury = NoAddress,
           NEW id \in RequestIds, IsRecorded(id)
    PROVE  ~decisions[id].executed
<1> SUFFICES ASSUME decisions[id].executed PROVE FALSE
  OBVIOUS
<1>1. PICK i \in DOMAIN logEvents : Execution(i) /\ logEvents[i].id = id
  BY DEF TrailMatchesLog, ExecutedOnce
<1>2. logEvents[i] \in DecisionExecuted
  BY <1>1 DEF LogTypeOK, Execution, DecisionRecorded
<1>3. logEvents[i].by \in Addresses
  BY <1>2 DEF DecisionExecuted
<1> QED
  BY <1>1, <1>3, LogAssumption DEF TrailMatchesLog, ExecutedOnce

(* A call of an account to the log: the treasuries do not move, so every   *)
(* move must stay backed and nothing may be executed behind their back.    *)
LEMMA MovesLogCall ==
    ASSUME TypeOK, TrailMatchesLog, MovesMatchExecutions,
           NEW caller \in Accounts, LogCall(caller), UNCHANGED treasuryVars
    PROVE  MovesMatchExecutions'
<1> USE DEF MoveOf
<1>0. caller \in Addresses /\ caller \notin Treasuries
  BY DEF Accounts
<1>1. AtMostOneMove'
  BY DEF MovesMatchExecutions, AtMostOneMove, treasuryVars
<1>2. MovesAreExecuted'
  <2> SUFFICES ASSUME NEW t \in Treasuries, NEW i \in DOMAIN reallocations[t]
               PROVE  /\ IsRecorded(MoveOf(t, i))'
                      /\ decisions'[MoveOf(t, i)].executed
                      /\ decisions'[MoveOf(t, i)].verdict \in Executable
                      /\ treasury' = t
    BY DEF MovesAreExecuted, treasuryVars
  <2> DEFINE id == MoveOf(t, i)
  <2>1. /\ IsRecorded(id)
        /\ decisions[id].executed
        /\ decisions[id].verdict \in Executable
        /\ treasury = t
    BY DEF MovesMatchExecutions, MovesAreExecuted
  <2>2. id \in RequestIds
    <3>1. reallocations[t][i] \in Reallocated
      BY DEF TypeOK
    <3> QED
      BY <3>1 DEF Reallocated
  <2>3. decisions[id] \in Decision
    BY <2>1, <2>2 DEF TypeOK, LogTypeOK, IsRecorded
  <2>4. treasury # NoAddress
    BY <2>1, TreasuryAssumption, LogAssumption
  <2>5. AppendOnlyStep
    BY <1>0, AppendOnlyCall DEF TypeOK
  <2>6. /\ treasury' = treasury
        /\ decisions'[id] \in {decisions[id], [decisions[id] EXCEPT !.executed = TRUE]}
    BY <2>1, <2>2, <2>4, <2>5 DEF AppendOnlyStep
  <2>7. decisions'[id] \in Decision /\ decisions'[id] # NoDecision
    BY <2>3, <2>6, LogAssumption DEF Decision
  <2> QED
    BY <2>1, <2>3, <2>6, <2>7 DEF IsRecorded, Decision, treasuryVars
<1>3. ExecutionsAreMoves'
  <2> SUFFICES ASSUME treasury' \in Treasuries, NEW id \in RequestIds,
                      IsRecorded(id)', decisions'[id].executed
               PROVE  \E i \in DOMAIN reallocations[treasury'] :
                          reallocations[treasury'][i].id = id
    BY DEF ExecutionsAreMoves, treasuryVars
  <2>1. CASE \E t \in Addresses : SetTreasury(caller, t)
    <3>1. treasury = NoAddress /\ decisions' = decisions
      BY <2>1 DEF SetTreasury, CanSetTreasury
    <3> QED
      BY <3>1, NothingExecutedUnwired DEF IsRecorded, TypeOK
  <2>2. CASE \E r \in RequestIds, v \in VerdictArgs, h \in Hashes, f \in FractionArgs :
                 RecordDecision(caller, r, v, h, f)
    <3>1. treasury' = treasury /\ IsRecorded(id) /\ decisions[id].executed
      BY <2>2 DEF RecordDecision, TypeOK, LogTypeOK, IsRecorded
    <3> QED
      BY <3>1 DEF MovesMatchExecutions, ExecutionsAreMoves
  <2>3. CASE \E r \in RequestIds : MarkExecuted(caller, r)
    BY <2>3, <1>0 DEF MarkExecuted, CanMark
  <2> QED
    BY <2>1, <2>2, <2>3 DEF LogCall
<1> QED
  BY <1>1, <1>2, <1>3 DEF MovesMatchExecutions

(* A reallocation adds one event for a decision that was not executed.     *)
LEMMA MovesReallocate ==
    ASSUME TypeOK, MovesMatchExecutions, NEW t \in Treasuries, NEW caller \in Accounts,
           NEW id \in RequestIds, NEW ids \in SleeveLists, NEW ws \in WeightLists,
           Reallocate(t, caller, id, ids, ws)
    PROVE  MovesMatchExecutions'
<1> DEFINE e == [id |-> id, sleeves |-> ids, weights |-> ws]
<1>1. /\ treasury = t
      /\ treasury' = treasury
      /\ IsRecorded(id)
      /\ ~decisions[id].executed
      /\ decisions[id].verdict \in Executable
      /\ decisions' = [decisions EXCEPT ![id].executed = TRUE]
      /\ reallocations' = [reallocations EXCEPT ![t] = Append(@, e)]
  BY DEF Reallocate, MarkExecuted, CanMark
<1>2. /\ DOMAIN reallocations[t] = 1 .. Len(reallocations[t])
      /\ DOMAIN reallocations'[t] = 1 .. Len(reallocations[t]) + 1
      /\ Len(reallocations[t]) \in Nat
      /\ \A i \in 1 .. Len(reallocations[t]) : reallocations'[t][i] = reallocations[t][i]
      /\ reallocations'[t][Len(reallocations[t]) + 1] = e
      /\ \A u \in Treasuries \ {t} : reallocations'[u] = reallocations[u]
  BY <1>1 DEF TypeOK
<1>3. decisions[id] \in Decision
  BY <1>1 DEF TypeOK, LogTypeOK, IsRecorded
<1>4. /\ decisions'[id] # NoDecision
      /\ decisions'[id].executed
      /\ decisions'[id].verdict \in Executable
      /\ \A r \in RequestIds \ {id} : decisions'[r] = decisions[r]
  <2>1. decisions'[id] = [decisions[id] EXCEPT !.executed = TRUE]
    BY <1>1 DEF TypeOK, LogTypeOK
  <2>2. decisions'[id] \in Decision
    BY <1>3, <2>1 DEF Decision
  <2> QED
    BY <1>1, <1>3, <2>1, <2>2, LogAssumption DEF TypeOK, LogTypeOK, Decision
<1>5. \A u \in Treasuries : \A i \in DOMAIN reallocations[u] :
          u = t /\ reallocations[u][i].id \in RequestIds \ {id}
  <2> SUFFICES ASSUME NEW u \in Treasuries, NEW i \in DOMAIN reallocations[u]
               PROVE  u = t /\ reallocations[u][i].id \in RequestIds \ {id}
    OBVIOUS
  <2>1. reallocations[u][i] \in Reallocated
    BY DEF TypeOK
  <2> QED
    BY <2>1, <1>1 DEF Reallocated, MovesMatchExecutions, MovesAreExecuted, MoveOf
<1>6. AtMostOneMove'
  <2> SUFFICES ASSUME NEW u \in Treasuries, NEW v \in Treasuries,
                      NEW i \in DOMAIN reallocations'[u], NEW j \in DOMAIN reallocations'[v],
                      reallocations'[u][i].id = reallocations'[v][j].id
               PROVE  u = v /\ i = j
    BY DEF AtMostOneMove, MoveOf
  <2>1. u = t /\ v = t
    BY <1>2, <1>5
  <2>2. \A k \in 1 .. Len(reallocations[t]) : reallocations'[t][k].id # id
    BY <1>2, <1>5
  <2>3. reallocations'[t][Len(reallocations[t]) + 1].id = id
    BY <1>2
  <2>4. \A k, m \in 1 .. Len(reallocations[t]) :
            reallocations'[t][k].id = reallocations'[t][m].id => k = m
    BY <1>2 DEF MovesMatchExecutions, AtMostOneMove, MoveOf
  <2> QED
    BY <1>2, <2>1, <2>2, <2>3, <2>4
<1>7. MovesAreExecuted'
  <2> SUFFICES ASSUME NEW u \in Treasuries, NEW i \in DOMAIN reallocations'[u]
               PROVE  /\ decisions'[reallocations'[u][i].id] # NoDecision
                      /\ decisions'[reallocations'[u][i].id].executed
                      /\ decisions'[reallocations'[u][i].id].verdict \in Executable
                      /\ treasury' = u
    BY DEF MovesAreExecuted, MoveOf, IsRecorded
  <2>1. u = t
    BY <1>2, <1>5
  <2>2. CASE i \in 1 .. Len(reallocations[t])
    BY <2>1, <2>2, <1>1, <1>2, <1>4, <1>5
    DEF MovesMatchExecutions, MovesAreExecuted, MoveOf, IsRecorded
  <2>3. CASE i = Len(reallocations[t]) + 1
    BY <2>1, <2>3, <1>1, <1>2, <1>4
  <2> QED
    BY <2>1, <2>2, <2>3, <1>2
<1>8. ExecutionsAreMoves'
  <2> SUFFICES ASSUME NEW r \in RequestIds, decisions'[r] # NoDecision, decisions'[r].executed
               PROVE  \E i \in DOMAIN reallocations'[t] : reallocations'[t][i].id = r
    BY <1>1 DEF ExecutionsAreMoves, MoveOf, IsRecorded
  <2>1. CASE r = id
    BY <2>1, <1>2
  <2>2. CASE r # id
    <3>1. PICK i \in DOMAIN reallocations[t] : reallocations[t][i].id = r
      BY <2>2, <1>1, <1>4
      DEF MovesMatchExecutions, ExecutionsAreMoves, MoveOf, IsRecorded
    <3> QED
      BY <3>1, <1>2
  <2> QED
    BY <2>1, <2>2
<1> QED
  BY <1>6, <1>7, <1>8 DEF MovesMatchExecutions

LEMMA MovesStep ==
    TypeOK /\ TrailMatchesLog /\ MovesMatchExecutions /\ [Next]_vars => MovesMatchExecutions'
<1> SUFFICES ASSUME TypeOK, TrailMatchesLog, MovesMatchExecutions, [Next]_vars
             PROVE  MovesMatchExecutions'
  OBVIOUS
<1>1. CASE UNCHANGED <<decisions, treasury, reallocations>>
  BY <1>1 DEF MovesMatchExecutions, AtMostOneMove, MovesAreExecuted, ExecutionsAreMoves,
              MoveOf, IsRecorded
<1>2. CASE \E caller \in Accounts : LogCall(caller) /\ UNCHANGED treasuryVars
  BY <1>2, MovesLogCall
<1>3. CASE \E caller \in Accounts, t \in Treasuries : TreasuryCall(t, caller)
  <2>1. PICK caller \in Accounts, t \in Treasuries : TreasuryCall(t, caller)
    BY <1>3
  <2>2. CASE \E amount \in Amounts : Deposit(t, amount)
    BY <2>2, <1>1 DEF Deposit, logVars
  <2>3. CASE \E id \in RequestIds, ids \in SleeveLists, ws \in WeightLists :
                 Reallocate(t, caller, id, ids, ws)
    BY <2>3, MovesReallocate
  <2> QED
    BY <2>1, <2>2, <2>3 DEF TreasuryCall
<1> QED
  BY <1>1, <1>2, <1>3 DEF Next, vars, logVars, treasuryVars

(* No decision moves funds twice, no move lacks an executed decision, no   *)
(* decision is consumed without a move: whoever calls, on any number of    *)
(* treasuries that share the log.                                          *)
THEOREM MovesCorrect == Spec => []MovesMatchExecutions
<1>1. Init => MovesMatchExecutions
  BY DEF Init, LogInit, TreasuryInit, MovesMatchExecutions, AtMostOneMove,
         MovesAreExecuted, ExecutionsAreMoves, IsRecorded
<1> QED
  BY <1>1, MovesStep, TypeCorrect, TreasuryRespectsLog, TrailCorrect, PTL DEF Spec

(***************************************************************************)
(* The pair implements ExecutionGate.                                      *)
(***************************************************************************)
LEMMA RecordIsDecide ==
    ASSUME TypeOK, NEW caller \in Accounts, NEW id \in RequestIds, NEW v \in VerdictArgs,
           NEW h \in Hashes, NEW f \in FractionArgs,
           RecordDecision(caller, id, v, h, f), UNCHANGED treasuryVars
    PROVE  Gate!Approve(id) \/ Gate!Refuse(id)
<1> DEFINE d == [verdict |-> v, hashes |-> h, fraction |-> f, executed |-> FALSE]
<1>1. decisions[id] = NoDecision /\ decisions' = [decisions EXCEPT ![id] = d]
  BY DEF RecordDecision, CanRecord, IsRecorded
<1>2. /\ decisions'[id] = d
      /\ \A r \in RequestIds \ {id} : decisions'[r] = decisions[r]
  BY <1>1 DEF TypeOK, LogTypeOK
<1>3. d # NoDecision
  <2>1. decisions'[id] \in Decision \cup {NoDecision}
    BY LogTypeStep DEF LogCall, TypeOK, LogTypeOK, Accounts
  <2>2. v \in Verdicts /\ f \in 0 .. TotalBps
    BY LogAssumption DEF RecordDecision, CanRecord, ValidFraction, Verdicts,
                         VERDICT_APPROVE, VERDICT_ABSTAIN_UPHELD
  <2>3. d \in Decision
    BY <2>2 DEF Decision
  <2> QED
    BY <2>3, LogAssumption
<1>4. id \in Gate!Undecided
  BY <1>1 DEF Gate!Undecided, ApprovedIds, RefusedIds, IsRecorded
<1>5. ExecutedIds' = ExecutedIds /\ book' = book
  BY <1>1, <1>2 DEF ExecutedIds, IsRecorded, treasuryVars
<1>6. CASE v \in Executable
  <2>1. ApprovedIds' = ApprovedIds \cup {id} /\ RefusedIds' = RefusedIds
    BY <1>1, <1>2, <1>3, <1>6 DEF ApprovedIds, RefusedIds, IsRecorded
  <2> QED
    BY <2>1, <1>4, <1>5 DEF Gate!Approve
<1>7. CASE v \notin Executable
  <2>1. RefusedIds' = RefusedIds \cup {id} /\ ApprovedIds' = ApprovedIds
    BY <1>1, <1>2, <1>3, <1>7 DEF ApprovedIds, RefusedIds, IsRecorded
  <2> QED
    BY <2>1, <1>4, <1>5 DEF Gate!Refuse
<1> QED
  BY <1>6, <1>7

LEMMA MarkIsExecute ==
    ASSUME TypeOK, NEW caller, NEW id \in RequestIds, MarkExecuted(caller, id),
           book' = book \/ \E t \in Treasuries, new \in [Sleeves -> Weights] :
                               book' = [book EXCEPT ![t] = new]
    PROVE  Gate!Execute(id)
<1>1. /\ IsRecorded(id)
      /\ ~decisions[id].executed
      /\ decisions[id].verdict \in Executable
      /\ decisions' = [decisions EXCEPT ![id].executed = TRUE]
  BY DEF MarkExecuted, CanMark
<1>2. decisions[id] \in Decision
  BY <1>1 DEF TypeOK, LogTypeOK, IsRecorded
<1>3. /\ decisions'[id] = [decisions[id] EXCEPT !.executed = TRUE]
      /\ \A r \in RequestIds \ {id} : decisions'[r] = decisions[r]
  BY <1>1 DEF TypeOK, LogTypeOK
<1>4. /\ decisions'[id] # NoDecision
      /\ decisions'[id].executed
      /\ decisions'[id].verdict = decisions[id].verdict
  <2>1. decisions'[id] \in Decision
    BY <1>2, <1>3 DEF Decision
  <2> QED
    BY <1>2, <1>3, <2>1, LogAssumption DEF Decision
<1>5. id \in ApprovedIds \ ExecutedIds
  BY <1>1 DEF ApprovedIds, ExecutedIds
<1>6. ExecutedIds' = ExecutedIds \cup {id}
  BY <1>3, <1>4 DEF ExecutedIds, IsRecorded
<1>7. ApprovedIds' = ApprovedIds /\ RefusedIds' = RefusedIds
  BY <1>1, <1>3, <1>4 DEF ApprovedIds, RefusedIds, IsRecorded
<1> QED
  BY <1>5, <1>6, <1>7 DEF Gate!Execute

LEMMA StepIsGateStep == TypeOK /\ [Next]_vars => [Gate!Next]_(Gate!vars)
<1> SUFFICES ASSUME TypeOK, [Next]_vars PROVE Gate!Next \/ UNCHANGED Gate!vars
  OBVIOUS
<1>1. CASE UNCHANGED <<decisions, book>>
  BY <1>1 DEF Gate!vars, ApprovedIds, RefusedIds, ExecutedIds, IsRecorded
<1>2. CASE \E caller \in Accounts : LogCall(caller) /\ UNCHANGED treasuryVars
  <2>1. PICK caller \in Accounts : LogCall(caller) /\ UNCHANGED treasuryVars
    BY <1>2
  <2>2. CASE \E t \in Addresses : SetTreasury(caller, t)
    BY <2>1, <2>2, <1>1 DEF SetTreasury, treasuryVars
  <2>3. CASE \E id \in RequestIds, v \in VerdictArgs, h \in Hashes, f \in FractionArgs :
                 RecordDecision(caller, id, v, h, f)
    BY <2>1, <2>3, RecordIsDecide DEF Gate!Next
  <2>4. CASE \E id \in RequestIds : MarkExecuted(caller, id)
    BY <2>1, <2>4, MarkIsExecute DEF Gate!Next, treasuryVars
  <2> QED
    BY <2>1, <2>2, <2>3, <2>4 DEF LogCall
<1>3. CASE \E caller \in Accounts, t \in Treasuries : TreasuryCall(t, caller)
  <2>1. PICK caller \in Accounts, t \in Treasuries : TreasuryCall(t, caller)
    BY <1>3
  <2>2. CASE \E amount \in Amounts : Deposit(t, amount)
    BY <2>2, <1>1 DEF Deposit, logVars
  <2>3. CASE \E id \in RequestIds, ids \in SleeveLists, ws \in WeightLists :
                 Reallocate(t, caller, id, ids, ws)
    <3>1. PICK id \in RequestIds, ids \in SleeveLists, ws \in WeightLists :
              Reallocate(t, caller, id, ids, ws)
      BY <2>3
    <3>2. MarkExecuted(t, id)
      BY <3>1 DEF Reallocate
    <3>3. \E new \in [Sleeves -> Weights] : book' = [book EXCEPT ![t] = new]
      BY <3>1 DEF Reallocate
    <3> QED
      BY <3>2, <3>3, MarkIsExecute DEF Gate!Next
  <2> QED
    BY <2>1, <2>2, <2>3 DEF TreasuryCall
<1> QED
  BY <1>1, <1>2, <1>3 DEF Next, vars, logVars, treasuryVars

(* The DecisionLog and the Treasury implement the gate: a book moves only  *)
(* in the step that first executes an approved decision.                   *)
THEOREM ImplementsGate == Spec => GateSpec
<1>1. Init => Gate!Init
  BY DEF Init, LogInit, TreasuryInit, Gate!Init, ApprovedIds, RefusedIds, ExecutedIds,
         IsRecorded
<1> QED
  BY <1>1, StepIsGateStep, TypeCorrect, PTL DEF Spec, GateSpec, Gate!Spec

(***************************************************************************)
(* The book, its events and the list of sleeves.                           *)
(***************************************************************************)
CellFollows(t, s) ==
    \/ NeverNamed(t, s) /\ book[t][s] = 0
    \/ \E n \in DOMAIN reallocations[t] :
           /\ LastMoveNaming(t, s, n)
           /\ \E i \in DOMAIN reallocations[t][n].sleeves :
                  /\ LastNaming(reallocations[t][n].sleeves, s, i)
                  /\ book[t][s] = reallocations[t][n].weights[i]

ListIsExact(t) ==
    /\ IsInjective(sleeveIds[t])
    /\ \A s \in Sleeves : s \in Range(sleeveIds[t]) <=> ~NeverNamed(t, s)

(* What a move appends, and what it leaves alone.                          *)
LEMMA MoveAppends ==
    ASSUME TypeOK, NEW t \in Treasuries, NEW caller, NEW id \in RequestIds,
           NEW ids \in SleeveLists, NEW ws \in WeightLists,
           Reallocate(t, caller, id, ids, ws)
    PROVE  /\ Len(reallocations[t]) \in Nat
           /\ DOMAIN reallocations[t] = 1 .. Len(reallocations[t])
           /\ DOMAIN reallocations'[t] = 1 .. (Len(reallocations[t]) + 1)
           /\ \A n \in 1 .. Len(reallocations[t]) : reallocations'[t][n] = reallocations[t][n]
           /\ reallocations'[t][Len(reallocations[t]) + 1] =
                  [id |-> id, sleeves |-> ids, weights |-> ws]
           /\ \A u \in Treasuries : u # t => reallocations'[u] = reallocations[u]
<1>1. reallocations[t] \in Seq(Reallocated)
  BY DEF TypeOK
<1>2. [id |-> id, sleeves |-> ids, weights |-> ws] \in Reallocated
  BY TreasuryAssumption DEF Reallocated
<1>3. reallocations' = [reallocations EXCEPT ![t] =
          Append(@, [id |-> id, sleeves |-> ids, weights |-> ws])]
  BY DEF Reallocate
<1>4. reallocations'[t] = Append(reallocations[t], [id |-> id, sleeves |-> ids, weights |-> ws])
  BY <1>3 DEF TypeOK
<1>5. \A u \in Treasuries : u # t => reallocations'[u] = reallocations[u]
  BY <1>3 DEF TypeOK
<1> QED
  BY <1>1, <1>2, <1>4, <1>5

(* A sleeve is never named after a move if it was not before and is not in *)
(* the list of that move.                                                  *)
LEMMA MoveNames ==
    ASSUME TypeOK, NEW t \in Treasuries, NEW caller, NEW id \in RequestIds,
           NEW ids \in SleeveLists, NEW ws \in WeightLists,
           Reallocate(t, caller, id, ids, ws), NEW s \in Sleeves,
           NEW N \in Nat, N = Len(reallocations[t])
    PROVE  /\ NeverNamed(t, s)' <=> NeverNamed(t, s) /\ s \notin Range(ids)
           /\ s \in Range(ids) => LastMoveNaming(t, s, N + 1)'
           /\ s \notin Range(ids) => \A n \in DOMAIN reallocations[t] :
                  LastMoveNaming(t, s, n) => LastMoveNaming(t, s, n)'
<1> DEFINE e == [id |-> id, sleeves |-> ids, weights |-> ws]
<1>1. /\ DOMAIN reallocations[t] = 1 .. N /\ DOMAIN reallocations'[t] = 1 .. (N + 1)
      /\ \A n \in 1 .. N : reallocations'[t][n] = reallocations[t][n]
      /\ reallocations'[t][N + 1] = e
  BY MoveAppends
<1>2. e.sleeves = ids
  OBVIOUS
<1>3. \A n \in 1 .. (N + 1) : n \in 1 .. N \/ n = N + 1
  BY <1>1
<1> HIDE DEF e
<1>4. \A n \in 1 .. (N + 1) :
          s \in Range(reallocations'[t][n].sleeves) <=>
              IF n = N + 1 THEN s \in Range(ids) ELSE s \in Range(reallocations[t][n].sleeves)
  BY <1>1, <1>2, <1>3
<1>5. NeverNamed(t, s)' <=> NeverNamed(t, s) /\ s \notin Range(ids)
  BY <1>1, <1>3, <1>4 DEF NeverNamed
<1>6. s \in Range(ids) => LastMoveNaming(t, s, N + 1)'
  BY <1>1, <1>4 DEF LastMoveNaming
<1>7. ASSUME s \notin Range(ids), NEW n \in DOMAIN reallocations[t], LastMoveNaming(t, s, n)
      PROVE  LastMoveNaming(t, s, n)'
  BY <1>1, <1>3, <1>4, <1>7 DEF LastMoveNaming
<1> QED
  BY <1>5, <1>6, <1>7

LEMMA CellReallocate ==
    ASSUME TypeOK, BookFollowsEvents, NEW t \in Treasuries, NEW caller, NEW id \in RequestIds,
           NEW ids \in SleeveLists, NEW ws \in WeightLists,
           Reallocate(t, caller, id, ids, ws), NEW s \in Sleeves
    PROVE  CellFollows(t, s)'
<1>0. PICK N \in Nat : N = Len(reallocations[t])
  BY MoveAppends
<1>1. PICK new \in [Sleeves -> Weights] :
          Written(book[t], ids, ws, new) /\ book' = [book EXCEPT ![t] = new]
  BY DEF Reallocate
<1>2. book'[t][s] = new[s]
  BY <1>1 DEF TypeOK
<1>3. /\ DOMAIN reallocations[t] = 1 .. N /\ DOMAIN reallocations'[t] = 1 .. (N + 1)
      /\ \A n \in 1 .. N : reallocations'[t][n] = reallocations[t][n]
      /\ reallocations'[t][N + 1] = [id |-> id, sleeves |-> ids, weights |-> ws]
  BY <1>0, MoveAppends
<1>4. CASE s \notin Range(ids)
  <2>1. new[s] = book[t][s]
    BY <1>1, <1>4 DEF Written, LastNaming, Range
  <2>2. CellFollows(t, s)
    BY DEF BookFollowsEvents, CellFollows
  <2>3. CASE NeverNamed(t, s) /\ book[t][s] = 0
    BY <1>0, <1>2, <1>4, <2>1, <2>3, MoveNames DEF CellFollows
  <2>4. CASE \E n \in DOMAIN reallocations[t] :
                /\ LastMoveNaming(t, s, n)
                /\ \E i \in DOMAIN reallocations[t][n].sleeves :
                       /\ LastNaming(reallocations[t][n].sleeves, s, i)
                       /\ book[t][s] = reallocations[t][n].weights[i]
    <3>1. PICK n \in DOMAIN reallocations[t] :
                /\ LastMoveNaming(t, s, n)
                /\ \E i \in DOMAIN reallocations[t][n].sleeves :
                       /\ LastNaming(reallocations[t][n].sleeves, s, i)
                       /\ book[t][s] = reallocations[t][n].weights[i]
      BY <2>4
    <3>2. LastMoveNaming(t, s, n)'
      BY <1>0, <1>4, <3>1, MoveNames
    <3>3. n \in DOMAIN reallocations'[t] /\ reallocations'[t][n] = reallocations[t][n]
      BY <1>3, <3>1
    <3>4. \E i \in DOMAIN reallocations'[t][n].sleeves :
                       /\ LastNaming(reallocations'[t][n].sleeves, s, i)
                       /\ book'[t][s] = reallocations'[t][n].weights[i]
      BY <1>2, <2>1, <3>1, <3>3
    <3> QED
      BY <3>2, <3>3, <3>4 DEF CellFollows
  <2> QED
    BY <2>2, <2>3, <2>4 DEF CellFollows
<1>5. CASE s \in Range(ids)
  <2>1. PICK i \in DOMAIN ids : LastNaming(ids, s, i) /\ new[s] = ws[i]
    BY <1>1, <1>5 DEF Written
  <2>2. LastMoveNaming(t, s, N + 1)'
    BY <1>0, <1>5, MoveNames
  <2>3. /\ N + 1 \in DOMAIN reallocations'[t]
        /\ reallocations'[t][N + 1].sleeves = ids
        /\ reallocations'[t][N + 1].weights = ws
    BY <1>3
  <2>4. \E j \in DOMAIN reallocations'[t][N + 1].sleeves :
            /\ LastNaming(reallocations'[t][N + 1].sleeves, s, j)
            /\ book'[t][s] = reallocations'[t][N + 1].weights[j]
    BY <1>2, <2>1, <2>3
  <2> QED
    BY <2>2, <2>3, <2>4 DEF CellFollows
<1> QED
  BY <1>4, <1>5

LEMMA ListReallocate ==
    ASSUME TypeOK, SleeveListIsExact, NEW t \in Treasuries, NEW caller, NEW id \in RequestIds,
           NEW ids \in SleeveLists, NEW ws \in WeightLists,
           Reallocate(t, caller, id, ids, ws)
    PROVE  ListIsExact(t)'
<1>0. PICK N \in Nat : N = Len(reallocations[t])
  BY MoveAppends
<1>1. ids \in Seq(Sleeves) /\ Range(ids) \subseteq Sleeves
  BY TreasuryAssumption DEF Range
<1>2. PICK k \in 0 .. Len(ids) : \E f \in [1 .. k -> Range(ids)] :
          Pushed(sleeveIds[t], ids, f) /\ sleeveIds' = [sleeveIds EXCEPT ![t] = @ \o f]
  BY DEF Reallocate
<1>3. PICK fresh \in [1 .. k -> Range(ids)] :
          Pushed(sleeveIds[t], ids, fresh) /\ sleeveIds' = [sleeveIds EXCEPT ![t] = @ \o fresh]
  BY <1>2
<1>4. k \in Nat /\ fresh \in Seq(Sleeves) /\ Len(fresh) = k
  BY <1>1
<1> DEFINE known == sleeveIds[t]
           list == known \o fresh
<1>5. known \in Seq(Sleeves) /\ sleeveIds'[t] = list
  BY <1>3 DEF TypeOK
<1>6. /\ Len(known) \in Nat /\ DOMAIN known = 1 .. Len(known) /\ DOMAIN fresh = 1 .. k
      /\ DOMAIN list = 1 .. (Len(known) + k)
      /\ \A i \in 1 .. Len(known) : list[i] = known[i]
      /\ \A i \in 1 .. k : list[Len(known) + i] = fresh[i]
  BY <1>4, <1>5
<1>7. Range(fresh) = Range(ids) \ Range(known)
  BY <1>3 DEF Pushed
<1>8. ASSUME NEW i \in 1 .. k, NEW j \in 1 .. k, i # j PROVE fresh[i] # fresh[j]
  <2>1. \A a, b \in 1 .. k : a < b => fresh[a] # fresh[b]
    <3> SUFFICES ASSUME NEW a \in 1 .. k, NEW b \in 1 .. k, a < b PROVE fresh[a] # fresh[b]
      OBVIOUS
    <3>1. PICK c \in DOMAIN ids : ids[c] = fresh[a] /\ \A m \in 1 .. c : ids[m] # fresh[b]
      BY <1>3, <1>6 DEF Pushed
    <3>2. c \in 1 .. c
      BY <1>1
    <3> QED
      BY <3>1, <3>2
  <2>2. i < j \/ j < i
    BY <1>8, <1>4
  <2> QED
    BY <2>1, <2>2
<1>9. \A i \in 1 .. (Len(known) + k) :
          i \in 1 .. Len(known) \/ (i - Len(known) \in 1 .. k /\ i = Len(known) + (i - Len(known)))
  BY <1>4, <1>6
<1>10. IsInjective(known) /\ \A s \in Sleeves : s \in Range(known) <=> ~NeverNamed(t, s)
  BY DEF SleeveListIsExact
<1> HIDE DEF known, list
<1>11. IsInjective(list)
  <2> SUFFICES ASSUME NEW i \in 1 .. (Len(known) + k), NEW j \in 1 .. (Len(known) + k),
                      list[i] = list[j]
               PROVE  i = j
    BY <1>6 DEF IsInjective
  <2>1. CASE i \in 1 .. Len(known) /\ j \in 1 .. Len(known)
    BY <1>6, <1>10, <2>1 DEF IsInjective
  <2>2. ASSUME NEW a \in 1 .. Len(known), NEW b \in 1 .. k PROVE known[a] # fresh[b]
    BY <1>6, <1>7 DEF Range
  <2>3. CASE i \in 1 .. Len(known) /\ j \notin 1 .. Len(known)
    BY <1>6, <1>9, <2>2, <2>3
  <2>4. CASE i \notin 1 .. Len(known) /\ j \in 1 .. Len(known)
    BY <1>6, <1>9, <2>2, <2>4
  <2>5. CASE i \notin 1 .. Len(known) /\ j \notin 1 .. Len(known)
    <3>1. PICK a \in 1 .. k : i = Len(known) + a /\ list[i] = fresh[a]
      BY <1>6, <1>9, <2>5
    <3>2. PICK b \in 1 .. k : j = Len(known) + b /\ list[j] = fresh[b]
      BY <1>6, <1>9, <2>5
    <3> QED
      BY <1>8, <3>1, <3>2
  <2> QED
    BY <2>1, <2>3, <2>4, <2>5
<1>12. Range(list) = Range(known) \cup Range(ids)
  <2>1. Range(list) = Range(known) \cup Range(fresh)
    <3>1. ASSUME NEW i \in DOMAIN list PROVE list[i] \in Range(known) \cup Range(fresh)
      <4>1. CASE i \in 1 .. Len(known)
        BY <1>6, <4>1 DEF Range
      <4>2. CASE i \notin 1 .. Len(known)
        <5>1. PICK a \in 1 .. k : list[i] = fresh[a]
          BY <1>6, <1>9, <4>2
        <5> QED
          BY <1>6, <5>1 DEF Range
      <4> QED
        BY <4>1, <4>2
    <3>2. ASSUME NEW i \in DOMAIN known PROVE known[i] \in Range(list)
      BY <1>4, <1>6 DEF Range
    <3>3. ASSUME NEW i \in DOMAIN fresh PROVE fresh[i] \in Range(list)
      <4>1. Len(known) + i \in DOMAIN list /\ list[Len(known) + i] = fresh[i]
        BY <1>4, <1>6
      <4> QED
        BY <4>1 DEF Range
    <3> QED
      BY <3>1, <3>2, <3>3 DEF Range
  <2> QED
    BY <1>7, <2>1
<1>13. \A s \in Sleeves : NeverNamed(t, s)' <=> NeverNamed(t, s) /\ s \notin Range(ids)
  BY <1>0, MoveNames
<1> QED
  BY <1>5, <1>10, <1>11, <1>12, <1>13 DEF ListIsExact

LEMMA BookStep ==
    ASSUME TypeOK, BookFollowsEvents, SleeveListIsExact, [Next]_vars
    PROVE  BookFollowsEvents' /\ SleeveListIsExact'
<1>1. ASSUME UNCHANGED <<book, sleeveIds, reallocations>>
      PROVE  BookFollowsEvents' /\ SleeveListIsExact'
  BY <1>1 DEF BookFollowsEvents, SleeveListIsExact, NeverNamed, LastMoveNaming
<1>2. ASSUME NEW t \in Treasuries, NEW caller \in Accounts, NEW id \in RequestIds,
             NEW ids \in SleeveLists, NEW ws \in WeightLists,
             Reallocate(t, caller, id, ids, ws)
      PROVE  BookFollowsEvents' /\ SleeveListIsExact'
  <2>1. \A u \in Treasuries : u # t =>
            /\ book'[u] = book[u] /\ sleeveIds'[u] = sleeveIds[u]
            /\ reallocations'[u] = reallocations[u]
    BY <1>2 DEF Reallocate, TypeOK
  <2>2. ASSUME NEW u \in Treasuries, NEW s \in Sleeves PROVE CellFollows(u, s)'
    <3>1. CASE u = t
      BY <1>2, <3>1, CellReallocate
    <3>2. CASE u # t
      BY <2>1, <3>2 DEF BookFollowsEvents, CellFollows, NeverNamed, LastMoveNaming
    <3> QED
      BY <3>1, <3>2
  <2>3. ASSUME NEW u \in Treasuries PROVE ListIsExact(u)'
    <3>1. CASE u = t
      BY <1>2, <3>1, ListReallocate
    <3>2. CASE u # t
      BY <2>1, <3>2 DEF SleeveListIsExact, ListIsExact, NeverNamed
    <3> QED
      BY <3>1, <3>2
  <2> QED
    BY <2>2, <2>3 DEF BookFollowsEvents, CellFollows, SleeveListIsExact, ListIsExact
<1>3. CASE UNCHANGED vars
  BY <1>1, <1>3 DEF vars, treasuryVars
<1>4. CASE \E caller \in Accounts : LogCall(caller) /\ UNCHANGED treasuryVars
  BY <1>1, <1>4 DEF treasuryVars
<1>5. CASE \E caller \in Accounts, t \in Treasuries : TreasuryCall(t, caller)
  <2>1. PICK caller \in Accounts, t \in Treasuries : TreasuryCall(t, caller)
    BY <1>5
  <2>2. CASE \E amount \in Amounts : Deposit(t, amount)
    BY <2>2, <1>1 DEF Deposit
  <2>3. CASE \E id \in RequestIds, ids \in SleeveLists, ws \in WeightLists :
                 Reallocate(t, caller, id, ids, ws)
    BY <2>3, <1>2
  <2> QED
    BY <2>1, <2>2, <2>3 DEF TreasuryCall
<1> QED
  BY <1>3, <1>4, <1>5 DEF Next

LEMMA BookInit == Init => BookFollowsEvents /\ SleeveListIsExact
BY DEF Init, TreasuryInit, EmptyBook, BookFollowsEvents, SleeveListIsExact, NeverNamed,
       IsInjective, Range

(* The book is what its Reallocated events say, for any lists of sleeves   *)
(* and weights a council may send (treasury.rs, reallocate).               *)
THEOREM BookCorrect == Spec => []BookFollowsEvents
BY BookInit, BookStep, TypeCorrect, PTL DEF Spec

(* allocations() lists every sleeve an event ever named, once (treasury.rs,*)
(* reallocate).                                                            *)
THEOREM SleeveListCorrect == Spec => []SleeveListIsExact
BY BookInit, BookStep, TypeCorrect, PTL DEF Spec

(***************************************************************************)
(* When the sum check of reallocate is enough.                             *)
(***************************************************************************)
WholeEvent(e) == Len(e.sleeves) = Len(e.weights) /\ SumBps(e.weights) = TotalBps

(* Every Reallocated event carries a list of weights that sum to the whole.*)
EventsAreWhole ==
    \A t \in Treasuries : \A i \in DOMAIN reallocations[t] : WholeEvent(reallocations[t][i])

LEMMA WholeStep ==
    ASSUME TypeOK, EventsAreWhole, [Next]_vars
    PROVE  EventsAreWhole'
<1>1. ASSUME UNCHANGED reallocations PROVE EventsAreWhole'
  BY <1>1 DEF EventsAreWhole, WholeEvent
<1>2. ASSUME NEW t \in Treasuries, NEW caller \in Accounts, NEW id \in RequestIds,
             NEW ids \in SleeveLists, NEW ws \in WeightLists,
             Reallocate(t, caller, id, ids, ws)
      PROVE  EventsAreWhole'
  <2>1. PICK e : e = [id |-> id, sleeves |-> ids, weights |-> ws]
    OBVIOUS
  <2>2. WholeEvent(e)
    BY <1>2, <2>1 DEF Reallocate, CanReallocate, WholeEvent
  <2>3. PICK N \in Nat : N = Len(reallocations[t])
    BY <1>2, MoveAppends
  <2>4. /\ DOMAIN reallocations[t] = 1 .. N /\ DOMAIN reallocations'[t] = 1 .. (N + 1)
        /\ \A n \in 1 .. N : reallocations'[t][n] = reallocations[t][n]
        /\ reallocations'[t][N + 1] = e
        /\ \A u \in Treasuries : u # t => reallocations'[u] = reallocations[u]
    BY <1>2, <2>1, <2>3, MoveAppends
  <2>5. \A n \in 1 .. (N + 1) : n \in 1 .. N \/ n = N + 1
    OBVIOUS
  <2>6. ASSUME NEW u \in Treasuries, NEW n \in DOMAIN reallocations'[u]
        PROVE  WholeEvent(reallocations'[u][n])
    <3>1. CASE u = t
      BY <2>2, <2>4, <2>5, <3>1 DEF EventsAreWhole
    <3>2. CASE u # t
      BY <2>4, <3>2 DEF EventsAreWhole
    <3> QED
      BY <3>1, <3>2
  <2> QED
    BY <2>6 DEF EventsAreWhole, WholeEvent
<1>3. CASE UNCHANGED vars
  BY <1>1, <1>3 DEF vars, treasuryVars
<1>4. CASE \E caller \in Accounts : LogCall(caller) /\ UNCHANGED treasuryVars
  BY <1>1, <1>4 DEF treasuryVars
<1>5. CASE \E caller \in Accounts, t \in Treasuries : TreasuryCall(t, caller)
  <2>1. PICK caller \in Accounts, t \in Treasuries : TreasuryCall(t, caller)
    BY <1>5
  <2>2. CASE \E amount \in Amounts : Deposit(t, amount)
    BY <2>2, <1>1 DEF Deposit
  <2>3. CASE \E id \in RequestIds, ids \in SleeveLists, ws \in WeightLists :
                 Reallocate(t, caller, id, ids, ws)
    BY <2>3, <1>2
  <2> QED
    BY <2>1, <2>2, <2>3 DEF TreasuryCall
<1> QED
  BY <1>3, <1>4, <1>5 DEF Next

LEMMA WholeInit == Init => EventsAreWhole
BY DEF Init, TreasuryInit, EventsAreWhole

(* After a complete move the positions of the list and those of the event  *)
(* are one to one, and each sleeve holds the weight of its position.       *)
LEMMA CompleteMove ==
    ASSUME TypeOK, BookFollowsEvents, SleeveListIsExact, EventsAreWhole
    PROVE  CompleteMoveTotals
<1> SUFFICES ASSUME NEW t \in Treasuries, NEW n, n = Len(reallocations[t]), n > 0,
                    NamesEachKnownSleeve(t, reallocations[t][n].sleeves)
             PROVE  BookTotal(t) = TotalBps
  BY DEF CompleteMoveTotals
<1>1. reallocations[t] \in Seq(Reallocated) /\ sleeveIds[t] \in Seq(Sleeves)
  BY DEF TypeOK
<1>2. n \in DOMAIN reallocations[t] /\ \A m \in DOMAIN reallocations[t] : m <= n
  BY <1>1
<1>3. PICK e : e = reallocations[t][n]
  OBVIOUS
<1>4. e \in Reallocated
  BY <1>1, <1>2, <1>3
<1>5. PICK ids, ws : ids = e.sleeves /\ ws = e.weights
  OBVIOUS
<1>6. ids \in Seq(Sleeves) /\ ws \in Seq(Nat) /\ Len(ids) = Len(ws) /\ SumBps(ws) = TotalBps
  BY <1>2, <1>3, <1>4, <1>5 DEF Reallocated, EventsAreWhole, WholeEvent
<1>7. DOMAIN ids = DOMAIN ws /\ IsFiniteSet(DOMAIN ws) /\ \A i \in DOMAIN ws : ws[i] \in Int
  <2>1. DOMAIN ws = 1 .. Len(ws) /\ DOMAIN ids = 1 .. Len(ws) /\ Len(ws) \in Nat
    BY <1>6
  <2>2. IsFiniteSet(1 .. Len(ws))
    BY <2>1, FS_Interval
  <2>3. \A i \in DOMAIN ws : ws[i] \in Int
    BY <1>6
  <2> QED
    BY <2>1, <2>2, <2>3
<1>8. PICK known : known = sleeveIds[t]
  OBVIOUS
<1>9. known \in Seq(Sleeves) /\ IsFiniteSet(DOMAIN known)
  BY <1>1, <1>8, FS_Interval
<1>10. IsInjective(known) /\ IsInjective(ids) /\ Range(known) \subseteq Range(ids)
  BY <1>3, <1>5, <1>8 DEF NamesEachKnownSleeve, SleeveListIsExact
<1>11. ASSUME NEW i \in DOMAIN ids PROVE ids[i] \in Sleeves /\ ids[i] \in Range(known)
  <2>1. ids[i] \in Sleeves /\ ids[i] \in Range(ids)
    BY <1>6, <1>11 DEF Range
  <2>2. ~NeverNamed(t, ids[i])
    BY <1>2, <1>3, <1>5, <2>1 DEF NeverNamed
  <2> QED
    BY <1>8, <2>1, <2>2 DEF SleeveListIsExact
<1>12. ASSUME NEW i \in DOMAIN ids PROVE book[t][ids[i]] = ws[i]
  <2>1. PICK s \in Sleeves : s = ids[i]
    BY <1>11
  <2>2. s \in Range(reallocations[t][n].sleeves)
    BY <1>3, <1>5, <2>1 DEF Range
  <2>3. ~NeverNamed(t, s)
    BY <1>2, <2>2 DEF NeverNamed
  <2>4. PICK m \in DOMAIN reallocations[t] :
            /\ LastMoveNaming(t, s, m)
            /\ \E k \in DOMAIN reallocations[t][m].sleeves :
                   /\ LastNaming(reallocations[t][m].sleeves, s, k)
                   /\ book[t][s] = reallocations[t][m].weights[k]
    BY <2>3 DEF BookFollowsEvents
  <2>5. m = n
    <3>1. m \in Nat /\ n \in Nat
      BY <1>1, <1>2
    <3>2. n <= m
      BY <1>2, <2>2, <2>4 DEF LastMoveNaming
    <3> QED
      BY <1>2, <3>1, <3>2
  <2>6. PICK k \in DOMAIN ids : LastNaming(ids, s, k) /\ book[t][s] = ws[k]
    BY <1>3, <1>5, <2>4, <2>5
  <2>7. k = i
    BY <1>10, <2>1, <2>6 DEF LastNaming, IsInjective
  <2> QED
    BY <2>1, <2>6, <2>7
<1>13. PICK p : p = [j \in DOMAIN known |-> CHOOSE i \in DOMAIN ids : ids[i] = known[j]]
  OBVIOUS
<1>14. ASSUME NEW j \in DOMAIN known PROVE p[j] \in DOMAIN ids /\ ids[p[j]] = known[j]
  <2>1. \E i \in DOMAIN ids : ids[i] = known[j]
    BY <1>10 DEF Range
  <2> QED
    BY <1>13, <2>1
<1>15. p \in [DOMAIN known -> DOMAIN ws]
  BY <1>7, <1>13, <1>14
<1>16. \A x, y \in DOMAIN known : p[x] = p[y] => x = y
  BY <1>10, <1>14 DEF IsInjective
<1>17. \A z \in DOMAIN ws : \E x \in DOMAIN known : p[x] = z
  <2> SUFFICES ASSUME NEW z \in DOMAIN ids PROVE \E x \in DOMAIN known : p[x] = z
    BY <1>7
  <2>1. PICK x \in DOMAIN known : known[x] = ids[z]
    BY <1>11 DEF Range
  <2>2. p[x] = z
    BY <1>10, <1>14, <2>1 DEF IsInjective
  <2> QED
    BY <2>2
<1>18. PICK h : h = [x \in DOMAIN known |-> ws[p[x]]]
  OBVIOUS
<1>19. h = ListedWeights(t)
  <2>1. \A x \in DOMAIN known : ws[p[x]] = book[t][known[x]]
    BY <1>12, <1>14
  <2> QED
    BY <1>8, <1>18, <2>1 DEF ListedWeights
<1>20. SumOf(h) = SumOf(ws)
  <2>1. DOMAIN h = DOMAIN known /\ \A x \in DOMAIN known : h[x] = ws[p[x]]
    BY <1>18
  <2>2. PICK D : D = DOMAIN known
    OBVIOUS
  <2>3. PICK E : E = DOMAIN ws
    OBVIOUS
  <2>4. /\ IsFiniteSet(D) /\ p \in [D -> E] /\ \A x, y \in D : p[x] = p[y] => x = y
        /\ \A z \in E : \E x \in D : p[x] = z
        /\ DOMAIN h = D /\ \A x \in D : h[x] = ws[p[x]]
        /\ DOMAIN ws = E /\ IsFiniteSet(E) /\ \A i \in E : ws[i] \in Int
    BY <1>7, <1>9, <1>15, <1>16, <1>17, <2>1, <2>2, <2>3
  <2> QED
    BY <2>4, SumReindexed
<1>21. SumOf(h) = SumBps(h) /\ SumOf(ws) = SumBps(ws)
  BY DEF SumOf, SumBps
<1> QED
  BY <1>6, <1>19, <1>20, <1>21 DEF BookTotal

(* After a move that names every sleeve the treasury knows exactly once,   *)
(* what allocations() lists sums to the whole, however unbalanced earlier  *)
(* moves had left the book (treasury.rs, reallocate and allocations).      *)
THEOREM CompleteMoveCorrect == Spec => []CompleteMoveTotals
<1>1. Spec => []EventsAreWhole
  BY WholeInit, WholeStep, TypeCorrect, PTL DEF Spec
<1> QED
  BY <1>1, CompleteMove, TypeCorrect, BookCorrect, SleeveListCorrect, PTL


(***************************************************************************)
(* The submission of reviews: its inductive invariant.                     *)
(***************************************************************************)
Record == "record_decision"
Move   == "reallocate"
Before == {"deliberating", "connecting", "recording"}

HasTarget(r) == delib[r].target # << >>

(* What the results of a run that caught no error say of its transactions. *)
Clean(r) ==
    \/ /\ kept[r] = {}
       /\ tx[r][Record] = "unsent"
       /\ tx[r][Move] = "unsent"
    \/ /\ kept[r] = {Record}
       /\ Included(r, Record)
       /\ tx[r][Move] = "unsent"
       /\ ~HasTarget(r)
    \/ /\ kept[r] = Kinds
       /\ Included(r, Record)
       /\ Included(r, Move)

(* Where the process is, against what it has sent and collected.           *)
Progress(r) ==
    /\ phase[r] \in Before =>
           /\ tx[r][Record] = "unsent"
           /\ tx[r][Move] = "unsent"
           /\ kept[r] = {}
           /\ ~failed[r]
    /\ phase[r] = "awaitingRecord" =>
           tx[r][Move] = "unsent" /\ kept[r] = {} /\ ~failed[r]
    /\ phase[r] = "moving" =>
           /\ Included(r, Record)
           /\ tx[r][Move] = "unsent"
           /\ kept[r] = {Record}
           /\ ~failed[r]
           /\ HasTarget(r)
    /\ phase[r] = "awaitingMove" =>
           Included(r, Record) /\ kept[r] = {Record} /\ ~failed[r]
    /\ phase[r] \in {"writing", "saved"} /\ ~failed[r] => Clean(r)

(* What is sent is of a deliberation, and a move follows its record.       *)
Sent(r) ==
    /\ phase[r] \notin {"deliberating", "dead"} => delib[r] \in Deliberations
    /\ tx[r][Record] # "unsent" => delib[r] \in Deliberations
    /\ tx[r][Move] # "unsent" => HasTarget(r) /\ Included(r, Record)

(* The contracts hold what the chain has applied of a run.                 *)
OnChain(r) ==
    /\ tx[r][Record] = "applied" =>
           /\ IsRecorded(idOf[r])
           /\ decisions[idOf[r]].verdict = delib[r].verdict
    /\ tx[r][Move] = "applied" => IsRecorded(idOf[r]) /\ decisions[idOf[r]].executed

(* What the contracts hold under an id, the chain has applied of a run     *)
(* with that id.                                                           *)
Applied(i, k) == \E r \in Runs : idOf[r] = i /\ tx[r][k] = "applied"

OfARun(i) ==
    IsRecorded(i) =>
        /\ Applied(i, Record)
        /\ decisions[i].executed => Applied(i, Move)

(* A run file is that of a finished run with its name.                     *)
Filed(i) ==
    file[i].written =>
        \E r \in Runs :
            /\ idOf[r] = i
            /\ phase[r] = "saved"
            /\ file[i] = [txs |-> kept[r], error |-> failed[r], written |-> TRUE]

RunInv(r) == Progress(r) /\ Sent(r) /\ OnChain(r)

RunsInv ==
    /\ \A r \in Runs : RunInv(r)
    /\ \A i \in RequestIds : OfARun(i) /\ Filed(i)

SubmissionIInv == SubmissionTypeOK /\ RunsInv /\ RefusedForCause

(***************************************************************************)
(* Frames: what a step of one run leaves to the others.                    *)
(***************************************************************************)
LEMMA TwoKinds == Kinds = {Record, Move} /\ Record # Move
BY DEF Kinds, Record, Move

(* The log forgets no decision, nor its verdict, nor that it is executed.  *)
Grows(i) ==
    IsRecorded(i) =>
        /\ IsRecorded(i)'
        /\ decisions'[i].verdict = decisions[i].verdict
        /\ decisions[i].executed => decisions'[i].executed

LEMMA RunFrame ==
    ASSUME NEW r, RunInv(r), idOf' = idOf, Grows(idOf[r]),
           phase'[r] = phase[r], delib'[r] = delib[r], kept'[r] = kept[r],
           failed'[r] = failed[r], tx'[r] = tx[r]
    PROVE  RunInv(r)'
<1>1. Progress(r)'
  BY DEF RunInv, Progress, Clean, Included, HasTarget
<1>2. Sent(r)'
  BY DEF RunInv, Sent, Included, HasTarget
<1>3. OnChain(r)'
  BY DEF RunInv, OnChain, Grows, IsRecorded
<1> QED
  BY <1>1, <1>2, <1>3 DEF RunInv

(* The fate of one transaction of one run changes.                         *)
LEMMA OneFate ==
    ASSUME tx \in [Runs -> [Kinds -> Fates]], NEW r \in Runs,
           NEW k \in Kinds, NEW fate \in Fates, tx' = [tx EXCEPT ![r][k] = fate]
    PROVE  /\ tx' \in [Runs -> [Kinds -> Fates]]
           /\ tx'[r][k] = fate
           /\ \A j \in Kinds \ {k} : tx'[r][j] = tx[r][j]
           /\ \A q \in Runs \ {r} : tx'[q] = tx[q]
<1>1. tx'[r] = [tx[r] EXCEPT ![k] = fate]
  OBVIOUS
<1>2. tx[r] \in [Kinds -> Fates]
  OBVIOUS
<1>3. tx'[r] \in [Kinds -> Fates]
  BY <1>1, <1>2
<1> QED
  BY <1>1, <1>2, <1>3

(* A step of a run's process touches nothing of the contracts, nor of any  *)
(* other run; a saved run takes none.                                      *)
LEMMA RunStepFrame ==
    ASSUME SubmissionTypeOK, NEW r \in Runs, RunStep(r)
    PROVE  /\ UNCHANGED vars
           /\ idOf' = idOf
           /\ phase[r] # "saved"
           /\ \A q \in Runs \ {r} :
                  /\ phase'[q] = phase[q]
                  /\ delib'[q] = delib[q]
                  /\ kept'[q] = kept[q]
                  /\ failed'[q] = failed[q]
                  /\ tx'[q] = tx[q]
<1> USE DEF SubmissionTypeOK, Goto, Catch
<1>1. CASE Deliberate(r)
  BY <1>1 DEF Deliberate
<1>2. CASE \E k \in Kinds : Put(r, k)
  BY <1>2 DEF Put, Sending
<1>3. CASE Connect(r)
  BY <1>3 DEF Connect
<1>4. CASE \E k \in Kinds : Await(r, k)
  BY <1>4 DEF Await, Awaiting
<1>5. CASE \E k \in Kinds : AwaitFails(r, k)
  BY <1>5 DEF AwaitFails, Awaiting
<1>6. CASE WriteFile(r)
  BY <1>6 DEF WriteFile
<1>7. CASE Die(r)
  BY <1>7 DEF Die
<1> QED
  BY <1>1, <1>2, <1>3, <1>4, <1>5, <1>6, <1>7 DEF RunStep, Proceed

(***************************************************************************)
(* Types.                                                                  *)
(***************************************************************************)
LEMMA TypeUnchanged == TypeOK /\ UNCHANGED vars => TypeOK'
BY TypeStep

LEMMA DivIsNat ==
    ASSUME NEW a \in Nat, NEW b \in Nat \ {0}
    PROVE  a \div b \in Nat
OBVIOUS

(* The arguments of the two calls are naturals, whatever was deliberated.  *)
LEMMA FractionIsNat ==
    ASSUME NEW share \in Nat, NEW grain \in Nat \ {0}, NEW total \in Nat
    PROVE  RoundedShare(share, grain, total) \in Nat
<1>1. 2 * share * total + grain \in Nat /\ 2 * grain \in Nat \ {0}
  OBVIOUS
<1> QED
  BY <1>1, DivIsNat DEF RoundedShare

LEMMA WeightsAreNats ==
    ASSUME NEW d \in Deliberations
    PROVE  /\ MoveWeights(d) \in Seq(Nat)
           /\ Len(MoveWeights(d)) = Len(d.target)
<1>1. d.target \in Seq(Nat) /\ Unit \in Nat \ {0}
  BY SubmissionAssumption DEF Deliberation
<1> DEFINE raw == d.target
           n == Len(raw)
           bonus(i) == IF Rank(raw, Unit, i) < TotalBps - SumOf(Floors(raw, Unit)) THEN 1 ELSE 0
<1>2. n \in Nat /\ DOMAIN raw = 1 .. n /\ \A i \in 1 .. n : raw[i] \in Nat
  BY <1>1
<1>3. \A i \in 1 .. n : raw[i] \div Unit \in Nat
  BY <1>1, <1>2, DivIsNat
<1>4. \A i \in 1 .. n : bonus(i) \in {0, 1}
  OBVIOUS
<1>5. MoveWeights(d) = [i \in 1 .. n |-> raw[i] \div Unit + bonus(i)]
  BY <1>2 DEF MoveWeights, ToBpsAllocation, Floors
<1> HIDE DEF bonus
<1>6. \A i \in 1 .. n : raw[i] \div Unit + bonus(i) \in Nat
  BY <1>3, <1>4
<1> QED
  BY <1>2, <1>5, <1>6

LEMMA SubmissionTypeInit == SubmissionInit => SubmissionTypeOK
<1> SUFFICES ASSUME SubmissionInit PROVE SubmissionTypeOK
  OBVIOUS
<1> USE DEF SubmissionInit
<1>1. LogTypeOK
  BY TreasuryAssumption DEF LogTypeOK, Accounts
<1>2. TypeOK
  BY <1>1, LogAssumption DEF TypeOK, TreasuryInit, EmptyBook, Weights
<1>3. tx \in [Runs -> [Kinds -> Fates]]
  BY DEF Fates
<1> QED
  BY <1>2, <1>3 DEF SubmissionTypeOK, Phases, NoFile

LEMMA TypeRunStep ==
    ASSUME SubmissionTypeOK, NEW r \in Runs, RunInv(r), RunStep(r)
    PROVE  SubmissionTypeOK'
<1>0. TypeOK'
  BY RunStepFrame, TypeUnchanged DEF SubmissionTypeOK
<1> USE DEF SubmissionTypeOK, Goto, Catch
<1>1. CASE Deliberate(r)
  BY <1>0, <1>1 DEF Deliberate, Phases
<1>2. CASE \E k \in Kinds : Put(r, k)
  <2>1. PICK k \in Kinds : Put(r, k)
    BY <1>2
  <2>2. tx' \in [Runs -> [Kinds -> Fates]]
    BY <2>1, OneFate DEF Put, Fates
  <2>3. Awaiting(k) \in Phases
    BY DEF Awaiting, Phases
  <2> QED
    BY <1>0, <2>1, <2>2, <2>3 DEF Put, Phases
<1>3. CASE Connect(r)
  BY <1>0, <1>3 DEF Connect, Phases
<1>4. CASE \E k \in Kinds : Await(r, k)
  <2>1. PICK k \in Kinds : Await(r, k)
    BY <1>4
  <2>2. phase' \in [Runs -> Phases] /\ kept' \in [Runs -> SUBSET Kinds]
    BY <2>1 DEF Await, Phases
  <2>3. ~failed[r]
    BY <2>1 DEF Await, Awaiting, RunInv, Progress
  <2>4. \A q \in Runs \ {r} : kept'[q] = kept[q]
    BY <2>1 DEF Await
  <2> QED
    BY <1>0, <2>1, <2>2, <2>3, <2>4 DEF Await
<1>5. CASE \E k \in Kinds : AwaitFails(r, k)
  BY <1>0, <1>5 DEF AwaitFails, Phases
<1>6. CASE WriteFile(r)
  BY <1>0, <1>6 DEF WriteFile, Phases
<1>7. CASE Die(r)
  BY <1>0, <1>7 DEF Die, Phases
<1> QED
  BY <1>1, <1>2, <1>3, <1>4, <1>5, <1>6, <1>7 DEF RunStep, Proceed

(* A record or a move is applied: the same call the contracts take from    *)
(* anybody, with arguments of the right types.                             *)
LEMMA TypeChainStep ==
    ASSUME SubmissionTypeOK, NEW r \in Runs, RunInv(r), ChainStep(r)
    PROVE  SubmissionTypeOK'
<1> DEFINE d == delib[r]
<1>1. /\ UNCHANGED runVars
      /\ \E k \in Kinds, fate \in Fates : Settle(r, k, fate)
  BY DEF ChainStep, ExecuteRecord, ExecuteMove, OutOfGas, Expire, Settle, Kinds, Fates
<1>2. tx' \in [Runs -> [Kinds -> Fates]]
  BY <1>1, OneFate DEF Settle, SubmissionTypeOK
<1>3. SUFFICES TypeOK'
  BY <1>1, <1>2 DEF SubmissionTypeOK, runVars, Settle
<1>4. \A k \in Kinds : tx[r][k] = "pending" => d \in Deliberations
  <2>1. \A k \in Kinds : tx[r][k] = "pending" => tx[r][Record] # "unsent"
    BY TwoKinds DEF RunInv, Sent, Included
  <2> QED
    BY <2>1 DEF RunInv, Sent
<1>5. /\ Signer \in Accounts /\ Signer \in Addresses /\ Vault \in Treasuries
      /\ SleeveOrder \in Seq(Sleeves) /\ idOf[r] \in RequestIds
  BY SubmissionAssumption DEF Accounts, SubmissionTypeOK
<1>6. CASE UNCHANGED vars
  BY <1>6, TypeUnchanged DEF SubmissionTypeOK
<1>7. CASE RecordDecision(Signer, idOf[r], d.verdict, d.hashes, RecordedFraction(d))
           /\ UNCHANGED treasuryVars /\ d \in Deliberations
  <2>1. /\ d.verdict \in Nat
        /\ d.hashes \in Hashes
        /\ d.share \in Nat
    BY <1>7, SubmissionAssumption
    DEF Deliberation, Verdicts, VERDICT_APPROVE, VERDICT_ABSTAIN_UPHELD
  <2>2. RecordedFraction(d) \in Nat
    BY <2>1, FractionIsNat, SubmissionAssumption, LogAssumption DEF RecordedFraction
  <2>3. LogTypeOK'
    BY <1>5, <1>7, <2>1, <2>2, LogTypeRecord DEF SubmissionTypeOK, TypeOK
  <2> QED
    BY <1>7, <2>3 DEF SubmissionTypeOK, TypeOK, treasuryVars, RecordDecision
<1>8. CASE Reallocate(Vault, Signer, idOf[r], SleeveOrder, MoveWeights(d)) /\ d \in Deliberations
  BY <1>5, <1>8, WeightsAreNats, TypeReallocate DEF SubmissionTypeOK
<1> QED
  BY <1>4, <1>6, <1>7, <1>8, TwoKinds
  DEF ChainStep, ExecuteRecord, ExecuteMove, OutOfGas, Expire, Settle, Record, Move

(***************************************************************************)
(* A step of a run's process.                                              *)
(***************************************************************************)
LEMMA RunInvRunStep ==
    ASSUME SubmissionTypeOK, NEW r \in Runs, RunInv(r), RunStep(r)
    PROVE  RunInv(r)'
<1>0. /\ decisions' = decisions /\ idOf' = idOf
      /\ OnChain(r) /\ Sent(r) /\ Progress(r)
      /\ tx[r] \in [Kinds -> Fates]
      /\ kept[r] \subseteq Kinds
  BY RunStepFrame DEF vars, logVars, RunInv, SubmissionTypeOK
<1> USE TwoKinds DEF Included, HasTarget, IsRecorded
<1>1. CASE Deliberate(r)
  <2>1. /\ phase[r] = "deliberating"
        /\ phase'[r] \in {"connecting", "writing"}
        /\ delib'[r] \in Deliberations
        /\ kept' = kept /\ failed' = failed /\ tx' = tx
    BY <1>1 DEF Deliberate, Goto, SubmissionTypeOK
  <2>2. /\ tx[r][Record] = "unsent" /\ tx[r][Move] = "unsent"
        /\ kept[r] = {} /\ ~failed[r]
    BY <1>0, <2>1 DEF Progress, Before
  <2>3. Progress(r)'
    BY <2>1, <2>2 DEF Progress, Before, Clean
  <2>4. Sent(r)' /\ OnChain(r)'
    BY <1>0, <2>1, <2>2 DEF Sent, OnChain
  <2> QED
    BY <2>3, <2>4 DEF RunInv
<1>2. CASE Connect(r)
  <2>1. /\ phase[r] = "connecting"
        /\ \/ phase'[r] = "recording" /\ kept' = kept /\ failed' = failed
           \/ phase'[r] = "writing" /\ kept'[r] = {} /\ failed'[r]
        /\ delib' = delib /\ tx' = tx
    BY <1>2 DEF Connect, Goto, Catch, SubmissionTypeOK
  <2>2. Progress(r)'
    BY <1>0, <2>1 DEF Progress, Before, Clean
  <2>3. Sent(r)' /\ OnChain(r)'
    BY <1>0, <2>1 DEF Sent, OnChain
  <2> QED
    BY <2>2, <2>3 DEF RunInv
<1>3. ASSUME NEW k \in Kinds, Put(r, k) PROVE RunInv(r)'
  <2>1. /\ phase[r] = Sending(k)
        /\ \/ phase'[r] = Awaiting(k) /\ kept' = kept /\ failed' = failed
           \/ phase'[r] = "writing" /\ kept'[r] = {} /\ failed'[r]
        /\ delib' = delib
        /\ tx' = tx \/ tx' = [tx EXCEPT ![r][k] = "pending"]
    BY <1>3 DEF Put, Goto, Catch, SubmissionTypeOK
  <2>2. /\ tx'[r][k] \in {tx[r][k], "pending"}
        /\ \A j \in Kinds \ {k} : tx'[r][j] = tx[r][j]
    BY <2>1, OneFate DEF SubmissionTypeOK, Fates
  <2>3. CASE k = Record
    <3>1. phase[r] = "recording" /\ Awaiting(k) = "awaitingRecord"
      BY <2>1, <2>3 DEF Sending, Awaiting, Record
    <3>2. tx'[r][Move] = "unsent" /\ tx[r][Record] = "unsent" /\ kept[r] = {} /\ ~failed[r]
         
      BY <1>0, <2>2, <2>3, <3>1 DEF Progress, Before
    <3>3. Progress(r)'
      BY <2>1, <3>1, <3>2 DEF Progress, Before, Clean
    <3>4. Sent(r)'
      BY <1>0, <2>1, <3>1, <3>2 DEF Sent
    <3>5. OnChain(r)'
      BY <1>0, <2>1, <2>2, <2>3, <3>2 DEF OnChain
    <3> QED
      BY <3>3, <3>4, <3>5 DEF RunInv
  <2>4. CASE k = Move
    <3>1. phase[r] = "moving" /\ Awaiting(k) = "awaitingMove"
      BY <2>1, <2>4 DEF Sending, Awaiting, Move
    <3>2. /\ tx[r][Move] = "unsent" /\ HasTarget(r) /\ Included(r, Record)
          /\ kept[r] = {Record} /\ ~failed[r]
          /\ tx'[r][Record] = tx[r][Record]
      BY <1>0, <2>2, <2>4, <3>1 DEF Progress, Before
    <3>3. Progress(r)'
      BY <2>1, <3>1, <3>2 DEF Progress, Before, Clean
    <3>4. Sent(r)'
      BY <1>0, <2>1, <3>1, <3>2 DEF Sent
    <3>5. OnChain(r)'
      BY <1>0, <2>1, <2>2, <2>4, <3>2 DEF OnChain
    <3> QED
      BY <3>3, <3>4, <3>5 DEF RunInv
  <2> QED
    BY <2>3, <2>4
<1>4. ASSUME NEW k \in Kinds, Await(r, k) PROVE RunInv(r)'
  <2>1. /\ phase[r] = Awaiting(k) /\ Included(r, k)
        /\ kept'[r] = kept[r] \cup {k}
        /\ phase'[r] = IF k = Record /\ HasTarget(r) THEN "moving" ELSE "writing"
        /\ delib' = delib /\ failed' = failed /\ tx' = tx
    BY <1>4 DEF Await, Goto, SubmissionTypeOK, Record
  <2>2. Sent(r)'
    <3>1. phase[r] \in {"awaitingRecord", "awaitingMove"}
      BY <2>1 DEF Awaiting
    <3> QED
      BY <1>0, <2>1, <3>1 DEF Sent
  <2>3. OnChain(r)'
    BY <1>0, <2>1 DEF OnChain
  <2>4. CASE k = Record
    <3>1. phase[r] = "awaitingRecord"
      BY <2>1, <2>4 DEF Awaiting, Record
    <3>2. tx[r][Move] = "unsent" /\ kept'[r] = {Record} /\ ~failed[r]
      BY <1>0, <2>1, <2>4, <3>1 DEF Progress
    <3>3. Progress(r)'
      BY <2>1, <2>4, <3>2 DEF Progress, Before, Clean
    <3> QED
      BY <2>2, <2>3, <3>3 DEF RunInv
  <2>5. CASE k = Move
    <3>1. phase[r] = "awaitingMove" /\ phase'[r] = "writing"
      BY <2>1, <2>5 DEF Awaiting, Move, Record
    <3>2. Included(r, Record) /\ kept'[r] = Kinds /\ ~failed[r]
      BY <1>0, <2>1, <2>5, <3>1 DEF Progress
    <3>3. Progress(r)'
      BY <2>1, <2>5, <3>1, <3>2 DEF Progress, Before, Clean
    <3> QED
      BY <2>2, <2>3, <3>3 DEF RunInv
  <2> QED
    BY <2>4, <2>5
<1>5. ASSUME NEW k \in Kinds, AwaitFails(r, k) PROVE RunInv(r)'
  <2>1. /\ phase[r] \in {"awaitingRecord", "awaitingMove"}
        /\ phase'[r] = "writing" /\ kept'[r] = {} /\ failed'[r]
        /\ delib' = delib /\ tx' = tx
    BY <1>5 DEF AwaitFails, Awaiting, Goto, Catch, SubmissionTypeOK
  <2>2. Progress(r)'
    BY <1>0, <2>1 DEF Progress, Before
  <2>3. Sent(r)' /\ OnChain(r)'
    BY <1>0, <2>1 DEF Sent, OnChain
  <2> QED
    BY <2>2, <2>3 DEF RunInv
<1>6. CASE WriteFile(r)
  <2>1. /\ phase[r] = "writing" /\ phase'[r] = "saved"
        /\ delib' = delib /\ kept' = kept /\ failed' = failed /\ tx' = tx
    BY <1>6 DEF WriteFile, Goto, SubmissionTypeOK
  <2>2. Progress(r)'
    BY <1>0, <2>1 DEF Progress, Before, Clean
  <2>3. Sent(r)' /\ OnChain(r)'
    BY <1>0, <2>1 DEF Sent, OnChain
  <2> QED
    BY <2>2, <2>3 DEF RunInv
<1>7. CASE Die(r)
  <2>1. /\ phase[r] # "saved" /\ phase'[r] = "dead"
        /\ delib' = delib /\ kept' = kept /\ failed' = failed /\ tx' = tx
    BY <1>7 DEF Die, Goto, SubmissionTypeOK
  <2>2. Progress(r)'
    BY <1>0, <2>1 DEF Progress, Before
  <2>3. Sent(r)' /\ OnChain(r)'
    BY <1>0, <2>1 DEF Sent, OnChain
  <2> QED
    BY <2>2, <2>3 DEF RunInv
<1> QED
  BY <1>1, <1>2, <1>3, <1>4, <1>5, <1>6, <1>7 DEF RunStep, Proceed

(* The transactions that the chain has applied stay applied.               *)
AppliedStays ==
    \A q \in Runs, k \in Kinds : tx[q][k] = "applied" => tx'[q][k] = "applied"

LEMMA AppliedGrows ==
    ASSUME AppliedStays, idOf' = idOf, NEW i, NEW k \in Kinds, Applied(i, k)
    PROVE  Applied(i, k)'
BY DEF AppliedStays, Applied

LEMMA AppliedRunStep ==
    ASSUME SubmissionTypeOK, NEW r \in Runs, RunInv(r), RunStep(r)
    PROVE  AppliedStays
<1>1. CASE tx' = tx
  BY <1>1 DEF AppliedStays
<1>2. ASSUME NEW k \in Kinds, Put(r, k), tx' = [tx EXCEPT ![r][k] = "pending"]
      PROVE  AppliedStays
  <2>1. tx[r][k] = "unsent"
    BY <1>2, TwoKinds DEF Put, Sending, RunInv, Progress, Before, Record, Move
  <2>2. /\ \A j \in Kinds \ {k} : tx'[r][j] = tx[r][j]
        /\ \A q \in Runs \ {r} : tx'[q] = tx[q]
    BY <1>2, OneFate DEF Fates, SubmissionTypeOK
  <2> QED
    BY <2>1, <2>2 DEF AppliedStays
<1> QED
  BY <1>1, <1>2
  DEF RunStep, Proceed, Deliberate, Connect, Put, Await, AwaitFails, WriteFile, Die

LEMMA IdsRunStep ==
    ASSUME SubmissionTypeOK, NEW r \in Runs, RunInv(r), RunStep(r),
           NEW i \in RequestIds, OfARun(i), Filed(i)
    PROVE  OfARun(i)' /\ Filed(i)'
<1>0. UNCHANGED vars /\ idOf' = idOf /\ phase[r] # "saved"
  BY RunStepFrame
<1>1. AppliedStays
  BY AppliedRunStep
<1>2. OfARun(i)'
  <2>1. IsRecorded(i)' => IsRecorded(i) /\ decisions'[i] = decisions[i]
    BY <1>0 DEF vars, logVars, IsRecorded
  <2>2. Record \in Kinds /\ Move \in Kinds
    BY TwoKinds
  <2> QED
    BY <1>0, <1>1, <2>1, <2>2, AppliedGrows DEF OfARun
<1>3. CASE file' = file
  <2>1. \A q \in Runs : phase[q] = "saved" =>
            phase'[q] = phase[q] /\ kept'[q] = kept[q] /\ failed'[q] = failed[q]
    BY <1>0, RunStepFrame
  <2>2. Filed(i)'
    BY <1>0, <1>3, <2>1 DEF Filed
  <2> QED
    BY <1>2, <2>2
<1>4. CASE WriteFile(r)
  <2>1. /\ phase'[r] = "saved" /\ kept' = kept /\ failed' = failed
        /\ \A q \in Runs : phase[q] = "saved" => phase'[q] = "saved"
        /\ file' = [file EXCEPT ![idOf[r]] =
               [txs |-> kept[r], error |-> failed[r], written |-> TRUE]]
    BY <1>4 DEF WriteFile, Goto, SubmissionTypeOK
  <2>2. CASE i = idOf[r]
    <3>1. file'[i] = [txs |-> kept'[r], error |-> failed'[r], written |-> TRUE]
      BY <2>1, <2>2 DEF SubmissionTypeOK
    <3>2. Filed(i)'
      BY <1>0, <2>1, <2>2, <3>1 DEF Filed
    <3> QED
      BY <1>2, <3>2
  <2>3. CASE i # idOf[r]
    <3>1. file'[i] = file[i]
      BY <2>1, <2>3 DEF SubmissionTypeOK
    <3>2. Filed(i)'
      BY <1>0, <2>1, <3>1 DEF Filed
    <3> QED
      BY <1>2, <3>2
  <2> QED
    BY <2>2, <2>3
<1> QED
  BY <1>3, <1>4
  DEF RunStep, Proceed, Deliberate, Connect, Put, Await, AwaitFails, Die

(***************************************************************************)
(* A step of the chain.                                                    *)
(***************************************************************************)
LEMMA RunInvSettle ==
    ASSUME SubmissionTypeOK, NEW r \in Runs, RunInv(r), NEW k \in Kinds,
           NEW fate \in Fates \ {"unsent", "pending"}, Settle(r, k, fate)
    PROVE  /\ Progress(r)' /\ Sent(r)'
           /\ tx'[r][k] = fate
           /\ \A j \in Kinds \ {k} : tx'[r][j] = tx[r][j]
           /\ k = Record => tx[r][Move] = "unsent"
<1>1. /\ tx[r][k] = "pending" /\ tx'[r][k] = fate
      /\ \A j \in Kinds \ {k} : tx'[r][j] = tx[r][j]
      /\ phase' = phase /\ delib' = delib /\ kept' = kept /\ failed' = failed
  BY OneFate DEF Settle, runVars, SubmissionTypeOK
<1>2. k = Record => tx[r][Move] = "unsent"
  BY <1>1 DEF RunInv, Sent, Included
<1>3. \A j \in Kinds : /\ tx[r][j] = "unsent" => tx'[r][j] = "unsent"
                       /\ Included(r, j) => Included(r, j)'
                       /\ tx'[r][j] # "unsent" => tx[r][j] # "unsent"
  BY <1>1 DEF Included
<1>4. (HasTarget(r) <=> HasTarget(r)') /\ (Clean(r) => Clean(r)')
  BY <1>1, <1>3, TwoKinds DEF HasTarget, Clean
<1>5. Progress(r)'
  BY <1>1, <1>3, <1>4, TwoKinds DEF RunInv, Progress
<1>6. Sent(r)'
  BY <1>1, <1>3, <1>4, TwoKinds DEF RunInv, Sent
<1> QED
  BY <1>1, <1>2, <1>5, <1>6

(* What the chain may do next of a run.                                    *)
Recorded(r) ==
    /\ Settle(r, Record, "applied")
    /\ RecordDecision(Signer, idOf[r], delib[r].verdict, delib[r].hashes,
                      RecordedFraction(delib[r]))
    /\ UNCHANGED treasuryVars

Moved(r) ==
    /\ Settle(r, Move, "applied")
    /\ Reallocate(Vault, Signer, idOf[r], SleeveOrder, MoveWeights(delib[r]))

Dropped(r) ==
    \E k \in Kinds, fate \in Fates \ {"unsent", "pending", "applied"} :
        Settle(r, k, fate) /\ UNCHANGED vars

LEMMA ChainCases ==
    ASSUME NEW r \in Runs, ChainStep(r)
    PROVE  Recorded(r) \/ Moved(r) \/ Dropped(r)
<1>1. CASE ExecuteRecord(r)
  BY <1>1, TwoKinds DEF ExecuteRecord, Recorded, Dropped, Fates, Record
<1>2. CASE ExecuteMove(r)
  BY <1>2, TwoKinds DEF ExecuteMove, Moved, Dropped, Fates, Move
<1>3. CASE \E k \in Kinds : OutOfGas(r, k) \/ Expire(r, k)
  BY <1>3 DEF OutOfGas, Expire, Dropped, Fates
<1> QED
  BY <1>1, <1>2, <1>3 DEF ChainStep

(* A record is of a new id, and of the verdict that was deliberated.       *)
LEMMA RecordEffect ==
    ASSUME SubmissionTypeOK, NEW r \in Runs, RunInv(r), Recorded(r)
    PROVE  /\ ~IsRecorded(idOf[r])
           /\ decisions'[idOf[r]] # NoDecision
           /\ decisions'[idOf[r]].verdict = delib[r].verdict
           /\ ~decisions'[idOf[r]].executed
           /\ \A i \in RequestIds \ {idOf[r]} : decisions'[i] = decisions[i]
<1> DEFINE d == delib[r]
<1>1. idOf[r] \in RequestIds /\ tx[r][Record] = "pending"
  BY DEF SubmissionTypeOK, Recorded, Settle
<1>2. ~IsRecorded(idOf[r])
  BY DEF Recorded, RecordDecision, CanRecord
<1>3. /\ decisions' = [decisions EXCEPT ![idOf[r]] =
             [verdict |-> d.verdict, hashes |-> d.hashes,
              fraction |-> RecordedFraction(d), executed |-> FALSE]]
      /\ decisions \in [RequestIds -> Decision \cup {NoDecision}]
  BY DEF Recorded, RecordDecision, SubmissionTypeOK, TypeOK, LogTypeOK
<1>4. decisions'[idOf[r]] = [verdict |-> d.verdict, hashes |-> d.hashes,
                             fraction |-> RecordedFraction(d), executed |-> FALSE]
  BY <1>1, <1>3
<1>5. d \in Deliberation
  BY <1>1, SubmissionAssumption DEF RunInv, Sent
<1>6. d.verdict \in Nat /\ d.hashes \in Hashes /\ d.share \in Nat
  BY <1>5, SubmissionAssumption
  DEF Deliberation, Verdicts, VERDICT_APPROVE, VERDICT_ABSTAIN_UPHELD
<1>7. RecordedFraction(d) \in Nat
  BY <1>6, FractionIsNat, SubmissionAssumption, LogAssumption DEF RecordedFraction
<1>8. d.verdict <= VERDICT_ABSTAIN_UPHELD /\ RecordedFraction(d) <= TotalBps
  BY DEF Recorded, RecordDecision, CanRecord, ValidFraction
<1>9. decisions'[idOf[r]] \in Decision
  BY <1>4, <1>6, <1>7, <1>8, LogAssumption
  DEF Decision, Verdicts, VERDICT_APPROVE, VERDICT_ABSTAIN_UPHELD
<1> QED
  BY <1>1, <1>2, <1>3, <1>4, <1>9, LogAssumption

(* A move marks the decision of its id, which the log holds.               *)
LEMMA MoveEffect ==
    ASSUME SubmissionTypeOK, NEW r \in Runs, Moved(r)
    PROVE  /\ IsRecorded(idOf[r])
           /\ decisions'[idOf[r]] # NoDecision
           /\ decisions'[idOf[r]].verdict = decisions[idOf[r]].verdict
           /\ decisions'[idOf[r]].executed
           /\ \A i \in RequestIds \ {idOf[r]} : decisions'[i] = decisions[i]
<1>1. idOf[r] \in RequestIds
  BY DEF SubmissionTypeOK
<1>2. /\ IsRecorded(idOf[r])
      /\ decisions' = [decisions EXCEPT ![idOf[r]].executed = TRUE]
      /\ decisions \in [RequestIds -> Decision \cup {NoDecision}]
  BY DEF Moved, Reallocate, MarkExecuted, CanMark, SubmissionTypeOK, TypeOK, LogTypeOK
<1>3. decisions[idOf[r]] \in Decision
  BY <1>1, <1>2 DEF IsRecorded
<1>4. decisions'[idOf[r]] = [decisions[idOf[r]] EXCEPT !.executed = TRUE]
  BY <1>1, <1>2
<1>5. decisions'[idOf[r]] \in Decision
  BY <1>3, <1>4 DEF Decision
<1>6. /\ decisions'[idOf[r]].executed
      /\ decisions'[idOf[r]].verdict = decisions[idOf[r]].verdict
  BY <1>3, <1>4 DEF Decision
<1> QED
  BY <1>1, <1>2, <1>5, <1>6, LogAssumption

(* The contracts touch at most the decision of the id that the call names, *)
(* and forget nothing of it.                                               *)
LEMMA ChainStepFrame ==
    ASSUME SubmissionTypeOK, NEW r \in Runs, RunInv(r), ChainStep(r)
    PROVE  /\ UNCHANGED <<idOf, phase, delib, kept, failed, file, council, treasury, owner>>
           /\ \A q \in Runs \ {r} : tx'[q] = tx[q]
           /\ AppliedStays
           /\ \A i \in RequestIds : Grows(i)
<1>1. PICK k \in Kinds, fate \in Fates : Settle(r, k, fate)
  BY ChainCases, TwoKinds DEF Recorded, Moved, Dropped, Fates
<1>2. UNCHANGED <<idOf, phase, delib, kept, failed, file>>
  BY <1>1 DEF Settle, runVars
<1>3. /\ \A q \in Runs \ {r} : tx'[q] = tx[q]
      /\ tx[r][k] = "pending"
      /\ \A j \in Kinds \ {k} : tx'[r][j] = tx[r][j]
  BY <1>1, OneFate DEF Settle, SubmissionTypeOK
<1>4. AppliedStays
  BY <1>3 DEF AppliedStays
<1>5. UNCHANGED <<council, treasury, owner>>
  BY ChainCases
  DEF Recorded, Moved, Dropped, RecordDecision, Reallocate, MarkExecuted, vars, logVars,
      treasuryVars
<1>6. ASSUME NEW i \in RequestIds PROVE Grows(i)
  <2>1. CASE Recorded(r)
    BY <2>1, RecordEffect DEF Grows, IsRecorded
  <2>2. CASE Moved(r)
    BY <2>2, MoveEffect DEF Grows, IsRecorded
  <2>3. CASE Dropped(r)
    BY <2>3 DEF Dropped, Grows, IsRecorded, vars, logVars
  <2> QED
    BY <2>1, <2>2, <2>3, ChainCases
<1> QED
  BY <1>2, <1>3, <1>4, <1>5, <1>6

LEMMA RunInvChainStep ==
    ASSUME SubmissionTypeOK, NEW r \in Runs, RunInv(r), ChainStep(r)
    PROVE  RunInv(r)'
<1>0. delib' = delib /\ idOf' = idOf /\ Grows(idOf[r])
  BY ChainStepFrame DEF SubmissionTypeOK
<1>1. CASE Dropped(r)
  <2>1. PICK k \in Kinds, fate \in Fates \ {"unsent", "pending", "applied"} :
            Settle(r, k, fate)
    BY <1>1 DEF Dropped
  <2>2. Progress(r)' /\ Sent(r)'
    BY <2>1, RunInvSettle
  <2>3. tx'[r][k] = fate /\ \A j \in Kinds \ {k} : tx'[r][j] = tx[r][j]
    BY <2>1, RunInvSettle
  <2>4. \A j \in Kinds : tx'[r][j] = "applied" => tx[r][j] = "applied"
    BY <2>1, <2>3
  <2>5. OnChain(r)'
    BY <1>0, <2>4, TwoKinds DEF RunInv, OnChain, Grows, IsRecorded
  <2> QED
    BY <2>2, <2>5 DEF RunInv
<1>2. CASE Recorded(r)
  <2>1. Progress(r)' /\ Sent(r)' /\ tx'[r][Move] = "unsent"
    BY <1>2, RunInvSettle, TwoKinds DEF Recorded, Fates
  <2>2. OnChain(r)'
    BY <1>0, <1>2, <2>1, RecordEffect DEF OnChain, IsRecorded
  <2> QED
    BY <2>1, <2>2 DEF RunInv
<1>3. CASE Moved(r)
  <2>1. Progress(r)' /\ Sent(r)' /\ tx'[r][Record] = tx[r][Record]
    BY <1>3, RunInvSettle, TwoKinds DEF Moved, Fates
  <2>2. OnChain(r)'
    BY <1>0, <1>3, <2>1, MoveEffect DEF RunInv, OnChain, Grows, IsRecorded
  <2> QED
    BY <2>1, <2>2 DEF RunInv
<1> QED
  BY <1>1, <1>2, <1>3, ChainCases

LEMMA IdsChainStep ==
    ASSUME SubmissionTypeOK, NEW r \in Runs, RunInv(r), ChainStep(r),
           NEW i \in RequestIds, OfARun(i), Filed(i)
    PROVE  OfARun(i)' /\ Filed(i)'
<1>0. UNCHANGED <<idOf, phase, kept, failed, file>> /\ AppliedStays
  BY ChainStepFrame
<1>1. Filed(i)'
  BY <1>0 DEF Filed
<1>2. \A k \in Kinds : Applied(i, k) => Applied(i, k)'
  BY <1>0, AppliedGrows
<1>3. CASE decisions'[i] = decisions[i]
  BY <1>1, <1>2, <1>3, TwoKinds DEF OfARun, IsRecorded
<1>4. CASE Recorded(r) /\ i = idOf[r]
  <2>1. tx'[r][Record] = "applied"
    BY <1>4, RunInvSettle, TwoKinds DEF Recorded, Fates
  <2>2. Applied(i, Record)'
    BY <1>0, <1>4, <2>1 DEF Applied
  <2>3. OfARun(i)'
    BY <1>4, <2>2, RecordEffect DEF OfARun
  <2> QED
    BY <1>1, <2>3
<1>5. CASE Moved(r) /\ i = idOf[r]
  <2>1. tx'[r][Move] = "applied"
    BY <1>5, RunInvSettle, TwoKinds DEF Moved, Fates
  <2>2. Applied(i, Move)'
    BY <1>0, <1>5, <2>1 DEF Applied
  <2>3. OfARun(i)'
    BY <1>2, <1>5, <2>2, TwoKinds, MoveEffect DEF OfARun
  <2> QED
    BY <1>1, <2>3
<1>6. \/ decisions'[i] = decisions[i]
      \/ Recorded(r) /\ i = idOf[r]
      \/ Moved(r) /\ i = idOf[r]
  BY ChainCases, RecordEffect, MoveEffect DEF Dropped, vars, logVars
<1> QED
  BY <1>3, <1>4, <1>5, <1>6

(***************************************************************************)
(* The invariant holds.                                                    *)
(***************************************************************************)
LEMMA RunsInit == SubmissionInit => RunsInv
<1> SUFFICES ASSUME SubmissionInit PROVE RunsInv
  OBVIOUS
<1>1. ASSUME NEW r \in Runs PROVE RunInv(r)
  BY TwoKinds DEF SubmissionInit, RunInv, Progress, Sent, OnChain, Before, Clean
<1>2. ASSUME NEW i \in RequestIds PROVE OfARun(i) /\ Filed(i)
  BY DEF SubmissionInit, NoFile, OfARun, Filed, IsRecorded
<1> QED
  BY <1>1, <1>2 DEF RunsInv

LEMMA RunsStep ==
    SubmissionTypeOK /\ RunsInv /\ [SubmissionNext]_submissionVars
        => SubmissionTypeOK' /\ RunsInv'
<1> SUFFICES ASSUME SubmissionTypeOK, RunsInv, [SubmissionNext]_submissionVars
             PROVE  SubmissionTypeOK' /\ RunsInv'
  OBVIOUS
<1>1. CASE UNCHANGED submissionVars
  <2>1. SubmissionTypeOK'
    BY <1>1, TypeUnchanged DEF submissionVars, runVars, SubmissionTypeOK
  <2>2. ASSUME NEW q \in Runs PROVE RunInv(q)'
    BY <1>1, RunFrame DEF submissionVars, runVars, vars, logVars, RunsInv, Grows, IsRecorded
  <2>3. ASSUME NEW i \in RequestIds PROVE OfARun(i)' /\ Filed(i)'
    BY <1>1
    DEF submissionVars, runVars, vars, logVars, RunsInv, OfARun, Filed, Applied, IsRecorded
  <2> QED
    BY <2>1, <2>2, <2>3 DEF RunsInv
<1>2. ASSUME NEW r \in Runs, RunStep(r) PROVE SubmissionTypeOK' /\ RunsInv'
  <2>1. SubmissionTypeOK' /\ RunInv(r)'
    BY <1>2, TypeRunStep, RunInvRunStep DEF RunsInv
  <2>2. ASSUME NEW q \in Runs \ {r} PROVE RunInv(q)'
    <3>1. decisions' = decisions /\ idOf' = idOf
      BY <1>2, RunStepFrame DEF vars, logVars
    <3>2. Grows(idOf[q])
      BY <3>1 DEF Grows, IsRecorded
    <3> QED
      BY <1>2, <3>1, <3>2, RunStepFrame, RunFrame DEF RunsInv
  <2>3. ASSUME NEW i \in RequestIds PROVE OfARun(i)' /\ Filed(i)'
    BY <1>2, IdsRunStep DEF RunsInv
  <2> QED
    BY <2>1, <2>2, <2>3 DEF RunsInv
<1>3. ASSUME NEW r \in Runs, ChainStep(r) PROVE SubmissionTypeOK' /\ RunsInv'
  <2>1. SubmissionTypeOK' /\ RunInv(r)'
    BY <1>3, TypeChainStep, RunInvChainStep DEF RunsInv
  <2>2. ASSUME NEW q \in Runs \ {r} PROVE RunInv(q)'
    <3>1. idOf[q] \in RequestIds
      BY DEF SubmissionTypeOK
    <3> QED
      BY <1>3, <3>1, ChainStepFrame, RunFrame DEF RunsInv
  <2>3. ASSUME NEW i \in RequestIds PROVE OfARun(i)' /\ Filed(i)'
    BY <1>3, IdsChainStep DEF RunsInv
  <2> QED
    BY <2>1, <2>2, <2>3 DEF RunsInv
<1> QED
  BY <1>1, <1>2, <1>3 DEF SubmissionNext

LEMMA RunsCorrect == SubmissionSafety => [](SubmissionTypeOK /\ RunsInv)
BY SubmissionTypeInit, RunsInit, RunsStep, PTL DEF SubmissionSafety

(* The type of every run and of the contracts under it: in particular the  *)
(* arguments that the client computes keep the contracts' state typed, and *)
(* a run that has caught an error keeps no result.                         *)
THEOREM SubmissionTypeCorrect == SubmissionSafety => []SubmissionTypeOK
BY RunsCorrect, PTL

(* A run file without an error is that of a finished run with its name: it *)
(* lists exactly the transactions that this run has sent, and each of them *)
(* is in a block, whatever the node and the chain do, and however many     *)
(* runs of whatever names there are at once.                               *)
THEOREM CleanFileCorrect == SubmissionSafety => []CleanFileIsComplete
<1>1. RunsInv => CleanFileIsComplete
  <2> SUFFICES ASSUME RunsInv, NEW i \in RequestIds, file[i].written, ~file[i].error
               PROVE  \E r \in Runs :
                          /\ idOf[r] = i
                          /\ phase[r] = "saved"
                          /\ \A k \in Kinds : IF k \in file[i].txs THEN Included(r, k)
                                                                   ELSE tx[r][k] = "unsent"
    BY DEF CleanFileIsComplete
  <2>1. PICK r \in Runs :
            /\ idOf[r] = i
            /\ phase[r] = "saved"
            /\ file[i] = [txs |-> kept[r], error |-> failed[r], written |-> TRUE]
    BY DEF RunsInv, Filed
  <2>2. file[i].txs = kept[r] /\ file[i].error = failed[r]
    BY <2>1
  <2>3. ~failed[r]
    BY <2>2, Zenon
  <2>4. Clean(r)
    BY <2>1, <2>3 DEF RunsInv, RunInv, Progress
  <2>5. \A k \in Kinds : IF k \in file[i].txs THEN Included(r, k) ELSE tx[r][k] = "unsent"
    BY <2>2, <2>4, TwoKinds DEF Clean
  <2> QED
    BY <2>1, <2>5
<1> QED
  BY <1>1, RunsCorrect, PTL

(* No run that has submitted and ends without an error leaves a decision   *)
(* of its id that is still executable, unless it had nothing to move or    *)
(* the chain has refused its move.                                         *)
THEOREM NoForgottenMoveCorrect == SubmissionSafety => []NoForgottenMove
<1>1. RunsInv => NoForgottenMove
  <2> SUFFICES ASSUME RunsInv, NEW r \in Runs, phase[r] = "saved", ~failed[r],
                      tx[r][Record] # "unsent", IsExecutable(idOf[r])
               PROVE  \/ delib[r].target = << >>
                      \/ tx[r][Move] \in {"reverted", "outOfGas"}
    BY DEF NoForgottenMove, Record, Move
  <2>1. Clean(r) /\ OnChain(r)
    BY DEF RunsInv, RunInv, Progress
  <2>2. tx[r][Move] # "applied"
    BY <2>1 DEF IsExecutable, OnChain
  <2>3. CASE ~HasTarget(r)
    BY <2>3 DEF HasTarget
  <2>4. CASE Included(r, Move)
    BY <2>2, <2>4 DEF Included
  <2> QED
    BY <2>1, <2>3, <2>4 DEF Clean
<1> QED
  BY <1>1, RunsCorrect, PTL

(***************************************************************************)
(* What the contracts refuse.                                              *)
(***************************************************************************)
(* Another run with the id of this one has had a transaction applied.      *)
Overtaken(r, k) == \E q \in Namesakes(r) : tx[q][k] = "applied"

Cause(r) ==
    /\ tx[r][Record] = "reverted" => Overtaken(r, Record)
    /\ tx[r][Move] = "reverted" =>
           \/ tx[r][Record] = "outOfGas"
           \/ SumBps(MoveWeights(delib[r])) # TotalBps
           \/ \E k \in Kinds : Overtaken(r, k)

LEMMA OvertakenStays ==
    ASSUME AppliedStays, idOf' = idOf, NEW r, NEW k \in Kinds, Overtaken(r, k)
    PROVE  Overtaken(r, k)'
BY DEF AppliedStays, Overtaken, Namesakes

LEMMA CauseFrame ==
    ASSUME NEW r, Cause(r), tx'[r] = tx[r], delib'[r] = delib[r],
           AppliedStays, idOf' = idOf
    PROVE  Cause(r)'
<1>1. \A k \in Kinds : Overtaken(r, k) => Overtaken(r, k)'
  BY OvertakenStays
<1> QED
  BY <1>1, TwoKinds DEF Cause, MoveWeights

LEMMA DivBelow ==
    ASSUME NEW m \in Nat, NEW n \in Nat \ {0}, NEW t \in Nat, m < n * (t + 1)
    PROVE  m \div n <= t
<1> DEFINE q == m \div n
<1>1. q \in Nat /\ n * q <= m
  OBVIOUS
<1> HIDE DEF q
<1>2. ASSUME q >= t + 1 PROVE FALSE
  <2>1. n * q >= n * (t + 1)
    BY <1>1, <1>2
  <2> QED
    BY <1>1, <2>1
<1> QED
  BY <1>1, <1>2 DEF q

(* A share of at most the whole rounds to a fraction the log accepts.      *)
LEMMA FractionWithin ==
    ASSUME NEW grain \in Nat \ {0}, NEW share \in 0 .. grain, NEW total \in Nat
    PROVE  RoundedShare(share, grain, total) <= total
<1> DEFINE a == 2 * share * total + grain
           b == 2 * grain
<1>1. a \in Nat /\ b \in Nat \ {0}
  OBVIOUS
<1>2. share * total <= grain * total
  OBVIOUS
<1>3. a < b * (total + 1)
  BY <1>2
<1> QED
  BY <1>1, <1>3, DivBelow DEF RoundedShare

(* ... and a share of nothing rounds to nothing.                           *)
LEMMA FractionOfNothing ==
    ASSUME NEW grain \in Nat \ {0}, NEW total \in Nat
    PROVE  RoundedShare(0, grain, total) = 0
<1>1. grain \div (2 * grain) = 0
  OBVIOUS
<1>2. 2 * 0 * total + grain = grain
  OBVIOUS
<1> QED
  BY <1>1, <1>2 DEF RoundedShare

LEMMA RecordAccepted ==
    ASSUME WellConfigured, NEW id, NEW d \in Deliberations, ~IsRecorded(id)
    PROVE  CanRecord(Signer, id, d.verdict, RecordedFraction(d))
<1>1. /\ d.verdict \in Verdicts /\ d.share \in 0 .. Grain
      /\ d.verdict \notin Executable => d.share = 0
      /\ Grain \in Nat \ {0} /\ TotalBps \in Nat
  BY SubmissionAssumption, LogAssumption DEF Deliberation
<1>2. d.verdict <= VERDICT_ABSTAIN_UPHELD
  BY <1>1 DEF Verdicts, VERDICT_APPROVE, VERDICT_ABSTAIN_UPHELD
<1>3. RecordedFraction(d) <= TotalBps
  BY <1>1, FractionWithin DEF RecordedFraction
<1>4. d.verdict \in {VERDICT_ESCALATE, VERDICT_ABSTAIN_UPHELD} => RecordedFraction(d) = 0
  BY <1>1, FractionOfNothing
  DEF RecordedFraction, Executable, VERDICT_APPROVE, VERDICT_TRIM, VERDICT_ESCALATE,
      VERDICT_ABSTAIN_UPHELD
<1> QED
  BY <1>2, <1>3, <1>4 DEF WellConfigured, CanRecord, ValidFraction

(* What is recorded or executed under the id of a run that is still to be  *)
(* settled is another run's.                                               *)
LEMMA ByAnother ==
    ASSUME NEW r \in Runs, NEW k \in Kinds, tx[r][k] # "applied", Applied(idOf[r], k)
    PROVE  Overtaken(r, k)
BY DEF Applied, Overtaken, Namesakes

LEMMA MoveIsAccepted ==
    ASSUME WellConfigured, NEW r \in Runs, RunInv(r), Cause(r), OfARun(idOf[r]),
           delib[r] \in Deliberations, tx[r][Move] = "pending",
           tx[r][Record] # "outOfGas",
           SumBps(MoveWeights(delib[r])) = TotalBps,
           \A k \in Kinds : ~Overtaken(r, k)
    PROVE  MoveAccepted(r)
<1> DEFINE d == delib[r]
<1>1. tx[r][Record] = "applied" /\ HasTarget(r)
  BY TwoKinds DEF RunInv, Sent, Included, Cause
<1>2. IsRecorded(idOf[r]) /\ decisions[idOf[r]].verdict = d.verdict
  BY <1>1 DEF RunInv, OnChain
<1>6. ~decisions[idOf[r]].executed
  BY <1>2, ByAnother, TwoKinds DEF OfARun
<1>3. d.verdict \in Executable
  BY <1>1, SubmissionAssumption DEF HasTarget
<1>4. IsExecutable(idOf[r]) /\ CanMark(Vault, idOf[r])
  BY <1>2, <1>3, <1>6 DEF IsExecutable, CanMark, WellConfigured
<1>5. Len(SleeveOrder) = Len(MoveWeights(d)) /\ SleeveOrder # << >>
  <2>1. Len(d.target) = Len(SleeveOrder) /\ d.target # << >> /\ d.target \in Seq(Nat)
    BY <1>1, SubmissionAssumption DEF HasTarget, Deliberation
  <2>2. Len(MoveWeights(d)) = Len(d.target)
    BY WeightsAreNats
  <2>3. Len(d.target) > 0
    BY <2>1
  <2> QED
    BY <2>1, <2>2, <2>3
<1> QED
  BY <1>4, <1>5 DEF MoveAccepted, CanReallocate, WellConfigured

(* A process sends what it has not sent, for the deliberation it has.      *)
LEMMA CauseRunStep ==
    ASSUME SubmissionTypeOK, NEW r \in Runs, RunInv(r), Cause(r), RunStep(r)
    PROVE  Cause(r)'
<1>0. /\ AppliedStays /\ idOf' = idOf
      /\ \A k \in Kinds : Overtaken(r, k) => Overtaken(r, k)'
  BY AppliedRunStep, RunStepFrame, OvertakenStays
<1>1. CASE Deliberate(r)
  BY <1>1 DEF Deliberate, RunInv, Progress, Before, Cause
<1>2. CASE \E k \in Kinds : Put(r, k)
  <2>1. PICK k \in Kinds : Put(r, k)
    BY <1>2
  <2>2. delib' = delib /\ tx[r][k] = "unsent"
    BY <2>1, TwoKinds
    DEF Put, Catch, Sending, RunInv, Progress, Before, Record, Move
  <2>3. CASE tx' = tx
    BY <1>0, <2>2, <2>3, CauseFrame
  <2>4. CASE tx' = [tx EXCEPT ![r][k] = "pending"]
    <3>1. tx'[r][k] = "pending" /\ \A j \in Kinds \ {k} : tx'[r][j] = tx[r][j]
      BY <2>4, OneFate DEF SubmissionTypeOK, Fates
    <3>2. k = Record => tx[r][Move] = "unsent"
      BY <2>2 DEF RunInv, Sent, Included
    <3> QED
      BY <1>0, <2>2, <3>1, <3>2, TwoKinds DEF Cause, MoveWeights
  <2> QED
    BY <2>1, <2>3, <2>4 DEF Put
<1>3. CASE delib' = delib /\ tx' = tx
  BY <1>0, <1>3, CauseFrame
<1> QED
  BY <1>1, <1>2, <1>3
  DEF RunStep, Proceed, Connect, Await, AwaitFails, WriteFile, Die, Catch

LEMMA CauseChainStep ==
    ASSUME SubmissionTypeOK, WellConfigured, NEW r \in Runs, RunInv(r), Cause(r),
           OfARun(idOf[r]), ChainStep(r)
    PROVE  Cause(r)'
<1>0. /\ delib' = delib
      /\ \A k \in Kinds : Overtaken(r, k) => Overtaken(r, k)'
  BY ChainStepFrame, OvertakenStays
<1>1. ASSUME NEW k \in Kinds, NEW fate \in Fates \ {"unsent", "pending"}, Settle(r, k, fate)
      PROVE  /\ tx[r][k] = "pending" /\ tx'[r][k] = fate
             /\ delib[r] \in Deliberations
             /\ \A j \in Kinds \ {k} : tx'[r][j] = tx[r][j]
             /\ k = Record => tx[r][Move] = "unsent"
  <2>1. tx[r][Record] # "unsent"
    BY <1>1, TwoKinds DEF Settle, RunInv, Sent, Included
  <2> QED
    BY <1>1, <2>1, RunInvSettle DEF Settle, RunInv, Sent
<1>2. ASSUME NEW k \in Kinds, NEW fate \in {"applied", "outOfGas", "expired"},
             Settle(r, k, fate)
      PROVE  Cause(r)'
  <2>0. fate \in Fates \ {"unsent", "pending"}
    BY DEF Fates
  <2>1. CASE k = Record
    BY <1>0, <1>1, <1>2, <2>0, <2>1, TwoKinds DEF Cause
  <2>2. CASE k = Move
    BY <1>0, <1>1, <1>2, <2>0, <2>2, TwoKinds DEF Cause, MoveWeights
  <2> QED
    BY <2>1, <2>2, TwoKinds
<1>3. CASE /\ Settle(r, Record, "reverted")
           /\ ~CanRecord(Signer, idOf[r], delib[r].verdict, RecordedFraction(delib[r]))
  <2>1. /\ tx[r][Record] = "pending" /\ delib[r] \in Deliberations
        /\ tx'[r][Move] = "unsent"
    BY <1>1, <1>3, TwoKinds DEF Fates
  <2>2. IsRecorded(idOf[r])
    BY <1>3, <2>1, RecordAccepted
  <2>3. Overtaken(r, Record)
    BY <2>1, <2>2, ByAnother, TwoKinds DEF OfARun
  <2> QED
    BY <1>0, <2>1, <2>3, TwoKinds DEF Cause
<1>4. CASE Settle(r, Move, "reverted") /\ ~MoveAccepted(r)
  <2>1. /\ tx[r][Move] = "pending" /\ tx'[r][Move] = "reverted"
        /\ delib[r] \in Deliberations /\ tx'[r][Record] = tx[r][Record]
    BY <1>1, <1>4, TwoKinds DEF Fates
  <2>2. \/ tx[r][Record] = "outOfGas"
        \/ SumBps(MoveWeights(delib[r])) # TotalBps
        \/ \E k \in Kinds : Overtaken(r, k)
    BY <1>4, <2>1, MoveIsAccepted
  <2> QED
    BY <1>0, <2>1, <2>2, TwoKinds DEF Cause, MoveWeights
<1> QED
  BY <1>2, <1>3, <1>4, TwoKinds
  DEF ChainStep, ExecuteRecord, ExecuteMove, OutOfGas, Expire, Record, Move

LEMMA CauseInvariant == RefusedForCause <=> (WellConfigured => \A r \in Runs : Cause(r))
BY DEF RefusedForCause, Cause, Overtaken, Record, Move

LEMMA CauseStep ==
    SubmissionTypeOK /\ RunsInv /\ RefusedForCause /\ [SubmissionNext]_submissionVars
        => (WellConfigured => \A r \in Runs : Cause(r))'
<1> SUFFICES ASSUME SubmissionTypeOK, RunsInv, RefusedForCause,
                    [SubmissionNext]_submissionVars, WellConfigured',
                    NEW q \in Runs
             PROVE  Cause(q)'
  OBVIOUS
<1>1. CASE UNCHANGED submissionVars
  <2>1. AppliedStays
    BY <1>1 DEF submissionVars, AppliedStays
  <2> QED
    BY <1>1, <2>1, CauseFrame, CauseInvariant
    DEF submissionVars, runVars, vars, logVars, treasuryVars, WellConfigured
<1>2. ASSUME NEW r \in Runs, RunStep(r) PROVE Cause(q)'
  <2>1. WellConfigured /\ RunInv(r)
    BY <1>2, RunStepFrame DEF vars, logVars, treasuryVars, WellConfigured, RunsInv
  <2>2. AppliedStays /\ idOf' = idOf
    BY <1>2, <2>1, AppliedRunStep, RunStepFrame
  <2> QED
    BY <1>2, <2>1, <2>2, RunStepFrame, CauseRunStep, CauseFrame, CauseInvariant
<1>3. ASSUME NEW r \in Runs, ChainStep(r) PROVE Cause(q)'
  <2>1. RunInv(r) /\ OfARun(idOf[r])
    BY DEF RunsInv, SubmissionTypeOK
  <2>2. WellConfigured
    BY <1>3, <2>1, ChainStepFrame DEF WellConfigured
  <2> QED
    BY <1>3, <2>1, <2>2, ChainStepFrame, CauseChainStep, CauseFrame, CauseInvariant
<1> QED
  BY <1>1, <1>2, <1>3 DEF SubmissionNext

LEMMA CauseCorrect == SubmissionSafety => [](WellConfigured => \A r \in Runs : Cause(r))
<1>1. SubmissionInit => (WellConfigured => \A r \in Runs : Cause(r))
  BY TwoKinds DEF SubmissionInit, Cause
<1> QED
  BY <1>1, RunsCorrect, CauseStep, CauseInvariant, PTL DEF SubmissionSafety

(* With settings that name contracts of the signing account, wired to each *)
(* other, the chain's order of execution never makes a contract refuse     *)
(* anything of a run: only a record out of gas, weights that do not        *)
(* convert to the whole, or a run with the same request id, do.            *)
THEOREM RefusedForCauseCorrect == SubmissionSafety => []RefusedForCause
BY CauseCorrect, CauseInvariant, PTL
=============================================================================
