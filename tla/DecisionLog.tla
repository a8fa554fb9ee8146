---------------------------- MODULE DecisionLog ----------------------------
(* contracts/src/decision_log.rs: the on-chain audit trail of the council. *)
(* One action is one entry point called by one address: the Casper         *)
(* execution engine runs a call to its end or reverts all of it, so a      *)
(* reverted call leaves every variable as it was and is not an action.     *)
(* Abstracted: the two sha256 strings of a decision are one value of       *)
(* Hashes, and block times are left out (nothing in the contract reads     *)
(* them back).                                                             *)
EXTENDS Naturals, Sequences

CONSTANTS
    Addresses,      \* accounts and contract packages, anything that can call
    NoAddress,      \* the value of a Var<Address> never set
    RequestIds,     \* request ids, the keys of the log
    NoDecision,     \* the value of the mapping at a key never written
    Hashes,         \* (evidence hash, deliberation hash) pairs
    TotalBps,       \* 10_000, the whole of a proposed move in basis points
    VerdictArgs,    \* u8 values tried as the verdict of record_decision
    FractionArgs    \* u32 values tried as its execution fraction

VERDICT_APPROVE        == 0
VERDICT_TRIM           == 1
VERDICT_ESCALATE       == 2
VERDICT_ABSTAIN_UPHELD == 3

Verdicts   == VERDICT_APPROVE .. VERDICT_ABSTAIN_UPHELD
Executable == {VERDICT_APPROVE, VERDICT_TRIM}

Decision == [verdict  : Verdicts,
             hashes   : Hashes,
             fraction : 0 .. TotalBps,
             executed : BOOLEAN]

(* The CES events of the contract. *)
DecisionRecorded == [name     : {"DecisionRecorded"},
                     id       : RequestIds,
                     verdict  : Verdicts,
                     hashes   : Hashes,
                     fraction : 0 .. TotalBps,
                     by       : Addresses]

DecisionExecuted == [name : {"DecisionExecuted"},
                     id   : RequestIds,
                     by   : Addresses]

ASSUME LogAssumption ==
    /\ NoAddress \notin Addresses
    /\ NoDecision \notin Decision
    /\ TotalBps \in Nat \ {0}
    /\ VerdictArgs \subseteq Nat
    /\ FractionArgs \subseteq Nat

VARIABLES
    council,      \* the account that installed the log
    treasury,     \* the address that may mark executions, or NoAddress
    decisions,    \* [RequestIds -> Decision or NoDecision]
    requestIds,   \* the ids, in the order of their recording
    logEvents     \* the events emitted so far

logVars == <<council, treasury, decisions, requestIds, logEvents>>

(***************************************************************************)
(* The entry points.  Each has its guard, which is the conjunction of the  *)
(* conditions under which the source does not revert, and its effect.      *)
(***************************************************************************)
LogInit ==
    /\ council \in Addresses
    /\ treasury = NoAddress
    /\ decisions = [id \in RequestIds |-> NoDecision]
    /\ requestIds = << >>
    /\ logEvents = << >>

IsRecorded(id) == decisions[id] # NoDecision

IsExecutable(id) ==
    /\ IsRecorded(id)
    /\ ~decisions[id].executed
    /\ decisions[id].verdict \in Executable

(* Faulty variant: the wiring may be repeated.                             *)
CanSetTreasuryAgain(caller) == caller = council

CanSetTreasury(caller) ==
    /\ caller = council
    /\ treasury = NoAddress

SetTreasury(caller, t) ==
    /\ CanSetTreasury(caller)
    /\ treasury' = t
    /\ UNCHANGED <<council, decisions, requestIds, logEvents>>

(* Faulty variant: the fraction is only checked where it must be zero.     *)
ValidFractionUnbounded(v, f) ==
    v \in {VERDICT_ESCALATE, VERDICT_ABSTAIN_UPHELD} => f = 0

(* An escalated or abstained verdict must carry a zero fraction; nothing   *)
(* asks that an executable one carry a positive one.                       *)
ValidFraction(v, f) ==
    /\ f <= TotalBps
    /\ v \in {VERDICT_ESCALATE, VERDICT_ABSTAIN_UPHELD} => f = 0

CanRecord(caller, id, v, f) ==
    /\ caller = council
    /\ v <= VERDICT_ABSTAIN_UPHELD
    /\ ValidFraction(v, f)
    /\ ~IsRecorded(id)

RecordDecision(caller, id, v, h, f) ==
    /\ CanRecord(caller, id, v, f)
    /\ decisions' = [decisions EXCEPT ![id] =
           [verdict |-> v, hashes |-> h, fraction |-> f, executed |-> FALSE]]
    /\ requestIds' = Append(requestIds, id)
    /\ logEvents' = Append(logEvents,
           [name |-> "DecisionRecorded", id |-> id, verdict |-> v,
            hashes |-> h, fraction |-> f, by |-> caller])
    /\ UNCHANGED <<council, treasury>>

(* Faulty variant: the log does not look at its own executed flag.         *)
CanMarkAgain(caller, id) ==
    /\ caller = treasury
    /\ IsRecorded(id)
    /\ decisions[id].verdict \in Executable

CanMark(caller, id) ==
    /\ caller = treasury
    /\ IsRecorded(id)
    /\ ~decisions[id].executed
    /\ decisions[id].verdict \in Executable

MarkExecuted(caller, id) ==
    /\ CanMark(caller, id)
    /\ decisions' = [decisions EXCEPT ![id].executed = TRUE]
    /\ logEvents' = Append(logEvents,
           [name |-> "DecisionExecuted", id |-> id, by |-> caller])
    /\ UNCHANGED <<council, treasury, requestIds>>

LogCall(caller) ==
    \/ \E t \in Addresses : SetTreasury(caller, t)
    \/ \E id \in RequestIds, v \in VerdictArgs, h \in Hashes, f \in FractionArgs :
           RecordDecision(caller, id, v, h, f)
    \/ \E id \in RequestIds : MarkExecuted(caller, id)

LogNext == \E caller \in Addresses : LogCall(caller)

LogSpec == LogInit /\ [][LogNext]_logVars

(***************************************************************************)
(* Properties.                                                             *)
(***************************************************************************)

(* The type of the log's state: a stored decision never has a verdict code *)
(* or a fraction outside its range, whatever u8 and u32 the caller passed. *)
LogTypeOK ==
    /\ council \in Addresses
    /\ treasury \in Addresses \cup {NoAddress}
    /\ decisions \in [RequestIds -> Decision \cup {NoDecision}]
    /\ requestIds \in Seq(RequestIds)
    /\ logEvents \in Seq(DecisionRecorded \cup DecisionExecuted)

Recording(i) == logEvents[i].name = "DecisionRecorded"
Execution(i) == logEvents[i].name = "DecisionExecuted"

(* request_ids lists each recorded decision once, and nothing else: a      *)
(* reader that pages through request_id_at sees every decision.            *)
TrailIsExact ==
    /\ \A i, j \in DOMAIN requestIds : requestIds[i] = requestIds[j] => i = j
    /\ \A id \in RequestIds :
           IsRecorded(id) <=> \E i \in DOMAIN requestIds : requestIds[i] = id

(* Each stored decision has the content of exactly one DecisionRecorded    *)
(* event, so nothing has rewritten it since it was announced.              *)
RecordedOnce ==
    /\ \A id \in RequestIds :
           IsRecorded(id) => \E i \in DOMAIN logEvents :
                                 Recording(i) /\ logEvents[i].id = id
    /\ \A i \in DOMAIN logEvents : Recording(i) =>
           LET d == decisions[logEvents[i].id]
           IN  /\ d # NoDecision
               /\ d.verdict = logEvents[i].verdict
               /\ d.hashes = logEvents[i].hashes
               /\ d.fraction = logEvents[i].fraction
               /\ logEvents[i].by = council
    /\ \A i, j \in DOMAIN logEvents :
           Recording(i) /\ Recording(j) /\ logEvents[i].id = logEvents[j].id => i = j

(* The executed flag is set iff exactly one DecisionExecuted event was     *)
(* emitted, by the wired treasury, after an executable verdict had been    *)
(* announced for that id.                                                  *)
ExecutedOnce ==
    /\ \A id \in RequestIds :
           IsRecorded(id) /\ decisions[id].executed =>
               \E i \in DOMAIN logEvents : Execution(i) /\ logEvents[i].id = id
    /\ \A i \in DOMAIN logEvents : Execution(i) =>
           /\ IsRecorded(logEvents[i].id)
           /\ decisions[logEvents[i].id].executed
           /\ logEvents[i].by = treasury
           /\ \E j \in 1 .. (i - 1) :
                  /\ Recording(j)
                  /\ logEvents[j].id = logEvents[i].id
                  /\ logEvents[j].verdict \in Executable
    /\ \A i, j \in DOMAIN logEvents :
           Execution(i) /\ Execution(j) /\ logEvents[i].id = logEvents[j].id => i = j

(* The stored log and the stream of its events tell the same story: an     *)
(* indexer of the events and a caller of get_decision can never disagree   *)
(* on what was decided or on what was executed.                            *)
TrailMatchesLog == TrailIsExact /\ RecordedOnce /\ ExecutedOnce

IsPrefixOf(s, t) == Len(s) <= Len(t) /\ \A i \in DOMAIN s : s[i] = t[i]

(* The log is append-only: no call takes back a decision, changes anything *)
(* of it but the executed flag from FALSE to TRUE, re-wires the treasury,  *)
(* or forgets an id or an event; and a decision that a call records is not *)
(* already executed after that call.                                       *)
AppendOnlyStep ==
    /\ council' = council
    /\ treasury # NoAddress => treasury' = treasury
    /\ \A id \in RequestIds :
           IF IsRecorded(id)
           THEN decisions'[id] \in {decisions[id], [decisions[id] EXCEPT !.executed = TRUE]}
           ELSE decisions'[id] # NoDecision => ~decisions'[id].executed
    /\ IsPrefixOf(requestIds, requestIds')
    /\ IsPrefixOf(logEvents, logEvents')

AppendOnly == [][AppendOnlyStep]_logVars
=============================================================================
