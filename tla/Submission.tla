----------------------------- MODULE Submission -----------------------------
(* The submission of reviews to the chain: orchestrator/src/cli.ts         *)
(* (submitToChain and the end of runReview) and                            *)
(* orchestrator/src/chain/casperClient.ts, over the two contracts of       *)
(* module Treasury.  Each run is one process; several may run at once, as  *)
(* the council's one account.  The request id of a run is its scenario and *)
(* the millisecond of its start, so that two runs may come to share one:   *)
(* on the chain they are then one decision, and on the disk one run file.  *)
(* A transaction is sent, may or may not be accepted, is executed later by *)
(* the chain or expires, and the process learns of it by polling, if it    *)
(* waits long enough.                                                      *)
EXTENDS Treasury, BpsAllocation

CONSTANTS
    Runs,           \* the processes that review a proposal
    Signer,         \* the account of QUORUM_SECRET_KEY_PATH
    Vault,          \* the treasury package of QUORUM_TREASURY
    SleeveOrder,    \* the sleeve ids in sorted order
    Unit,           \* units of a weight per basis point
    Grain,          \* execution fractions are multiples of 1 / Grain
    Deliberations   \* the outcomes a deliberation may have

Kinds == {"record_decision", "reallocate"}

(* A deliberation as the submission sees it; target is its executionTarget *)
(* in units, << >> when it is null.  The gate escalates and abstains with  *)
(* a fraction of 0, and buildExecutionTarget then returns null.            *)
Deliberation == [verdict : Verdicts,
                 hashes  : Hashes,
                 share   : 0 .. Grain,
                 target  : Seq(Nat)]

ASSUME SubmissionAssumption ==
    /\ Signer \in Accounts
    /\ Vault \in Treasuries
    /\ SleeveOrder \in Seq(Sleeves)
    /\ Unit \in Nat \ {0}
    /\ Grain \in Nat \ {0}
    /\ Deliberations \subseteq Deliberation
    /\ \A d \in Deliberations :
           /\ d.target # << >> => Len(d.target) = Len(SleeveOrder)
           /\ d.verdict \notin Executable => d.share = 0 /\ d.target = << >>

VARIABLES
    idOf,       \* the request id of each run: scenario-Date.now()
    phase,      \* where each run is
    delib,      \* the deliberation of each run
    kept,       \* txs: the results submitToChain has collected
    failed,     \* whether submitToChain has caught an error
    tx,         \* the fate of the transactions each run may send
    file        \* runs/<requestId>.json, for each request id

runVars == <<idOf, phase, delib, kept, failed>>
submissionVars == <<vars, runVars, tx, file>>

Phases == {"deliberating", "connecting", "recording", "awaitingRecord",
           "moving", "awaitingMove", "writing", "saved", "dead"}
Fates == {"unsent", "pending", "applied", "reverted", "outOfGas", "expired"}

NoFile == [txs |-> {}, error |-> FALSE, written |-> FALSE]
NoDeliberation == [verdict |-> VERDICT_ABSTAIN_UPHELD, hashes |-> CHOOSE h \in Hashes : TRUE,
                   share |-> 0, target |-> << >>]

(* The settings may name contracts of another account, or a treasury that  *)
(* the log is not wired to: nothing in the client checks them.             *)
SubmissionInit ==
    /\ council \in Accounts
    /\ treasury \in Treasuries \cup {NoAddress}
    /\ decisions = [r \in RequestIds |-> NoDecision]
    /\ requestIds = << >>
    /\ logEvents = << >>
    /\ TreasuryInit
    /\ idOf \in [Runs -> RequestIds]
    /\ phase = [r \in Runs |-> "deliberating"]
    /\ delib = [r \in Runs |-> NoDeliberation]
    /\ kept = [r \in Runs |-> {}]
    /\ failed = [r \in Runs |-> FALSE]
    /\ tx = [r \in Runs |-> [k \in Kinds |-> "unsent"]]
    /\ file = [i \in RequestIds |-> NoFile]

(***************************************************************************)
(* The process of a run.                                                   *)
(***************************************************************************)
Goto(r, p) == phase' = [phase EXCEPT ![r] = p]

(* Faulty variants: the collected results are returned with the error, and *)
(* the error is swallowed.                                                 *)
CatchKeeping(r) ==
    /\ Goto(r, "writing")
    /\ failed' = [failed EXCEPT ![r] = TRUE]
    /\ UNCHANGED <<delib, kept>>

CatchSilently(r) ==
    /\ Goto(r, "writing")
    /\ kept' = [kept EXCEPT ![r] = {}]
    /\ UNCHANGED <<delib, failed>>

(* catch (err) { return { txs: [], error } }: what txs held is dropped.    *)
Catch(r) ==
    /\ Goto(r, "writing")
    /\ kept' = [kept EXCEPT ![r] = {}]
    /\ failed' = [failed EXCEPT ![r] = TRUE]
    /\ UNCHANGED delib

(* An error outside submitToChain ends the process without a run file, as  *)
(* does a kill at any point.                                               *)
Die(r) ==
    /\ phase[r] \notin {"saved", "dead"}
    /\ Goto(r, "dead")
    /\ UNCHANGED <<vars, idOf, delib, kept, failed, tx, file>>

Deliberate(r) ==
    /\ phase[r] = "deliberating"
    /\ \E d \in Deliberations : delib' = [delib EXCEPT ![r] = d]
    /\ Goto(r, "connecting") \/ Goto(r, "writing")      \* --chain, or not
    /\ UNCHANGED <<vars, idOf, kept, failed, tx, file>>

(* Missing settings and an unreadable key end as an error before anything  *)
(* is sent.                                                                *)
Connect(r) ==
    /\ phase[r] = "connecting"
    /\ \/ Goto(r, "recording") /\ UNCHANGED <<delib, kept, failed>>
       \/ Catch(r)
    /\ UNCHANGED <<vars, idOf, tx, file>>

Sending(k)  == IF k = "record_decision" THEN "recording" ELSE "moving"
Awaiting(k) == IF k = "record_decision" THEN "awaitingRecord" ELSE "awaitingMove"

(* putTransaction: the node accepts the transaction and the reply arrives, *)
(* or gets lost; or the node never sees it, or refuses it.                 *)
Put(r, k) ==
    /\ phase[r] = Sending(k)
    /\ \/ /\ tx' = [tx EXCEPT ![r][k] = "pending"]
          /\ \/ Goto(r, Awaiting(k)) /\ UNCHANGED <<delib, kept, failed>>
             \/ Catch(r)
       \/ /\ UNCHANGED tx
          /\ Catch(r)
    /\ UNCHANGED <<vars, idOf, file>>

Included(r, k) == tx[r][k] \in {"applied", "reverted", "outOfGas"}

(* Faulty variant: the move is sent without waiting for the record.        *)
AwaitNothing(r, k) ==
    /\ phase[r] = Awaiting(k)
    /\ kept' = [kept EXCEPT ![r] = @ \cup {k}]
    /\ IF k = "record_decision" /\ delib[r].target # << >>
       THEN Goto(r, "moving")
       ELSE Goto(r, "writing")
    /\ UNCHANGED <<vars, idOf, delib, failed, tx, file>>

(* Faulty variant: a target is built, but the run ends with its record.    *)
AwaitThenStop(r, k) ==
    /\ phase[r] = Awaiting(k)
    /\ Included(r, k)
    /\ kept' = [kept EXCEPT ![r] = @ \cup {k}]
    /\ Goto(r, "writing")
    /\ UNCHANGED <<vars, idOf, delib, failed, tx, file>>

(* waitForTransaction resolves with the result of an included transaction, *)
(* whatever the result says, and the result is not looked at.              *)
Await(r, k) ==
    /\ phase[r] = Awaiting(k)
    /\ Included(r, k)
    /\ kept' = [kept EXCEPT ![r] = @ \cup {k}]
    /\ IF k = "record_decision" /\ delib[r].target # << >>
       THEN Goto(r, "moving")
       ELSE Goto(r, "writing")
    /\ UNCHANGED <<vars, idOf, delib, failed, tx, file>>

(* Faulty variant: the process polls on without a limit.                   *)
AwaitForever(r, k) ==
    /\ phase[r] = Awaiting(k)
    /\ UNCHANGED submissionVars

(* 120 s have passed, or polling failed; the transaction is still out.     *)
AwaitFails(r, k) ==
    /\ phase[r] = Awaiting(k)
    /\ Catch(r)
    /\ UNCHANGED <<vars, idOf, tx, file>>

(* In one step; RunFiles has its parts.                                    *)
WriteFile(r) ==
    /\ phase[r] = "writing"
    /\ file' = [file EXCEPT ![idOf[r]] =
           [txs |-> kept[r], error |-> failed[r], written |-> TRUE]]
    /\ Goto(r, "saved")
    /\ UNCHANGED <<vars, idOf, delib, kept, failed, tx>>

(***************************************************************************)
(* The chain.  It executes pending transactions in any order, and owes no  *)
(* process an inclusion: one may lie pending until its time to live ends.  *)
(***************************************************************************)
Settle(r, k, fate) ==
    /\ tx[r][k] = "pending"
    /\ tx' = [tx EXCEPT ![r][k] = fate]
    /\ UNCHANGED <<runVars, file>>

RecordedFraction(d) == RoundedShare(d.share, Grain, TotalBps)
MoveWeights(d) == ToBpsAllocation(d.target, TotalBps, Unit)

(* Faulty variant: the scaled weights are rounded down.                    *)
MoveWeightsFloored(d) == FlooredAllocation(d.target, TotalBps, Unit)

ExecuteRecord(r) ==
    LET d == delib[r]
        f == RecordedFraction(d)
    IN  \/ /\ Settle(r, "record_decision", "applied")
           /\ RecordDecision(Signer, idOf[r], d.verdict, d.hashes, f)
           /\ UNCHANGED treasuryVars
        \/ /\ Settle(r, "record_decision", "reverted")
           /\ ~CanRecord(Signer, idOf[r], d.verdict, f)
           /\ UNCHANGED vars

MoveAccepted(r) ==
    /\ CanReallocate(Vault, Signer, idOf[r], SleeveOrder, MoveWeights(delib[r]))
    /\ CanMark(Vault, idOf[r])

ExecuteMove(r) ==
    \/ /\ Settle(r, "reallocate", "applied")
       /\ Reallocate(Vault, Signer, idOf[r], SleeveOrder, MoveWeights(delib[r]))
    \/ /\ Settle(r, "reallocate", "reverted")
       /\ ~MoveAccepted(r)
       /\ UNCHANGED vars

OutOfGas(r, k) == Settle(r, k, "outOfGas") /\ UNCHANGED vars

Expire(r, k) == Settle(r, k, "expired") /\ UNCHANGED vars

(***************************************************************************)
(* The system.                                                             *)
(***************************************************************************)
(* What a run's process does without waiting on anything but its timers.   *)
Proceed(r) ==
    \/ Connect(r)
    \/ \E k \in Kinds : Await(r, k) \/ AwaitFails(r, k)
    \/ WriteFile(r)

RunStep(r) ==
    \/ Deliberate(r)
    \/ \E k \in Kinds : Put(r, k)
    \/ Proceed(r)
    \/ Die(r)

ChainStep(r) ==
    \/ ExecuteRecord(r)
    \/ ExecuteMove(r)
    \/ \E k \in Kinds : OutOfGas(r, k) \/ Expire(r, k)

SubmissionNext == \E r \in Runs : RunStep(r) \/ ChainStep(r)

SubmissionSafety == SubmissionInit /\ [][SubmissionNext]_submissionVars

(* The event loop of a live process runs its timers and its continuations. *)
(* Nothing is owed by the node (putTransaction has no time limit), by the  *)
(* chain, or by the deliberation.                                          *)
SubmissionSpec ==
    SubmissionSafety /\ \A r \in Runs : WF_submissionVars(Proceed(r))

(***************************************************************************)
(* Properties.                                                             *)
(***************************************************************************)

(* The type of a run's state.  A run that has caught an error keeps no     *)
(* result, whichever call failed.                                          *)
SubmissionTypeOK ==
    /\ TypeOK
    /\ idOf \in [Runs -> RequestIds]
    /\ phase \in [Runs -> Phases]
    /\ delib \in [Runs -> Deliberations \cup {NoDeliberation}]
    /\ kept \in [Runs -> SUBSET Kinds]
    /\ failed \in [Runs -> BOOLEAN]
    /\ tx \in [Runs -> [Kinds -> Fates]]
    /\ file \in [RequestIds -> [txs : SUBSET Kinds, error : BOOLEAN, written : BOOLEAN]]
    /\ \A r \in Runs : failed[r] => kept[r] = {}

WellConfigured == council = Signer /\ treasury = Vault /\ owner[Vault] = Signer

(* The other runs of this run's scenario and millisecond.                  *)
Namesakes(r) == {q \in Runs \ {r} : idOf[q] = idOf[r]}

(* Whatever the chain does with the order of pending transactions, of this *)
(* run and of the others, the contracts refuse nothing of a run for its    *)
(* order.  With settings that name contracts of the signing account, wired *)
(* together, a record is refused only when a run with the same request id  *)
(* has been recorded; and a move only after its own record ran out of gas, *)
(* or when the weights of the deliberation do not convert to the whole, or *)
(* when the chain has applied something of a run with the same id.         *)
RefusedForCause ==
    WellConfigured => \A r \in Runs :
        /\ tx[r]["record_decision"] = "reverted" =>
               \E q \in Namesakes(r) : tx[q]["record_decision"] = "applied"
        /\ tx[r]["reallocate"] = "reverted" =>
               \/ tx[r]["record_decision"] = "outOfGas"
               \/ SumBps(MoveWeights(delib[r])) # TotalBps
               \/ \E q \in Namesakes(r), k \in Kinds : tx[q][k] = "applied"

(* A run file written without an error is that of a finished run with its  *)
(* name, lists every transaction this run has sent, and each of them is    *)
(* included in a block: runs of one name never mix their results.          *)
CleanFileIsComplete ==
    \A i \in RequestIds : file[i].written /\ ~file[i].error =>
        \E r \in Runs :
            /\ idOf[r] = i
            /\ phase[r] = "saved"
            /\ \A k \in Kinds : IF k \in file[i].txs THEN Included(r, k)
                                                     ELSE tx[r][k] = "unsent"

(* When a run has submitted and ended without an error, and the log still  *)
(* holds the decision of its id as executable, then the run had nothing to *)
(* move, or the chain refused its move: no clean run forgets a move.       *)
NoForgottenMove ==
    \A r \in Runs :
        /\ phase[r] = "saved"
        /\ ~failed[r]
        /\ tx[r]["record_decision"] # "unsent"
        /\ IsExecutable(idOf[r])
        => \/ delib[r].target = << >>
           \/ tx[r]["reallocate"] \in {"reverted", "outOfGas"}

(* The process of a run that has begun its submission comes to an end, as  *)
(* long as the node answers putTransaction, even when the chain never      *)
(* includes anything.                                                      *)
NodeAnswers ==
    \A r \in Runs :
        /\ phase[r] = "recording" ~> phase[r] # "recording"
        /\ phase[r] = "moving" ~> phase[r] # "moving"

SubmissionEnds ==
    NodeAnswers =>
        \A r \in Runs : phase[r] = "connecting" ~> phase[r] \in {"saved", "dead"}

(* dashboard/index.html:78: a run whose file lists no transaction is shown *)
(* as "no on-chain submission for this run".  It is checked of the runs    *)
(* that share their file with no other.                                    *)
NoSubmissionClaim ==
    \A r \in Runs :
        /\ Namesakes(r) = {}
        /\ file[idOf[r]].written
        /\ file[idOf[r]].txs = {}
        => \A k \in Kinds : tx[r][k] # "applied"
=============================================================================
