------------------------------ MODULE Treasury ------------------------------
(* contracts/src/treasury.rs composed with the DecisionLog it asks and     *)
(* marks: treasury packages that were installed with this log's address    *)
(* (a deployment script run twice leaves several), the accounts that call  *)
(* them, and the cross-contract calls is_executable and mark_executed,     *)
(* which run inside the caller's transaction and revert with it.           *)
(* Abstracted: block times, error codes and gas; the u32 checked_add of    *)
(* the weights ends in the same revert as a wrong sum, so the unbounded    *)
(* sum decides the same way.                                               *)
EXTENDS DecisionLog, FiniteSets, Functions

CONSTANTS
    Treasuries,     \* the treasury packages, addresses themselves
    Sleeves,        \* sleeve ids
    SleeveLists,    \* arguments tried as sleeve_ids
    WeightLists,    \* arguments tried as weights_bps
    Amounts,        \* motes attached to a deposit
    MaxBalance      \* bound on a balance, to keep the state space finite

Accounts == Addresses \ Treasuries
Weights  == 0 .. TotalBps

Reallocated == [id : RequestIds, sleeves : Seq(Sleeves), weights : Seq(Nat)]

ASSUME TreasuryAssumption ==
    /\ Treasuries \subseteq Addresses
    /\ \A ids \in SleeveLists : ids \in Seq(Sleeves)
    /\ \A ws \in WeightLists : ws \in Seq(Nat)
    /\ Amounts \subseteq Nat
    /\ MaxBalance \in Nat

VARIABLES
    owner,          \* the account that installed each treasury: its council
    book,           \* the weight of each sleeve, 0 when never written
    sleeveIds,      \* the sleeves each treasury knows, in order
    reallocations,  \* the Reallocated events each treasury emitted
    balance         \* the motes deposited in each treasury

treasuryVars == <<owner, book, sleeveIds, reallocations, balance>>
vars == <<logVars, treasuryVars>>

EmptyBook == [s \in Sleeves |-> 0]

TreasuryInit ==
    /\ owner \in [Treasuries -> Accounts]
    /\ book = [t \in Treasuries |-> EmptyBook]
    /\ sleeveIds = [t \in Treasuries |-> << >>]
    /\ reallocations = [t \in Treasuries |-> << >>]
    /\ balance = [t \in Treasuries |-> 0]

Init ==
    /\ LogInit
    /\ council \in Accounts
    /\ TreasuryInit

SumBps(ws) == FoldFunction(+, 0, ws)

(***************************************************************************)
(* The entry points.                                                       *)
(***************************************************************************)
Deposit(t, amount) ==
    /\ amount > 0
    /\ balance[t] + amount <= MaxBalance
    /\ balance' = [balance EXCEPT ![t] = @ + amount]
    /\ UNCHANGED <<logVars, owner, book, sleeveIds, reallocations>>

(* Faulty variant: the weights are not summed.                             *)
CanReallocateAnySum(t, caller, id, ids, ws) ==
    /\ caller = owner[t]
    /\ IsExecutable(id)
    /\ ids # << >>
    /\ Len(ids) = Len(ws)

CanReallocate(t, caller, id, ids, ws) ==
    /\ caller = owner[t]
    /\ IsExecutable(id)
    /\ ids # << >>
    /\ Len(ids) = Len(ws)
    /\ SumBps(ws) = TotalBps

(* Position i is the last one of the list that names sleeve s.             *)
LastNaming(ids, s, i) ==
    /\ i \in DOMAIN ids
    /\ ids[i] = s
    /\ \A j \in DOMAIN ids : ids[j] = s => j <= i

(* Faulty variant: a sleeve the list leaves out loses its weight.          *)
WrittenAfresh(old, ids, ws, new) ==
    \A s \in Sleeves :
        \/ s \notin Range(ids) /\ new[s] = 0
        \/ \E i \in DOMAIN ids : LastNaming(ids, s, i) /\ new[s] = ws[i]

(* The write loop, seen from its end: the last mention of a sleeve wins,   *)
(* and a sleeve that the list leaves out keeps the weight it had.          *)
Written(old, ids, ws, new) ==
    \A s \in Sleeves :
        \/ s \notin Range(ids) /\ new[s] = old[s]
        \/ \E i \in DOMAIN ids : LastNaming(ids, s, i) /\ new[s] = ws[i]

(* Faulty variant: every name of the list is pushed.                       *)
PushedAgain(known, ids, fresh) == fresh = ids

(* The sleeves pushed by the same loop: those of the list not known yet,   *)
(* each once, in the order of their first mention.                         *)
Pushed(known, ids, fresh) ==
    /\ Range(fresh) = Range(ids) \ Range(known)
    /\ \A i, j \in DOMAIN fresh : i < j =>
           \E k \in DOMAIN ids :
               ids[k] = fresh[i] /\ \A m \in 1 .. k : ids[m] # fresh[j]

(* Faulty variant: the decision is not marked in the log.                  *)
ReallocateUnmarked(t, caller, id, ids, ws) ==
    /\ CanReallocate(t, caller, id, ids, ws)
    /\ \E new \in [Sleeves -> Weights] :
           Written(book[t], ids, ws, new) /\ book' = [book EXCEPT ![t] = new]
    /\ reallocations' = [reallocations EXCEPT ![t] =
           Append(@, [id |-> id, sleeves |-> ids, weights |-> ws])]
    /\ UNCHANGED <<logVars, owner, sleeveIds, balance>>

(* mark_executed is called by the package t itself, so the whole call      *)
(* reverts, book included, when the log is wired to another address.       *)
Reallocate(t, caller, id, ids, ws) ==
    /\ CanReallocate(t, caller, id, ids, ws)
    /\ \E new \in [Sleeves -> Weights] :
           Written(book[t], ids, ws, new) /\ book' = [book EXCEPT ![t] = new]
    /\ \E n \in 0 .. Len(ids) : \E fresh \in [1 .. n -> Range(ids)] :
           /\ Pushed(sleeveIds[t], ids, fresh)
           /\ sleeveIds' = [sleeveIds EXCEPT ![t] = @ \o fresh]
    /\ MarkExecuted(t, id)
    /\ reallocations' = [reallocations EXCEPT ![t] =
           Append(@, [id |-> id, sleeves |-> ids, weights |-> ws])]
    /\ UNCHANGED <<owner, balance>>

TreasuryCall(t, caller) ==
    \/ \E amount \in Amounts : Deposit(t, amount)
    \/ \E id \in RequestIds, ids \in SleeveLists, ws \in WeightLists :
           Reallocate(t, caller, id, ids, ws)

(* A package calls only from within Reallocate, so the callers of a        *)
(* transaction are accounts.                                               *)
Next == \E caller \in Accounts :
    \/ LogCall(caller) /\ UNCHANGED treasuryVars
    \/ \E t \in Treasuries : TreasuryCall(t, caller)

Spec == Init /\ [][Next]_vars

(***************************************************************************)
(* Properties.                                                             *)
(***************************************************************************)

(* The type of the two contracts' state, the invariants of the log apart:  *)
(* a book never holds more than the whole in one sleeve, although the u32  *)
(* arguments may.                                                          *)
TypeOK ==
    /\ LogTypeOK
    /\ council \in Accounts
    /\ owner \in [Treasuries -> Accounts]
    /\ book \in [Treasuries -> [Sleeves -> Weights]]
    /\ sleeveIds \in [Treasuries -> Seq(Sleeves)]
    /\ reallocations \in [Treasuries -> Seq(Reallocated)]
    /\ balance \in [Treasuries -> Nat]

MoveOf(t, i) == reallocations[t][i].id

(* No decision moves funds twice, not even on two different treasuries     *)
(* that share the log.                                                     *)
AtMostOneMove ==
    \A t, u \in Treasuries :
        \A i \in DOMAIN reallocations[t], j \in DOMAIN reallocations[u] :
            MoveOf(t, i) = MoveOf(u, j) => t = u /\ i = j

(* Every move is backed by an executed APPROVE or TRIM decision, and only  *)
(* the treasury the log is wired to ever moves.                            *)
MovesAreExecuted ==
    \A t \in Treasuries : \A i \in DOMAIN reallocations[t] :
        /\ IsRecorded(MoveOf(t, i))
        /\ decisions[MoveOf(t, i)].executed
        /\ decisions[MoveOf(t, i)].verdict \in Executable
        /\ treasury = t

(* Every execution is a move, once the log is wired to a treasury package: *)
(* the executed flag is never set for a decision that moved nothing.       *)
ExecutionsAreMoves ==
    treasury \in Treasuries =>
        \A id \in RequestIds :
            IsRecorded(id) /\ decisions[id].executed =>
                \E i \in DOMAIN reallocations[treasury] : MoveOf(treasury, i) = id

(* The executed flags of the log and the Reallocated events of the         *)
(* treasuries are one to one: no replay, no move without a decision, no    *)
(* decision consumed by a call that reverted.                              *)
MovesMatchExecutions == AtMostOneMove /\ MovesAreExecuted /\ ExecutionsAreMoves

(* The n-th move of treasury t is the last one that names sleeve s.        *)
LastMoveNaming(t, s, n) ==
    /\ n \in DOMAIN reallocations[t]
    /\ s \in Range(reallocations[t][n].sleeves)
    /\ \A m \in DOMAIN reallocations[t] :
           s \in Range(reallocations[t][m].sleeves) => m <= n

NeverNamed(t, s) ==
    \A n \in DOMAIN reallocations[t] : s \notin Range(reallocations[t][n].sleeves)

(* The book is what its events say: the weight of a sleeve is the one the  *)
(* last event naming it gave it, or 0, so replaying the Reallocated events *)
(* rebuilds allocation_bps.                                                *)
BookFollowsEvents ==
    \A t \in Treasuries, s \in Sleeves :
        \/ NeverNamed(t, s) /\ book[t][s] = 0
        \/ \E n \in DOMAIN reallocations[t] :
               /\ LastMoveNaming(t, s, n)
               /\ \E i \in DOMAIN reallocations[t][n].sleeves :
                      /\ LastNaming(reallocations[t][n].sleeves, s, i)
                      /\ book[t][s] = reallocations[t][n].weights[i]

(* allocations() lists each sleeve an event ever named, once, and no other *)
(* sleeve: the view never hides a weight nor counts one twice.             *)
SleeveListIsExact ==
    \A t \in Treasuries :
        /\ IsInjective(sleeveIds[t])
        /\ \A s \in Sleeves : s \in Range(sleeveIds[t]) <=> ~NeverNamed(t, s)

(* The argument lists name every sleeve the treasury knows, once.          *)
NamesEachKnownSleeve(t, ids) ==
    Range(sleeveIds[t]) \subseteq Range(ids) /\ IsInjective(ids)

(* The weights that allocations() lists.                                   *)
ListedWeights(t) == [i \in DOMAIN sleeveIds[t] |-> book[t][sleeveIds[t][i]]]

BookTotal(t) == SumBps(ListedWeights(t))

(* When is the sum check of reallocate enough?  The book sums to TotalBps  *)
(* after a move that names every known sleeve exactly once, however        *)
(* unbalanced earlier moves had left it.                                   *)
CompleteMoveTotals ==
    \A t \in Treasuries :
        LET n == Len(reallocations[t])
        IN  n > 0 /\ NamesEachKnownSleeve(t, reallocations[t][n].sleeves)
                => BookTotal(t) = TotalBps

(* What the log has decided, and what it has seen executed.                *)
ApprovedIds == {id \in RequestIds : IsRecorded(id) /\ decisions[id].verdict \in Executable}
RefusedIds  == {id \in RequestIds : IsRecorded(id) /\ decisions[id].verdict \notin Executable}
ExecutedIds == {id \in RequestIds : IsRecorded(id) /\ decisions[id].executed}

Gate == INSTANCE ExecutionGate WITH
    Requests    <- RequestIds,
    Books       <- Treasuries,
    Allocations <- [Sleeves -> Weights],
    Empty       <- EmptyBook,
    approved    <- ApprovedIds,
    refused     <- RefusedIds,
    executed    <- ExecutedIds,
    allocation  <- book

(* A book moves only in the step that executes an approved and not yet     *)
(* executed decision, one book at a time, and a decision, once made, is    *)
(* never unmade: the promise of ExecutionGate.                             *)
GateSpec == Gate!Spec
=============================================================================
