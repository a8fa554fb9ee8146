--------------------------- MODULE ExecutionGate ---------------------------
(* What the DecisionLog and the Treasury promise together ("separation of  *)
(* duties enforced on-chain", contracts/src/decision_log.rs:5-7 and        *)
(* contracts/src/treasury.rs:3-6), with no word on how: every request is   *)
(* decided at most once and for good; an allocation book moves only in the *)
(* step that executes an approved request, one book per step, and no       *)
(* request is ever executed twice.                                         *)
CONSTANTS
    Requests,       \* the ids of proposed moves
    Books,          \* the allocation books that exist
    Allocations,    \* the contents a book may have
    Empty           \* the content of a book before its first move

VARIABLES approved, refused, executed, allocation

vars == <<approved, refused, executed, allocation>>

Init ==
    /\ approved = {}
    /\ refused = {}
    /\ executed = {}
    /\ allocation = [b \in Books |-> Empty]

Undecided == Requests \ (approved \cup refused)

Approve(r) ==
    /\ r \in Undecided
    /\ approved' = approved \cup {r}
    /\ UNCHANGED <<refused, executed, allocation>>

Refuse(r) ==
    /\ r \in Undecided
    /\ refused' = refused \cup {r}
    /\ UNCHANGED <<approved, executed, allocation>>

(* A request may be executed without moving a book: the log trusts the     *)
(* address it was wired to, which need not be a treasury contract.         *)
Execute(r) ==
    /\ r \in approved \ executed
    /\ executed' = executed \cup {r}
    /\ \/ UNCHANGED allocation
       \/ \E b \in Books, a \in Allocations :
              allocation' = [allocation EXCEPT ![b] = a]
    /\ UNCHANGED <<approved, refused>>

Next == \E r \in Requests : Approve(r) \/ Refuse(r) \/ Execute(r)

Spec == Init /\ [][Next]_vars
=============================================================================
