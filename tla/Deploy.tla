------------------------------- MODULE Deploy -------------------------------
(* orchestrator/src/chain/deploy.ts: the script that installs the three    *)
(* contracts, wires the log to the treasury, registers the agents and      *)
(* prints the package hashes for orchestrator/.env.  An operator whose run *)
(* aborts runs the script again.  A transaction of an aborted run may be   *)
(* executed later; a named key may be read a block late; an included       *)
(* transaction may have failed, which the script does not look at.         *)
(* A package is known by the number of the run that installed it, 0 is     *)
(* "none".  The contracts are modelled only in what the script sets: see   *)
(* DecisionLog, Treasury and AgentRegistry for the rest.                   *)
EXTENDS Naturals, Sequences

CONSTANTS
    MaxRuns,    \* bound on the runs of the script
    Agents      \* number of agents registered

Runs     == 1 .. MaxRuns
Packages == 0 .. MaxRuns

(* The steps of main, in order; each sends one transaction. *)
InstallLog      == 1
InstallTreasury == 2
InstallRegistry == 3
Wire            == 4
LastStep        == Wire + Agents
Installs        == InstallLog .. InstallRegistry
Steps           == InstallLog .. LastStep

NoneFound == [k \in Installs |-> 0]

ASSUME DeployAssumption == MaxRuns \in Nat \ {0} /\ Agents \in Nat

VARIABLES
    run,        \* the run of the script under way or last ended
    step,       \* its step
    mode,       \* "sending", "awaiting", "reading", "aborted" or "printed"
    found,      \* its packages: decisionLog, treasury and registry of main
    pending,    \* the transactions sent and not yet executed, with their arguments
    included,   \* the <<run, step>> of the executed transactions
    named,      \* the account's named keys, now and one block ago
    logOf,      \* the decision_log each treasury was installed with
    wired,      \* the treasury each log was wired to
    agents,     \* the agents of each registry
    printed,    \* the settings printed so far
    spoilt      \* what went wrong in this run: see the properties

script == <<run, step, mode, found>>
chain  == <<pending, included, named, logOf, wired, agents>>
vars   == <<script, chain, printed, spoilt>>

Init ==
    /\ run = 1
    /\ step = InstallLog
    /\ mode = "sending"
    /\ found = NoneFound
    /\ pending = {}
    /\ included = {}
    /\ named = [k \in Installs |-> [now |-> 0, before |-> 0]]
    /\ logOf = [t \in Runs |-> 0]
    /\ wired = [l \in Runs |-> 0]
    /\ agents = [a \in Runs |-> {}]
    /\ printed = {}
    /\ spoilt = {}

(***************************************************************************)
(* The script.                                                             *)
(***************************************************************************)
Abort ==
    /\ mode' = "aborted"
    /\ UNCHANGED <<run, step, found>>

(* submit: putTransaction may fail, before or after the node has taken the *)
(* transaction.                                                            *)
Send ==
    /\ mode = "sending"
    /\ \/ /\ pending' = pending \cup {[run |-> run, step |-> step, found |-> found]}
          /\ Abort \/ (mode' = "awaiting" /\ UNCHANGED <<run, step, found>>)
       \/ Abort /\ UNCHANGED pending
    /\ UNCHANGED <<included, named, logOf, wired, agents, printed, spoilt>>

(* What main does after a transaction: look up the package of an install,  *)
(* go on, or print the three hashes.                                       *)
Advance ==
    \/ /\ step \in Installs
       /\ mode' = "reading"
       /\ UNCHANGED <<run, step, found, printed>>
    \/ /\ step \in Wire .. (LastStep - 1)
       /\ mode' = "sending"
       /\ step' = step + 1
       /\ UNCHANGED <<run, found, printed>>
    \/ /\ step = LastStep
       /\ mode' = "printed"
       /\ printed' = printed \cup {[run |-> run, found |-> found, spoilt |-> spoilt]}
       /\ UNCHANGED <<run, step, found>>

(* Faulty variant: the inclusion is not waited for.                        *)
AwaitNothing ==
    /\ mode = "awaiting"
    /\ Advance
    /\ UNCHANGED <<chain, spoilt>>

(* waitForTransaction resolves once the transaction is in a block, failed  *)
(* or not.                                                                 *)
Await ==
    /\ mode = "awaiting"
    /\ <<run, step>> \in included
    /\ Advance
    /\ UNCHANGED <<chain, spoilt>>

(* 240 s have passed, or polling failed.                                   *)
AwaitFails ==
    /\ mode = "awaiting"
    /\ Abort
    /\ UNCHANGED <<chain, printed, spoilt>>

(* Faulty variant: a key that is not found is taken for a hash.            *)
TakeNamedKey ==
    /\ mode = "reading"
    /\ \E key \in {named[step].now, named[step].before} :
          /\ found' = [found EXCEPT ![step] = key]
          /\ step' = step + 1
          /\ mode' = "sending"
          /\ UNCHANGED run
          /\ spoilt' = IF key = named[step].now THEN spoilt ELSE spoilt \cup {"lag"}
    /\ UNCHANGED <<chain, printed>>

(* findNamedKey reads the latest entity the node has, or the one of a      *)
(* block ago; a key it does not find ends the script.                      *)
FindNamedKey ==
    /\ mode = "reading"
    /\ \E key \in {named[step].now, named[step].before} :
          /\ \/ key = 0 /\ Abort
             \/ /\ key # 0
                /\ found' = [found EXCEPT ![step] = key]
                /\ step' = step + 1
                /\ mode' = "sending"
                /\ UNCHANGED run
          /\ spoilt' = IF key = named[step].now THEN spoilt ELSE spoilt \cup {"lag"}
    /\ UNCHANGED <<chain, printed>>

(* The operator runs the script again.                                     *)
Rerun ==
    /\ mode \in {"aborted", "printed"}
    /\ run < MaxRuns
    /\ run' = run + 1
    /\ step' = InstallLog
    /\ mode' = "sending"
    /\ found' = NoneFound
    /\ spoilt' = IF pending = {} THEN {} ELSE {"late"}
    /\ UNCHANGED <<chain, printed>>

(***************************************************************************)
(* The chain: it executes or drops each pending transaction, in any order. *)
(***************************************************************************)
Settle(t) ==
    /\ t \in pending
    /\ pending' = pending \ {t}

Include(t) == Settle(t) /\ included' = included \cup {<<t.run, t.step>>}

(* odra_cfg_allow_key_override: the account's key moves to the new package.*)
StoreKey(t) ==
    named' = [named EXCEPT ![t.step] = [now |-> t.run, before |-> @.now]]

(* Faulty variant: set_treasury may be repeated.                           *)
MayWireAgain(l) == TRUE

(* set_treasury reverts on a log that has been wired.                      *)
MayWire(l) == wired[l] = 0

Apply(t) ==
    /\ Include(t)
    /\ \/ /\ t.step \in Installs
          /\ StoreKey(t)
          /\ logOf' = IF t.step = InstallTreasury
                      THEN [logOf EXCEPT ![t.run] = t.found[InstallLog]]
                      ELSE logOf
          /\ UNCHANGED <<wired, agents>>
       \/ /\ t.step = Wire
          /\ MayWire(t.found[InstallLog])
          /\ wired' = [wired EXCEPT ![t.found[InstallLog]] = t.found[InstallTreasury]]
          /\ UNCHANGED <<named, logOf, agents>>
       \/ /\ t.step > Wire
          /\ t.step - Wire \notin agents[t.found[InstallRegistry]]
          /\ agents' = [agents EXCEPT ![t.found[InstallRegistry]] = @ \cup {t.step - Wire}]
          /\ UNCHANGED <<named, logOf, wired>>
    /\ UNCHANGED <<script, printed, spoilt>>

(* Out of gas, or reverted by the contract.                                *)
Fail(t) ==
    /\ Include(t)
    /\ spoilt' = IF t.run = run THEN spoilt \cup {"failure"} ELSE spoilt
    /\ UNCHANGED <<script, named, logOf, wired, agents, printed>>

Expire(t) ==
    /\ Settle(t)
    /\ UNCHANGED <<script, included, named, logOf, wired, agents, printed, spoilt>>

Next ==
    \/ Send \/ Await \/ AwaitFails \/ FindNamedKey \/ Rerun
    \/ \E t \in pending : Apply(t) \/ Fail(t) \/ Expire(t)

Spec == Init /\ [][Next]_vars

(***************************************************************************)
(* Properties.                                                             *)
(***************************************************************************)
Transactions == [run : Runs, step : Steps, found : [Installs -> Packages]]

(* The type of the deployment.  Each package that main goes on with was    *)
(* installed by some run: a lookup never yields a hash of nothing.         *)
TypeOK ==
    /\ run \in Runs /\ step \in Steps
    /\ mode \in {"sending", "awaiting", "reading", "aborted", "printed"}
    /\ found \in [Installs -> Packages]
    /\ pending \subseteq Transactions
    /\ included \subseteq Runs \X Steps
    /\ named \in [Installs -> [now : Packages, before : Packages]]
    /\ logOf \in [Runs -> Packages]
    /\ wired \in [Runs -> Packages]
    /\ agents \in [Runs -> SUBSET (1 .. Agents)]
    /\ \A k \in Installs : step > k => <<found[k], k>> \in included

Pair(p) == <<p.found[InstallLog], p.found[InstallTreasury]>>

(* The settings p work: the treasury asks the log of p and the log lets    *)
(* only the treasury of p mark executions.                                 *)
Works(p) == logOf[Pair(p)[2]] = Pair(p)[1] /\ wired[Pair(p)[1]] = Pair(p)[2]

AllRegistered(p) == agents[p.found[InstallRegistry]] = 1 .. Agents

(* A run that starts with no transaction of an earlier run outstanding,    *)
(* has none of its own fail, and reads no key late, prints settings that   *)
(* work, with all the agents registered, however many runs were aborted    *)
(* before it and at whatever step.                                         *)
CleanRunWorks ==
    \A p \in printed : p.spoilt = {} => Works(p) /\ AllRegistered(p)

(* The first run has nothing old to find: whatever fails or is late, what  *)
(* it prints are its own packages, and they work unless a transaction of   *)
(* it failed; a lagging key only ever aborts it.                           *)
FirstRunIsItsOwn ==
    \A p \in printed : p.run = 1 =>
        /\ \A k \in Installs : p.found[k] = 1
        /\ "failure" \notin p.spoilt => Works(p)

(* Running the script again never breaks settings that worked, although it *)
(* may look up, and call, the packages of an earlier run.                  *)
RerunBreaksNothing ==
    [][\A p \in printed : Works(p) => Works(p)']_vars

(* docs/DEPLOY.md:112-114: after an install whose named key lagged a block *)
(* "re-running is safe": a run none of whose transactions failed, nor were *)
(* any outstanding before it, prints settings that work.                   *)
RerunIsSafe ==
    \A p \in printed : p.spoilt \subseteq {"lag"} => Works(p)
=============================================================================
