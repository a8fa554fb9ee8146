---------------------------- MODULE DeployProofs ----------------------------
(* Proofs about Deploy, for any number of runs of the script and of agents.*)
EXTENDS Deploy, TLAPS

(***************************************************************************)
(* What is sent, and when.                                                 *)
(***************************************************************************)
Passed(r, s) == r < run \/ (r = run /\ (s < step \/ (s = step /\ mode # "sending")))

(* Each step of each run is sent once, and executed once.                  *)
SentOnce ==
    /\ \A t \in pending : <<t.run, t.step>> \notin included /\ Passed(t.run, t.step)
    /\ \A t, u \in pending : t.run = u.run /\ t.step = u.step => t = u
    /\ \A r \in Runs, s \in Steps : <<r, s>> \in included => Passed(r, s)

(* A transaction names the packages its run had found when it was sent.    *)
Arguments == \A t \in pending :
    /\ \A k \in Installs : k < t.step => <<t.found[k], k>> \in included
    /\ t.run = run => \A k \in Installs : k < t.step => t.found[k] = found[k]

(* The script goes on only when its last transaction is in a block.        *)
Progress ==
    /\ \A s \in Steps : s < step => <<run, s>> \in included
    /\ mode \in {"reading", "printed"} => <<run, step>> \in included
    /\ mode = "reading" => step \in Installs

NamedKeys == \A k \in Installs :
    /\ named[k].now # 0 => <<named[k].now, k>> \in included
    /\ named[k].before # 0 => <<named[k].before, k>> \in included

PrintedPackages == \A p \in printed :
    /\ p.found \in [Installs -> Packages]
    /\ \A k \in Installs : <<p.found[k], k>> \in included

OrderInv ==
    TypeOK /\ SentOnce /\ Arguments /\ Progress /\ NamedKeys /\ PrintedPackages

(***************************************************************************)
(* The invariant is inductive.                                             *)
(***************************************************************************)
LEMMA OrderInit == Init => OrderInv
BY DeployAssumption DEF Init, OrderInv, TypeOK, SentOnce, Arguments, Progress, NamedKeys, PrintedPackages,
   NoneFound, Installs, Steps, LastStep, Runs, Packages, InstallLog, InstallTreasury, InstallRegistry, Wire

(* The steps of the script that send nothing and execute nothing.          *)
LEMMA OrderAdvance ==
    ASSUME OrderInv, Await
    PROVE  OrderInv'
<1> USE DeployAssumption DEF OrderInv
<1>1. UNCHANGED <<chain, run, found, spoilt>> /\ mode = "awaiting" /\ <<run, step>> \in included
  BY DEF Await, Advance
<1>2. \/ step \in Installs /\ mode' = "reading" /\ step' = step /\ printed' = printed
      \/ step \in Wire .. (LastStep - 1) /\ mode' = "sending" /\ step' = step + 1 /\ printed' = printed
      \/ step = LastStep /\ mode' = "printed" /\ step' = step
         /\ printed' = printed \cup {[run |-> run, found |-> found, spoilt |-> spoilt]}
  BY DEF Await, Advance
<1>3. step' \in Steps /\ (step' = step \/ (step' = step + 1 /\ step \notin Installs)) /\ step \in Nat
  BY <1>2 DEF TypeOK, Steps, LastStep, Wire, Installs, InstallLog, InstallRegistry
<1>4. \A k \in Installs : (step' > k <=> step > k) /\ k \in Nat
  BY <1>3 DEF Installs, InstallLog, InstallRegistry, Steps, LastStep, Wire
<1>5. TypeOK'
  BY <1>1, <1>2, <1>3, <1>4 DEF TypeOK, chain
<1>6. SentOnce' /\ Arguments'
  <2>1. \A r \in Runs, s \in Steps : Passed(r, s) => Passed(r, s)'
    BY <1>1, <1>2, <1>3 DEF Passed, TypeOK, Steps, Runs
  <2>2. \A t \in pending : t.run \in Runs /\ t.step \in Steps
    BY DEF TypeOK, Transactions
  <2>3. SentOnce'
    BY <1>1, <2>1, <2>2 DEF SentOnce, chain
  <2> QED
    BY <1>1, <2>3 DEF Arguments, chain
<1>7. Progress' /\ NamedKeys'
  <2>1. step' = step + 1 => \A s \in Steps : s < step' => s < step \/ s = step
    BY <1>3 DEF Steps, InstallLog, LastStep, Wire
  <2>2. \A s \in Steps : s < step' => <<run, s>> \in included
    BY <1>1, <1>3, <2>1 DEF Progress
  <2>3. mode' = "reading" => step' \in Installs
    BY <1>2
  <2>4. mode' \in {"reading", "printed"} => step' = step
    BY <1>2
  <2>5. Progress'
    BY <1>1, <2>2, <2>3, <2>4 DEF Progress, chain
  <2> QED
    BY <1>1, <2>5 DEF NamedKeys, chain
<1>8. PrintedPackages'
  <2>1. \A p \in printed' : p \in printed \/ (p.found = found /\ step = LastStep)
    BY <1>2
  <2>2. step = LastStep => \A k \in Installs : step > k
    BY DEF Installs, InstallLog, InstallRegistry, LastStep, Wire
  <2> QED
    BY <1>1, <2>1, <2>2 DEF PrintedPackages, TypeOK, chain
<1> QED
  BY <1>5, <1>6, <1>7, <1>8

LEMMA OrderSend ==
    ASSUME OrderInv, Send
    PROVE  OrderInv'
<1> USE DeployAssumption DEF OrderInv
<1> DEFINE new == [run |-> run, step |-> step, found |-> found]
<1>1. /\ UNCHANGED <<run, step, found, included, named, logOf, wired, agents, printed, spoilt>>
      /\ mode = "sending" /\ mode' \in {"aborted", "awaiting"}
      /\ pending' = pending \/ pending' = pending \cup {new}
      /\ pending' # pending => mode' # "sending"
  BY DEF Send, Abort
<1>2. new \in Transactions /\ new.run = run /\ new.step = step /\ new.found = found
  BY DEF TypeOK, Transactions
<1> HIDE DEF new
<1>3. TypeOK'
  BY <1>1, <1>2 DEF TypeOK
<1>4. run \in Runs /\ step \in Steps /\ run \in Nat /\ step \in Nat
  BY DEF TypeOK, Runs, Steps, LastStep, InstallLog, Wire
<1>5. ~Passed(run, step)
  BY <1>1, <1>4 DEF Passed
<1>6. \A r \in Runs, s \in Steps : (Passed(r, s) => Passed(r, s)')
  BY <1>1 DEF Passed
<1>7. Passed(run, step)'
  BY <1>1 DEF Passed
<1>8. \A t \in pending : t.run \in Runs /\ t.step \in Steps
  BY DEF TypeOK, Transactions
<1>9. SentOnce'
  BY <1>1, <1>2, <1>4, <1>5, <1>6, <1>7, <1>8 DEF SentOnce
<1>10. Arguments'
  BY <1>1, <1>2 DEF Arguments, TypeOK
<1>11. (Progress /\ NamedKeys /\ PrintedPackages)'
  BY <1>1 DEF Progress, NamedKeys, PrintedPackages
<1> QED
  BY <1>3, <1>9, <1>10, <1>11

LEMMA OrderFind ==
    ASSUME OrderInv, FindNamedKey
    PROVE  OrderInv'
<1> USE DeployAssumption DEF OrderInv
<1>1. PICK key \in {named[step].now, named[step].before} :
          /\ \/ key = 0 /\ Abort
             \/ /\ key # 0
                /\ found' = [found EXCEPT ![step] = key]
                /\ step' = step + 1
                /\ mode' = "sending"
                /\ UNCHANGED run
          /\ spoilt' = IF key = named[step].now THEN spoilt ELSE spoilt \cup {"lag"}
  BY DEF FindNamedKey
<1>2. mode = "reading" /\ step \in Installs /\ UNCHANGED <<chain, printed>>
  BY DEF FindNamedKey, Progress
<1>3. key \in Packages /\ (key # 0 => <<key, step>> \in included)
  <2>1. named[step] \in [now : Packages, before : Packages]
    BY <1>2 DEF TypeOK
  <2>2. /\ named[step].now # 0 => <<named[step].now, step>> \in included
        /\ named[step].before # 0 => <<named[step].before, step>> \in included
    BY <1>2 DEF NamedKeys
  <2>3. key = named[step].now \/ key = named[step].before
    OBVIOUS
  <2> QED
    BY <2>1, <2>2, <2>3
<1>4. \A t \in pending : t.run \in Runs /\ t.step \in Steps
  BY DEF TypeOK, Transactions
<1>5. CASE key = 0 /\ Abort
  <2>1. UNCHANGED <<run, step, found>> /\ mode' = "aborted"
    BY <1>5 DEF Abort
  <2>2. \A r \in Runs, s \in Steps : Passed(r, s) => Passed(r, s)'
    BY <2>1 DEF Passed
  <2>3. SentOnce'
    BY <1>2, <1>4, <2>2 DEF SentOnce, chain
  <2> QED
    BY <1>2, <2>1, <2>3 DEF TypeOK, Arguments, Progress, NamedKeys, PrintedPackages, chain
<1>6. CASE /\ key # 0
           /\ found' = [found EXCEPT ![step] = key]
           /\ step' = step + 1
           /\ mode' = "sending"
           /\ UNCHANGED run
  <2>1. step \in Nat /\ step + 1 \in Steps /\ run \in Nat
    BY <1>2 DEF TypeOK, Installs, Steps, LastStep, InstallLog, InstallRegistry, Wire, Runs
  <2>2. \A k \in Installs : k \in Nat /\ (step + 1 > k <=> step > k \/ k = step)
    BY <2>1 DEF Installs, InstallLog, InstallRegistry
  <2>3. /\ found' \in [Installs -> Packages] /\ found'[step] = key
        /\ \A k \in Installs : k # step => found'[k] = found[k]
    BY <1>2, <1>3, <1>6 DEF TypeOK
  <2>4. TypeOK'
    BY <1>2, <1>3, <1>6, <2>1, <2>2, <2>3 DEF TypeOK, chain
  <2>5. \A r \in Runs, s \in Steps : Passed(r, s) => Passed(r, s)'
    BY <1>2, <1>6, <2>1 DEF Passed, Runs, Steps
  <2>6. SentOnce'
    BY <1>2, <1>4, <2>5 DEF SentOnce, chain
  <2>7. ASSUME NEW t \in pending, t.run = run, NEW k \in Installs, k < t.step PROVE k # step
    <3>1. t.step <= step /\ t.step \in Nat
      <4>1. Passed(run, t.step)
        BY <2>7 DEF SentOnce
      <4>2. t.step \in Nat
        BY <1>4 DEF Steps, InstallLog, LastStep, Wire
      <4> QED
        BY <2>1, <4>1, <4>2 DEF Passed
    <3> QED
      BY <2>1, <2>2, <2>7, <3>1
  <2>8. Arguments'
    BY <1>2, <1>6, <2>3, <2>7 DEF Arguments, chain
  <2>9. Progress'
    BY <1>2, <1>6, <2>1 DEF Progress, chain, Steps
  <2> QED
    BY <1>2, <2>4, <2>6, <2>8, <2>9 DEF NamedKeys, PrintedPackages, chain
<1> QED
  BY <1>1, <1>5, <1>6

LEMMA OrderRerun ==
    ASSUME OrderInv, Rerun
    PROVE  OrderInv'
<1> USE DeployAssumption DEF OrderInv
<1>1. /\ run < MaxRuns /\ run' = run + 1 /\ step' = InstallLog /\ mode' = "sending" /\ found' = NoneFound
      /\ UNCHANGED <<chain, printed>>
  BY DEF Rerun
<1>2. run \in Nat /\ run' \in Runs /\ step' \in Steps
  BY <1>1 DEF TypeOK, Runs, Steps, LastStep, InstallLog, Wire
<1>3. NoneFound \in [Installs -> Packages] /\ \A k \in Installs : ~(step' > k)
  BY <1>1 DEF NoneFound, Packages, Installs, InstallLog, InstallRegistry
<1>4. TypeOK'
  BY <1>1, <1>2, <1>3 DEF TypeOK, chain
<1>5. \A r \in Runs, s \in Steps : Passed(r, s) => r <= run
  BY <1>2 DEF Passed, Runs
<1>6. \A r \in Runs, s \in Steps : r <= run => Passed(r, s)' /\ r # run'
  BY <1>1, <1>2 DEF Passed, Runs
<1>7. \A t \in pending : t.run \in Runs /\ t.step \in Steps
  BY DEF TypeOK, Transactions
<1>8. SentOnce'
  BY <1>1, <1>5, <1>6, <1>7 DEF SentOnce, chain
<1>9. Arguments'
  BY <1>1, <1>5, <1>6, <1>7 DEF Arguments, SentOnce, chain
<1>10. Progress'
  BY <1>1 DEF Progress, Steps, LastStep, InstallLog, Wire
<1> QED
  BY <1>1, <1>4, <1>8, <1>9, <1>10 DEF NamedKeys, PrintedPackages, chain

(* The chain takes a transaction out of the pending ones.                  *)
LEMMA OrderSettle ==
    ASSUME OrderInv, NEW t \in pending, pending' = pending \ {t},
           included' \in {included, included \cup {<<t.run, t.step>>}},
           UNCHANGED <<script, printed>>
    PROVE  /\ (SentOnce /\ Arguments /\ Progress /\ PrintedPackages)'
           /\ included \subseteq included' /\ included' \subseteq Runs \X Steps
           /\ t \in Transactions
<1> USE DeployAssumption DEF OrderInv, script
<1>1. t \in Transactions /\ t.run \in Runs /\ t.step \in Steps
  BY DEF TypeOK, Transactions
<1>2. included \subseteq included' /\ included' \subseteq Runs \X Steps
  BY <1>1 DEF TypeOK
<1>3. \A r \in Runs, s \in Steps : Passed(r, s) <=> Passed(r, s)'
  BY DEF Passed
<1>4. \A u \in pending : u.run \in Runs /\ u.step \in Steps
  BY DEF TypeOK, Transactions
<1>5. SentOnce'
  <2>1. \A u \in pending' : u \in pending /\ u # t
    OBVIOUS
  <2>2. \A u \in pending' : <<u.run, u.step>> \notin included /\ ~(u.run = t.run /\ u.step = t.step)
    BY <2>1 DEF SentOnce
  <2>3. \A u \in pending' : <<u.run, u.step>> \notin included' /\ Passed(u.run, u.step)'
    BY <1>3, <1>4, <2>1, <2>2 DEF SentOnce
  <2>4. \A r \in Runs, s \in Steps : <<r, s>> \in included' => Passed(r, s)'
    BY <1>3 DEF SentOnce
  <2> QED
    BY <2>1, <2>3, <2>4 DEF SentOnce
<1>6. Arguments' /\ Progress'
  BY <1>2 DEF Arguments, Progress
<1>7. PrintedPackages'
  BY <1>2 DEF PrintedPackages
<1> QED
  BY <1>1, <1>2, <1>5, <1>6, <1>7

LEMMA OrderApply ==
    ASSUME OrderInv, NEW t \in pending, Apply(t)
    PROVE  OrderInv'
<1> USE DeployAssumption DEF OrderInv, script
<1>1. /\ pending' = pending \ {t} /\ included' = included \cup {<<t.run, t.step>>}
      /\ UNCHANGED <<script, printed, spoilt>>
  BY DEF Apply, Include, Settle
<1>2. /\ (SentOnce /\ Arguments /\ Progress /\ PrintedPackages)'
      /\ included \subseteq included' /\ included' \subseteq Runs \X Steps
      /\ t \in Transactions
  BY <1>1, OrderSettle
<1>3. t.run \in Runs /\ t.run \in Packages /\ t.step \in Steps /\ t.found \in [Installs -> Packages]
  BY <1>2 DEF Transactions, Runs, Packages
<1>4. InstallLog \in Installs /\ InstallTreasury \in Installs /\ InstallRegistry \in Installs
  BY DEF Installs, InstallLog, InstallTreasury, InstallRegistry
<1>5. /\ named' \in [Installs -> [now : Packages, before : Packages]]
      /\ NamedKeys'
  <2>1. CASE t.step \in Installs
    <3>1. StoreKey(t)
      BY <2>1 DEF Apply, Installs, InstallLog, InstallRegistry, Wire
    <3> DEFINE stored == [now |-> t.run, before |-> named[t.step].now]
    <3>2. named' = [named EXCEPT ![t.step] = stored]
      BY <3>1 DEF StoreKey
    <3>3. named[t.step] \in [now : Packages, before : Packages]
      BY <2>1 DEF TypeOK
    <3>4. /\ stored \in [now : Packages, before : Packages]
          /\ stored.now = t.run /\ stored.before = named[t.step].now
      BY <1>3, <3>3
    <3> HIDE DEF stored
    <3>5. /\ named'[t.step] = stored
          /\ \A k \in Installs : k # t.step => named'[k] = named[k]
          /\ named' \in [Installs -> [now : Packages, before : Packages]]
      BY <2>1, <3>2, <3>4 DEF TypeOK
    <3>6. named[t.step].now # 0 => <<named[t.step].now, t.step>> \in included
      BY <2>1 DEF NamedKeys
    <3>7. \A k \in Installs : k # t.step =>
            /\ named'[k].now # 0 => <<named'[k].now, k>> \in included'
            /\ named'[k].before # 0 => <<named'[k].before, k>> \in included'
      BY <1>2, <3>5 DEF NamedKeys
    <3>8. /\ named'[t.step].now # 0 => <<named'[t.step].now, t.step>> \in included'
          /\ named'[t.step].before # 0 => <<named'[t.step].before, t.step>> \in included'
      BY <1>1, <1>2, <3>4, <3>5, <3>6
    <3> QED
      BY <3>5, <3>7, <3>8 DEF NamedKeys
  <2>2. CASE named' = named
    BY <1>2, <2>2 DEF TypeOK, NamedKeys
  <2> QED
    BY <2>1, <2>2 DEF Apply
<1>6. logOf' \in [Runs -> Packages]
  BY <1>3, <1>4 DEF Apply, TypeOK
<1>7. wired' \in [Runs -> Packages]
  BY <1>3, <1>4 DEF Apply, TypeOK
<1>8. agents' \in [Runs -> SUBSET (1 .. Agents)]
  <2>1. CASE t.step > Wire /\ agents' = [agents EXCEPT ![t.found[InstallRegistry]] = @ \cup {t.step - Wire}]
    <3>1. t.step - Wire \in 1 .. Agents
      BY <1>3, <2>1 DEF Steps, LastStep, Wire, InstallLog
    <3> QED
      BY <2>1, <3>1 DEF TypeOK
  <2>2. CASE agents' = agents
    BY <2>2 DEF TypeOK
  <2> QED
    BY <2>1, <2>2 DEF Apply
<1>9. TypeOK'
  BY <1>1, <1>2, <1>5, <1>6, <1>7, <1>8 DEF TypeOK
<1> QED
  BY <1>2, <1>5, <1>9

LEMMA OrderDrop ==
    ASSUME OrderInv, NEW t \in pending, Fail(t) \/ Expire(t)
    PROVE  OrderInv'
<1> USE DeployAssumption DEF OrderInv, script
<1>1. /\ pending' = pending \ {t} /\ included' \in {included, included \cup {<<t.run, t.step>>}}
      /\ UNCHANGED <<script, printed, named, logOf, wired, agents>>
  BY DEF Fail, Expire, Include, Settle
<1>2. /\ (SentOnce /\ Arguments /\ Progress /\ PrintedPackages)'
      /\ included \subseteq included' /\ included' \subseteq Runs \X Steps
  BY <1>1, OrderSettle
<1>3. TypeOK' /\ NamedKeys'
  BY <1>1, <1>2 DEF TypeOK, NamedKeys
<1> QED
  BY <1>2, <1>3

LEMMA OrderStop ==
    ASSUME OrderInv, AwaitFails \/ UNCHANGED vars
    PROVE  OrderInv'
<1> USE DEF OrderInv
<1>1. CASE AwaitFails
  <2>1. UNCHANGED <<run, step, found, chain, printed>> /\ mode' = "aborted" /\ mode = "awaiting"
    BY <1>1 DEF AwaitFails, Abort
  <2>2. \A r \in Runs, s \in Steps : Passed(r, s) => Passed(r, s)'
    BY <2>1 DEF Passed
  <2>3. \A t \in pending : t.run \in Runs /\ t.step \in Steps
    BY DEF TypeOK, Transactions
  <2>4. SentOnce'
    BY <2>1, <2>2, <2>3 DEF SentOnce, chain
  <2> QED
    BY <2>1, <2>4 DEF TypeOK, Arguments, Progress, NamedKeys, PrintedPackages, chain
<1>2. CASE UNCHANGED vars
  BY <1>2 DEF vars, script, chain, TypeOK, SentOnce, Passed, Arguments, Progress, NamedKeys, PrintedPackages
<1> QED
  BY <1>1, <1>2

(* What is sent, executed and looked up stays in this order.               *)
THEOREM OrderHolds == Spec => []OrderInv
<1>1. OrderInv /\ [Next]_vars => OrderInv'
  BY OrderSend, OrderAdvance, OrderFind, OrderRerun, OrderApply, OrderDrop, OrderStop DEF Next
<1> QED
  BY <1>1, OrderInit, PTL DEF Spec

(* The deployment keeps its type, and every package the script goes on     *)
(* with was installed by a run of it.                                      *)
THEOREM TypeCorrect == Spec => []TypeOK
<1>1. OrderInv => TypeOK
  BY DEF OrderInv
<1> QED
  BY <1>1, OrderHolds, PTL

(***************************************************************************)
(* What an executed transaction has done stays done.                       *)
(***************************************************************************)
LEMMA Positions ==
    /\ InstallLog \in Installs /\ InstallTreasury \in Installs /\ InstallRegistry \in Installs
    /\ Wire \notin Installs /\ Installs \subseteq Steps
    /\ \A k \in Installs : k \in Nat /\ k < Wire
    /\ InstallLog < InstallTreasury /\ InstallTreasury < InstallRegistry
BY DeployAssumption DEF Installs, Steps, LastStep, InstallLog, InstallTreasury, InstallRegistry, Wire

(* Settings that work keep working: their treasury is not installed again, *)
(* and a log that is wired is not wired again.                             *)
LEMMA WorksStays ==
    ASSUME OrderInv, [Next]_vars, NEW L \in Runs, NEW T \in Runs,
           <<T, InstallTreasury>> \in included, logOf[T] = L, wired[L] = T
    PROVE  logOf'[T] = L /\ wired'[L] = T
<1>1. L # 0 /\ T # 0
  BY DEF Runs
<1>2. ASSUME NEW t \in pending, Apply(t)
      PROVE  logOf'[T] = L /\ wired'[L] = T
  <2>1. <<t.run, t.step>> \notin included /\ t.run \in Runs
    BY DEF OrderInv, SentOnce, TypeOK, Transactions
  <2>2. logOf'[T] = logOf[T]
    BY <1>2, <2>1 DEF Apply, OrderInv, TypeOK
  <2>3. wired'[L] = wired[L]
    BY <1>1, <1>2 DEF Apply, MayWire, OrderInv, TypeOK
  <2> QED
    BY <2>2, <2>3
<1>3. CASE UNCHANGED <<logOf, wired>>
  BY <1>3
<1> QED
  BY <1>2, <1>3 DEF Next, Send, Await, AwaitFails, FindNamedKey, Rerun, Fail, Expire, vars, chain

(* A registered agent stays registered.                                    *)
LEMMA AgentsStay ==
    ASSUME OrderInv, [Next]_vars, NEW r \in Runs
    PROVE  agents[r] \subseteq agents'[r]
<1>1. ASSUME NEW t \in pending, Apply(t)
      PROVE  agents[r] \subseteq agents'[r]
  BY <1>1 DEF Apply, OrderInv, TypeOK
<1>2. CASE agents' = agents
  BY <1>2
<1> QED
  BY <1>1, <1>2 DEF Next, Send, Await, AwaitFails, FindNamedKey, Rerun, Fail, Expire, vars, chain

LEMMA PrintedAreInstalled ==
    ASSUME OrderInv, NEW p \in printed
    PROVE  /\ p.found[InstallLog] \in Runs /\ p.found[InstallTreasury] \in Runs
           /\ p.found[InstallRegistry] \in Runs
           /\ <<p.found[InstallTreasury], InstallTreasury>> \in included
<1>1. \A k \in Installs : <<p.found[k], k>> \in included
  BY DEF OrderInv, PrintedPackages
<1>2. included \subseteq Runs \X Steps
  BY DEF OrderInv, TypeOK
<1> QED
  BY <1>1, <1>2, Positions

LEMMA PrintedStayWorking ==
    ASSUME OrderInv, [Next]_vars, NEW p \in printed, Works(p)
    PROVE  Works(p)'
<1>1. /\ p.found[InstallLog] \in Runs /\ p.found[InstallTreasury] \in Runs
      /\ <<p.found[InstallTreasury], InstallTreasury>> \in included
  BY PrintedAreInstalled
<1>2. /\ logOf[p.found[InstallTreasury]] = p.found[InstallLog]
      /\ wired[p.found[InstallLog]] = p.found[InstallTreasury]
  BY DEF Works, Pair
<1> QED
  BY <1>1, <1>2, WorksStays DEF Works, Pair

(* Running the script again never breaks printed settings that work.       *)
THEOREM RerunCorrect == Spec => RerunBreaksNothing
<1>1. OrderInv /\ [Next]_vars => [\A p \in printed : Works(p) => Works(p)']_vars
  BY PrintedStayWorking
<1> QED
  BY <1>1, OrderHolds, PTL DEF Spec, RerunBreaksNothing

(***************************************************************************)
(* What the transactions of a run that nothing went wrong in have done.    *)
(***************************************************************************)
OwnPending == "late" \notin spoilt => \A t \in pending : t.run = run

KeyMoved == "late" \notin spoilt /\ "failure" \notin spoilt =>
    \A k \in Installs : <<run, k>> \in included => named[k].now = run

OwnFound == spoilt = {} => \A k \in Installs : step > k => found[k] = run

Effects == "failure" \notin spoilt =>
    /\ <<run, InstallTreasury>> \in included => logOf[run] = found[InstallLog]
    /\ <<run, Wire>> \in included => wired[found[InstallLog]] = found[InstallTreasury]
    /\ \A a \in 1 .. Agents : <<run, Wire + a>> \in included => a \in agents[found[InstallRegistry]]

Deserved(p) ==
    /\ p.run = 1 => \A k \in Installs : p.found[k] = 1
    /\ p.spoilt = {} => p.found[InstallTreasury] = p.run
    /\ "failure" \notin p.spoilt /\ p.found[InstallTreasury] = p.run => Works(p)
    /\ "failure" \notin p.spoilt => AllRegistered(p)

EffectInv ==
    OwnPending /\ KeyMoved /\ OwnFound /\ Effects /\ \A p \in printed : Deserved(p)

LEMMA EffectInit == Init => EffectInv
<1>1. \A k \in Installs : ~(InstallLog > k)
  BY DEF Installs, InstallLog, InstallRegistry
<1> QED
  BY <1>1 DEF Init, EffectInv, OwnPending, KeyMoved, OwnFound, Effects

(* What was printed stays what the run deserved.                           *)
LEMMA DeservedStays ==
    ASSUME OrderInv, [Next]_vars, NEW p \in printed, Deserved(p)
    PROVE  Deserved(p)'
<1>1. Works(p) => Works(p)'
  BY PrintedStayWorking
<1>2. AllRegistered(p) => AllRegistered(p)'
  <2>1. p.found[InstallRegistry] \in Runs
    BY PrintedAreInstalled
  <2>2. agents[p.found[InstallRegistry]] \subseteq agents'[p.found[InstallRegistry]]
    BY <2>1, AgentsStay
  <2>3. OrderInv'
    BY OrderSend, OrderAdvance, OrderFind, OrderRerun, OrderApply, OrderDrop, OrderStop DEF Next
  <2>4. agents'[p.found[InstallRegistry]] \subseteq 1 .. Agents
    BY <2>1, <2>3 DEF OrderInv, TypeOK
  <2> QED
    BY <2>2, <2>4 DEF AllRegistered
<1> QED
  BY <1>1, <1>2 DEF Deserved

(* A step that executes nothing and prints nothing.                        *)
LEMMA EffectQuiet ==
    ASSUME OrderInv, EffectInv, [Next]_vars,
           UNCHANGED <<run, found, printed, included, named, logOf, wired, agents>>,
           step' = step, spoilt \subseteq spoilt',
           \A t \in pending' : t \in pending \/ t.run = run
    PROVE  EffectInv'
<1>1. \A p \in printed' : Deserved(p)'
  BY DeservedStays DEF EffectInv
<1> QED
  BY <1>1 DEF EffectInv, OwnPending, KeyMoved, OwnFound, Effects

LEMMA EffectSend ==
    ASSUME OrderInv, EffectInv, Send \/ AwaitFails \/ UNCHANGED vars
    PROVE  EffectInv'
<1>1. [Next]_vars
  BY DEF Next
<1>2. CASE Send
  BY <1>1, <1>2, EffectQuiet DEF Send, Abort
<1>3. CASE AwaitFails
  BY <1>1, <1>3, EffectQuiet DEF AwaitFails, Abort, chain
<1>4. CASE UNCHANGED vars
  BY <1>1, <1>4, EffectQuiet DEF vars, script, chain
<1> QED
  BY <1>2, <1>3, <1>4

LEMMA EffectDrop ==
    ASSUME OrderInv, EffectInv, NEW t \in pending, Fail(t) \/ Expire(t)
    PROVE  EffectInv'
<1>1. [Next]_vars
  BY DEF Next
<1>2. CASE Expire(t)
  <2>1. UNCHANGED <<run, step, found, printed, included, named, logOf, wired, agents, spoilt>>
        /\ pending' \subseteq pending
    BY <1>2 DEF Expire, Settle, script
  <2> QED
    BY <1>1, <2>1, EffectQuiet
<1>3. CASE Fail(t)
  <2>1. /\ UNCHANGED <<run, step, found, printed, named, logOf, wired, agents>>
        /\ pending' \subseteq pending /\ included' = included \cup {<<t.run, t.step>>}
        /\ spoilt \subseteq spoilt'
        /\ t.run = run => "failure" \in spoilt'
    BY <1>3 DEF Fail, Include, Settle, script
  <2>2. \A p \in printed' : Deserved(p)'
    BY <1>1, <2>1, DeservedStays DEF EffectInv
  <2>3. "failure" \notin spoilt' => \A s \in Nat : <<run, s>> \in included' => <<run, s>> \in included
    BY <2>1
  <2>4. Wire \in Nat /\ InstallTreasury \in Nat /\ (\A k \in Installs : k \in Nat)
        /\ \A a \in 1 .. Agents : Wire + a \in Nat
    BY DeployAssumption DEF Wire, InstallTreasury, Installs, InstallLog, InstallRegistry
  <2> QED
    BY <2>1, <2>2, <2>3, <2>4 DEF EffectInv, OwnPending, KeyMoved, OwnFound, Effects
<1> QED
  BY <1>2, <1>3

LEMMA EffectRerun ==
    ASSUME OrderInv, EffectInv, Rerun
    PROVE  EffectInv'
<1>1. /\ run' = run + 1 /\ step' = InstallLog
      /\ spoilt' = (IF pending = {} THEN {} ELSE {"late"}) /\ UNCHANGED <<chain, printed>>
  BY DEF Rerun
<1>2. run \in Nat
  BY DEF OrderInv, TypeOK, Runs
<1>3. \A r, s : <<r, s>> \in included => r # run'
  <2>1. \A r \in Runs, s \in Steps : <<r, s>> \in included => r < run \/ r = run
    BY DEF OrderInv, SentOnce, Passed
  <2> QED
    BY <1>1, <1>2, <2>1 DEF OrderInv, TypeOK
<1>4. \A p \in printed' : Deserved(p)'
  BY <1>1, DeservedStays DEF EffectInv, Next
<1>5. \A k \in Installs : ~(step' > k)
  BY <1>1 DEF Installs, InstallLog, InstallRegistry
<1>6. OwnPending' /\ OwnFound'
  BY <1>1, <1>5 DEF OwnPending, OwnFound, chain
<1>7. KeyMoved' /\ Effects'
  BY <1>1, <1>3 DEF KeyMoved, Effects, chain
<1> QED
  BY <1>4, <1>6, <1>7 DEF EffectInv

LEMMA EffectFind ==
    ASSUME OrderInv, EffectInv, FindNamedKey
    PROVE  EffectInv'
<1>1. PICK key \in {named[step].now, named[step].before} :
          /\ \/ key = 0 /\ Abort
             \/ /\ key # 0
                /\ found' = [found EXCEPT ![step] = key]
                /\ step' = step + 1
                /\ mode' = "sending"
                /\ UNCHANGED run
          /\ spoilt' = IF key = named[step].now THEN spoilt ELSE spoilt \cup {"lag"}
  BY DEF FindNamedKey
<1>2. mode = "reading" /\ step \in Installs /\ <<run, step>> \in included /\ UNCHANGED <<chain, printed>>
  BY DEF FindNamedKey, OrderInv, Progress
<1>3. [Next]_vars
  BY DEF Next
<1>4. spoilt \subseteq spoilt'
  BY <1>1
<1>5. CASE key = 0 /\ Abort
  <2>1. UNCHANGED <<run, found, printed, included, named, logOf, wired, agents, step, pending>>
    BY <1>2, <1>5 DEF Abort, chain
  <2> QED
    BY <1>3, <1>4, <2>1, EffectQuiet
<1>6. CASE /\ key # 0
           /\ found' = [found EXCEPT ![step] = key]
           /\ step' = step + 1
           /\ mode' = "sending"
           /\ UNCHANGED run
  <2>1. step \in Nat /\ \A k \in Installs : k \in Nat
    BY <1>2, Positions
  <2>2. found'[step] = key /\ \A k \in Installs : k # step => found'[k] = found[k]
    BY <1>2, <1>6 DEF OrderInv, TypeOK
  <2>3. \A p \in printed' : Deserved(p)'
    BY <1>2, <1>3, DeservedStays DEF EffectInv
  <2>4. OwnPending' /\ KeyMoved'
    BY <1>2, <1>4, <1>6 DEF EffectInv, OwnPending, KeyMoved, chain
  <2>5. OwnFound'
    <3>1. SUFFICES ASSUME spoilt' = {}, NEW k \in Installs, step' > k
                   PROVE  found'[k] = run'
      BY DEF OwnFound
    <3>2. key = named[step].now /\ spoilt = {}
      BY <1>1, <3>1
    <3>3. key = run
      BY <1>2, <3>2 DEF EffectInv, KeyMoved
    <3>4. k = step \/ step > k
      BY <1>6, <2>1, <3>1
    <3> QED
      BY <1>6, <2>2, <3>2, <3>3, <3>4 DEF EffectInv, OwnFound
  <2>6. \A s \in Steps : s > step => <<run, s>> \notin included
    <3>1. SUFFICES ASSUME NEW s \in Steps, s > step, <<run, s>> \in included
                   PROVE  FALSE
      OBVIOUS
    <3>2. run \in Runs /\ run \in Nat /\ s \in Nat
      BY DeployAssumption DEF OrderInv, TypeOK, Runs, Steps, InstallLog, LastStep, Wire
    <3>3. Passed(run, s)
      BY <3>1, <3>2 DEF OrderInv, SentOnce
    <3> QED
      BY <2>1, <3>1, <3>2, <3>3 DEF Passed
  <2>7. Wire \in Steps /\ Wire > step /\ \A a \in 1 .. Agents : Wire + a \in Steps /\ Wire + a > step
    BY <1>2, DeployAssumption DEF Steps, LastStep, Installs, InstallLog, InstallRegistry, Wire
  <2>8. <<run, InstallTreasury>> \in included => found'[InstallLog] = found[InstallLog]
    <3>1. <<run, InstallTreasury>> \in included => ~(InstallTreasury > step)
      BY <2>6, Positions
    <3>2. ~(InstallTreasury > step) => InstallLog # step
      BY <2>1, Positions DEF InstallTreasury, InstallLog
    <3> QED
      BY <2>2, <3>1, <3>2, Positions
  <2>9. <<run, Wire>> \notin included /\ \A a \in 1 .. Agents : <<run, Wire + a>> \notin included
    BY <2>6, <2>7
  <2>10. Effects'
    BY <1>2, <1>4, <1>6, <2>8, <2>9 DEF EffectInv, Effects, chain
  <2> QED
    BY <2>3, <2>4, <2>5, <2>10 DEF EffectInv
<1> QED
  BY <1>1, <1>5, <1>6

(* A run that sends its last transaction and sees it executed prints what  *)
(* it deserves.                                                            *)
LEMMA EffectAdvance ==
    ASSUME OrderInv, EffectInv, Await
    PROVE  EffectInv'
<1>1. /\ UNCHANGED <<chain, run, found, spoilt>> /\ <<run, step>> \in included
      /\ step' = step \/ (step' = step + 1 /\ step \in Wire .. (LastStep - 1))
      /\ \/ printed' = printed
         \/ step = LastStep /\ printed' = printed \cup {[run |-> run, found |-> found, spoilt |-> spoilt]}
  BY DEF Await, Advance
<1>2. [Next]_vars
  BY DEF Next
<1>3. \A p \in printed : Deserved(p)'
  BY <1>2, DeservedStays DEF EffectInv
<1>4. \A k \in Installs : step' > k => step > k
  BY <1>1, Positions DEF Wire, LastStep
<1>5. OwnPending' /\ KeyMoved' /\ OwnFound' /\ Effects'
  BY <1>1, <1>4 DEF EffectInv, OwnPending, KeyMoved, OwnFound, Effects, chain
<1>6. ASSUME step = LastStep, NEW p, p = [run |-> run, found |-> found, spoilt |-> spoilt]
      PROVE  Deserved(p)'
  <2>1. p.run = run /\ p.found = found /\ p.spoilt = spoilt
    BY <1>6
  <2>2. /\ \A k \in Installs : step > k
        /\ \A s \in Steps : <<run, s>> \in included
    <3>1. \A k \in Installs : step > k
      BY <1>6, DeployAssumption, Positions DEF LastStep, Wire
    <3>2. \A s \in Steps : s < step \/ s = step
      BY <1>6, DeployAssumption DEF Steps, LastStep, InstallLog, Wire
    <3> QED
      BY <1>1, <3>1, <3>2 DEF OrderInv, Progress
  <2>3. run = 1 => \A k \in Installs : found[k] = 1
    <3>1. SUFFICES ASSUME run = 1, NEW k \in Installs
                   PROVE  found[k] = 1
      OBVIOUS
    <3>2. <<found[k], k>> \in included /\ found[k] \in Runs
      BY <2>2 DEF OrderInv, TypeOK
    <3>3. Passed(found[k], k)
      BY <3>2, Positions DEF OrderInv, SentOnce
    <3> QED
      BY <3>1, <3>2, <3>3 DEF Passed, Runs
  <2>4. spoilt = {} => found[InstallTreasury] = run
    BY <2>2, Positions DEF EffectInv, OwnFound
  <2>5. Wire \in Steps /\ InstallTreasury \in Steps /\ \A a \in 1 .. Agents : Wire + a \in Steps
    BY DeployAssumption DEF Steps, LastStep, InstallLog, InstallTreasury, Wire
  <2>6. "failure" \notin spoilt =>
          /\ logOf[run] = found[InstallLog]
          /\ wired[found[InstallLog]] = found[InstallTreasury]
          /\ \A a \in 1 .. Agents : a \in agents[found[InstallRegistry]]
    BY <2>2, <2>5 DEF EffectInv, Effects
  <2>7. agents[found[InstallRegistry]] \subseteq 1 .. Agents
    <3>1. found[InstallRegistry] \in Runs
      BY <2>2, Positions DEF OrderInv, TypeOK
    <3> QED
      BY <3>1 DEF OrderInv, TypeOK
  <2>8. "failure" \notin spoilt /\ found[InstallTreasury] = run => Works(p)
    BY <2>1, <2>6 DEF Works, Pair
  <2>9. "failure" \notin spoilt => AllRegistered(p)
    BY <2>1, <2>6, <2>7 DEF AllRegistered
  <2>10. (Works(p) <=> Works(p)') /\ (AllRegistered(p) <=> AllRegistered(p)')
    BY <1>1 DEF Works, Pair, AllRegistered, chain
  <2> QED
    BY <2>1, <2>3, <2>4, <2>8, <2>9, <2>10 DEF Deserved
<1>7. \A p \in printed' : Deserved(p)'
  BY <1>1, <1>3, <1>6
<1> QED
  BY <1>5, <1>7 DEF EffectInv

LEMMA EffectApply ==
    ASSUME OrderInv, EffectInv, NEW t \in pending, Apply(t)
    PROVE  EffectInv'
<1>1. /\ pending' = pending \ {t} /\ included' = included \cup {<<t.run, t.step>>}
      /\ UNCHANGED <<run, step, found, printed, spoilt>>
  BY DEF Apply, Include, Settle, script
<1>2. [Next]_vars
  BY DEF Next
<1>3. \A p \in printed' : Deserved(p)'
  BY <1>1, <1>2, DeservedStays DEF EffectInv
<1>4. /\ t.run \in Runs /\ t.step \in Steps /\ <<t.run, t.step>> \notin included
      /\ t.run = run => \A k \in Installs : k < t.step => t.found[k] = found[k]
  BY DEF OrderInv, TypeOK, Transactions, SentOnce, Arguments
<1>5. OwnPending' /\ OwnFound'
  BY <1>1 DEF EffectInv, OwnPending, OwnFound
<1>6. KeyMoved'
  <2>1. SUFFICES ASSUME "late" \notin spoilt, "failure" \notin spoilt,
                        NEW k \in Installs, <<run, k>> \in included'
                 PROVE  named'[k].now = run
    BY <1>1 DEF KeyMoved
  <2>2. t.run = run
    BY <2>1 DEF EffectInv, OwnPending
  <2>3. CASE t.step = k
    <3>1. StoreKey(t)
      BY <2>1, <2>3 DEF Apply, Installs, InstallLog, InstallRegistry, Wire
    <3>2. named' = [named EXCEPT ![k] = [now |-> run, before |-> named[k].now]]
      BY <2>2, <2>3, <3>1 DEF StoreKey
    <3> QED
      BY <3>2 DEF OrderInv, TypeOK
  <2>4. CASE t.step # k
    <3>1. <<run, k>> \in included
      BY <1>1, <2>1, <2>4
    <3>2. named'[k].now = named[k].now
      <4>1. CASE StoreKey(t)
        BY <2>4, <4>1 DEF StoreKey, OrderInv, TypeOK
      <4>2. CASE named' = named
        BY <4>2
      <4> QED
        BY <4>1, <4>2 DEF Apply
    <3> QED
      BY <2>1, <3>1, <3>2 DEF EffectInv, KeyMoved
  <2> QED
    BY <2>3, <2>4
<1>7. Effects'
  <2>1. SUFFICES ASSUME "failure" \notin spoilt
                 PROVE  /\ <<run, InstallTreasury>> \in included' => logOf'[run] = found[InstallLog]
                        /\ <<run, Wire>> \in included' =>
                              wired'[found[InstallLog]] = found[InstallTreasury]
                        /\ \A a \in 1 .. Agents : <<run, Wire + a>> \in included' =>
                              a \in agents'[found[InstallRegistry]]
    BY <1>1 DEF Effects
  <2>2. run \in Runs /\ \A s : <<run, s>> \in included' =>
            <<run, s>> \in included \/ (t.run = run /\ t.step = s)
    BY <1>1 DEF OrderInv, TypeOK
  <2>3. ASSUME <<run, InstallTreasury>> \in included'
        PROVE  logOf'[run] = found[InstallLog]
    <3>1. CASE <<run, InstallTreasury>> \in included
      <4>1. logOf[run] = found[InstallLog]
        BY <2>1, <3>1 DEF EffectInv, Effects
      <4>2. logOf'[run] = logOf[run]
        BY <1>4, <3>1 DEF Apply, OrderInv, TypeOK
      <4> QED
        BY <4>1, <4>2
    <3>2. CASE t.run = run /\ t.step = InstallTreasury
      <4>1. t.found[InstallLog] = found[InstallLog]
        BY <1>4, <3>2, Positions
      <4>2. logOf' = [logOf EXCEPT ![run] = t.found[InstallLog]]
        BY <3>2, Positions DEF Apply, InstallTreasury, Wire
      <4> QED
        BY <2>2, <4>1, <4>2 DEF OrderInv, TypeOK
    <3> QED
      BY <2>2, <2>3, <3>1, <3>2
  <2>4. ASSUME NEW s \in Steps, s \notin Installs, <<run, s>> \in included'
        PROVE  /\ found[InstallLog] \in Runs /\ found[InstallTreasury] \in Runs
               /\ found[InstallRegistry] \in Runs
    <3>1. \A k \in Installs : k < s
      BY <2>4, DeployAssumption DEF Installs, Steps, LastStep, InstallLog, InstallRegistry, Wire
    <3>2. Passed(run, s)
      BY <2>2, <2>4 DEF OrderInv, SentOnce
    <3>3. run \in Nat /\ step \in Nat /\ s \in Nat
      BY DeployAssumption DEF OrderInv, TypeOK, Runs, Steps, LastStep, InstallLog, Wire
    <3>4. \A k \in Installs : step > k
      BY <3>1, <3>2, <3>3, Positions DEF Passed
    <3>5. \A k \in Installs : <<found[k], k>> \in included
      BY <3>4 DEF OrderInv, TypeOK
    <3> QED
      BY <3>5, Positions DEF OrderInv, TypeOK
  <2>5. Wire \in Steps /\ \A a \in 1 .. Agents : Wire + a \in Steps /\ Wire + a \notin Installs
    BY DeployAssumption DEF Steps, LastStep, Installs, InstallLog, InstallRegistry, Wire
  <2>6. ASSUME <<run, Wire>> \in included'
        PROVE  wired'[found[InstallLog]] = found[InstallTreasury]
    <3>1. found[InstallLog] \in Runs /\ found[InstallTreasury] \in Runs /\ 0 \notin Runs
      BY <2>4, <2>5, <2>6, Positions DEF Runs
    <3>2. CASE <<run, Wire>> \in included
      <4>1. wired[found[InstallLog]] = found[InstallTreasury]
        BY <2>1, <3>2 DEF EffectInv, Effects
      <4>2. wired'[found[InstallLog]] = wired[found[InstallLog]]
        BY <3>1, <4>1 DEF Apply, MayWire, OrderInv, TypeOK
      <4> QED
        BY <4>1, <4>2
    <3>3. CASE t.run = run /\ t.step = Wire
      <4>1. t.found[InstallLog] = found[InstallLog] /\ t.found[InstallTreasury] = found[InstallTreasury]
        BY <1>4, <3>3, Positions
      <4>2. wired' = [wired EXCEPT ![found[InstallLog]] = found[InstallTreasury]]
        BY <3>3, <4>1, Positions DEF Apply, Wire
      <4> QED
        BY <3>1, <4>2 DEF OrderInv, TypeOK
    <3> QED
      BY <2>2, <2>6, <3>2, <3>3
  <2>7. ASSUME NEW a \in 1 .. Agents, <<run, Wire + a>> \in included'
        PROVE  a \in agents'[found[InstallRegistry]]
    <3>1. found[InstallRegistry] \in Runs
      BY <2>4, <2>5, <2>7
    <3>2. CASE <<run, Wire + a>> \in included
      <4>1. a \in agents[found[InstallRegistry]]
        BY <2>1, <3>2 DEF EffectInv, Effects
      <4> QED
        BY <1>2, <3>1, <4>1, AgentsStay
    <3>3. CASE t.run = run /\ t.step = Wire + a
      <4>1. t.found[InstallRegistry] = found[InstallRegistry]
        BY <1>4, <3>3, Positions DEF InstallRegistry, Wire
      <4>2. t.step \notin Installs /\ t.step # Wire /\ t.step - Wire = a
        BY <2>5, <3>3 DEF Wire
      <4>3. agents' = [agents EXCEPT ![found[InstallRegistry]] = @ \cup {a}]
        BY <4>1, <4>2 DEF Apply
      <4> QED
        BY <3>1, <4>3 DEF OrderInv, TypeOK
    <3> QED
      BY <2>2, <2>7, <3>2, <3>3
  <2> QED
    BY <2>3, <2>6, <2>7
<1> QED
  BY <1>3, <1>5, <1>6, <1>7 DEF EffectInv

(* Whatever fails or is late, the transactions of a run have had their     *)
(* effect unless one of them is known to have failed.                      *)
THEOREM EffectHolds == Spec => []EffectInv
<1>1. OrderInv /\ EffectInv /\ [Next]_vars => EffectInv'
  BY EffectSend, EffectAdvance, EffectFind, EffectRerun, EffectApply, EffectDrop DEF Next
<1> QED
  BY <1>1, EffectInit, OrderHolds, PTL DEF Spec

(* A run with nothing outstanding before it, no failed transaction and no  *)
(* late key prints settings that work, with all the agents registered.     *)
THEOREM CleanRunCorrect == Spec => []CleanRunWorks
<1>1. EffectInv => CleanRunWorks
  BY DEF EffectInv, Deserved, CleanRunWorks
<1> QED
  BY <1>1, EffectHolds, PTL

(* What the first run prints are its own packages, and they work unless a  *)
(* transaction of it failed.                                               *)
THEOREM FirstRunCorrect == Spec => []FirstRunIsItsOwn
<1>1. EffectInv => FirstRunIsItsOwn
  BY Positions DEF EffectInv, Deserved, FirstRunIsItsOwn
<1> QED
  BY <1>1, EffectHolds, PTL
=============================================================================
