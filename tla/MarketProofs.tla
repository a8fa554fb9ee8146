---------------------------- MODULE MarketProofs ----------------------------
(* Proofs about Market, for any number of commands and reviews.            *)
EXTENDS Market, FiniteSetTheorems, TLAPS

(***************************************************************************)
(* Where the states of a command lie.                                      *)
(***************************************************************************)
KeyMakers == {"creatingKey", "storingKey"}
KeyUsers  == {"opening", "asking", "paying", "awaitingData", "reviewing"}
BeforePay == {"ready", "loadingKey", "creatingKey", "storingKey", "opening", "asking", "paying"}
AfterPay  == {"awaitingData", "reviewing"}
Ended     == {"leaving", "gone"}

SignedBy(p) == {a \in signed : a.by = p}
Count(p)    == Cardinality(SignedBy(p))

(***************************************************************************)
(* Types, and what they rest on: a command that signs has a key, and what  *)
(* a merchant handles has been signed by the command it answers.           *)
(***************************************************************************)
KeysHeld == \A p \in Procs : pc[p] \in KeyMakers \cup KeyUsers => key[p] \in Procs

RequestsSigned == \A p \in Procs : request[p] # NoRequest =>
    request[p].payment \in signed /\ request[p].payment.by = p

(* An answer that can reach its buyer finds it waiting.                    *)
LinkedWaits == \A p \in Procs : Linked(p) => pc[p] = "awaitingData"

TypeInv ==
    /\ TypeOK
    /\ left \in [Procs -> Nat]
    /\ IsFiniteSet(signed)
    /\ KeysHeld
    /\ RequestsSigned
    /\ LinkedWaits

LEMMA RequestIsPaid ==
    ASSUME TypeOK, NEW p \in Procs
    PROVE  request[p] # NoRequest <=> request[p] \in PaidRequests
BY DEF TypeOK, PaidRequests, NoRequest, Steps

LEMMA CountType ==
    ASSUME IsFiniteSet(signed), NEW p \in Procs
    PROVE  IsFiniteSet(SignedBy(p)) /\ Count(p) \in Nat
BY FS_Subset, FS_CardinalityType DEF SignedBy, Count

(* The request of q as the step leaves it: answered, or the same one, with *)
(* its connection perhaps lost.                                            *)
Continues(q) ==
    \/ request'[q] = NoRequest
    \/ /\ request[q] # NoRequest /\ request'[q] \in PaidRequests
       /\ request'[q].payment = request[q].payment
       /\ request'[q].server = request[q].server
       /\ request'[q].linked => request[q].linked

LEMMA UnlinkContinues ==
    ASSUME TypeOK, NEW gone, NEW q \in Procs
    PROVE  /\ request[q] = NoRequest => Unlink(gone)[q] = NoRequest
           /\ request[q] # NoRequest =>
                  /\ Unlink(gone)[q] \in PaidRequests
                  /\ Unlink(gone)[q].payment = request[q].payment
                  /\ Unlink(gone)[q].server = request[q].server
                  /\ Unlink(gone)[q].step = request[q].step
                  /\ Unlink(gone)[q].linked => request[q].linked
                  /\ gone[q] => ~Unlink(gone)[q].linked
                  /\ ~gone[q] => Unlink(gone)[q] = request[q]
BY RequestIsPaid DEF Unlink, PaidRequests

LEMMA VanishContinues ==
    ASSUME TypeOK, NEW p \in Procs, Vanish(p), NEW q \in Procs
    PROVE  /\ Continues(q)
           /\ request'[q] # NoRequest => request'[q].step = request[q].step
           /\ request'[q] # NoRequest => (q = p => ~request'[q].linked)
           /\ request[q] # NoRequest /\ request[q].server # p /\ q # p => request'[q] = request[q]
<1> DEFINE gone == [r \in Procs |-> r = p]
<1>1. request'[q] = IF request[q] # NoRequest /\ request[q].server = p THEN NoRequest ELSE Unlink(gone)[q]
  BY DEF Vanish
<1>2. gone[q] = (q = p)
  OBVIOUS
<1> HIDE DEF gone
<1>3. CASE request[q] = NoRequest
  BY <1>1, <1>3, UnlinkContinues DEF Continues
<1>4. CASE request[q] # NoRequest
  <2> DEFINE u == Unlink(gone)[q]
  <2>1. /\ u \in PaidRequests
        /\ u.payment = request[q].payment /\ u.server = request[q].server
        /\ u.step = request[q].step /\ (u.linked => request[q].linked)
        /\ gone[q] => ~u.linked
        /\ ~gone[q] => u = request[q]
    BY <1>4, UnlinkContinues
  <2> HIDE DEF u
  <2>2. request'[q] = NoRequest \/ request'[q] = u
    BY <1>1 DEF u
  <2>3. request[q].server # p => request'[q] = u
    BY <1>1 DEF u
  <2> QED
    BY <1>2, <1>4, <2>1, <2>2, <2>3 DEF Continues
<1> QED
  BY <1>3, <1>4

LEMMA AdvanceContinues ==
    ASSUME TypeOK, NEW p \in Procs, request[p] # NoRequest, NEW s \in Steps, Advance(p, s), NEW q \in Procs
    PROVE  /\ Continues(q)
           /\ q = p => request'[q] = [request[p] EXCEPT !.step = s]
           /\ q # p => request'[q] = request[q]
<1>1. request[p] \in PaidRequests /\ request' = [request EXCEPT ![p] = [request[p] EXCEPT !.step = s]]
  BY RequestIsPaid DEF Advance
<1>2. DOMAIN request = Procs
  BY DEF TypeOK
<1>3. /\ q = p => request'[q] = [request[p] EXCEPT !.step = s]
      /\ q # p => request'[q] = request[q]
  BY <1>1, <1>2
<1>4. LET r == [request[p] EXCEPT !.step = s]
      IN  /\ r \in PaidRequests /\ r.payment = request[p].payment
          /\ r.server = request[p].server /\ r.linked = request[p].linked
  BY <1>1 DEF PaidRequests
<1> QED
  BY <1>1, <1>3, <1>4, RequestIsPaid DEF Continues

LEMMA RequestsContinue ==
    ASSUME TypeOK, Next
    PROVE  \/ \E p \in Procs : Pay(p)
           \/ signed' = signed /\ \A q \in Procs : Continues(q)
<1>1. ASSUME request' = request, signed' = signed PROVE signed' = signed /\ \A q \in Procs : Continues(q)
  BY <1>1, RequestIsPaid DEF Continues
<1>2. ASSUME NEW p \in Procs, Work(p), ~Pay(p) PROVE signed' = signed /\ \A q \in Procs : Continues(q)
  <2>1. CASE GiveUp(p) \/ FinishCommand(p)
    <3>1. PICK gone : request' = Unlink(gone) \/ request' = request
      BY <2>1 DEF GiveUp, FinishCommand
    <3>2. signed' = signed
      BY <2>1 DEF GiveUp, FinishCommand
    <3>3. CASE request' = Unlink(gone)
      BY <3>2, <3>3, UnlinkContinues DEF Continues
    <3> QED
      BY <1>1, <3>1, <3>2, <3>3
  <2>2. CASE Exit(p)
    BY <2>2, VanishContinues DEF Exit
  <2> QED
    BY <1>1, <1>2, <2>1, <2>2 DEF Work, LoadKey, TruncateKey, StoreKey, StartMerchant, Ask, LoseConnection,
       FinishReview, FailReview, payVars
<1>3. ASSUME NEW p \in Procs, Serve(p) PROVE signed' = signed /\ \A q \in Procs : Continues(q)
  <2>1. signed' = signed /\ request[p] # NoRequest
    BY <1>3 DEF Serve, CheckSignature, Verify, PostSettle, SettleReply, Answer, Refuse, At
  <2>2. CASE \E s \in Steps : Advance(p, s)
    BY <2>1, <2>2, AdvanceContinues
  <2>3. CASE Reply(p)
    BY <2>1, <2>3, RequestIsPaid DEF Reply, TypeOK, Continues
  <2> QED
    BY <1>3, <2>1, <2>2, <2>3 DEF Serve, CheckSignature, Verify, PostSettle, SettleReply, Answer, Refuse,
       Steps
<1> QED
  BY <1>1, <1>2, <1>3, VanishContinues DEF Next, Launch, Kill, Settle, payVars

(* The payment a command signs is new, whatever else it may have signed.   *)
LEMMA PayCounts ==
    ASSUME TypeInv, NEW p \in Procs, Pay(p)
    PROVE  /\ IsFiniteSet(signed')
           /\ Authorization(p) \in Payments
           /\ Authorization(p).by = p /\ Authorization(p).n = Count(p) + 1
           /\ Authorization(p).key = key[p]
           /\ \A q \in Procs \ {p} : SignedBy(q)' = SignedBy(q)
           /\ SignedBy(p)' = SignedBy(p) \cup {Authorization(p)}
<1>1. key[p] \in Procs
  BY DEF Pay, TypeInv, KeysHeld, KeyUsers
<1>2. Count(p) \in Nat
  BY CountType DEF TypeInv
<1>3. /\ Authorization(p) \in Payments
      /\ Authorization(p).by = p /\ Authorization(p).n = Count(p) + 1
      /\ Authorization(p).key = key[p]
  BY <1>1, <1>2 DEF Authorization, Payments, Count, SignedBy
<1> DEFINE a == Authorization(p)
<1>4. signed' = signed \cup {a}
  BY DEF Pay
<1>5. a.by = p
  BY <1>3
<1> HIDE DEF a
<1>6. IsFiniteSet(signed')
  BY <1>4, FS_AddElement DEF TypeInv
<1>7. SignedBy(p)' = SignedBy(p) \cup {a} /\ \A q \in Procs \ {p} : SignedBy(q)' = SignedBy(q)
  BY <1>4, <1>5 DEF SignedBy
<1> QED
  BY <1>3, <1>6, <1>7 DEF a

LEMMA TypeInit == Init => TypeInv
<1> SUFFICES ASSUME Init PROVE TypeInv
  OBVIOUS
<1>1. \A p \in Procs : left[p] \in 0 .. Reviews[p]
  BY MarketAssumption DEF Init
<1>2. left \in [Procs -> Nat]
  BY MarketAssumption DEF Init
<1>3. IsFiniteSet(signed)
  BY FS_EmptySet DEF Init
<1>4. KeysHeld /\ RequestsSigned /\ LinkedWaits
  BY DEF Init, KeysHeld, RequestsSigned, LinkedWaits, Linked, KeyMakers, KeyUsers
<1>5. TypeOK
  BY <1>1 DEF TypeOK, Init
<1> QED
  BY <1>2, <1>3, <1>4, <1>5 DEF TypeInv

PcTypes == {"ready", "loadingKey", "creatingKey", "storingKey", "opening", "asking", "paying",
            "awaitingData", "reviewing", "leaving", "gone"}

CommandTypes ==
    /\ pc \in [Procs -> PcTypes]
    /\ \A p \in Procs : left[p] \in 0 .. Reviews[p]
    /\ left \in [Procs -> Nat]
    /\ exit \in [Procs -> {"none", "ok", "failed", "stranded", "killed"}]
    /\ handle \in [Procs -> BOOLEAN]
    /\ holder \in {p \in Procs : Live(p)} \cup {Nobody}
    /\ keyFile \in Procs \cup {NoKey, TornKey}
    /\ key \in [Procs -> Procs \cup {NoKey}]
    /\ KeysHeld

LEMMA CommandTypesStep ==
    ASSUME CommandTypes, LinkedWaits, Next
    PROVE  CommandTypes'
<1> USE MarketAssumption DEF CommandTypes, PcTypes, Live, KeysHeld, KeyMakers, KeyUsers, Goto
<1>1. ASSUME NEW p \in Procs, Launch(p) PROVE CommandTypes'
  BY <1>1 DEF Launch, portVars, keyVars
<1>2. ASSUME NEW p \in Procs, LoadKey(p) PROVE CommandTypes'
  BY <1>2 DEF LoadKey, portVars
<1>3. ASSUME NEW p \in Procs, TruncateKey(p) \/ StoreKey(p) PROVE CommandTypes'
  BY <1>3 DEF TruncateKey, StoreKey, portVars
<1>4. ASSUME NEW p \in Procs, StartMerchant(p) PROVE CommandTypes'
  <2>1. pc[p] = "opening" /\ UNCHANGED <<left, keyFile, key>>
    BY <1>4 DEF StartMerchant, Leave, keyVars
  <2>2. CASE Leave(p, "failed") /\ UNCHANGED portVars
    BY <2>1, <2>2 DEF Leave, portVars
  <2>3. CASE /\ pc' = [pc EXCEPT ![p] = "asking"] /\ exit' = exit
             /\ \E b \in BOOLEAN : handle' = [handle EXCEPT ![p] = b]
             /\ holder' = holder \/ holder' = p
    <3>1. \A q \in Procs : Live(q) \/ q = p => Live(q)'
      BY <2>3
    <3> QED
      BY <2>1, <2>3, <3>1
  <2> QED
    BY <1>4, <2>2, <2>3 DEF StartMerchant
<1>5. ASSUME NEW p \in Procs, Ask(p) \/ Pay(p) \/ LoseConnection(p) \/ GiveUp(p) \/ FailReview(p)
      PROVE  CommandTypes'
  BY <1>5 DEF Ask, Pay, LoseConnection, GiveUp, FailReview, Leave, portVars, keyVars
<1>6. ASSUME NEW p \in Procs, FinishReview(p) PROVE CommandTypes'
  BY <1>6 DEF FinishReview, portVars, keyVars
<1>7. ASSUME NEW p \in Procs, FinishCommand(p) PROVE CommandTypes'
  BY <1>7 DEF FinishCommand, keyVars
<1>8. ASSUME NEW p \in Procs, Exit(p) \/ Kill(p) PROVE CommandTypes'
  <2>1. /\ pc' = [pc EXCEPT ![p] = "gone"]
        /\ handle' = [handle EXCEPT ![p] = FALSE]
        /\ holder' = IF holder = p THEN Nobody ELSE holder
        /\ UNCHANGED <<left, keyFile, key>>
    BY <1>8 DEF Exit, Kill, Vanish, keyVars
  <2>2. exit' \in [Procs -> {"none", "ok", "failed", "stranded", "killed"}]
    BY <1>8 DEF Exit, Kill
  <2> QED
    BY <2>1, <2>2
<1>9. ASSUME NEW p \in Procs, Serve(p) PROVE CommandTypes'
  <2>1. UNCHANGED <<left, handle, holder, keyFile, key>>
    BY <1>9 DEF Serve, CheckSignature, Verify, PostSettle, SettleReply, Answer, Refuse, Receive, Leave,
       commandVars, portVars, keyVars
  <2>2. CASE pc' = pc /\ exit' = exit
    BY <2>1, <2>2
  <2>3. CASE Linked(p) /\ Answer(p) /\ Receive(p)
    BY <2>1, <2>3 DEF Answer, Receive, LinkedWaits
  <2>4. CASE Linked(p) /\ Refuse(p) /\ Leave(p, "failed")
    BY <2>1, <2>4 DEF Refuse, Leave
  <2> QED
    BY <1>9, <2>2, <2>3, <2>4 DEF Serve, CheckSignature, Verify, PostSettle, SettleReply, Answer, Refuse,
       commandVars
<1>10. ASSUME NEW a \in posted, Settle(a) PROVE CommandTypes'
  BY <1>10 DEF Settle, commandVars, portVars, keyVars
<1> QED
  BY <1>1, <1>2, <1>3, <1>4, <1>5, <1>6, <1>7, <1>8, <1>9, <1>10 DEF Next, Work

LEMMA LinkedStep ==
    ASSUME TypeInv, Next
    PROVE  LinkedWaits'
<1> USE DEF TypeInv
<1>0. \A q \in Procs : pc[q] # "awaitingData" => ~Linked(q)
  BY DEF LinkedWaits
<1>1. ASSUME NEW p \in Procs, Pay(p) PROVE LinkedWaits'
  <2>1. ASSUME NEW q \in Procs, q # p, Linked(q)' PROVE pc'[q] = "awaitingData"
    <3>1. request'[q] = request[q] /\ pc'[q] = pc[q]
      BY <1>1, <2>1 DEF Pay, Goto, Leave, TypeOK
    <3> QED
      BY <2>1, <3>1 DEF LinkedWaits, Linked
  <2>2. ASSUME Linked(p)' PROVE pc'[p] = "awaitingData"
    BY <1>0, <1>1, <2>2 DEF Pay, Goto, Leave, TypeOK, Linked
  <2> QED
    BY <2>1, <2>2 DEF LinkedWaits
<1>2. ASSUME \A q \in Procs : Continues(q),
             \A q \in Procs : pc[q] = "awaitingData" => pc'[q] = "awaitingData" \/ ~Linked(q)'
      PROVE  LinkedWaits'
  BY <1>2 DEF LinkedWaits, Linked, Continues
<1>3. ASSUME \A q \in Procs : Continues(q),
             NEW p \in Procs, NEW x, pc' = [pc EXCEPT ![p] = x], pc[p] # "awaitingData" \/ ~Linked(p)'
      PROVE  LinkedWaits'
  BY <1>2, <1>3 DEF TypeOK
<1>4. CASE \A q \in Procs : Continues(q)
  <2>1. CASE pc' = pc
    BY <1>2, <1>4, <2>1
  <2>2. ASSUME NEW p \in Procs, Launch(p) \/ Work(p), ~Pay(p) PROVE LinkedWaits'
    <3>1. CASE pc[p] # "awaitingData"
      <4>1. \E x : pc' = [pc EXCEPT ![p] = x]
        BY <2>2 DEF Launch, Work, LoadKey, TruncateKey, StoreKey, StartMerchant, Ask, LoseConnection, GiveUp,
           FinishReview, FinishCommand, FailReview, Exit, Vanish, Leave, Goto
      <4> QED
        BY <1>3, <1>4, <3>1, <4>1
    <3>2. CASE pc[p] = "awaitingData" /\ LoseConnection(p)
      <4>1. ~Linked(p)' /\ pc' = [pc EXCEPT ![p] = "leaving"]
        BY <3>2 DEF LoseConnection, Leave, Goto, Linked, payVars
      <4> QED
        BY <1>3, <1>4, <4>1
    <3>3. CASE pc[p] = "awaitingData" /\ GiveUp(p)
      <4> DEFINE gone == [q \in Procs |-> q = p]
      <4>1. gone[p] /\ request' = Unlink(gone) /\ pc' = [pc EXCEPT ![p] = "leaving"]
        BY <3>3 DEF GiveUp, Leave, Goto
      <4> HIDE DEF gone
      <4>2. ~Linked(p)'
        BY <4>1, UnlinkContinues DEF Linked
      <4> QED
        BY <1>3, <1>4, <4>1, <4>2
    <3> QED
      BY <2>2, <3>1, <3>2, <3>3 DEF Launch, Work, LoadKey, TruncateKey, StoreKey, StartMerchant, Ask,
         FinishReview, FinishCommand, FailReview, Exit
  <2>3. ASSUME NEW p \in Procs, Serve(p) PROVE LinkedWaits'
    <3>1. CASE Reply(p) /\ \E x : pc' = [pc EXCEPT ![p] = x]
      <4>1. ~Linked(p)'
        BY <3>1 DEF Reply, Linked, TypeOK
      <4> QED
        BY <1>3, <1>4, <3>1, <4>1
    <3> QED
      BY <2>1, <2>3, <3>1 DEF Serve, CheckSignature, Verify, PostSettle, SettleReply, Answer, Refuse,
         Receive, Leave,
         Goto, commandVars
  <2>4. ASSUME NEW p \in Procs, Kill(p) PROVE LinkedWaits'
    <3>1. pc' = [pc EXCEPT ![p] = "gone"] /\ ~Linked(p)'
      BY <2>4, VanishContinues DEF Kill, Vanish, Goto, Linked
    <3> QED
      BY <1>3, <1>4, <3>1
  <2>5. ASSUME NEW a \in posted, Settle(a) PROVE LinkedWaits'
    BY <2>1, <2>5 DEF Settle, commandVars
  <2> QED
    BY <1>1, <2>2, <2>3, <2>4, <2>5 DEF Next
<1> QED
  BY <1>1, <1>4, RequestsContinue

LEMMA PaymentTypesStep ==
    ASSUME TypeInv, Next
    PROVE  /\ request' \in [Procs -> PaidRequests \cup {NoRequest}]
           /\ settled' \subseteq posted' /\ posted' \cup misreported' \subseteq signed' /\ signed' \subseteq Payments
           /\ IsFiniteSet(signed')
           /\ RequestsSigned'
<1> USE DEF TypeInv
<1>1. CASE \E p \in Procs : Pay(p)
  <2>1. PICK p \in Procs : Pay(p)
    BY <1>1
  <2>2. DEFINE a == Authorization(p)
  <2>3. a \in Payments /\ a.by = p /\ IsFiniteSet(signed')
    BY <2>1, PayCounts
  <2>4. signed' = signed \cup {a} /\ UNCHANGED <<settled, posted, misreported>>
    BY <2>1 DEF Pay
  <2>5. request' = request \/ \E r \in PaidRequests : r.payment = a /\ request' = [request EXCEPT ![p] = r]
    BY <2>1, <2>3 DEF Pay, TypeOK, PaidRequests, Steps
  <2> HIDE DEF a
  <2>6. RequestsSigned'
    BY <2>3, <2>4, <2>5 DEF RequestsSigned, TypeOK
  <2> QED
    BY <2>3, <2>4, <2>5, <2>6 DEF TypeOK
<1>2. CASE signed' = signed /\ \A q \in Procs : Continues(q)
  <2>1. RequestsSigned'
    BY <1>2 DEF RequestsSigned, Continues
  <2>2. DOMAIN request' = Procs /\ request' = [q \in Procs |-> request'[q]]
    <3>1. ASSUME NEW p \in Procs, Launch(p) \/ Work(p) PROVE request' = [q \in Procs |-> request'[q]]
      BY <3>1 DEF Launch, Work, LoadKey, TruncateKey, StoreKey, StartMerchant, Ask, Pay, LoseConnection,
         GiveUp,
         FinishReview, FinishCommand, FailReview, Exit, Vanish, Unlink, payVars, TypeOK
    <3>2. ASSUME NEW p \in Procs, Serve(p) PROVE request' = [q \in Procs |-> request'[q]]
      BY <3>2 DEF Serve, CheckSignature, Verify, PostSettle, SettleReply, Answer, Refuse, Reply, Advance,
         TypeOK
    <3>3. ASSUME NEW p \in Procs, Kill(p) PROVE request' = [q \in Procs |-> request'[q]]
      BY <3>3 DEF Kill, Vanish
    <3>4. ASSUME NEW a \in posted, Settle(a) PROVE request' = [q \in Procs |-> request'[q]]
      BY <3>4 DEF Settle, TypeOK
    <3> QED
      BY <3>1, <3>2, <3>3, <3>4 DEF Next
  <2>3. request' \in [Procs -> PaidRequests \cup {NoRequest}]
    BY <1>2, <2>2 DEF Continues
  <2>4. settled' \subseteq posted' /\ posted' \cup misreported' \subseteq signed
    <3>1. ASSUME NEW p \in Procs, Launch(p) \/ Work(p) \/ Kill(p)
          PROVE  settled' = settled /\ posted' = posted /\ misreported' = misreported
      BY <3>1 DEF Launch, Work, LoadKey, TruncateKey, StoreKey, StartMerchant, Ask, Pay, LoseConnection,
         GiveUp,
         FinishReview, FinishCommand, FailReview, Exit, Kill, payVars
    <3>2. ASSUME NEW p \in Procs, Serve(p)
          PROVE  /\ settled' = settled /\ request[p] # NoRequest
                 /\ posted \subseteq posted' /\ posted' \subseteq posted \cup {request[p].payment}
                 /\ misreported' \subseteq misreported \cup {request[p].payment}
      BY <3>2 DEF Serve, CheckSignature, Verify, PostSettle, SettleReply, Answer, Refuse, At
    <3>3. ASSUME NEW a \in posted, Settle(a)
          PROVE  settled' = settled \cup {a} /\ posted' = posted /\ misreported' = misreported
      BY <3>3 DEF Settle
    <3> QED
      BY <3>1, <3>2, <3>3 DEF Next, RequestsSigned, TypeOK
  <2> QED
    BY <1>2, <2>1, <2>3, <2>4 DEF TypeOK
<1> QED
  BY <1>1, <1>2, RequestsContinue

LEMMA TypeStep == TypeInv /\ [Next]_vars => TypeInv'
<1> SUFFICES ASSUME TypeInv, [Next]_vars PROVE TypeInv'
  OBVIOUS
<1>1. CASE UNCHANGED vars
  BY <1>1 DEF vars, commandVars, portVars, keyVars, payVars, TypeInv, TypeOK, Live, KeysHeld, RequestsSigned,
     LinkedWaits, Linked
<1>2. CASE Next
  <2>1. CommandTypes
    BY DEF TypeInv, TypeOK, CommandTypes, PcTypes
  <2>2. CommandTypes'
    BY <1>2, <2>1, CommandTypesStep DEF TypeInv
  <2> QED
    BY <1>2, <2>2, LinkedStep, PaymentTypesStep DEF TypeInv, TypeOK, CommandTypes, PcTypes
<1> QED
  BY <1>1, <1>2

(* The state is always well typed; in particular only a live process holds *)
(* the port (cli.ts, main and buildProvider).                              *)
THEOREM TypeInvHolds == Spec => []TypeInv
BY TypeInit, TypeStep, PTL DEF Spec

(* The type of the market (Market, TypeOK) follows from it.                *)
THEOREM TypeCorrect == Spec => []TypeOK
<1>1. TypeInv => TypeOK
  BY DEF TypeInv
<1> QED
  BY <1>1, TypeInvHolds, PTL

(***************************************************************************)
(* One identity.  The key file is made once: while nothing spoils it,      *)
(* either it holds a key, which everyone uses, or nobody has one yet.      *)
(***************************************************************************)
NobodyMakes == \A p \in Procs : pc[p] \notin KeyMakers
OneMakes    == \A p, q \in Procs : pc[p] \in KeyMakers /\ pc[q] \in KeyMakers => p = q

KeyIsShared ==
    /\ NobodyMakes
    /\ \A p \in Procs : pc[p] \in KeyUsers => key[p] = keyFile
    /\ \A a \in signed : a.key = keyFile

NoKeyYet ==
    /\ OneMakes
    /\ \A p \in Procs : pc[p] \notin KeyUsers
    /\ signed = {}

IdentityInv == ~keySpoilt => IF keyFile \in Procs THEN KeyIsShared ELSE NoKeyYet

LEMMA IdentityInit == Init => IdentityInv
BY MarketAssumption DEF Init, IdentityInv, NoKeyYet, OneMakes, KeyMakers, KeyUsers

(* A step that makes no key and signs nothing.                             *)
LEMMA IdentityFrame ==
    ASSUME IdentityInv, UNCHANGED <<keyFile, key, signed>>, keySpoilt' = FALSE => keySpoilt = FALSE,
    keySpoilt' \in BOOLEAN,
           keySpoilt \in BOOLEAN,
           \A p \in Procs : /\ pc'[p] \in KeyMakers => pc[p] \in KeyMakers
                            /\ pc'[p] \in KeyUsers => pc[p] \in KeyUsers
    PROVE  IdentityInv'
BY DEF IdentityInv, NoKeyYet, KeyIsShared, OneMakes, NobodyMakes

LEMMA IdentityStep ==
    ASSUME TypeInv, keySpoilt \in BOOLEAN, IdentityInv, Next
    PROVE  IdentityInv' /\ keySpoilt' \in BOOLEAN
<1> USE DEF TypeInv
<1>0. pc \in [Procs -> PcTypes] /\ key \in [Procs -> Procs \cup {NoKey}]
  BY DEF TypeOK, PcTypes
<1>1. ASSUME NEW p \in Procs, LoadKey(p) PROVE IdentityInv' /\ keySpoilt' \in BOOLEAN
  <2>1. CASE keyFile \in Procs
    <3>1. \/ /\ key' = [key EXCEPT ![p] = keyFile] /\ pc' = [pc EXCEPT ![p] = "opening"]
             /\ UNCHANGED <<keySpoilt, keyFile, signed>> /\ pc[p] = "loadingKey"
          \/ keySpoilt' = TRUE
      BY <1>1, <2>1 DEF LoadKey, Goto, payVars
    <3>2. CASE keySpoilt' = TRUE
      BY <3>2 DEF IdentityInv
    <3> QED
      BY <1>0, <2>1, <3>1, <3>2 DEF IdentityInv, KeyIsShared, NobodyMakes, KeyMakers
  <2>2. CASE keyFile \notin Procs
    <3>1. /\ key' = [key EXCEPT ![p] = p] /\ pc' = [pc EXCEPT ![p] = "creatingKey"]
          /\ keySpoilt' = (keySpoilt \/ \E q \in Procs \ {p} : Creating(q))
          /\ UNCHANGED <<keyFile, signed>> /\ pc[p] = "loadingKey"
      BY <1>1, <2>2 DEF LoadKey, Goto, payVars
    <3> QED
      BY <1>0, <2>2, <3>1 DEF IdentityInv, NoKeyYet, OneMakes, KeyMakers, KeyUsers, Creating
  <2> QED
    BY <2>1, <2>2
<1>2. ASSUME NEW p \in Procs, TruncateKey(p) PROVE IdentityInv' /\ keySpoilt' \in BOOLEAN
  <2>1. /\ pc[p] = "creatingKey" /\ keyFile' = TornKey /\ pc' = [pc EXCEPT ![p] = "storingKey"]
        /\ UNCHANGED <<key, keySpoilt, signed>>
    BY <1>2 DEF TruncateKey, Goto, payVars
  <2>2. TornKey \notin Procs
    BY MarketAssumption
  <2> QED
    BY <1>0, <2>1, <2>2 DEF IdentityInv, NoKeyYet, KeyIsShared, OneMakes, NobodyMakes, KeyMakers, KeyUsers
<1>3. ASSUME NEW p \in Procs, StoreKey(p) PROVE IdentityInv' /\ keySpoilt' \in BOOLEAN
  <2>1. /\ pc[p] = "storingKey" /\ keyFile' = key[p] /\ pc' = [pc EXCEPT ![p] = "opening"]
        /\ UNCHANGED <<key, keySpoilt, signed>>
    BY <1>3 DEF StoreKey, Goto, payVars
  <2>2. key[p] \in Procs
    BY <2>1 DEF KeysHeld, KeyMakers
  <2> QED
    BY <1>0, <2>1, <2>2 DEF IdentityInv, NoKeyYet, KeyIsShared, OneMakes, NobodyMakes, KeyMakers, KeyUsers
<1>4. ASSUME NEW p \in Procs, Pay(p) PROVE IdentityInv' /\ keySpoilt' \in BOOLEAN
  <2>1. \E w \in {"awaitingData", "leaving"} : pc' = [pc EXCEPT ![p] = w]
    BY <1>4 DEF Pay, Goto, Leave
  <2>2. pc[p] = "paying" /\ UNCHANGED <<key, keyFile, keySpoilt>> /\ signed' = signed \cup {Authorization(p)}
    BY <1>4 DEF Pay, keyVars
  <2>3. Authorization(p).key = key[p]
    BY <1>4, PayCounts
  <2> QED
    BY <1>0, <2>1, <2>2, <2>3 DEF IdentityInv, NoKeyYet, KeyIsShared, NobodyMakes, KeyMakers, KeyUsers
<1>5. ASSUME NEW p \in Procs, Kill(p) PROVE IdentityInv' /\ keySpoilt' \in BOOLEAN
  <2>1. /\ pc' = [pc EXCEPT ![p] = "gone"] /\ keySpoilt' = (keySpoilt \/ Creating(p))
        /\ UNCHANGED <<keyFile, key, signed>>
    BY <1>5 DEF Kill, Vanish, Goto
  <2> QED
    BY <1>0, <2>1, IdentityFrame DEF KeyMakers, KeyUsers, Creating
<1>6. ASSUME UNCHANGED <<keyFile, key, keySpoilt, signed>>,
             pc' = pc \/ \E p \in Procs, w \in {"loadingKey", "leaving", "gone"} : pc' = [pc EXCEPT ![p] = w]
                      \/ (pc[p] \in KeyUsers /\ \E u \in KeyUsers : pc' = [pc EXCEPT ![p] = u])
      PROVE  IdentityInv' /\ keySpoilt' \in BOOLEAN
  BY <1>0, <1>6, IdentityFrame DEF KeyMakers, KeyUsers
<1>7. ASSUME NEW p \in Procs, Launch(p) \/ StartMerchant(p) \/ Ask(p) \/ LoseConnection(p) \/ GiveUp(p)
                              \/ FinishReview(p) \/ FinishCommand(p) \/ FailReview(p) \/ Exit(p)
      PROVE  IdentityInv' /\ keySpoilt' \in BOOLEAN
  <2>1. UNCHANGED <<keyFile, key, keySpoilt, signed>>
    BY <1>7 DEF Launch, StartMerchant, Ask, LoseConnection, GiveUp, FinishReview, FinishCommand,
       FailReview, Exit,
       keyVars, payVars
  <2>2. \/ \E w \in {"loadingKey", "leaving", "gone"} : pc' = [pc EXCEPT ![p] = w]
        \/ (pc[p] \in KeyUsers /\ \E u \in KeyUsers : pc' = [pc EXCEPT ![p] = u])
    BY <1>7 DEF Launch, StartMerchant, Ask, LoseConnection, GiveUp, FinishReview, FinishCommand,
       FailReview, Exit,
       Vanish, Leave, Goto, KeyUsers
  <2> QED
    BY <1>6, <2>1, <2>2
<1>8. ASSUME NEW p \in Procs, Serve(p) PROVE IdentityInv' /\ keySpoilt' \in BOOLEAN
  <2>1. UNCHANGED <<keyFile, key, keySpoilt, signed>>
    BY <1>8 DEF Serve, CheckSignature, Verify, PostSettle, SettleReply, Answer, Refuse, keyVars
  <2>2. CASE pc' = pc
    BY <1>6, <2>1, <2>2
  <2>3. CASE Linked(p) /\ (Receive(p) \/ Leave(p, "failed"))
    <3>1. pc[p] = "awaitingData" /\ \E w \in {"reviewing", "leaving"} : pc' = [pc EXCEPT ![p] = w]
      BY <2>3 DEF LinkedWaits, Receive, Leave, Goto
    <3> QED
      BY <1>6, <2>1, <3>1 DEF KeyUsers
  <2> QED
    BY <1>8, <2>2, <2>3 DEF Serve, CheckSignature, Verify, PostSettle, SettleReply, Answer, Refuse,
       commandVars
<1>9. ASSUME NEW a \in posted, Settle(a) PROVE IdentityInv' /\ keySpoilt' \in BOOLEAN
  BY <1>6, <1>9 DEF Settle, commandVars, keyVars
<1> QED
  BY <1>1, <1>2, <1>3, <1>4, <1>5, <1>7, <1>8, <1>9 DEF Next, Work

(* All payments of all commands are signed with one key, unless the key    *)
(* file was made twice at a time, not to its end, or in the place of a     *)
(* good one (signer.ts, loadOrCreate): for any number of commands.         *)
THEOREM OneIdentityCorrect == Spec => []OneIdentity
<1>1. Init => IdentityInv /\ keySpoilt \in BOOLEAN
  BY IdentityInit DEF Init
<1>2. TypeInv /\ keySpoilt \in BOOLEAN /\ IdentityInv /\ [Next]_vars => (keySpoilt \in BOOLEAN)' /\ IdentityInv'
  <2>1. CASE UNCHANGED vars
    BY <2>1 DEF vars, commandVars, keyVars, payVars, IdentityInv, NoKeyYet, KeyIsShared, OneMakes, NobodyMakes
  <2> QED
    BY <2>1, IdentityStep
<1>3. IdentityInv /\ keySpoilt \in BOOLEAN => OneIdentity
  BY DEF IdentityInv, KeyIsShared, NoKeyYet, OneIdentity
<1> QED
  BY <1>1, <1>2, <1>3, TypeInvHolds, PTL DEF Spec

(***************************************************************************)
(* Payments and packets.                                                   *)
(***************************************************************************)
(* What the facilitator has settled, or has called settled.  How far a     *)
(* merchant has come says what has become of the payment.                  *)
Reported == settled \cup misreported

StepsTell == \A p \in Procs : request[p] # NoRequest =>
    /\ request[p].step = "check" => request[p].server \notin FacilitatorProcs
    /\ request[p].step = "answer" /\ request[p].server \in FacilitatorProcs =>
           request[p].payment \in Reported

(* The payments of a command are numbered, each number once.               *)
Numbered ==
    /\ \A a \in signed : a.n <= Count(a.by)
    /\ \A a, b \in signed : a.by = b.by /\ a.n = b.n => a = b

(* What can still be answered is the latest payment of a command ...       *)
Latest == \A p \in Procs : Linked(p) => request[p].payment.n = Count(p)

(* ... for which it has no packet while it waits.                          *)
Unbought == \A b \in bought :
    /\ b.payment \in signed
    /\ pc[b.payment.by] = "awaitingData" => b.payment.n # Count(b.payment.by)

PaidInv == StepsTell /\ Numbered /\ Latest /\ Unbought /\ PacketsArePaid

LEMMA PaidInit == Init => PaidInv
BY DEF Init, PaidInv, StepsTell, Numbered, Latest, Unbought, PacketsArePaid, Linked

LEMMA ReportedStays ==
    ASSUME Next
    PROVE  Reported \subseteq Reported'
<1>1. ASSUME NEW p \in Procs, Launch(p) \/ Work(p) \/ Kill(p) PROVE UNCHANGED <<settled, misreported>>
  BY <1>1 DEF Launch, Work, LoadKey, TruncateKey, StoreKey, StartMerchant, Ask, Pay, LoseConnection, GiveUp,
     FinishReview, FinishCommand, FailReview, Exit, Kill, payVars
<1>2. ASSUME NEW p \in Procs, Serve(p) PROVE settled' = settled /\ misreported \subseteq misreported'
  BY <1>2 DEF Serve, CheckSignature, Verify, PostSettle, SettleReply, Answer, Refuse
<1>3. ASSUME NEW a \in posted, Settle(a) PROVE settled \subseteq settled' /\ misreported' = misreported
  BY <1>3 DEF Settle
<1> QED
  BY <1>1, <1>2, <1>3 DEF Next, Reported

LEMMA StepsTellStep ==
    ASSUME TypeInv, StepsTell, Next
    PROVE  StepsTell'
<1> USE DEF TypeInv
<1>1. Reported \subseteq Reported'
  BY ReportedStays
<1>2. ASSUME \A q \in Procs : request'[q] # NoRequest =>
                 request[q] # NoRequest /\ request'[q].step = request[q].step
                 /\ request'[q].server = request[q].server /\ request'[q].payment = request[q].payment
      PROVE  StepsTell'
  BY <1>1, <1>2 DEF StepsTell
<1>3. ASSUME UNCHANGED request PROVE StepsTell'
  BY <1>2, <1>3
<1>4. ASSUME NEW gone, request' = Unlink(gone) PROVE StepsTell'
  BY <1>2, <1>4, UnlinkContinues
<1>5. ASSUME NEW p \in Procs, Vanish(p) PROVE StepsTell'
  BY <1>2, <1>5, VanishContinues DEF Continues
<1>6. ASSUME NEW p \in Procs, NEW s \in Steps, request[p] # NoRequest, Advance(p, s),
             s = "check" => FALSE,
             s = "answer" /\ request[p].server \in FacilitatorProcs => request[p].payment \in Reported'
      PROVE  StepsTell'
  <2>1. /\ request'[p].step = s /\ request'[p].server = request[p].server
        /\ request'[p].payment = request[p].payment
        /\ \A q \in Procs : q # p => request'[q] = request[q]
    <3>1. request[p] \in PaidRequests
      BY <1>6, RequestIsPaid
    <3>2. request'[p] = [request[p] EXCEPT !.step = s]
      BY <1>6, AdvanceContinues
    <3>3. \A q \in Procs : q # p => request'[q] = request[q]
      BY <1>6, AdvanceContinues
    <3> QED
      BY <3>1, <3>2, <3>3 DEF PaidRequests
  <2> QED
    BY <1>1, <1>6, <2>1 DEF StepsTell
<1>7. ASSUME NEW p \in Procs, Reply(p) PROVE StepsTell'
  <2>1. \A q \in Procs : request'[q] = NoRequest \/ request'[q] = request[q]
    BY <1>7 DEF Reply, TypeOK
  <2> QED
    BY <1>2, <2>1
<1>8. ASSUME NEW p \in Procs, Pay(p) PROVE StepsTell'
  <2>1. CASE request' = request
    BY <1>3, <2>1
  <2>2. CASE /\ holder # Nobody
             /\ request' = [request EXCEPT ![p] =
                 [step    |-> IF holder \in FacilitatorProcs THEN "verify" ELSE "check",
                  server  |-> holder,
                  payment |-> Authorization(p),
                  linked  |-> TRUE]]
    <3>1. \A q \in Procs : q # p => request'[q] = request[q]
      BY <2>2 DEF TypeOK
    <3>2. /\ request'[p].step = IF holder \in FacilitatorProcs THEN "verify" ELSE "check"
          /\ request'[p].server = holder
      BY <2>2 DEF TypeOK
    <3> QED
      BY <1>1, <3>1, <3>2 DEF StepsTell
  <2> QED
    BY <1>8, <2>1, <2>2 DEF Pay
<1>9. ASSUME NEW p \in Procs, Launch(p) \/ Work(p) PROVE StepsTell'
  BY <1>3, <1>4, <1>5, <1>8, <1>9 DEF Launch, Work, LoadKey, TruncateKey, StoreKey, StartMerchant, Ask,
     LoseConnection, GiveUp, FinishReview, FinishCommand, FailReview, Exit, payVars
<1>10. ASSUME NEW p \in Procs, Serve(p) PROVE StepsTell'
  <2>1. request[p] # NoRequest
    BY <1>10 DEF Serve, CheckSignature, Verify, PostSettle, SettleReply, Answer, Refuse, At
  <2>2. CASE CheckSignature(p)
    <3>1. Advance(p, "answer") /\ request[p].server \notin FacilitatorProcs
      BY <2>2 DEF CheckSignature, At, StepsTell
    <3> QED
      BY <1>6, <2>1, <3>1 DEF Steps
  <2>3. CASE \E s \in {"settle", "refuse", "settling"} : Advance(p, s)
    BY <1>6, <2>1, <2>3 DEF Steps
  <2>4. CASE SettleReply(p)
    <3>1. CASE /\ Advance(p, "answer")
               /\ misreported' = misreported \cup ({request[p].payment} \ settled)
      <4>1. request[p].payment \in Reported'
        BY <1>1, <3>1 DEF Reported
      <4> QED
        BY <1>6, <2>1, <3>1, <4>1 DEF Steps
    <3> QED
      BY <2>3, <2>4, <3>1 DEF SettleReply
  <2> QED
    BY <1>7, <1>10, <2>2, <2>3, <2>4 DEF Serve, Verify, PostSettle, Answer, Refuse
<1> QED
  BY <1>3, <1>5, <1>9, <1>10 DEF Next, Kill, Settle

(* What a step does to the counts.                                         *)
LEMMA PayAddsOne ==
    ASSUME TypeInv, Numbered, NEW p \in Procs, Pay(p)
    PROVE  Count(p)' = Count(p) + 1 /\ \A q \in Procs \ {p} : Count(q)' = Count(q)
<1>1. Authorization(p) \notin SignedBy(p)
  <2>1. Authorization(p).by = p /\ Authorization(p).n = Count(p) + 1 /\ Count(p) \in Nat
    BY PayCounts, CountType DEF TypeInv
  <2>2. \A a \in SignedBy(p) : a.n <= Count(p) /\ a.n \in Nat
    BY DEF Numbered, SignedBy, TypeInv, TypeOK, Payments
  <2> QED
    BY <2>1, <2>2
<1>2. SignedBy(p)' = SignedBy(p) \cup {Authorization(p)} /\ IsFiniteSet(SignedBy(p))
  BY PayCounts, CountType DEF TypeInv
<1>3. Count(p)' = Count(p) + 1
  BY <1>1, <1>2, FS_AddElement DEF Count
<1>4. \A q \in Procs \ {p} : Count(q)' = Count(q)
  BY PayCounts DEF Count
<1> QED
  BY <1>3, <1>4

LEMMA CountStep ==
    ASSUME TypeInv, Numbered, Next
    PROVE  \/ signed' = signed /\ \A q \in Procs : Count(q)' = Count(q)
           \/ \E p \in Procs : /\ Pay(p)
                               /\ Count(p)' = Count(p) + 1
                               /\ \A q \in Procs \ {p} : Count(q)' = Count(q)
<1>1. CASE signed' = signed
  BY <1>1 DEF Count, SignedBy
<1> QED
  BY <1>1, PayAddsOne, RequestsContinue DEF TypeInv

(* The only step that brings a packet, and the only one that waits for one.*)
LEMMA PacketStep ==
    ASSUME TypeInv, Next
    PROVE  \/ bought' = bought
           \/ \E p \in Procs : /\ At(p, "answer") /\ Linked(p) /\ Receive(p)
                               /\ UNCHANGED <<signed, exit>>
<1>1. ASSUME NEW p \in Procs, Launch(p) \/ Work(p) \/ Kill(p) PROVE bought' = bought
  BY <1>1 DEF Launch, Work, LoadKey, TruncateKey, StoreKey, StartMerchant, Ask, Pay, LoseConnection, GiveUp,
     FinishReview, FinishCommand, FailReview, Exit, Kill, payVars
<1>2. ASSUME NEW p \in Procs, Serve(p), ~Answer(p) PROVE bought' = bought
  BY <1>2 DEF Serve, CheckSignature, Verify, PostSettle, SettleReply, Refuse
<1>3. ASSUME NEW p \in Procs, Answer(p)
      PROVE  bought' = bought \/ (At(p, "answer") /\ Linked(p) /\ Receive(p) /\ UNCHANGED <<signed, exit>>)
  BY <1>3 DEF Answer, Receive
<1>4. ASSUME NEW a \in posted, Settle(a) PROVE bought' = bought
  BY <1>4 DEF Settle
<1> QED
  BY <1>1, <1>2, <1>3, <1>4 DEF Next

LEMMA WaitStep ==
    ASSUME TypeInv, Next, NEW q \in Procs, ~Pay(q), pc'[q] = "awaitingData"
    PROVE  pc[q] = "awaitingData"
<1>0. pc \in [Procs -> PcTypes]
  BY DEF TypeInv, TypeOK, PcTypes
<1>1. ASSUME NEW p \in Procs, Launch(p) \/ Work(p) \/ Kill(p) \/ Serve(p), p # q PROVE pc'[q] = pc[q]
  <2>1. pc' = pc \/ \E x : pc' = [pc EXCEPT ![p] = x]
    BY <1>1 DEF Launch, Work, LoadKey, TruncateKey, StoreKey, StartMerchant, Ask, Pay, LoseConnection, GiveUp,
       FinishReview, FinishCommand, FailReview, Exit, Kill, Serve, CheckSignature, Verify, PostSettle,
       SettleReply,
       Answer, Refuse, Receive, Vanish, Leave, Goto, commandVars
  <2> QED
    BY <1>0, <1>1, <2>1
<1>2. CASE Launch(q) \/ Work(q) \/ Kill(q) \/ Serve(q)
  <2>1. \/ pc' = pc
        \/ \E x \in PcTypes \ {"awaitingData"} : pc' = [pc EXCEPT ![q] = x]
    BY <1>2 DEF Launch, Work, LoadKey, TruncateKey, StoreKey, StartMerchant, Ask, LoseConnection, GiveUp,
       FinishReview, FinishCommand, FailReview, Exit, Kill, Serve, CheckSignature, Verify, PostSettle,
       SettleReply,
       Answer, Refuse, Receive, Vanish, Leave, Goto, commandVars, PcTypes
  <2> QED
    BY <1>0, <2>1
<1>3. ASSUME NEW a \in posted, Settle(a) PROVE pc' = pc
  BY <1>3 DEF Settle, commandVars
<1> QED
  BY <1>1, <1>2, <1>3 DEF Next

LEMMA PaidStep ==
    ASSUME TypeInv, PaidInv, Next
    PROVE  PaidInv'
<1> USE DEF PaidInv
<1>0. /\ \A q \in Procs : Count(q) \in Nat
      /\ \A a \in signed : a.by \in Procs /\ a.n \in Nat
  BY CountType DEF TypeInv, TypeOK, Payments
<1>1. StepsTell'
  BY StepsTellStep
<1>2. ASSUME signed' = signed, \A q \in Procs : Count(q)' = Count(q), \A q \in Procs : Continues(q)
      PROVE  (Numbered /\ Latest)'
  <2>1. Numbered'
    BY <1>0, <1>2 DEF Numbered
  <2>2. Latest'
    BY <1>2 DEF Latest, Linked, Continues
  <2> QED
    BY <2>1, <2>2
<1>3. ASSUME NEW p \in Procs, Pay(p), Count(p)' = Count(p) + 1, \A q \in Procs \ {p} : Count(q)' = Count(q)
      PROVE  (Numbered /\ Latest)'
  <2> DEFINE a == Authorization(p)
  <2>1. a.by = p /\ a.n = Count(p) + 1 /\ signed' = signed \cup {a}
    BY <1>3, PayCounts DEF Pay
  <2>2. \/ request' = request /\ ~Linked(p)
        \/ \E r : r.payment = a /\ request' = [request EXCEPT ![p] = r]
    BY <1>3 DEF Pay, TypeInv, LinkedWaits
  <2> HIDE DEF a
  <2>3. Numbered'
    BY <1>0, <1>3, <2>1 DEF Numbered
  <2>4. ASSUME NEW q \in Procs, q # p, Linked(q)' PROVE request'[q].payment.n = Count(q)'
    <3>1. request'[q] = request[q]
      BY <2>2, <2>4 DEF TypeInv, TypeOK
    <3> QED
      BY <1>3, <2>4, <3>1 DEF Latest, Linked
  <2>5. ASSUME Linked(p)' PROVE request'[p].payment.n = Count(p)'
    BY <1>3, <2>1, <2>2, <2>5 DEF TypeInv, TypeOK, Linked
  <2> QED
    BY <2>3, <2>4, <2>5 DEF Latest
<1>4. CASE bought' = bought
  <2>1. PacketsArePaid'
    BY <1>4, ReportedStays DEF PacketsArePaid, Reported
  <2>2. signed \subseteq signed'
    BY RequestsContinue DEF Pay, TypeInv
  <2>3. ASSUME NEW b \in bought, pc'[b.payment.by] = "awaitingData"
        PROVE  b.payment.n # Count(b.payment.by)'
    <3> DEFINE p == b.payment.by
    <3>1. p \in Procs /\ b.payment.n \in Nat /\ b.payment.n <= Count(p) /\ b.payment \in signed
      BY <1>0 DEF Unbought, Numbered
    <3>2. CASE Pay(p)
      <4>1. Count(p)' = Count(p) + 1
        BY <3>1, <3>2, PayAddsOne
      <4> QED
        BY <1>0, <3>1, <4>1
    <3>3. CASE ~Pay(p)
      <4>1. pc[p] = "awaitingData"
        BY <2>3, <3>1, <3>3, WaitStep
      <4>2. Count(p)' = Count(p)
        BY <3>1, <3>3, CountStep
      <4> QED
        BY <4>1, <4>2 DEF Unbought
    <3> QED
      BY <3>2, <3>3
  <2>4. Unbought'
    BY <1>4, <2>2, <2>3 DEF Unbought
  <2>5. (Numbered /\ Latest)'
    <3>1. CASE \E p \in Procs : Pay(p)
      BY <1>3, <3>1, PayAddsOne
    <3>2. CASE signed' = signed /\ \A q \in Procs : Continues(q)
      <4>1. \A q \in Procs : Count(q)' = Count(q)
        BY <3>2 DEF Count, SignedBy
      <4> QED
        BY <1>2, <3>2, <4>1
    <3> QED
      BY <3>1, <3>2, RequestsContinue DEF TypeInv
  <2> QED
    BY <1>1, <2>1, <2>4, <2>5
<1>5. ASSUME NEW p \in Procs, At(p, "answer"), Linked(p), Receive(p), UNCHANGED <<signed, exit>>
      PROVE  (Unbought /\ PacketsArePaid)'
  <2> DEFINE new == [payment |-> request[p].payment, from |-> request[p].server]
  <2>1. /\ bought' = bought \cup {new} /\ pc' = [pc EXCEPT ![p] = "reviewing"]
        /\ new.payment = request[p].payment /\ new.from = request[p].server
    BY <1>5 DEF Receive, Goto
  <2>2. /\ new.payment \in signed /\ new.payment.by = p /\ new.payment.n = Count(p)
        /\ new.from \in FacilitatorProcs => new.payment \in Reported
    BY <1>5, <2>1 DEF TypeInv, RequestsSigned, Latest, StepsTell, At, Linked
  <2>3. pc[p] = "awaitingData" /\ pc'[p] = "reviewing" /\ \A q \in Procs : q # p => pc'[q] = pc[q]
    BY <1>5, <2>1 DEF TypeInv, TypeOK, LinkedWaits
  <2>4. \A b \in bought : b.payment # new.payment
    BY <2>2, <2>3 DEF Unbought
  <2> HIDE DEF new
  <2>5. \A q \in Procs : Count(q)' = Count(q)
    BY <1>5 DEF Count, SignedBy
  <2>6. Unbought'
    BY <1>0, <1>5, <2>1, <2>2, <2>3, <2>5 DEF Unbought
  <2>7. PacketsArePaid'
    BY <2>1, <2>2, <2>4, ReportedStays DEF PacketsArePaid, Reported
  <2> QED
    BY <2>6, <2>7
<1> QED
  <2>1. ASSUME NEW p \in Procs, At(p, "answer"), Linked(p), Receive(p), UNCHANGED <<signed, exit>>
        PROVE  PaidInv'
    <3>1. ~ \E q \in Procs : Pay(q)
      <4> SUFFICES ASSUME NEW q \in Procs, Pay(q) PROVE FALSE
        OBVIOUS
      <4>1. SignedBy(q)' = SignedBy(q) /\ Authorization(q) \in signed
        BY <2>1 DEF Pay, SignedBy
      <4>2. Authorization(q).by = q /\ Authorization(q).n = Count(q) + 1
        BY PayCounts
      <4> QED
        BY <1>0, <4>1, <4>2 DEF Numbered
    <3> QED
      BY <1>1, <1>2, <1>5, <2>1, <3>1, CountStep, RequestsContinue DEF TypeInv
  <2> QED
    BY <1>4, <2>1, PacketStep

LEMMA PaidInvHolds == Spec => []PaidInv
<1>1. TypeInv /\ PaidInv /\ [Next]_vars => PaidInv'
  <2>1. CASE UNCHANGED vars
    BY <2>1 DEF vars, commandVars, payVars, PaidInv, StepsTell, Reported, Numbered, Latest, Unbought, PacketsArePaid,
       Linked, Count, SignedBy
  <2> QED
    BY <2>1, PaidStep
<1> QED
  BY PaidInit, <1>1, TypeInvHolds, PTL DEF Spec

(* No packet of a merchant with a facilitator without its settlement,      *)
(* unless the facilitator itself reported one that was none, and no        *)
(* payment for two packets (merchant.ts, settlePayment): for any number of *)
(* commands on one port.                                                   *)
THEOREM PacketsArePaidCorrect == Spec => []PacketsArePaid
<1>1. PaidInv => PacketsArePaid
  BY DEF PaidInv
<1> QED
  BY <1>1, PaidInvHolds, PTL

(***************************************************************************)
(* What has become of the money.                                           *)
(***************************************************************************)
Losses == {"failed", "stranded", "killed"}

(* A command has an exit when it has ended, and only then.                 *)
ExitTells == \A p \in Procs : exit[p] = "none" <=> pc[p] \notin Ended

(* A command pays once for each review that it has finished or paid for.   *)
CountTells == \A p \in Procs :
    /\ pc[p] \in BeforePay => left[p] >= 1 /\ Count(p) = Reviews[p] - left[p]
    /\ pc[p] \in AfterPay => left[p] >= 1 /\ Count(p) = Reviews[p] - left[p] + 1
    /\ exit[p] = "ok" => Count(p) = Reviews[p]

AllAccounted == \A a \in signed : PacketOf(a) \/ Awaited(a) \/ exit[a.by] \in Losses

LossInv == ExitTells /\ CountTells /\ AllAccounted

LEMMA LossInit == Init => LossInv
<1> SUFFICES ASSUME Init PROVE LossInv
  OBVIOUS
<1>1. ExitTells /\ AllAccounted
  BY DEF Init, ExitTells, Ended, AllAccounted
<1>2. \A p \in Procs : SignedBy(p) = {}
  BY DEF Init, SignedBy
<1>3. \A p \in Procs : Count(p) = 0
  BY <1>2, FS_EmptySet DEF Count
<1>4. \A p \in Procs : left[p] \in Nat \ {0} /\ left[p] = Reviews[p] /\ pc[p] = "ready" /\ exit[p] = "none"
  BY MarketAssumption DEF Init
<1>5. CountTells
  BY <1>3, <1>4 DEF CountTells, BeforePay, AfterPay
<1> QED
  BY <1>1, <1>5 DEF LossInv

(* What a step does to one command: which moves it may make, and how they  *)
(* change its exit and the reviews it has left.                            *)
Stays(p) == pc'[p] = pc[p] /\ exit'[p] = exit[p] /\ left'[p] = left[p]

Moves(p) ==
    \/ /\ pc[p] \in BeforePay \ {"paying"} /\ pc'[p] \in BeforePay
       /\ pc[p] = "ready" => Launch(p)
       /\ exit'[p] = exit[p] /\ left'[p] = left[p]
    \/ Pay(p) /\ pc[p] = "paying" /\ pc'[p] = "awaitingData" /\ exit'[p] = exit[p] /\ left'[p] = left[p]
    \/ /\ At(p, "answer") /\ Linked(p) /\ Receive(p)
       /\ pc[p] = "awaitingData" /\ pc'[p] = "reviewing" /\ exit'[p] = exit[p] /\ left'[p] = left[p]
    \/ /\ pc[p] = "reviewing" /\ left[p] > 1 /\ left'[p] = left[p] - 1
       /\ pc'[p] = "loadingKey" /\ exit'[p] = exit[p]
    \/ /\ pc[p] = "reviewing" /\ left[p] = 1 /\ left'[p] = 0
       /\ pc'[p] = "leaving" /\ exit'[p] = "ok"
    \/ /\ pc[p] \notin Ended \cup {"ready"} /\ pc'[p] \in Ended
       /\ exit'[p] \in Losses /\ left'[p] = left[p]
    \/ /\ pc[p] = "leaving" /\ pc'[p] = "gone"
       /\ exit'[p] = exit[p] /\ left'[p] = left[p]

LEMMA CommandStep ==
    ASSUME TypeInv, ExitTells, Next, NEW q \in Procs
    PROVE  Stays(q) \/ Moves(q)
<1>0. pc \in [Procs -> PcTypes] /\ exit \in [Procs -> Losses \cup {"none", "ok"}] /\ left \in [Procs -> Nat]
  BY DEF TypeInv, TypeOK, PcTypes, Losses
<1>1. ASSUME NEW p \in Procs, Launch(p) \/ Work(p) \/ Kill(p) \/ Serve(p), p # q PROVE Stays(q)
  <2>1. /\ pc' = pc \/ \E x : pc' = [pc EXCEPT ![p] = x]
        /\ exit' = exit \/ \E x : exit' = [exit EXCEPT ![p] = x]
        /\ left' = left \/ \E x : left' = [left EXCEPT ![p] = x]
    BY <1>1 DEF Launch, Work, LoadKey, TruncateKey, StoreKey, StartMerchant, Ask, Pay, LoseConnection, GiveUp,
       FinishReview, FinishCommand, FailReview, Exit, Kill, Serve, CheckSignature, Verify, PostSettle,
       SettleReply,
       Answer, Refuse, Receive, Vanish, Leave, Goto, commandVars
  <2> QED
    BY <1>0, <1>1, <2>1 DEF Stays
<1>2. CASE \/ Launch(q) \/ LoadKey(q) \/ TruncateKey(q) \/ StoreKey(q)
           \/ (StartMerchant(q) /\ ~Leave(q, "failed"))
           \/ (Ask(q) /\ Goto(q, "paying") /\ UNCHANGED <<left, exit>>)
  <2>1. /\ pc[q] \in BeforePay \ {"paying"} /\ UNCHANGED <<left, exit>>
        /\ pc[q] = "ready" => Launch(q)
    BY <1>2 DEF Launch, LoadKey, TruncateKey, StoreKey, StartMerchant, Ask, BeforePay
  <2>2. \E x \in BeforePay : pc' = [pc EXCEPT ![q] = x]
    BY <1>2 DEF Launch, LoadKey, TruncateKey, StoreKey, StartMerchant, Goto, BeforePay
  <2> QED
    BY <1>0, <2>1, <2>2 DEF Moves
<1>3. ASSUME NEW how \in {"failed", "stranded"}, Leave(q, how), pc[q] \notin Ended \cup {"ready"} PROVE Moves(q)
  BY <1>0, <1>3 DEF Leave, Goto, Moves, Ended, Losses
<1>4. CASE Pay(q) /\ Goto(q, "awaitingData") /\ UNCHANGED <<left, exit>>
  BY <1>0, <1>4 DEF Pay, Goto, Moves
<1>5. CASE FinishReview(q)
  <2>1. /\ pc[q] = "reviewing" /\ left[q] > 1 /\ left' = [left EXCEPT ![q] = @ - 1]
        /\ pc' = [pc EXCEPT ![q] = "loadingKey"] /\ exit' = exit
    BY <1>5 DEF FinishReview, Goto
  <2> QED
    BY <1>0, <2>1 DEF Moves
<1>6. CASE FinishCommand(q)
  <2>1. /\ pc[q] = "reviewing" /\ left[q] = 1 /\ left' = [left EXCEPT ![q] = 0]
        /\ pc' = [pc EXCEPT ![q] = "leaving"] /\ exit' = [exit EXCEPT ![q] = "ok"]
    BY <1>6 DEF FinishCommand, Goto
  <2> QED
    BY <1>0, <2>1 DEF Moves
<1>7. CASE Exit(q)
  <2>1. pc[q] = "leaving" /\ pc' = [pc EXCEPT ![q] = "gone"] /\ exit' = exit /\ left' = left
    BY <1>7 DEF Exit, Vanish, Goto
  <2> QED
    BY <1>0, <2>1 DEF Moves, Ended
<1>8. CASE Kill(q)
  <2>1. /\ pc' = [pc EXCEPT ![q] = "gone"] /\ left' = left /\ Live(q)
        /\ exit' = [exit EXCEPT ![q] = IF @ = "none" THEN "killed" ELSE @]
    BY <1>8 DEF Kill, Vanish, Goto
  <2>2. exit'[q] = IF exit[q] = "none" THEN "killed" ELSE exit[q]
    BY <1>0, <2>1
  <2>3. CASE pc[q] \in Ended
    BY <1>0, <2>1, <2>2, <2>3 DEF Moves, ExitTells, Ended, Live
  <2>4. CASE pc[q] \notin Ended
    BY <1>0, <2>1, <2>2, <2>4 DEF Moves, ExitTells, Ended, Losses, Live
  <2> QED
    BY <2>3, <2>4
<1>9. CASE StartMerchant(q) \/ Ask(q) \/ Pay(q) \/ LoseConnection(q) \/ GiveUp(q) \/ FailReview(q)
  BY <1>2, <1>3, <1>4, <1>9 DEF StartMerchant, Ask, Pay, LoseConnection, GiveUp, FailReview, Ended
<1>10. CASE Serve(q)
  <2>1. CASE commandVars' = commandVars
    BY <2>1 DEF commandVars, Stays
  <2>2. CASE Linked(q) /\ Leave(q, "failed")
    BY <1>3, <2>2 DEF TypeInv, LinkedWaits, Ended
  <2>3. CASE At(q, "answer") /\ Linked(q) /\ Receive(q)
    <3>1. pc[q] = "awaitingData" /\ pc' = [pc EXCEPT ![q] = "reviewing"] /\ UNCHANGED <<left, exit>>
      BY <2>3 DEF TypeInv, LinkedWaits, Receive, Goto
    <3> QED
      BY <1>0, <2>3, <3>1 DEF Moves
  <2> QED
    BY <1>10, <2>1, <2>2, <2>3 DEF Serve, CheckSignature, Verify, PostSettle, SettleReply, Answer, Refuse
<1>11. ASSUME NEW a \in posted, Settle(a) PROVE Stays(q)
  BY <1>11 DEF Settle, commandVars, Stays
<1> QED
  BY <1>1, <1>2, <1>5, <1>6, <1>7, <1>8, <1>9, <1>10, <1>11 DEF Next, Work

LEMMA LossStep ==
    ASSUME TypeInv, PaidInv, LossInv, Next
    PROVE  LossInv'
<1> USE DEF LossInv
<1>0. /\ \A q \in Procs : Count(q) \in Nat /\ left[q] \in Nat /\ Reviews[q] \in Nat
      /\ \A q \in Procs : pc[q] \in PcTypes /\ exit[q] \in Losses \cup {"none", "ok"}
      /\ \A a \in signed : a.by \in Procs /\ a.n \in Nat
  BY CountType, MarketAssumption DEF TypeInv, TypeOK, Payments, PcTypes, Losses
<1>1. \A q \in Procs : Stays(q) \/ Moves(q)
  BY CommandStep
<1>2. \A q \in Procs : ~Pay(q) => Count(q)' = Count(q)
  BY CountStep DEF PaidInv
<1>3. \A q \in Procs : Pay(q) => Count(q)' = Count(q) + 1 /\ pc[q] = "paying"
  BY PayAddsOne DEF PaidInv, Pay
<1>4. ExitTells'
  BY <1>0, <1>1 DEF ExitTells, Stays, Moves, Ended, BeforePay, Losses
<1>5. ASSUME NEW q \in Procs
      PROVE  /\ pc'[q] \in BeforePay => left'[q] >= 1 /\ Count(q)' = Reviews[q] - left'[q]
             /\ pc'[q] \in AfterPay => left'[q] >= 1 /\ Count(q)' = Reviews[q] - left'[q] + 1
             /\ exit'[q] = "ok" => Count(q)' = Reviews[q]
  <2>0. /\ pc[q] \in BeforePay => left[q] >= 1 /\ Count(q) = Reviews[q] - left[q]
        /\ pc[q] \in AfterPay => left[q] >= 1 /\ Count(q) = Reviews[q] - left[q] + 1
        /\ exit[q] = "ok" => Count(q) = Reviews[q] /\ pc[q] \in Ended
    BY DEF CountTells, ExitTells
  <2>1. CASE Pay(q)
    BY <1>0, <1>1, <1>3, <2>0, <2>1 DEF Stays, Moves, BeforePay, AfterPay, Ended, Losses, Pay, Goto, Leave,
       TypeInv, TypeOK
  <2>2. CASE ~Pay(q)
    <3>1. Count(q)' = Count(q)
      BY <1>2, <2>2
    <3>2. CASE Stays(q)
      BY <2>0, <3>1, <3>2 DEF Stays
    <3>3. CASE Moves(q)
      BY <1>0, <2>0, <2>2, <3>1, <3>3 DEF Moves, BeforePay, AfterPay, Ended, Losses
    <3> QED
      BY <1>1, <3>2, <3>3
  <2> QED
    BY <2>1, <2>2
<1>6. bought \subseteq bought'
  BY PacketStep DEF Receive
<1>7. ASSUME NEW a \in signed PROVE (PacketOf(a) \/ Awaited(a) \/ exit[a.by] \in Losses)'
  <2> DEFINE p == a.by
  <2>0. p \in Procs
    BY <1>0
  <2>1. CASE PacketOf(a)
    BY <1>6, <2>1 DEF PacketOf
  <2>2. CASE exit[p] \in Losses
    <3>1. pc[p] \in Ended
      BY <2>0, <2>2 DEF ExitTells, Losses
    <3>2. exit'[p] = exit[p]
      BY <1>1, <2>0, <3>1 DEF Stays, Moves, Ended, BeforePay
    <3> QED
      BY <2>2, <3>2
  <2>3. CASE Awaited(a)
    <3>1. pc[p] = "awaitingData" /\ a.n = Count(p)
      BY <2>3 DEF Awaited, Count, SignedBy
    <3>2. Count(p)' = Count(p)
      BY <1>2, <1>3, <2>0, <3>1
    <3>3. CASE Stays(p)
      BY <3>1, <3>2, <3>3 DEF Stays, Awaited, Count, SignedBy
    <3>4. CASE Moves(p) /\ At(p, "answer") /\ Linked(p) /\ Receive(p)
      <4>1. /\ request[p].payment \in signed /\ request[p].payment.by = p
            /\ request[p].payment.n = Count(p)
        BY <2>0, <3>4 DEF TypeInv, RequestsSigned, PaidInv, Latest, Linked
      <4>2. request[p].payment = a
        BY <3>1, <4>1 DEF PaidInv, Numbered
      <4>3. [payment |-> request[p].payment, from |-> request[p].server] \in bought'
        BY <3>4 DEF Receive
      <4> QED
        BY <4>2, <4>3 DEF PacketOf
    <3>5. CASE exit'[p] \in Losses
      BY <3>5
    <3> QED
      BY <1>1, <2>0, <3>1, <3>3, <3>4, <3>5 DEF Moves, BeforePay, Ended
  <2> QED
    BY <2>1, <2>2, <2>3 DEF AllAccounted
<1>8. ASSUME NEW p \in Procs, Pay(p), NEW a, a = Authorization(p)
      PROVE  (PacketOf(a) \/ Awaited(a) \/ exit[a.by] \in Losses)'
  <2>1. a.by = p /\ a.n = Count(p) + 1 /\ pc[p] = "paying"
    BY <1>8, PayCounts DEF Pay
  <2>2. Count(p)' = Count(p) + 1
    BY <1>3, <1>8
  <2>3. pc'[p] = "awaitingData" \/ exit'[p] \in Losses
    BY <1>8 DEF Pay, Goto, Leave, TypeInv, TypeOK, Losses
  <2>4. pc'[p] = "awaitingData" => Awaited(a)'
    BY <2>1, <2>2 DEF Awaited, Count, SignedBy
  <2> QED
    BY <2>1, <2>3, <2>4
<1>9. AllAccounted'
  <2> SUFFICES ASSUME NEW a \in signed' PROVE (PacketOf(a) \/ Awaited(a) \/ exit[a.by] \in Losses)'
    BY DEF AllAccounted
  <2>1. a \in signed \/ \E p \in Procs : Pay(p) /\ a = Authorization(p)
    BY RequestsContinue DEF Pay, TypeInv
  <2> QED
    BY <1>7, <1>8, <2>1
<1> QED
  BY <1>4, <1>5, <1>9 DEF CountTells

LEMMA LossInvHolds == Spec => []LossInv
<1>1. TypeInv /\ PaidInv /\ LossInv /\ [Next]_vars => LossInv'
  <2>1. CASE UNCHANGED vars
    BY <2>1 DEF vars, commandVars, payVars, LossInv, ExitTells, CountTells, AllAccounted, PacketOf, Awaited,
       Count, SignedBy
  <2> QED
    BY <2>1, LossStep
<1> QED
  BY LossInit, <1>1, PaidInvHolds, TypeInvHolds, PTL DEF Spec

(* An authorization that was signed has bought its packet, is being        *)
(* answered, or has ended its command as a failure, and a command that     *)
(* ends well has paid once for each review (client.ts, fetchWithX402;      *)
(* merchant.ts; cli.ts, main).                                             *)
THEOREM LossIsLoudCorrect == Spec => []LossIsLoud
<1>1. LossInv => LossIsLoud
  BY DEF LossInv, AllAccounted, CountTells, LossIsLoud, Losses, Count, SignedBy
<1> QED
  BY <1>1, LossInvHolds, PTL

(***************************************************************************)
(* A command that runs alone.                                              *)
(***************************************************************************)
Alone == \A p \in Procs \ met : Live(p) => \A q \in Procs : Live(q) => q = p

(* It has its merchant, and its connection.                                *)
Served == \A p \in Procs \ met :
    /\ pc[p] \in {"asking", "paying", "awaitingData"} => holder = p
    /\ pc[p] = "awaitingData" => Linked(p) /\ request[p].server = p

AloneInv == Alone /\ Served /\ OwnMerchantStays

LEMMA AloneInit == Init => AloneInv
BY DEF Init, AloneInv, Alone, Served, OwnMerchantStays, Live

LEMMA AloneStep ==
    ASSUME TypeInv, ExitTells, AloneInv, Next
    PROVE  AloneInv'
<1> USE DEF AloneInv
<1>0. pc \in [Procs -> PcTypes] /\ Nobody \notin Procs
  BY MarketAssumption DEF TypeInv, TypeOK, PcTypes
<1>1. met \subseteq met'
  <2>1. ASSUME NEW p \in Procs, Work(p) \/ Kill(p) \/ Serve(p) PROVE met' = met
    BY <2>1 DEF Work, LoadKey, TruncateKey, StoreKey, StartMerchant, Ask, Pay, LoseConnection, GiveUp,
       FinishReview, FinishCommand, FailReview, Exit, Kill, Serve, CheckSignature, Verify, PostSettle,
       SettleReply,
       Answer, Refuse
  <2> QED
    BY <2>1 DEF Next, Launch, Settle
<1>2. ASSUME NEW p \in Procs, ~Launch(p), Live(p)' PROVE Live(p)
  BY <1>2, CommandStep DEF Stays, Moves, BeforePay, Ended, Live
<1>3. Alone'
  <2>1. ASSUME NEW p \in Procs, Launch(p) PROVE Alone'
    <3>1. /\ pc[p] = "ready" /\ pc' = [pc EXCEPT ![p] = "loadingKey"]
          /\ met' = IF {q \in Procs : Live(q)} = {} THEN met ELSE met \cup {q \in Procs : Live(q)} \cup {p}
      BY <2>1 DEF Launch, Goto
    <3>2. /\ \A q \in Procs : q # p => (Live(q)' <=> Live(q))
          /\ ~Live(p) /\ Live(p)'
      BY <1>0, <3>1 DEF Live
    <3> QED
      BY <3>1, <3>2 DEF Alone
  <2>2. CASE \A p \in Procs : ~Launch(p)
    BY <1>1, <1>2, <2>2 DEF Alone
  <2> QED
    BY <2>1, <2>2
(* Alone, a command holds the port or nobody does.                         *)
<1>4. \A p \in Procs \ met : Live(p) => holder \in {p, Nobody}
  BY DEF Alone, TypeInv, TypeOK
<1>5. ASSUME NEW p \in Procs \ met', Live(p)
      PROVE  /\ pc'[p] \in {"asking", "paying", "awaitingData"} => holder' = p
             /\ pc'[p] = "awaitingData" => Linked(p)' /\ request'[p].server = p
             /\ exit'[p] = "stranded" => exit[p] = "stranded"
  <2> DEFINE Goal == /\ pc'[p] \in {"asking", "paying", "awaitingData"} => holder' = p
                     /\ pc'[p] = "awaitingData" => Linked(p)' /\ request'[p].server = p
                     /\ exit'[p] = "stranded" => exit[p] = "stranded"
  <2> SUFFICES Goal
    OBVIOUS
  <2>0. /\ p \in Procs \ met /\ (holder = p \/ holder = Nobody) /\ p # Nobody
        /\ \A q \in Procs : Live(q) => q = p
        /\ pc[p] \in {"asking", "paying", "awaitingData"} => holder = p
        /\ pc[p] = "awaitingData" => Linked(p) /\ request[p].server = p
        /\ exit \in [Procs -> Losses \cup {"none", "ok"}]
        /\ DOMAIN request = Procs
    BY <1>0, <1>1, <1>4, <1>5 DEF Alone, Served, TypeInv, TypeOK, Losses
  <2>1. ASSUME UNCHANGED <<pc, exit, holder>>, request'[p] = request[p] \/ pc[p] # "awaitingData"
        PROVE  Goal
    BY <2>0, <2>1 DEF Linked
  <2>2. ASSUME NEW x \in PcTypes \ {"asking", "paying", "awaitingData"}, pc' = [pc EXCEPT ![p] = x],
               exit' = exit \/ \E e \in {"ok", "failed"} : exit' = [exit EXCEPT ![p] = e]
        PROVE  Goal
    BY <1>0, <2>0, <2>2
  <2>3. ASSUME NEW q \in Procs, Launch(q) PROVE FALSE
    BY <1>5, <2>3 DEF Launch
  <2>4. CASE LoadKey(p) \/ TruncateKey(p) \/ StoreKey(p) \/ FinishReview(p) \/ FinishCommand(p) \/ FailReview(p)
             \/ GiveUp(p) \/ Exit(p)
    BY <2>2, <2>4 DEF LoadKey, TruncateKey, StoreKey, FinishReview, FinishCommand, FailReview, GiveUp, Exit,
       Leave, Vanish, Goto, PcTypes
  <2>5. CASE StartMerchant(p)
    <3>1. CASE Leave(p, "failed")
      BY <2>2, <3>1 DEF Leave, Goto, PcTypes
    <3>2. CASE holder' = p /\ pc' = [pc EXCEPT ![p] = "asking"] /\ exit' = exit
      BY <1>0, <2>0, <3>2
    <3> QED
      BY <2>0, <2>5, <3>1, <3>2 DEF StartMerchant, Goto
  <2>6. CASE Ask(p)
    <3>1. holder' = p /\ pc' = [pc EXCEPT ![p] = "paying"] /\ exit' = exit
      BY <2>0, <2>6 DEF Ask, Goto, portVars
    <3> QED
      BY <1>0, <2>0, <3>1
  <2>7. CASE Pay(p)
    <3>1. holder' = p /\ exit' = exit
      BY <2>0, <2>7 DEF Pay, portVars
    <3>2. \E s \in Steps : request' = [request EXCEPT ![p] =
             [step |-> s, server |-> p, payment |-> Authorization(p), linked |-> TRUE]]
      BY <2>0, <2>7 DEF Pay, Steps
    <3>3. request'[p].server = p /\ request'[p].linked /\ request'[p].step \in Steps
      BY <2>0, <3>2
    <3>4. Linked(p)'
      BY <3>3 DEF Linked, NoRequest, Steps
    <3> QED
      BY <3>1, <3>3, <3>4
  <2>8. CASE LoseConnection(p)
    BY <2>0, <2>8 DEF LoseConnection
  <2>9. CASE Kill(p)
    <3>1. /\ pc' = [pc EXCEPT ![p] = "gone"]
          /\ exit' = [exit EXCEPT ![p] = IF @ = "none" THEN "killed" ELSE @]
      BY <2>9 DEF Kill, Vanish, Goto
    <3> QED
      BY <1>0, <2>0, <3>1
  <2>10. CASE Serve(p)
    <3>1. CASE Linked(p) /\ (Receive(p) \/ Leave(p, "failed"))
      BY <2>2, <3>1 DEF Receive, Leave, Goto, PcTypes
    <3>2. CASE commandVars' = commandVars /\ Reply(p) /\ ~Linked(p) /\ UNCHANGED portVars
      BY <2>0, <2>1, <3>2 DEF commandVars, portVars
    <3>3. ASSUME commandVars' = commandVars, UNCHANGED portVars, NEW s \in Steps, Advance(p, s),
                 request[p] # NoRequest
          PROVE Goal
      <4>1. request'[p] = [request[p] EXCEPT !.step = s] /\ request[p] \in PaidRequests
        BY <2>0, <3>3, AdvanceContinues, RequestIsPaid DEF TypeInv
      <4>2. request'[p].linked = request[p].linked /\ request'[p].server = request[p].server
            /\ request'[p].step = s
        BY <4>1 DEF PaidRequests
      <4>3. request'[p] # NoRequest
        BY <3>3, <4>2 DEF NoRequest, Steps
      <4> QED
        BY <2>0, <3>3, <4>2, <4>3 DEF commandVars, portVars, Linked
    <3> QED
      BY <2>10, <3>1, <3>2, <3>3 DEF Serve, CheckSignature, Verify, PostSettle, SettleReply, Answer,
         Refuse, At, Steps
  <2>11. ASSUME NEW q \in Procs, q # p, Work(q) \/ Kill(q) PROVE FALSE
    <3>1. Live(q)
      BY <2>11 DEF Work, LoadKey, TruncateKey, StoreKey, StartMerchant, Ask, Pay, LoseConnection, GiveUp,
         FinishReview, FinishCommand, FailReview, Exit, Kill, Live
    <3> QED
      BY <2>0, <2>11, <3>1
  <2>12. ASSUME NEW q \in Procs, q # p, Serve(q) PROVE Goal
    <3>1. ~Linked(q)
      BY <2>0, <2>12 DEF TypeInv, LinkedWaits, Live
    <3>2. UNCHANGED <<pc, exit, holder>>
      BY <2>12, <3>1 DEF Serve, CheckSignature, Verify, PostSettle, SettleReply, Answer, Refuse,
         commandVars, portVars
    <3>3. request'[p] = request[p]
      BY <2>0, <2>12 DEF Serve, CheckSignature, Verify, PostSettle, SettleReply, Answer, Refuse, Advance,
         Reply
    <3> QED
      BY <2>1, <3>2, <3>3
  <2>13. ASSUME NEW a \in posted, Settle(a) PROVE Goal
    BY <2>1, <2>13 DEF Settle, commandVars, portVars
  <2> HIDE DEF Goal
  <2> QED
    BY <2>0, <2>3, <2>4, <2>5, <2>6, <2>7, <2>8, <2>9, <2>10, <2>11, <2>12, <2>13 DEF Next, Work
<1>6. ASSUME NEW p \in Procs, ~Live(p)
      PROVE  exit'[p] = exit[p] /\ pc'[p] \notin {"asking", "paying", "awaitingData"}
  <2>1. CASE Launch(p)
    BY <1>0, <2>1 DEF Launch, Goto
  <2>2. CASE ~Launch(p)
    BY <1>6, <2>2, CommandStep DEF Stays, Moves, Live, BeforePay, Ended
  <2> QED
    BY <2>1, <2>2
<1>7. Served'
  BY <1>5, <1>6 DEF Served
<1>8. OwnMerchantStays'
  BY <1>1, <1>5, <1>6 DEF OwnMerchantStays
<1> QED
  BY <1>3, <1>7, <1>8

(* A command that runs alone never loses its merchant, although it forgets *)
(* it (cli.ts, buildProvider and main): for any number of commands and of  *)
(* reviews.                                                                *)
THEOREM OwnMerchantCorrect == Spec => []OwnMerchantStays
<1>1. TypeInv /\ ExitTells /\ AloneInv /\ [Next]_vars => AloneInv'
  <2>1. CASE UNCHANGED vars
    BY <2>1 DEF vars, commandVars, portVars, payVars, AloneInv, Alone, Served, OwnMerchantStays, Live, Linked
  <2> QED
    BY <2>1, AloneStep
<1>2. LossInv => ExitTells
  BY DEF LossInv
<1>3. AloneInv => OwnMerchantStays
  BY DEF AloneInv
<1> QED
  BY AloneInit, <1>1, <1>2, <1>3, LossInvHolds, TypeInvHolds, PTL DEF Spec
=============================================================================
