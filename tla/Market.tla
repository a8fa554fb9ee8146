------------------------------- MODULE Market -------------------------------
(* Buying market data over x402: orchestrator/src/cli.ts (buildProvider,   *)
(* the reviews of a command and its end), x402/client.ts, x402/merchant.ts *)
(* and x402/signer.ts.  Every command line with --x402 starts a merchant   *)
(* in its own process, on one port for all of them: the one that is first  *)
(* serves the others too, and takes their connections with it when it      *)
(* ends.  All of them sign with the key of one file.                       *)
(* Abstracted: prices, payees and signatures, which the commands share or  *)
(* make themselves; the unpaid request, which changes nothing, is one step *)
(* with its 402; and a review after its purchase is one step (Submission   *)
(* has its parts).                                                         *)
EXTENDS Naturals, FiniteSets

CONSTANTS
    Procs,              \* the command lines
    Reviews,            \* the reviews of each: 1 for review, more for demo
    FacilitatorProcs,   \* those whose settings name a facilitator
    Nobody,             \* no process holds the port
    NoKey, TornKey      \* a key file that is absent, or half written

ASSUME MarketAssumption ==
    /\ Reviews \in [Procs -> Nat \ {0}]
    /\ FacilitatorProcs \subseteq Procs
    /\ Nobody \notin Procs
    /\ {NoKey, TornKey} \cap Procs = {}
    /\ NoKey # TornKey

VARIABLES
    pc,         \* where each command is
    left,       \* the reviews it has not finished
    exit,       \* how it ended
    handle,     \* merchantServer # null
    holder,     \* the process that listens on the port
    keyFile,    \* the payment key file; a key is named after its maker
    key,        \* the key each command signs with
    signed,     \* the authorizations signed so far
    request,    \* the paid request of each command, as its merchant sees it
    posted,     \* authorizations sent to the facilitator for settlement
    settled,    \* those it has settled
    misreported,\* history: those it called settled when they were not
    bought,     \* packets received, with the authorization they were paid by
    met,        \* commands that ran while another one did
    keySpoilt   \* history: the key file was created twice at a time, not to its
                \* end, or in the place of a good key

commandVars == <<pc, left, exit>>
portVars    == <<handle, holder>>
keyVars     == <<keyFile, key, keySpoilt>>
payVars     == <<signed, request, posted, settled, misreported, bought>>
vars == <<commandVars, portVars, keyVars, payVars, met>>

(* The n-th authorization of a command: its nonce is never another's.      *)
Payments == [by : Procs, n : Nat \ {0}, key : Procs]

NoRequest == [step |-> "none"]
Steps == {"check", "verify", "settle", "settling", "answer", "refuse"}
PaidRequests == [step : Steps, server : Procs, payment : Payments, linked : BOOLEAN]

Init ==
    /\ pc = [p \in Procs |-> "ready"]
    /\ left = Reviews
    /\ exit = [p \in Procs |-> "none"]
    /\ handle = [p \in Procs |-> FALSE]
    /\ holder = Nobody
    /\ keyFile \in {NoKey, TornKey}
    /\ key = [p \in Procs |-> NoKey]
    /\ signed = {}
    /\ request = [p \in Procs |-> NoRequest]
    /\ posted = {}
    /\ settled = {}
    /\ misreported = {}
    /\ bought = {}
    /\ met = {}
    /\ keySpoilt = FALSE

Live(p) == pc[p] \notin {"ready", "gone"}

Goto(p, where) == pc' = [pc EXCEPT ![p] = where]

Unlink(gone) ==
    [q \in Procs |-> IF request[q] # NoRequest /\ gone[q]
                     THEN [request[q] EXCEPT !.linked = FALSE]
                     ELSE request[q]]

(* An error of runReview ends main: nothing is closed, and the process     *)
(* lives on for the 250 ms of its last timer.                              *)
Leave(p, how) ==
    /\ Goto(p, "leaving")
    /\ exit' = [exit EXCEPT ![p] = how]
    /\ UNCHANGED left

(***************************************************************************)
(* A command: main and buildProvider.                                      *)
(***************************************************************************)
Launch(p) ==
    /\ pc[p] = "ready"
    /\ Goto(p, "loadingKey")
    /\ LET others == {q \in Procs : Live(q)}
       IN  met' = IF others = {} THEN met ELSE met \cup others \cup {p}
    /\ UNCHANGED <<left, exit, portVars, keyVars, payVars>>

Creating(p) == pc[p] \in {"creatingKey", "storingKey"}

(* Faulty variant: the key file is never read.                             *)
LoadKeyNever(p) ==
    /\ pc[p] = "loadingKey"
    /\ key' = [key EXCEPT ![p] = p]
    /\ Goto(p, "creatingKey")
    /\ UNCHANGED <<left, exit, portVars, keyFile, keySpoilt, payVars, met>>

(* loadOrCreate: whatever keeps the file from being read as a key, be it a *)
(* failure to read a good one, leads to a new key in its place.            *)
LoadKey(p) ==
    /\ pc[p] = "loadingKey"
    /\ \/ /\ keyFile \in Procs
          /\ key' = [key EXCEPT ![p] = keyFile]
          /\ Goto(p, "opening")
          /\ UNCHANGED keySpoilt
       \/ /\ keyFile \notin Procs
          /\ key' = [key EXCEPT ![p] = p]
          /\ Goto(p, "creatingKey")
          /\ keySpoilt' = (keySpoilt \/ \E q \in Procs \ {p} : Creating(q))
       \/ /\ keyFile \in Procs
          /\ key' = [key EXCEPT ![p] = p]
          /\ Goto(p, "creatingKey")
          /\ keySpoilt' = TRUE
    /\ UNCHANGED <<left, exit, portVars, keyFile, payVars, met>>

(* writeFile truncates and then writes; keys have one length, so of two    *)
(* writers the last one wins.                                              *)
TruncateKey(p) ==
    /\ pc[p] = "creatingKey"
    /\ keyFile' = TornKey
    /\ Goto(p, "storingKey")
    /\ UNCHANGED <<left, exit, portVars, key, keySpoilt, payVars, met>>

StoreKey(p) ==
    /\ pc[p] = "storingKey"
    /\ keyFile' = key[p]
    /\ Goto(p, "opening")
    /\ UNCHANGED <<left, exit, portVars, key, keySpoilt, payVars, met>>

(* Faulty variant: a port in use is an error.                              *)
StartMerchantOrFail(p) ==
    /\ pc[p] = "opening"
    /\ \/ /\ holder = Nobody
          /\ holder' = p
          /\ handle' = [handle EXCEPT ![p] = TRUE]
          /\ Goto(p, "asking")
          /\ UNCHANGED <<left, exit>>
       \/ /\ holder # Nobody
          /\ Leave(p, "stranded")
          /\ UNCHANGED portVars
    /\ UNCHANGED <<keyVars, payVars, met>>

(* A port in use (EADDRINUSE) means a merchant is there already, this      *)
(* command's own or another's; merchantServer becomes null either way.     *)
(* Any other error of listen is thrown on, and merchantServer stays.       *)
StartMerchant(p) ==
    /\ pc[p] = "opening"
    /\ \/ /\ holder = Nobody
          /\ holder' = p
          /\ handle' = [handle EXCEPT ![p] = TRUE]
          /\ Goto(p, "asking")
          /\ UNCHANGED <<left, exit>>
       \/ /\ holder # Nobody
          /\ handle' = [handle EXCEPT ![p] = FALSE]
          /\ Goto(p, "asking")
          /\ UNCHANGED <<left, exit, holder>>
       \/ /\ Leave(p, "failed")
          /\ UNCHANGED portVars
    /\ UNCHANGED <<keyVars, payVars, met>>

(***************************************************************************)
(* The buyer: fetchWithX402.                                               *)
(***************************************************************************)
Ask(p) ==
    /\ pc[p] = "asking"
    /\ \/ holder # Nobody /\ Goto(p, "paying") /\ UNCHANGED <<left, exit>>
       \/ holder = Nobody /\ Leave(p, "stranded")
    /\ UNCHANGED <<portVars, keyVars, payVars, met>>

Authorization(p) ==
    [by |-> p, n |-> Cardinality({a \in signed : a.by = p}) + 1, key |-> key[p]]

Pay(p) ==
    /\ pc[p] = "paying"
    /\ signed' = signed \cup {Authorization(p)}
    /\ \/ /\ holder # Nobody
          /\ request' = [request EXCEPT ![p] =
                 [step    |-> IF holder \in FacilitatorProcs THEN "verify" ELSE "check",
                  server  |-> holder,
                  payment |-> Authorization(p),
                  linked  |-> TRUE]]
          /\ Goto(p, "awaitingData")
          /\ UNCHANGED <<left, exit>>
       \/ /\ holder = Nobody
          /\ Leave(p, "stranded")
          /\ UNCHANGED request
    /\ UNCHANGED <<portVars, keyVars, posted, settled, misreported, bought, met>>

Linked(p) == request[p] # NoRequest /\ request[p].linked

(* The merchant has closed the connection, or has gone with it.            *)
LoseConnection(p) ==
    /\ pc[p] = "awaitingData"
    /\ ~Linked(p)
    /\ Leave(p, "stranded")
    /\ UNCHANGED <<portVars, keyVars, payVars, met>>

(* Faulty variant: a late answer makes the buyer pay once more.            *)
GiveUpAndRetry(p) ==
    /\ pc[p] = "awaitingData"
    /\ Linked(p)
    /\ Goto(p, "paying")
    /\ request' = [request EXCEPT ![p] = NoRequest]
    /\ UNCHANGED <<left, exit, portVars, keyVars, signed, posted, settled, misreported, bought, met>>

(* No answer within the time limit of fetch; the merchant goes on.         *)
GiveUp(p) ==
    /\ pc[p] = "awaitingData"
    /\ Linked(p)
    /\ Leave(p, "failed")
    /\ request' = Unlink([q \in Procs |-> q = p])
    /\ UNCHANGED <<portVars, keyVars, signed, posted, settled, misreported, bought, met>>

(***************************************************************************)
(* The merchant: settlePayment and the end of the handler.  Its steps are  *)
(* those of the server's process, whatever that process is doing itself.   *)
(***************************************************************************)
At(p, step) == request[p] # NoRequest /\ request[p].step = step

Advance(p, step) == request' = [request EXCEPT ![p].step = step]

(* local-mock: the signature of the buyer is good.                         *)
CheckSignature(p) ==
    /\ At(p, "check")
    /\ Advance(p, "answer")
    /\ UNCHANGED <<commandVars, portVars, keyVars, signed, posted, settled, misreported, bought, met>>

Verify(p) ==
    /\ At(p, "verify")
    /\ Advance(p, "settle") \/ Advance(p, "refuse")
    /\ UNCHANGED <<commandVars, portVars, keyVars, signed, posted, settled, misreported, bought, met>>

PostSettle(p) ==
    /\ At(p, "settle")
    /\ Advance(p, "settling")
    /\ posted' = posted \cup {request[p].payment}
    /\ UNCHANGED <<commandVars, portVars, keyVars, signed, settled, misreported, bought, met>>

(* Faulty variant: the status of the settlement is not looked at.          *)
SettleReplyUnread(p) ==
    /\ At(p, "settling")
    /\ Advance(p, "answer")
    /\ UNCHANGED <<commandVars, portVars, keyVars, signed, posted, settled, misreported, bought, met>>

(* The reply of /settle.  A status of success with any JSON will do: what  *)
(* the body says is never read, and the reference of the receipt falls     *)
(* back to "settled".  An error status, a lost reply, one that is no JSON, *)
(* or none in time may each hide a settlement.                             *)
SettleReply(p) ==
    /\ At(p, "settling")
    /\ \/ /\ Advance(p, "answer")
          /\ misreported' = misreported \cup ({request[p].payment} \ settled)
       \/ /\ Advance(p, "refuse")
          /\ UNCHANGED misreported
    /\ UNCHANGED <<commandVars, portVars, keyVars, signed, posted, settled, bought, met>>

Reply(p) == request' = [request EXCEPT ![p] = NoRequest]

(* The packet becomes the evidence of the review.                          *)
Receive(p) ==
    /\ bought' = bought \cup {[payment |-> request[p].payment, from |-> request[p].server]}
    /\ Goto(p, "reviewing")
    /\ UNCHANGED <<left, exit>>

(* 200 with data and receipt, which reaches the buyer if it still waits.   *)
Answer(p) ==
    /\ At(p, "answer")
    /\ Reply(p)
    /\ \/ Linked(p) /\ Receive(p)
       \/ /\ ~Linked(p)
          /\ UNCHANGED <<bought, commandVars>>
    /\ UNCHANGED <<portVars, keyVars, signed, posted, settled, misreported, met>>

(* 402 or 500: the buyer throws.                                           *)
Refuse(p) ==
    /\ At(p, "refuse")
    /\ Reply(p)
    /\ \/ Linked(p) /\ Leave(p, "failed")
       \/ ~Linked(p) /\ UNCHANGED commandVars
    /\ UNCHANGED <<portVars, keyVars, signed, posted, settled, misreported, bought, met>>

(* The facilitator settles what it has received, sooner or later or never. *)
Settle(a) ==
    /\ a \in posted \ settled
    /\ settled' = settled \cup {a}
    /\ UNCHANGED <<commandVars, portVars, keyVars, signed, request, posted, misreported, bought, met>>

(***************************************************************************)
(* The end of a review and of a command.                                   *)
(***************************************************************************)
(* Faulty variant: a demo that does not end with its last scenario.        *)
FinishReviewEndless(p) ==
    /\ pc[p] = "reviewing"
    /\ left' = [left EXCEPT ![p] = @ - 1]
    /\ Goto(p, "loadingKey")
    /\ UNCHANGED <<exit, portVars, keyVars, payVars, met>>

FinishReview(p) ==
    /\ pc[p] = "reviewing"
    /\ left[p] > 1
    /\ left' = [left EXCEPT ![p] = @ - 1]
    /\ Goto(p, "loadingKey")
    /\ UNCHANGED <<exit, portVars, keyVars, payVars, met>>

(* merchantServer?.closeAllConnections() and close(): without a handle the *)
(* merchant stays up until the process ends.                               *)
FinishCommand(p) ==
    /\ pc[p] = "reviewing"
    /\ left[p] = 1
    /\ left' = [left EXCEPT ![p] = 0]
    /\ Goto(p, "leaving")
    /\ exit' = [exit EXCEPT ![p] = "ok"]
    /\ handle' = [handle EXCEPT ![p] = FALSE]
    /\ \/ /\ handle[p]
          /\ holder' = IF holder = p THEN Nobody ELSE holder
          /\ request' = Unlink([q \in Procs |-> request[q].server = p])
       \/ /\ ~handle[p]
          /\ UNCHANGED <<holder, request>>
    /\ UNCHANGED <<keyVars, signed, posted, settled, misreported, bought, met>>

(* The deliberation or the run file throws.                                *)
FailReview(p) ==
    /\ pc[p] = "reviewing"
    /\ Leave(p, "failed")
    /\ UNCHANGED <<portVars, keyVars, payVars, met>>

(* The port is free again, and the requests this process was answering are *)
(* gone with it.                                                           *)
Vanish(p) ==
    /\ Goto(p, "gone")
    /\ handle' = [handle EXCEPT ![p] = FALSE]
    /\ holder' = IF holder = p THEN Nobody ELSE holder
    /\ request' = [q \in Procs |->
           IF request[q] # NoRequest /\ request[q].server = p THEN NoRequest
           ELSE Unlink([r \in Procs |-> r = p])[q]]

(* Faulty variant: no timer calls process.exit, so a process that listens  *)
(* stays.                                                                  *)
ExitWhenDrained(p) ==
    /\ pc[p] = "leaving"
    /\ holder # p
    /\ Vanish(p)
    /\ UNCHANGED <<left, exit, keyVars, signed, posted, settled, misreported, bought, met>>

Exit(p) ==
    /\ pc[p] = "leaving"
    /\ Vanish(p)
    /\ UNCHANGED <<left, exit, keyVars, signed, posted, settled, misreported, bought, met>>

Kill(p) ==
    /\ Live(p)
    /\ Vanish(p)
    /\ exit' = [exit EXCEPT ![p] = IF @ = "none" THEN "killed" ELSE @]
    /\ keySpoilt' = (keySpoilt \/ Creating(p))
    /\ UNCHANGED <<left, keyFile, key, signed, posted, settled, misreported, bought, met>>

(***************************************************************************)
(* The system.                                                             *)
(***************************************************************************)
Serve(p) ==
    \/ CheckSignature(p) \/ Verify(p) \/ PostSettle(p) \/ SettleReply(p)
    \/ Answer(p) \/ Refuse(p)

Work(p) ==
    \/ LoadKey(p) \/ TruncateKey(p) \/ StoreKey(p) \/ StartMerchant(p)
    \/ Ask(p) \/ Pay(p) \/ LoseConnection(p) \/ GiveUp(p)
    \/ FinishReview(p) \/ FinishCommand(p) \/ FailReview(p)
    \/ Exit(p)

Next ==
    \/ \E p \in Procs : Launch(p) \/ Work(p) \/ Serve(p) \/ Kill(p)
    \/ \E a \in posted : Settle(a)

(* The event loop runs what is ready, every fetch has a time limit, and a  *)
(* review ends (SubmissionEnds).  Nothing is owed by the facilitator, and  *)
(* nobody has to start a command.                                          *)
Spec == Init /\ [][Next]_vars /\ \A p \in Procs : WF_vars(Work(p)) /\ WF_vars(Serve(p))

(***************************************************************************)
(* Properties.                                                             *)
(***************************************************************************)

(* The type of the state; the port is never held by a process that is gone.*)
TypeOK ==
    /\ pc \in [Procs -> {"ready", "loadingKey", "creatingKey", "storingKey", "opening",
                         "asking", "paying", "awaitingData", "reviewing", "leaving", "gone"}]
    /\ \A p \in Procs : left[p] \in 0 .. Reviews[p]
    /\ exit \in [Procs -> {"none", "ok", "failed", "stranded", "killed"}]
    /\ handle \in [Procs -> BOOLEAN]
    /\ holder \in {p \in Procs : Live(p)} \cup {Nobody}
    /\ keyFile \in Procs \cup {NoKey, TornKey}
    /\ key \in [Procs -> Procs \cup {NoKey}]
    /\ request \in [Procs -> PaidRequests \cup {NoRequest}]
    /\ settled \subseteq posted /\ posted \cup misreported \subseteq signed /\ signed \subseteq Payments

(* "Generate a key and persist it so the agent keeps one payment identity" *)
(* (signer.ts:67): all payments of all commands are signed with one key,   *)
(* unless two commands created the file at the same time, one was killed   *)
(* while it did, or a good file could not be read.                         *)
OneIdentity ==
    ~keySpoilt => \A a, b \in signed : a.key = b.key

(* No packet from a merchant with a facilitator is without its settlement, *)
(* unless the facilitator itself called one settled that was not; and no   *)
(* payment buys two packets.                                               *)
PacketsArePaid ==
    \A b \in bought :
        /\ b.from \in FacilitatorProcs => b.payment \in settled \cup misreported
        /\ \A c \in bought : b.payment = c.payment => b = c

PacketOf(a) == \E b \in bought : b.payment = a
Awaited(a)  == pc[a.by] = "awaitingData" /\ a.n = Cardinality({b \in signed : b.by = a.by})

(* Money is never lost in silence: an authorization that was signed, and   *)
(* so may be settled now or later, has bought its packet, is being         *)
(* answered, or has ended its command as a failure; so a command that ends *)
(* well has paid exactly once for each review.                             *)
LossIsLoud ==
    /\ \A a \in signed :
           PacketOf(a) \/ Awaited(a) \/ exit[a.by] \in {"failed", "stranded", "killed"}
    /\ \A p \in Procs : exit[p] = "ok" =>
           Cardinality({a \in signed : a.by = p}) = Reviews[p]

(* "merchant already running from a previous scenario" (cli.ts:98): a     *)
(* command that runs alone never loses its merchant, although it forgets   *)
(* about it from its second review on; only one that shared the port with  *)
(* another command can be left without.                                    *)
OwnMerchantStays ==
    \A p \in Procs : exit[p] = "stranded" => p \in met

(* Every command ends, whatever it bought and however it failed, and frees *)
(* the port (which only a live process holds, see TypeOK): also the one    *)
(* that has no handle to close its merchant with.                          *)
CommandsEnd == \A p \in Procs : Live(p) ~> pc[p] = "gone"
=============================================================================
