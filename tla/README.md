# Quorum: a verification project in TLA+

Quorum is a treasury council: four off-chain agents deliberate on a proposed
reallocation of a portfolio, and two Casper contracts record the verdict and
let funds move only for a recorded APPROVE or TRIM. This directory models the
parts of the repository whose correctness depends on order, failure,
concurrency or exact arithmetic, checks the models with TLC and proves what
matters most with TLAPS. The source is the reference: every definition listed
in `PROJECT.json` under `map` names the lines it stands for.

## The system

| Part | State | Operations | Talks to |
|---|---|---|---|
| `DecisionLog` contract (`contracts/src/decision_log.rs`) | council, treasury, decisions by request id, list of ids, events | `set_treasury`, `record_decision`, `mark_executed`, views | called by the council's account and by the treasury |
| `Treasury` contract (`contracts/src/treasury.rs`) | council, the log it asks, weight per sleeve, list of sleeves, balance | `deposit`, `reallocate`, views | calls `is_executable` and `mark_executed` of the log inside its own transaction |
| `AgentRegistry` contract (`contracts/src/agent_registry.rs`) | council, agents with reputation and counters | `register_agent`, `record_outcome` | called by the council's account |
| Council pipeline (`orchestrator/src/agents/council.ts`, `oracle.ts`) | the deliberation being built | Oracle, Risk, Calibration, Reviewer, execution target | providers, risk modules |
| Policy gate, calibration, risk engine (`orchestrator/src/risk/`) | none: pure functions | `calibrate`, `assessRisk`, `applyPolicyGate` | the council |
| Chain client (`orchestrator/src/chain/casperClient.ts`) | none of its own | `recordDecision`, `reallocate`, `toBpsAllocation` | a Casper node: `putTransaction`, `waitForTransaction` |
| Command line (`orchestrator/src/cli.ts`) | the run record and its file | `review`, `demo` | council, chain client, in-process merchant |
| Deployment script (`orchestrator/src/chain/deploy.ts`) | the hashes found so far | install three contracts, wire, register, print | a Casper node; the account's named keys |
| x402 exchange (`orchestrator/src/x402/`) | a listening merchant, a signing key | challenge, pay, settle, reply | providers, an external facilitator |
| Dashboard (`orchestrator/src/dashboard-server.ts`, `dashboard/index.html`) | none: reads `runs/*.json` | list runs, read chain events | run files, CSPR.cloud |

What is hard here:

- **Contracts over long histories.** The log, its events and the treasury's
  book are three records of the same facts. Any caller may call anything, in
  any order, with raw integers; a call that reverts must leave nothing.
- **Check, then act, across two contracts.** `reallocate` asks the log first
  and marks it last; several treasuries may hold the address of one log.
- **Two transactions, one process, no recovery.** A run sends a record, waits,
  sends a move, waits, and then writes its file. Replies get lost, waits time
  out, transactions are included late or fail, and processes die in between.
- **A deployment that is repeated.** The script looks up what it installed by a
  named key that may lag, does not look at the result of what was included,
  and is run again when it aborts.
- **Processes that share without knowing.** Every command line with `--x402`
  starts a merchant on one port and signs with the key of one file; whoever
  came first serves the others and takes their connections with it. A payment
  may be settled although its reply is lost, late or refused.
- **Files that are read while they are written.** The dashboard reads all run
  files on every request; `writeFile` truncates before it writes, and a run may
  be killed in between. The page asks on a timer and shows the last answer.
- **Numbers.** Verdict codes and fractions at the ends of their ranges, an
  average that rounds down at every step, weights and fraction that are
  rounded apart and must still fit together, limits that are checked on the
  whole move when a part of it is executed.

`PROJECT.json` lists these hazards one by one, each at its line, with the
properties that would catch it.

## The modules

| Module | Models | Composes |
|---|---|---|
| `DecisionLog` | `decision_log.rs`, one action per entry point | |
| `ExecutionGate` | nothing: the abstract promise of log and treasury | |
| `Treasury` | `treasury.rs`, several packages on one log | `DecisionLog`; refines `ExecutionGate` |
| `AgentRegistry` | `agent_registry.rs`, with its own integers | |
| `BpsAllocation` | `buildExecutionTarget`, `toBpsAllocation`, the rounding of the fraction, as operators | |
| `ExecutionTarget` | a deliberation's way from weights to arguments | `BpsAllocation` |
| `RiskEngine` | `assessRisk` and the matrix helpers it uses, as operators | `BpsAllocation` |
| `PolicyGate` | the stages of a deliberation: assess or reject, calibrate, gate | `RiskEngine` |
| `Submission` | `submitToChain`, the chain client and the run file, over the contracts | `Treasury`, `BpsAllocation` |
| `Deploy` | `deploy.ts` and what its transactions do | |
| `Market` | the x402 exchange of several command lines: `buildProvider`, `main`, buyer, merchant, key file, and an external facilitator | |
| `RunFiles` | the end of `runReview`, `listRuns` and the page's `load` | |
| `SubmissionProofs` | proofs about the log alone, about log and treasuries, and about submissions | `DecisionLog`, `Treasury`, `Submission` |
| `AllocationProofs` | what the operators of `BpsAllocation` compute, for sequences of any length | `BpsAllocation` |
| `AgentRegistryProofs`, `DeployProofs`, `ExecutionTargetProofs`, `MarketProofs`, `PolicyGateProofs`, `RunFilesProofs` | proofs | the module they are named for |
| `MC*` | constants for TLC | the module they are named for |

How state and actions correspond to the code:

- **Contracts.** A variable per storage field plus one for the emitted events.
  An action is a whole call that does not revert; `CanX` is the conjunction of
  the conditions under which `x` does not revert. A reverted call changes
  nothing and is no step. `Reallocate` contains the write loop (`Written` and
  `Pushed` state its result: the last mention of a sleeve wins, unknown sleeves
  are pushed once, in order) and `MarkExecuted` called by the package itself,
  so the step does not exist when the log would refuse the mark. Left out:
  block times, error codes, role strings; two hashes of a decision are one
  value. The `checked_add` of `reallocate` ends in the same revert as a wrong
  sum, so the sum is unbounded.
- **Submission.** `phase` is the point of `runReview`/`submitToChain` a run has
  reached, `kept` and `failed` are what `submitToChain` will return, `tx` is
  what became of each transaction and `file` is `runs/<requestId>.json`. `Put`
  covers a refusal, a lost reply and an acceptance; `Await` resolves for *any*
  included transaction, because the client does not look at the execution
  result; `AwaitFails` is the 120 s limit or a polling error; `Catch` drops the
  results collected so far, as the source does; `Die` is a kill or an error
  outside `submitToChain`. `idOf` is the request id, scenario and millisecond
  (`cli.ts:170`), which two runs may share: on the chain they are then one
  decision, and on the disk one file. The chain executes pending transactions in any
  order, against `RecordDecision` and `Reallocate` of `Treasury`, and may let
  them run out of gas or expire. The settings may name a log of another account
  or a treasury the log is not wired to (`SubmissionInit`). A `demo` is several
  runs here, one after the other.
- **Deploy.** `step`, `mode` and `found` are the control and the locals of
  `main`; `pending` holds sent transactions with their arguments, so that one
  of an aborted run can be executed during the next; `named` holds each named
  key now and one block ago, and `FindNamedKey` may read either. A package is
  known by the run that installed it. `spoilt` is history: what went wrong in
  the current run (a failed transaction, a lagging read, something outstanding
  at its start).
- **Risk engine and policy gate.** Every quantity is an integer or a ratio of
  integers in lowest terms, with the thresholds of the source. The signals are
  the two sums the source folds them into. Volatilities are quarters and
  correlations halves, so that the variance is an integer; the drawdown bound
  `z * vol * sqrt(days / 365)` is only compared with its limit, which becomes a
  limit of the variance. `Reject` is a `RangeError` of the input checks: the
  review ends without a deliberation. `risk`, `calibration` and `gate` are the
  locals of `Council.deliberate`; the gate reads nothing else. `Within` is the
  tolerance of 1e-6 on the sum of a target (`riskEngine.ts:32`): TLC's books of
  ten units cannot tell it from an exact sum, the proofs are for any units.
- **Market.** `pc` is the point a command has reached, `handle` is
  `merchantServer # null`, `holder` the process that listens. A paid request is
  a record at the merchant that serves it, moved on by `Serve`, whatever the
  serving process is doing itself; `linked` is whether its buyer still waits.
  `SettleReply` may refuse although the payment is or will be settled (error
  status, lost reply, no JSON, time limit), and it delivers on any JSON with a
  status of success: `merchant.ts:79-92` reads nothing that would say whether
  the payment was settled, and `misreported` (history) keeps the payments of
  which that was not true. `Settle` is the facilitator, which owes nothing.
  `StartMerchant` takes the port, forgets the handle on EADDRINUSE, or throws
  on any other error of `listen`, as the source does; `Leave` is the `catch` of `main`, after which the
  merchant lives for the 250 ms of the exit timer; `Exit` and `Kill` free the
  port and lose the requests being answered. `loadOrCreate` is three steps:
  read, truncate, write; a failure to read a good key counts as none
  (`signer.ts:71`). `met` and `keySpoilt` are history: who ran while another
  did, and whether the key file was created twice at a time, not to its end, or
  in the place of a good one.
- **Run files.** `file` maps each request id (scenario and millisecond) to what
  the file holds: nothing yet, the empty file `writeFile` makes first, the
  record of a run, or a mixture of two records of one id. `load` holds the
  page's requests, with the directory listing and the files read so far;
  `page` is what is shown, with the runs that were saved when it was asked for
  (history). `AnswerError` is the 500 whose body has no length. A `readdir` that
  fails for any reason is answered with an empty list (`ReadDirFails`,
  `AnswerEmpty`; `dashboard-server.ts:32`). `DirFaults` switches that on: the
  violation run has it off, so that its trace is about a torn file.
- **Execution target.** Fixed point units small enough to hold fraction times
  weight exactly, and an error of the doubles (`Noise`) chosen per sleeve.

Definitions headed "Faulty variant" model plausible bugs. No specification uses
them; replacing a definition by its variant must make TLC report the property
that is meant to catch it (`mutants` in `PROJECT.json`).

## The runs

All runs are small on purpose; the column "why enough" says what the bound
still lets happen.

| Run | What it shows | Bounds, and why they are enough |
|---|---|---|
| `treasury` | State, id list and events of the log always agree (`TrailMatchesLog`) and nothing is taken back (`AppendOnly`), whatever raw arguments are passed; moves and executed decisions are one to one over two treasuries on one log; the book is what its events say; the sleeve list is exact; a move naming every known sleeve makes the book sum to the whole; the pair implements `ExecutionGate` | Two ids give two moves, the fewest that can overwrite or clash; verdict codes and fractions on both sides of each guard, two hashes; argument lists are empty, unequal, repeating, incomplete, too small and too large. Ids and hashes are symmetric |
| `agent_registry` | Replaying the events gives the stored reputation; the rounding never adds up to 5 basis points; wrong calls cost and correct ones earn | Seven registrations and outcomes over two agents, with the contract's own constants; 5^8 × 10^4 would leave TLC's integers |
| `execution_target` | The converted weights sum to the whole whenever the current weights do to less than a basis point, keep their order, and are the recorded fraction of the proposed move to one and a half basis points | Every pair of three-sleeve books in half basis points of a whole of four, thirds as fractions, an error either way in every weight: floors, ties and remainders of 0 to 2 all occur |
| `policy_gate` | The executed part respects Kelly budget and turnover cap at once, never makes a new breach of weight cap, concentration or drawdown, never moves for an opposed thesis of payoff up to 3, and fits what the contracts accept; risk shares sum to 1 | Every target in tenths, five invalid ones, every current book in decreasing order, with a quiet first sleeve so that moves add risk; five markets, one of them incoherent (the premise of `NoNewBreach` is needed there) and one invalid; summed evidence 0 to 6 each way |
| `submission` | The contracts never refuse a run for the order of its transactions, and a record only to the second run of one id; a clean file is one run's and lists every transaction it sent; a clean run forgets no move | Two runs that share a request id or not, five outcomes of a deliberation (one whose weights do not convert), two accounts, two treasuries, every wiring |
| `submission_ends` | A submission ends as long as the node answers, even if the chain includes nothing | One run: the process of a run waits for its own transactions only, so another run cannot delay it |
| `submission_claim` | *Violation*: a run shown as "no on-chain submission" may have its decision on the chain | Two runs; the claim is made of runs that share no file |
| `deploy` | A run in which nothing goes wrong prints settings that work, whatever earlier runs left; a first run prints only its own packages; a re-run never breaks settings that worked | Two runs, two agents: an earlier deployment, finished or aborted at any step, and the one after it |
| `deploy_rerun` | *Violation*: a re-run may print a mismatched pair | as above |
| `market` | No packet without its settlement, unless the facilitator misreported it, and no payment for two packets; a payment that bought nothing has ended its command as a failure; one key for all payments unless two commands created it together, one was killed doing so, or a good one could not be read; a command that runs alone keeps its merchant; every command ends and frees the port | A demo of two reviews, whose merchant settles with a facilitator, and a review whose merchant does not: each may be first on the port, and the second review of the demo forgets the handle. Key file absent or half written at the start |
| `run_files` | A saved run keeps its file; a list that is shown has every run saved before it was asked for; if no file stays half written and requests and directory reads stop failing, every saved run comes to stay on the page | Two runs of one scenario, which share an id or not, and two requests under way, so that an old answer may come last |
| `run_files_claim` | *Violation*: "No runs yet" although runs were saved | as above |

`CHECK_DEADLOCK FALSE` is set everywhere: contracts may have no enabled call
left within the bounds, and runs, scripts and deliberations really end.

**Fairness.** Three specifications state weak fairness, of what one live
process does by itself and of nothing else.

- `SubmissionSpec`: `Proceed(r)`, the continuations of a run and its 120 s
  timer. Nothing is assumed of `putTransaction`, which has no time limit: that
  the node answers is the premise of `SubmissionEnds`. Nothing is assumed of
  the chain, of the deliberation, or of the process staying alive.
- `Market!Spec`: `Work(p)` and `Serve(p)`, per process. The event loop runs
  what is ready, `fetch` has its own time limits (buyer and merchant), a review
  ends (that is `SubmissionEnds`), and the exit timer fires. The facilitator
  owes nothing, and `Kill` and `Launch` are not fair.
- `RunFiles!Spec`: `Serve(q)`, the page's timer and the server's reads. The
  writers owe nothing: that files do not stay half written, and that requests
  and directory reads do not fail for ever, are premises of `PageCatchesUp`.

**What the properties leave out.** Some name what they do not cover, because
the source promises nothing there; each is a hazard of `PROJECT.json` with a
note. `OneIdentity` holds as long as the key file is not spoilt (`keySpoilt`).
`PacketsArePaid` excuses a facilitator that misreports. `SubmissionEnds` has the
node's answer as its premise. `CleanRunWorks` and the second part of
`FirstRunIsItsOwn` are about runs without a failed transaction. The drawdown
part of `NoNewBreach` needs `MoveIsCoherent`. `RefusedForCause` names a failed
record, and a run with the same id, among its causes; `SavedStays` and
`ListIsFaithful` leave out runs that share an id (`Collided`), while
`CleanFileIsComplete` does not. That a reverted call leaves nothing behind is an
assumption about the chain, not a result.

## What the violations say

- `NoSubmissionClaim` (`dashboard/index.html:78`): the catch of `submitToChain`
  drops the results it has, so a run whose record is on the chain and whose
  move failed, or whose wait timed out, is shown as not submitted.
- `RerunIsSafe` (`docs/DEPLOY.md:112-114`): the recommended re-run reads the
  same lagging key; if the treasury's key lags, it finds the earlier treasury,
  wires the new log to it and prints a pair that can never move funds.
- `NoRunsClaim` (`dashboard/index.html:121`): one file that cannot be parsed
  makes the whole request an error, whose body has no length. The page shows
  that as "No runs yet", for a moment while a run writes its file, and for good
  after a run was killed doing so.

Seen while modelling, and not runs:

- `treasury.rs:13` ("must sum to this") holds of a call, not of the book: a
  call that leaves out a known sleeve leaves its old weight.
  `CompleteMoveTotals` states when the check is enough.
- `policyGate.ts:24-25` ("in (0, 1) for TRIM"): a Kelly size of zero makes a
  TRIM of fraction 0, recorded as executable for ever with no move to follow.
- `policyGate.ts:38-39` promises TRIM for concentration when the current book
  is compliant; the code escalates, as its test expects.
- `casperClient.ts:59` promises a sum of 10000 exactly, which holds only for
  current weights near one, and nothing checks those (`SumIsExact` has the
  condition).
- `signer.ts:67` ("keeps one payment identity"): two first commands at once
  each create a key, and one goes on with a key no file has; any failure to
  read a good key replaces it (`keySpoilt`).
- `merchant.ts:81-90`: the body of a settlement's reply is never read for its
  success, and the receipt of a reply without a reference says `settled`
  (`misreported`).
- `cli.ts:170`: two runs of a scenario in one millisecond share a request id.
  The second record is refused, and a move may be executed under the decision
  of the other run (`Namesakes`).
- `math.ts:64-75` asks nothing of the matrix as a whole. In an incoherent one a
  part of a move can break the drawdown limit that the whole move respects.
- `risk/types.ts:69` ("Maximum L1 turnover allowed in one reallocation") is
  measured from the weights of the evidence, not from the book on the chain,
  which the source never reads.
- `demo --chain` exits 0 after a chain error, `review` does not.

## What is proved

From the assumptions on the constants alone (`LogAssumption`,
`TreasuryAssumption`, `RegistryAssumption`, `DeployAssumption`,
`MarketAssumption`, `RunFilesAssumption`, `SubmissionAssumption`,
`TargetAssumption`, `NoiseAssumption`, `GateAssumption`), for any sets of accounts, ids, sleeves, treasuries, commands and
runs. The proofs follow one pattern: an inductive invariant, one lemma per
action under it, and a last step that combines them.

Most assumptions only say what kind of thing a constant is. Three say more.
`SubmissionAssumption` says of a deliberation that its council decided not to
act that its fraction is 0 and its target empty: `policyGate.ts:52-81` returns a
fraction of 0 for every verdict but APPROVE and TRIM, and `buildExecutionTarget`
(`council.ts`) builds no target for it. `NoiseAssumption` says that the scale of
the weights is fine enough for the doubles of the source: an error is at most
one unit, a basis point is more than one step of a weight, and all errors
together, with what is kept of a book that is off by less than a basis point,
stay below a basis point. Doubles err by about 1e-16 of a weight, and a basis
point is 1e-4 of it. `GateAssumption` says that a current book has no negative
weight (it is the share of a treasury in each sleeve) and that a market has the
volatilities of the sleeves of the book and a matrix as large, which
`assertSquare` (`math.ts:64`) checks; a target, the entries of a market and all
else may be as wrong as they like. Its bound of 3 on `OpposedPayoff` is where
the property stops being true, not what the code keeps to.

- `SubmissionProofs`, the log alone: `LogTypeCorrect`, `TrailCorrect`,
  `LogIsAppendOnly`. `TrailMatchesLog` together with the types is inductive as it stands: its three
  parts (id list, recordings, executions) need each other, because a new
  recording must not already have an event, and an execution event must find
  the recording that precedes it. The proof has one lemma per entry point and
  one step per part.
- `SubmissionProofs`, the pair: `TreasuryRespectsLog` shows that a step of the pair is a
  step or a stutter of the log alone, so the three theorems above hold of the
  pair. `MovesCorrect` needs, besides the types and the trail, that nothing is
  executed while the log is unwired (`NothingExecutedUnwired`, from the
  `executed_by` of the events): else wiring the log late would claim earlier
  executions for the treasury. `ImplementsGate` maps recorded decisions to
  approved and refused requests and every entry point to one abstract step or
  a stutter. `BookCorrect` and `SleeveListCorrect` go sleeve by sleeve: a move
  appends one event and writes, of each sleeve, what the last mention in that
  event says, and the list grows by the sleeves that had no weight before.
  `CompleteMoveCorrect` follows from these two and from the sum check, which
  every event passed (`EventsAreWhole`): after a complete move the positions of
  the sleeve list and of the event are one to one, so `allocations()` lists the
  weights of the event in another order, and `SumReindexed` says that the order
  does not matter.
- `AgentRegistryProofs`: types, the ceiling of 9996, and `OutcomesPayOff`, from
  the inductive invariant "typed and at most 9996": correct calls earn only
  below the ceiling, so the ceiling has to be part of the invariant.
  `ReplayCorrect` and `DriftIsBounded` are about a function defined by recursion
  on the history of events. The invariant (`HistoryInv`) speaks of every
  function that satisfies the recursion; a step extends the history by one
  event and the function by one value, so the induction is the one along the
  behaviour.
- `DeployProofs`: two invariants, for any number of runs. `OrderInv` relates
  what is sent to what is executed: each step of each run is sent once, a
  transaction names packages that were installed when it was sent, the script
  goes on only when its transaction is in a block, and a named key holds
  nothing but an installed package. From it alone `RerunCorrect`: a treasury
  that was installed is never installed again, and a wired log is not wired
  again. `EffectInv` adds what the executed transactions of the current run
  have done as long as none is known to have failed, and what each printed
  record deserves by what went wrong in its run; `CleanRunCorrect` and
  `FirstRunCorrect` are two readings of it.
- `MarketProofs`: one invariant per theorem, over the types. `PaidInv` follows
  an authorization from its signature to its packet: the payments of a command
  are numbered, how far a merchant has come says whether it was settled, and
  what can still be answered is the latest payment, for which there is no packet
  yet; whether it was settled or only reported so is kept apart. `LossInv` counts the payments of a command against the reviews it has
  left. `IdentityInv` says, as long as the key file is not spoilt, that everyone uses the key of the file or that nobody has one
  yet. `AloneInv` says that a command that has met no other is the only live
  one and is served by itself.
- `RunFilesProofs`: `ListInv` says of each file where its owners are (an empty
  file has one who is writing or was killed, a mixture has two) and of each
  request that what it has not read of the saved runs it is going to read. `SavedStaysCorrect` and
  `ListCorrect` follow for any number of runs and of overlapping requests.

- `SubmissionProofs`, any number of concurrent runs over the contracts:
  `SubmissionTypeCorrect`, `CleanFileCorrect`, `NoForgottenMoveCorrect` and
  `RefusedForCauseCorrect`. The invariant (`RunsInv`) ties, run by run, the
  phase of the process to what it keeps (`kept`, `failed`, `file`) and to the
  fate of its two transactions (`Progress`, `Sent`), and the fate of a
  transaction to what the contracts hold (`OnChain`): a decision is recorded
  exactly when a record of its id took effect, and executed only by a move of
  its id. For runs that share no id that is their own. The
  steps of another run and of the chain leave a run's part of it alone
  (`RunStepFrame`, `ChainStepFrame`). `RefusedForCause` needs in addition that
  the converted arguments pass every check of the contracts, the fraction by
  its rounding (`FractionWithin`).
- `AllocationProofs`: the sum of a finite function (`SumOf`, a fold that takes
  chosen elements away one at a time) is linear, monotone, counts, and does not
  depend on the order. The largest remainder method: its ranks are those of a
  strict total order, so exactly the first `r` sleeves have a rank below `r`
  (`RankedBelow`), so the remainder is handed out to the last basis point
  (`AllocationSums`), and a larger weight never gets less
  (`AllocationKeepsOrder`). Claims about a fold are proved for all subsets of
  the indices at once, by taking a minimal one for which the claim fails
  (`SubsetInduction`, from the well-foundedness of strict inclusion).
- `ExecutionTargetProofs`, for any number of sleeves, any books, any scale and
  any small errors: `TargetTypeCorrect`, `SumCorrect`, `OrderCorrect`,
  `MoveCorrect`. The invariant (`TargetInv`) says that what is built comes from
  the books and what is submitted from what is built; the rest is arithmetic.
  For the sum: what the floors leave missing is between none and one basis
  point per sleeve, because the scaled weights miss the whole by less than a
  basis point (`RawSum`, `MissingBound`). For the move: a weight is rounded by
  less than a basis point down or at most one up, and exactly one only if
  nothing was cut off, which cannot coincide with an error of the doubles and a
  move of the whole (`WholeMove`); hence the strict bound.

- `PolicyGateProofs`, for any books, valid or not, any markets and any evidence:
  `GateTypeCorrect`, `LimitsRespected`, `OppositionNeverMoves`,
  `VerdictsFitLog`, `NoNewBreachKept`. The invariant (`GateInv`) says of each
  stage what it computed from what; the rest is arithmetic on one state.
  Fractions are reduced by Euclid's function, which exists and divides both
  its arguments (`EuclidExists`, `GCDDivides`), so a reduced ratio compares as
  the unreduced one does (`RatioIs`). `RiskShares` sum to the variance, or to
  the number of funded sleeves. For `NoNewBreach` the executed book is a
  mean `a * current + b * target` with `a + b` the denominator of the fraction
  (`ExecutedMean`), and each limit is convex: the cap on one sleeve is linear;
  the concentration is a sum of squares against the square of a sum, and the
  mixed sum is bounded by the two others (`MixedBound`, from the square of
  a difference, without roots); the variance of a mean is a quadratic in `a`
  and `b` whose mixed term is bounded because the move itself has no negative
  variance (`MixedVariance`), which is where `MoveIsCoherent` is needed.

Only model-checked: the liveness properties (`SubmissionEnds`, `CommandsEnd`,
`PageCatchesUp`), because liveness and ENABLED are out of the prover's reach.
Induction theorems with an operator for a parameter are too; where a claim is
about a fold or a recursion it is stated for a set of subsets or along the
behaviour instead, as above. Every safety property of a run that
passes is also proved.

## What is not modelled, and why

The normal quantile and square roots (real analysis; the drawdown limit is a
limit of the variance instead); the freshness of single signals (folded into
two sums); narration, the MCP read and the environment loader (no state that
matters, and every failure falls back to nothing); the proxy for on-chain
events (keeps no state); hashing (a value per content); build glue and the
livenet binary (sequential twin of the script). The evidence packet and the
message log of a deliberation are not modelled: they are built once, in order,
by one process, and what can go wrong with them is what their hashes cover.

## Plan

In order of weight:

1. Contracts and their abstract gate, proved. *Done.*
2. Submission of runs over the contracts, with failures. *Done.*
3. Conversion to contract arguments; policy gate. *Done.*
4. Deployment and re-deployment, proved. *Done.*
5. Agent registry, proved. *Done.*
6. `Market`: the x402 exchange on one shared port, its safety proved. *Done.*
7. `RunFiles`: the run list read while files are written, its safety proved.
   *Done.*
8. `RiskEngine`, so that the gate reads a computed report. *Done.*
9. The proofs of `Submission`, of the histories of `AgentRegistry`, of
   `CompleteMoveTotals` and of `ExecutionTarget`. *Done.*
10. The proofs of `PolicyGate`: its limits, its types and that no part of a
    move brings a new breach. *Done.*
