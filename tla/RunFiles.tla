------------------------------ MODULE RunFiles ------------------------------
(* Run files and the dashboard that lists them: orchestrator/src/cli.ts    *)
(* (runReview), orchestrator/src/dashboard-server.ts (listRuns and the     *)
(* handler) and dashboard/index.html (load).  A run writes its file with   *)
(* writeFile, which truncates first; the server reads every file each time *)
(* it is asked; the page asks on a timer, whether or not its last request  *)
(* has been answered, and shows whatever answer comes in last.             *)
(* Abstracted: what a record says (a file holds the run that wrote it) and *)
(* the order of the list.                                                  *)
EXTENDS Naturals

CONSTANTS
    R,              \* runs, each a process of its own or a turn of the demo
    Scenarios,
    ScenarioOf,     \* the scenario of each run
    MaxClock,       \* bound: the last millisecond at which a run may start
    Loads,          \* requests of the page that may be under way together
    DirFaults,      \* whether the server may fail to read the directory
    NoFile, Empty, Mixed

ASSUME RunFilesAssumption ==
    /\ ScenarioOf \in [R -> Scenarios]
    /\ MaxClock \in Nat \ {0}
    /\ DirFaults \in BOOLEAN
    /\ {NoFile, Empty, Mixed} \cap R = {}
    /\ NoFile # Empty /\ NoFile # Mixed /\ Empty # Mixed

VARIABLES
    clock,      \* Date.now()
    start,      \* when each run took its request id; 0 before that
    phase,      \* where each run is
    file,       \* the directory runs/: what each file holds
    load,       \* each request of the page
    page        \* what the page shows, and the runs saved when it asked

writers == <<start, phase, file>>
readers == <<load, page>>
vars == <<clock, writers, readers>>

Ids == [scenario : Scenarios, at : 1 .. MaxClock]

(* Faulty variant: an id without the time.                                 *)
RequestIdOfScenario(r) == [scenario |-> ScenarioOf[r], at |-> 1]

RequestId(r) == [scenario |-> ScenarioOf[r], at |-> start[r]]

(* Faulty variant: the file is named when it is written.                   *)
FileNameNow(r) == [scenario |-> ScenarioOf[r], at |-> clock]

FileName(r) == RequestId(r)

Started(r) == start[r] # 0
Saved == {r \in R : phase[r] = "saved"}
Files == {id \in Ids : file[id] # NoFile}

NoLoad == [step |-> "none"]

Init ==
    /\ clock = 1
    /\ start = [r \in R |-> 0]
    /\ phase = [r \in R |-> "new"]
    /\ file = [id \in Ids |-> NoFile]
    /\ load = [q \in Loads |-> NoLoad]
    /\ page = [kind |-> "loading", runs |-> {}, since |-> {}]

(***************************************************************************)
(* The runs.                                                               *)
(***************************************************************************)
Tick == clock < MaxClock /\ clock' = clock + 1 /\ UNCHANGED <<writers, readers>>

Start(r) ==
    /\ phase[r] = "new"
    /\ start' = [start EXCEPT ![r] = clock]
    /\ phase' = [phase EXCEPT ![r] = "deliberating"]
    /\ UNCHANGED <<clock, file, readers>>

(* writeFile opens and truncates ...                                       *)
OpenFile(r) ==
    /\ phase[r] = "deliberating"
    /\ phase' = [phase EXCEPT ![r] = "writing"]
    /\ file' = [file EXCEPT ![FileName(r)] = Empty]
    /\ UNCHANGED <<clock, start, readers>>

(* ... and then writes from the start of the file: over what a run of the  *)
(* same id has written since, of which a longer record leaves its tail.    *)
Write(r) ==
    /\ phase[r] = "writing"
    /\ phase' = [phase EXCEPT ![r] = "saved"]
    /\ \/ file' = [file EXCEPT ![FileName(r)] = r]
       \/ /\ file[FileName(r)] # Empty
          /\ file' = [file EXCEPT ![FileName(r)] = Mixed]
    /\ UNCHANGED <<clock, start, readers>>

(* The process is killed, or its deliberation throws.                      *)
Die(r) ==
    /\ phase[r] \in {"deliberating", "writing"}
    /\ phase' = [phase EXCEPT ![r] = "dead"]
    /\ UNCHANGED <<clock, start, file, readers>>

(***************************************************************************)
(* The page and the server.                                                *)
(***************************************************************************)
(* Faulty variant: no timer.                                               *)
AskOnce(q) ==
    /\ load[q] = NoLoad
    /\ page.kind = "loading"
    /\ load' = [load EXCEPT ![q] = [step |-> "asked", since |-> Saved]]
    /\ UNCHANGED <<clock, writers, page>>

Ask(q) ==
    /\ load[q] = NoLoad
    /\ load' = [load EXCEPT ![q] = [step |-> "asked", since |-> Saved]]
    /\ UNCHANGED <<clock, writers, page>>

ReadDir(q) ==
    /\ load[q].step = "asked"
    /\ load' = [load EXCEPT ![q] =
           [step |-> "reading", since |-> @.since, names |-> Files, got |-> {}]]
    /\ UNCHANGED <<clock, writers, page>>

(* A readdir that fails, for whatever reason, is taken for a directory     *)
(* that is not there yet: the list is empty, and that is no error.         *)
ReadDirFails(q) ==
    /\ DirFaults
    /\ load[q].step = "asked"
    /\ load' = [load EXCEPT ![q] = [step |-> "unlisted", since |-> @.since]]
    /\ UNCHANGED <<clock, writers, page>>

(* The files are read in no order; the first that is not the whole of one  *)
(* record makes JSON.parse throw and the answer an error.                  *)
ReadOne(q) ==
    /\ load[q].step = "reading"
    /\ \E id \in load[q].names :
           load' = [load EXCEPT ![q] =
               IF file[id] \in R
               THEN [step |-> "reading", since |-> @.since,
                     names |-> @.names \ {id}, got |-> @.got \cup {file[id]}]
               ELSE [step |-> "error", since |-> @.since]]
    /\ UNCHANGED <<clock, writers, page>>

Show(q, kind, runs) ==
    /\ page' = [kind |-> kind, runs |-> runs, since |-> load[q].since]
    /\ load' = [load EXCEPT ![q] = NoLoad]
    /\ UNCHANGED <<clock, writers>>

(* Faulty variant: the reads are started and not awaited.                  *)
AnswerUnawaited(q) ==
    /\ load[q].step = "reading"
    /\ Show(q, IF load[q].got = {} THEN "none" ELSE "list", load[q].got)

Answer(q) ==
    /\ load[q].step = "reading"
    /\ load[q].names = {}
    /\ Show(q, IF load[q].got = {} THEN "none" ELSE "list", load[q].got)

AnswerEmpty(q) == load[q].step = "unlisted" /\ Show(q, "none", {})

(* The page does not look at the status, and an error body has no length.  *)
AnswerError(q) == load[q].step = "error" /\ Show(q, "none", {})

(* The request or its answer is lost.                                      *)
LoadFails(q) == load[q] # NoLoad /\ Show(q, "failed", {})

(***************************************************************************)
(* The system.                                                             *)
(***************************************************************************)
Serve(q) ==
    \/ Ask(q) \/ ReadDir(q) \/ ReadOne(q)
    \/ Answer(q) \/ AnswerEmpty(q) \/ AnswerError(q)

Fault(q) == ReadDirFails(q) \/ LoadFails(q)

Next ==
    \/ Tick
    \/ \E r \in R : Start(r) \/ OpenFile(r) \/ Write(r) \/ Die(r)
    \/ \E q \in Loads : Serve(q) \/ Fault(q)

(* The page stays open and the server up; nothing is owed by the runs.     *)
Spec == Init /\ [][Next]_vars /\ \A q \in Loads : WF_vars(Serve(q))

(***************************************************************************)
(* Properties.                                                             *)
(***************************************************************************)
Contents == R \cup {NoFile, Empty, Mixed}
LoadSteps ==
    [step : {"none"}]
    \cup [step : {"asked", "unlisted", "error"}, since : SUBSET R]
    \cup [step : {"reading"}, since : SUBSET R, names : SUBSET Ids, got : SUBSET R]

(* The type of the state; a file is named after the run that wrote it.     *)
TypeOK ==
    /\ clock \in 1 .. MaxClock
    /\ start \in [R -> 0 .. MaxClock]
    /\ phase \in [R -> {"new", "deliberating", "writing", "saved", "dead"}]
    /\ file \in [Ids -> Contents]
    /\ \A id \in Ids : file[id] \in R => RequestId(file[id]) = id
    /\ load \in [Loads -> LoadSteps]
    /\ page \in [kind : {"loading", "list", "none", "failed"}, runs : SUBSET R, since : SUBSET R]

(* Two runs of one scenario that started in the same millisecond: what the *)
(* source lets share an id.                                                *)
Collided(r) ==
    /\ Started(r)
    /\ \E q \in R \ {r} : ScenarioOf[q] = ScenarioOf[r] /\ start[q] = start[r]

(* "Unique id; also the DecisionLog key on-chain" (agents/types.ts:22): a  *)
(* run that is saved keeps its file, and no other run, alive or killed in  *)
(* the middle of writing, spoils it; and a file that cannot be read is     *)
(* being written, was being written by a run that died, or has two owners. *)
SavedStays ==
    /\ \A r \in Saved : ~Collided(r) => file[RequestId(r)] = r
    /\ \A id \in Files : file[id] \notin R =>
           \E r \in R : /\ Started(r) /\ RequestId(r) = id
                        /\ phase[r] \in {"writing", "dead"} \/ Collided(r)

(* A list shows every run that was saved before it was asked for, unless   *)
(* another run took the same id, and nothing that is not saved: however    *)
(* writing and reading interleave, and in whatever order answers arrive.   *)
ListIsFaithful ==
    page.kind = "list" =>
        /\ {r \in page.since : ~Collided(r)} \subseteq page.runs
        /\ page.runs \subseteq Saved

Readable == \A id \in Files : file[id] \in R

(* If no file stays half written, and requests and readings of the         *)
(* directory fail only finitely often, every saved run comes to be shown   *)
(* for good: the answer of an old request may take it off the page, but    *)
(* not for ever.                                                           *)
PageCatchesUp ==
    (<>[]Readable /\ <>[][\A q \in Loads : ~Fault(q)]_vars) =>
        \A r \in R : <>[](r \in Saved /\ ~Collided(r)) => <>[](r \in page.runs)

(* "No runs yet" (dashboard/index.html:121) says that there are none.      *)
NoRunsClaim == page.kind = "none" => page.since = {}
=============================================================================
