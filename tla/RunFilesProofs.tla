--------------------------- MODULE RunFilesProofs ---------------------------
(* Proofs about RunFiles, for any number of runs, scenarios and requests.  *)
EXTENDS RunFiles, TLAPS

(***************************************************************************)
(* The invariant.  The files alone (FilesInv) do not depend on the page;   *)
(* what the page shows depends on the files and on the requests under way. *)
(***************************************************************************)
RunsStarted == \A r \in R : phase[r] = "new" <=> ~Started(r)

(* What a file holds says where its owners are.                            *)
FileTells(id) ==
    /\ file[id] \in R => phase[file[id]] = "saved"
    /\ file[id] = Mixed =>
           \E r \in R : Started(r) /\ RequestId(r) = id /\ Collided(r)
    /\ file[id] = Empty =>
           \E r \in R : Started(r) /\ RequestId(r) = id /\ phase[r] \in {"writing", "dead"}
    /\ \A r \in R : phase[r] = "writing" /\ RequestId(r) = id => file[id] # NoFile

FilesTell == \A id \in Ids : FileTells(id)

OwnFiles == \A r \in Saved : ~Collided(r) => file[RequestId(r)] = r

FilesInv == TypeOK /\ RunsStarted /\ FilesTell /\ OwnFiles

(* The runs a request was asked after are saved, and what it has not read  *)
(* yet of them it is going to read.                                        *)
LoadTells(q) ==
    /\ load[q].step # "none" => load[q].since \subseteq Saved
    /\ load[q].step = "reading" =>
           /\ load[q].got \subseteq Saved
           /\ \A r \in load[q].since :
                  Collided(r) \/ r \in load[q].got \/ RequestId(r) \in load[q].names

LoadsTell == \A q \in Loads : LoadTells(q)

ListInv == FilesInv /\ LoadsTell /\ ListIsFaithful /\ page.since \subseteq Saved

(***************************************************************************)
(* Names.                                                                  *)
(***************************************************************************)
LEMMA IdOfRun ==
    ASSUME TypeOK, NEW r \in R, Started(r)
    PROVE  RequestId(r) \in Ids /\ FileName(r) = RequestId(r)
BY RunFilesAssumption DEF TypeOK, Started, RequestId, FileName, Ids

LEMMA SameIdCollides ==
    ASSUME TypeOK, NEW r \in R, NEW q \in R, r # q, Started(r), RequestId(r) = RequestId(q)
    PROVE  Collided(r) /\ Collided(q)
BY DEF Started, RequestId, Collided

(* The state before any step.                                              *)
LEMMA InitInv == Init => ListInv
<1> SUFFICES ASSUME Init PROVE ListInv
  OBVIOUS
<1> USE RunFilesAssumption DEF Init
<1>1. TypeOK
  BY DEF TypeOK, Contents, LoadSteps, NoLoad
<1>2. RunsStarted /\ FilesTell /\ OwnFiles
  BY DEF RunsStarted, FilesTell, FileTells, OwnFiles, Saved, Started
<1>3. LoadsTell /\ ListIsFaithful /\ page.since \subseteq Saved
  BY DEF LoadsTell, LoadTells, NoLoad, ListIsFaithful
<1> QED
  BY <1>1, <1>2, <1>3 DEF ListInv, FilesInv

(***************************************************************************)
(* Types.                                                                  *)
(***************************************************************************)
LEMMA TypeStep ==
    ASSUME TypeOK, RunsStarted, FilesTell, Next
    PROVE  TypeOK'
<1> USE RunFilesAssumption
<1>1. CASE Tick
  BY <1>1 DEF Tick, TypeOK, writers, readers, RequestId
<1>2. ASSUME NEW r \in R, Start(r) PROVE TypeOK'
  <2>1. start' \in [R -> 0 .. MaxClock] /\ phase' \in [R -> {"new", "deliberating", "writing", "saved", "dead"}]
    BY <1>2 DEF Start, TypeOK
  <2>2. \A id \in Ids : file[id] \in R => file[id] # r
    BY <1>2 DEF Start, FilesTell, FileTells
  <2>3. \A id \in Ids : file'[id] \in R => RequestId(file[id])' = id
    BY <1>2, <2>2 DEF Start, TypeOK, RequestId
  <2> QED
    BY <1>2, <2>1, <2>3 DEF Start, TypeOK, readers, RequestId
<1>3. ASSUME NEW r \in R, OpenFile(r) PROVE TypeOK'
  BY <1>3, IdOfRun DEF OpenFile, TypeOK, readers, RequestId, RunsStarted, Contents
<1>4. ASSUME NEW r \in R, Write(r) PROVE TypeOK'
  <2>1. Started(r)
    BY <1>4 DEF Write, RunsStarted
  <2>2. FileName(r) \in Ids /\ RequestId(r) = FileName(r)
    BY <2>1, IdOfRun
  <2>3. UNCHANGED <<clock, start, load, page>>
    BY <1>4 DEF Write, readers
  <2>4. phase' \in [R -> {"new", "deliberating", "writing", "saved", "dead"}]
    BY <1>4 DEF Write, TypeOK
  <2>5. PICK c \in {r, Mixed} : file' = [file EXCEPT ![FileName(r)] = c]
    BY <1>4 DEF Write
  <2>6. file' \in [Ids -> Contents]
    BY <2>2, <2>5 DEF TypeOK, Contents
  <2>7. \A q \in R : RequestId(q)' = RequestId(q)
    BY <2>3 DEF RequestId
  <2>8. ASSUME NEW id \in Ids, file'[id] \in R PROVE RequestId(file'[id]) = id
    <3>1. CASE id = FileName(r)
      BY <2>2, <2>5, <2>8, <3>1 DEF TypeOK
    <3>2. CASE id # FileName(r)
      BY <2>5, <2>8, <3>2 DEF TypeOK
    <3> QED
      BY <3>1, <3>2
  <2>9. \A id \in Ids : (file[id] \in R => RequestId(file[id]) = id)'
    BY <2>7, <2>8, <2>3 DEF RequestId
  <2> QED
    BY <2>3, <2>4, <2>6, <2>9 DEF TypeOK
<1>5. ASSUME NEW r \in R, Die(r) PROVE TypeOK'
  BY <1>5 DEF Die, TypeOK, readers, RequestId
<1>6. ASSUME NEW q \in Loads, Serve(q) \/ Fault(q) PROVE TypeOK'
  <2>1. UNCHANGED <<clock, start, phase, file>>
    BY <1>6 DEF Serve, Fault, ReadDirFails, LoadFails, Ask, ReadDir, ReadOne, Answer, AnswerEmpty,
     AnswerError, Show, writers
  <2>2. /\ load' \in [Loads -> LoadSteps]
        /\ page' \in [kind : {"loading", "list", "none", "failed"}, runs : SUBSET R, since : SUBSET R]
    <3> USE DEF TypeOK
    <3>1. CASE Ask(q)
      BY <3>1 DEF Ask, LoadSteps, Saved
    <3>2. CASE ReadDir(q)
      BY <3>2 DEF ReadDir, LoadSteps, NoLoad, Files
    <3>3. CASE ReadOne(q)
      BY <3>3 DEF ReadOne, LoadSteps
    <3>4. CASE Answer(q)
      BY <3>4 DEF Answer, Show, LoadSteps, NoLoad
    <3>5. CASE AnswerError(q)
      BY <3>5 DEF AnswerError, Show, LoadSteps, NoLoad
    <3>6. CASE LoadFails(q)
      BY <3>6 DEF LoadFails, Show, LoadSteps, NoLoad
    <3>7. CASE ReadDirFails(q)
      BY <3>7 DEF ReadDirFails, LoadSteps, NoLoad
    <3>8. CASE AnswerEmpty(q)
      BY <3>8 DEF AnswerEmpty, Show, LoadSteps, NoLoad
    <3> QED
      BY <1>6, <3>1, <3>2, <3>3, <3>4, <3>5, <3>6, <3>7, <3>8 DEF Serve, Fault
  <2> QED
    BY <2>1, <2>2 DEF TypeOK, RequestId
<1> QED
  BY <1>1, <1>2, <1>3, <1>4, <1>5, <1>6 DEF Next

(***************************************************************************)
(* A run never changes its id, and a collision is for good.                *)
(***************************************************************************)
LEMMA IdsStay ==
    ASSUME TypeOK, RunsStarted, Next
    PROVE  /\ \A r \in R : Started(r) => start'[r] = start[r]
           /\ \A r \in R : phase[r] = "saved" => phase'[r] = "saved"
<1>1. CASE Tick
  BY <1>1 DEF Tick, writers
<1>2. ASSUME NEW r \in R, Start(r)
      PROVE  /\ ~Started(r) /\ start' = [start EXCEPT ![r] = clock]
             /\ phase[r] = "new" /\ phase' = [phase EXCEPT ![r] = "deliberating"]
  BY <1>2 DEF Start, RunsStarted
<1>3. ASSUME NEW r \in R, OpenFile(r) \/ Write(r) \/ Die(r)
      PROVE  /\ start' = start
             /\ \A q \in R : phase[q] = "saved" => phase'[q] = "saved"
  BY <1>3 DEF OpenFile, Write, Die, TypeOK
<1>4. ASSUME NEW q \in Loads, Serve(q) \/ Fault(q) PROVE UNCHANGED writers
  BY <1>4 DEF Serve, Fault, ReadDirFails, LoadFails, Ask, ReadDir, ReadOne, Answer, AnswerEmpty,
     AnswerError, Show
<1> QED
  BY <1>1, <1>2, <1>3, <1>4 DEF Next, writers, TypeOK

LEMMA CollisionsStay ==
    ASSUME TypeOK, NEW r \in R, Collided(r),
           \A q \in R : Started(q) => start'[q] = start[q]
    PROVE  Collided(r)'
BY DEF Collided, Started

(***************************************************************************)
(* The files.                                                              *)
(***************************************************************************)
LEMMA FilesStep ==
    ASSUME FilesInv, Next
    PROVE  (RunsStarted /\ FilesTell /\ OwnFiles)'
<1> USE RunFilesAssumption DEF FilesInv
<1>0. /\ \A r \in R : Started(r) => start'[r] = start[r]
      /\ \A r \in R : Started(r) => RequestId(r)' = RequestId(r) /\ Started(r)'
      /\ \A r \in R : Collided(r) => Collided(r)'
  <2>1. \A r \in R : Started(r) => start'[r] = start[r]
    BY IdsStay
  <2>2. \A r \in R : Started(r) => RequestId(r)' = RequestId(r) /\ Started(r)'
    BY <2>1 DEF RequestId, Started
  <2> QED
    BY <2>1, <2>2, CollisionsStay
<1>1. ASSUME UNCHANGED writers PROVE (RunsStarted /\ FilesTell /\ OwnFiles)'
  BY <1>1 DEF writers, RunsStarted, FilesTell, FileTells, OwnFiles, Started, Collided, RequestId, Saved
<1>2. ASSUME NEW r \in R, Start(r) PROVE (RunsStarted /\ FilesTell /\ OwnFiles)'
  <2>1. phase[r] = "new" /\ ~Started(r) /\ file' = file /\ clock # 0
    BY <1>2 DEF Start, RunsStarted, TypeOK
  <2>2. /\ start' = [start EXCEPT ![r] = clock]
        /\ phase' = [phase EXCEPT ![r] = "deliberating"]
    BY <1>2 DEF Start
  <2>3. RunsStarted'
    BY <2>1, <2>2 DEF RunsStarted, Started, TypeOK
  <2>4. \A q \in R : q # r => RequestId(q)' = RequestId(q) /\ phase'[q] = phase[q]
    BY <2>2 DEF RequestId, TypeOK
  <2>5. phase'[r] = "deliberating"
    BY <2>2 DEF TypeOK
  <2>6. ASSUME NEW id \in Ids PROVE FileTells(id)'
    <3>1. FileTells(id)
      BY DEF FilesTell
    <3>2. (file[id] \in R => phase[file[id]] = "saved")'
      BY <2>1, <2>4, <3>1 DEF FileTells
    <3>3. (file[id] = Mixed => \E q \in R : Started(q) /\ RequestId(q) = id /\ Collided(q))'
      <4> SUFFICES ASSUME file'[id] = Mixed
                   PROVE  \E q \in R : Started(q)' /\ RequestId(q)' = id /\ Collided(q)'
        OBVIOUS
      <4>1. PICK q \in R : Started(q) /\ RequestId(q) = id /\ Collided(q)
        BY <2>1, <3>1 DEF FileTells
      <4> QED
        BY <4>1, <1>0
    <3>4. (file[id] = Empty => \E q \in R : Started(q) /\ RequestId(q) = id /\ phase[q] \in {"writing", "dead"})'
      <4> SUFFICES ASSUME file'[id] = Empty
                   PROVE  \E q \in R : Started(q)' /\ RequestId(q)' = id /\ phase'[q] \in {"writing", "dead"}
        OBVIOUS
      <4>1. PICK q \in R : Started(q) /\ RequestId(q) = id /\ phase[q] \in {"writing", "dead"}
        BY <2>1, <3>1 DEF FileTells
      <4> QED
        BY <4>1, <1>0, <2>1, <2>4
    <3>5. (\A q \in R : phase[q] = "writing" /\ RequestId(q) = id => file[id] # NoFile)'
      <4> SUFFICES ASSUME NEW q \in R, phase'[q] = "writing", RequestId(q)' = id
                   PROVE  file'[id] # NoFile
        OBVIOUS
      <4> QED
        BY <2>1, <2>4, <2>5, <3>1 DEF FileTells
    <3> QED
      BY <3>2, <3>3, <3>4, <3>5 DEF FileTells
  <2>7. FilesTell'
    BY <2>6 DEF FilesTell
  <2>8. OwnFiles'
    <3> SUFFICES ASSUME NEW q \in R, phase'[q] = "saved", ~Collided(q)'
                 PROVE  file'[RequestId(q)'] = q
      BY DEF OwnFiles, Saved
    <3> QED
      BY <1>0, <2>1, <2>4, <2>5 DEF OwnFiles, Saved
  <2> QED
    BY <2>3, <2>7, <2>8
<1>3. ASSUME NEW r \in R, OpenFile(r) PROVE (RunsStarted /\ FilesTell /\ OwnFiles)'
  <2>1. Started(r) /\ start' = start /\ phase[r] = "deliberating"
    BY <1>3 DEF OpenFile, RunsStarted
  <2>2. RequestId(r) \in Ids /\ FileName(r) = RequestId(r)
    BY <2>1, IdOfRun
  <2>3. phase' = [phase EXCEPT ![r] = "writing"] /\ file' = [file EXCEPT ![RequestId(r)] = Empty]
    BY <1>3, <2>2 DEF OpenFile
  <2>4. \A q \in R : RequestId(q)' = RequestId(q)
    BY <2>1 DEF RequestId
  <2>5. RunsStarted'
    BY <2>1, <2>3 DEF RunsStarted, Started, TypeOK
  <2>6. ASSUME NEW id \in Ids PROVE FileTells(id)'
    <3>1. CASE id = RequestId(r)
      BY <1>0, <2>1, <2>2, <2>3, <2>4, <3>1 DEF FileTells, TypeOK
    <3>2. CASE id # RequestId(r)
      <4>1. file'[id] = file[id] /\ FileTells(id)
        BY <2>3, <3>2 DEF TypeOK, FilesTell
      <4>2. \A q \in R : q # r => phase'[q] = phase[q]
        BY <2>3 DEF TypeOK
      <4> QED
        BY <1>0, <2>1, <2>4, <3>2, <4>1, <4>2 DEF FileTells
    <3> QED
      BY <3>1, <3>2
  <2>7. OwnFiles'
    <3> SUFFICES ASSUME NEW q \in R, phase'[q] = "saved", ~Collided(q)'
                 PROVE  file'[RequestId(q)'] = q
      BY DEF OwnFiles, Saved
    <3>1. q # r /\ phase[q] = "saved" /\ ~Collided(q) /\ Started(q)
      BY <1>0, <2>3 DEF TypeOK, RunsStarted
    <3>2. RequestId(q) # RequestId(r) /\ RequestId(q) \in Ids
      BY <2>1, <3>1, SameIdCollides, IdOfRun
    <3> QED
      BY <2>3, <2>4, <3>1, <3>2 DEF OwnFiles, Saved, TypeOK
  <2> QED
    BY <2>5, <2>6, <2>7 DEF FilesTell
<1>4. ASSUME NEW r \in R, Write(r) PROVE (RunsStarted /\ FilesTell /\ OwnFiles)'
  <2>1. Started(r) /\ start' = start /\ phase[r] = "writing"
    BY <1>4 DEF Write, RunsStarted
  <2>2. RequestId(r) \in Ids /\ FileName(r) = RequestId(r)
    BY <2>1, IdOfRun
  <2>3. phase' = [phase EXCEPT ![r] = "saved"]
    BY <1>4 DEF Write
  <2>4. \/ file' = [file EXCEPT ![RequestId(r)] = r]
        \/ file[RequestId(r)] # Empty /\ file' = [file EXCEPT ![RequestId(r)] = Mixed]
    BY <1>4, <2>2 DEF Write
  <2>5. file[RequestId(r)] # NoFile
    BY <2>1, <2>2 DEF FilesTell, FileTells
  <2>6. file[RequestId(r)] # Empty => file'[RequestId(r)] = r \/ Collided(r)
    <3> SUFFICES ASSUME file[RequestId(r)] # Empty, ~Collided(r) PROVE FALSE
      BY <2>2, <2>4 DEF TypeOK
    <3>1. file[RequestId(r)] \in R \/ file[RequestId(r)] = Mixed
      BY <2>2, <2>5 DEF TypeOK, Contents
    <3>2. CASE file[RequestId(r)] = Mixed
      <4>1. PICK q \in R : Started(q) /\ RequestId(q) = RequestId(r) /\ Collided(q)
        BY <2>2, <3>2 DEF FilesTell, FileTells
      <4> QED
        BY <4>1, SameIdCollides
    <3>3. CASE file[RequestId(r)] \in R
      <4> DEFINE q == file[RequestId(r)]
      <4>1. phase[q] = "saved" /\ RequestId(q) = RequestId(r)
        BY <2>2, <3>3 DEF FilesTell, FileTells, TypeOK
      <4> QED
        BY <2>1, <3>3, <4>1, SameIdCollides
    <3> QED
      BY <3>1, <3>2, <3>3
  <2>7. \A q \in R : RequestId(q)' = RequestId(q)
    BY <2>1 DEF RequestId
  <2>8. RunsStarted'
    BY <2>1, <2>3 DEF RunsStarted, Started, TypeOK
  <2>9. ASSUME NEW id \in Ids PROVE FileTells(id)'
    <3>0. \A q \in R : q # r => phase'[q] = phase[q]
      BY <2>3 DEF TypeOK
    <3>1. CASE id = RequestId(r)
      <4>1. \/ file'[id] = r
            \/ file'[id] = Mixed /\ Collided(r)
        BY <2>2, <2>4, <2>6, <3>1 DEF TypeOK
      <4>2. phase'[r] = "saved"
        BY <2>3 DEF TypeOK
      <4> QED
        BY <1>0, <2>1, <2>7, <3>1, <4>1, <4>2 DEF FileTells
    <3>2. CASE id # RequestId(r)
      <4>1. file'[id] = file[id] /\ FileTells(id)
        BY <2>4, <3>2 DEF TypeOK, FilesTell
      <4>2. phase'[r] = "saved"
        BY <2>3 DEF TypeOK
      <4> QED
        BY <1>0, <2>1, <2>7, <3>0, <3>2, <4>1, <4>2 DEF FileTells
    <3> QED
      BY <3>1, <3>2
  <2>10. OwnFiles'
    <3> SUFFICES ASSUME NEW q \in R, phase'[q] = "saved", ~Collided(q)'
                 PROVE  file'[RequestId(q)'] = q
      BY DEF OwnFiles, Saved
    <3>1. CASE q = r
      <4>1. ~Collided(r)
        BY <1>0, <3>1
      <4>2. file'[RequestId(r)] = r
        BY <2>2, <2>4, <2>6, <4>1 DEF TypeOK
      <4> QED
        BY <2>7, <3>1, <4>2
    <3>2. CASE q # r
      <4>1. phase[q] = "saved" /\ ~Collided(q) /\ Started(q)
        BY <1>0, <2>3, <3>2 DEF TypeOK, RunsStarted
      <4>2. RequestId(q) # RequestId(r) /\ RequestId(q) \in Ids
        BY <2>1, <3>2, <4>1, SameIdCollides, IdOfRun
      <4> QED
        BY <2>4, <2>7, <4>1, <4>2 DEF OwnFiles, Saved, TypeOK
    <3> QED
      BY <3>1, <3>2
  <2> QED
    BY <2>8, <2>9, <2>10 DEF FilesTell
<1>5. ASSUME NEW r \in R, Die(r) PROVE (RunsStarted /\ FilesTell /\ OwnFiles)'
  <2>1. Started(r) /\ start' = start /\ file' = file /\ phase[r] \in {"deliberating", "writing"}
    BY <1>5 DEF Die, RunsStarted
  <2>2. phase' = [phase EXCEPT ![r] = "dead"]
    BY <1>5 DEF Die
  <2>3. \A q \in R : RequestId(q)' = RequestId(q) /\ (q # r => phase'[q] = phase[q])
    BY <2>1, <2>2 DEF RequestId, TypeOK
  <2>4. phase'[r] = "dead"
    BY <2>2 DEF TypeOK
  <2>5. ASSUME NEW id \in Ids PROVE FileTells(id)'
    <3>1. FileTells(id)
      BY DEF FilesTell
    <3> QED
      BY <1>0, <2>1, <2>3, <2>4, <3>1 DEF FileTells
  <2>6. OwnFiles'
    BY <1>0, <2>1, <2>3, <2>4 DEF OwnFiles, Saved
  <2>7. RunsStarted'
    BY <2>1, <2>3, <2>4 DEF RunsStarted, Started
  <2> QED
    BY <2>5, <2>6, <2>7 DEF FilesTell
<1>6. ASSUME NEW q \in Loads, Serve(q) \/ Fault(q) PROVE UNCHANGED writers
  BY <1>6 DEF Serve, Fault, ReadDirFails, LoadFails, Ask, ReadDir, ReadOne, Answer, AnswerEmpty,
     AnswerError, Show
<1> QED
  BY <1>1, <1>2, <1>3, <1>4, <1>5, <1>6 DEF Next, Tick

(***************************************************************************)
(* The requests and the page.                                              *)
(***************************************************************************)
(* What a step of the runs leaves to the requests.                         *)
LEMMA ListStepOfRuns ==
    ASSUME ListInv, Next, UNCHANGED readers
    PROVE  (LoadsTell /\ ListIsFaithful)' /\ page'.since \subseteq Saved'
<1> USE DEF ListInv, FilesInv
<1>1. Saved \subseteq Saved'
  BY IdsStay DEF Saved
<1>2. \A r \in R : Started(r) => start'[r] = start[r]
  BY IdsStay
<1>3. \A r \in R : Collided(r) => Collided(r)'
  BY <1>2, CollisionsStay
<1>4. \A r \in Saved : RequestId(r)' = RequestId(r)
  BY <1>2 DEF Saved, RunsStarted, RequestId
<1>5. load' = load /\ page' = page
  BY DEF readers
<1>6. ASSUME NEW q \in Loads PROVE LoadTells(q)'
  <2>1. LoadTells(q)
    BY DEF LoadsTell
  <2>2. load[q].step = "reading" => load[q].since \subseteq Saved
    BY <2>1 DEF LoadTells
  <2> QED
    BY <1>1, <1>3, <1>4, <1>5, <2>1, <2>2 DEF LoadTells, Saved
<1>7. ListIsFaithful'
  <2>1. page.since \subseteq R
    BY DEF TypeOK
  <2>2. {r \in page.since : ~Collided(r)'} \subseteq {r \in page.since : ~Collided(r)}
    BY <1>3, <2>1
  <2> QED
    BY <1>1, <1>5, <2>2 DEF ListIsFaithful
<1> QED
  BY <1>1, <1>5, <1>6, <1>7 DEF LoadsTell

(* A request reads files that nobody is changing in that step.             *)
LEMMA ListStepOfLoads ==
    ASSUME ListInv, NEW q \in Loads, Serve(q) \/ Fault(q)
    PROVE  (LoadsTell /\ ListIsFaithful)' /\ page'.since \subseteq Saved'
<1> USE DEF ListInv, FilesInv
<1>1. start' = start /\ phase' = phase /\ file' = file
  BY DEF Serve, Fault, ReadDirFails, LoadFails, Ask, ReadDir, ReadOne, Answer, AnswerEmpty,
     AnswerError, Show, writers
<1>2. /\ Saved' = Saved
      /\ \A r \in R : Collided(r)' = Collided(r) /\ RequestId(r)' = RequestId(r)
  BY <1>1 DEF Saved, Collided, Started, RequestId
<1>3. LoadTells(q) /\ load[q] \in LoadSteps
  BY DEF LoadsTell, TypeOK
<1>4. ASSUME NEW p \in Loads, p # q PROVE LoadTells(p)'
  <2>1. load'[p] = load[p]
    BY <1>4 DEF Serve, Fault, ReadDirFails, LoadFails, Ask, ReadDir, ReadOne, Answer, AnswerEmpty,
     AnswerError, Show, TypeOK
  <2>2. LoadTells(p)
    BY DEF LoadsTell
  <2>3. load[p].step = "reading" => load[p].since \subseteq R
    BY <2>2 DEF LoadTells, Saved
  <2> QED
    BY <1>2, <2>1, <2>2, <2>3 DEF LoadTells
<1>5. CASE Ask(q)
  <2>1. load'[q] = [step |-> "asked", since |-> Saved] /\ page' = page
    BY <1>5 DEF Ask, TypeOK
  <2>2. LoadTells(q)'
    BY <1>2, <2>1 DEF LoadTells
  <2> QED
    BY <1>2, <1>4, <2>1, <2>2 DEF LoadsTell, ListIsFaithful, TypeOK
<1>6. CASE ReadDir(q)
  <2>1. /\ load'[q] = [step |-> "reading", since |-> load[q].since, names |-> Files, got |-> {}]
        /\ load[q].step = "asked" /\ page' = page
    BY <1>6 DEF ReadDir, TypeOK
  <2>2. load[q].since \subseteq Saved
    BY <1>3, <2>1 DEF LoadTells
  <2>3. \A r \in Saved : Collided(r) \/ RequestId(r) \in Files
    BY RunFilesAssumption, IdOfRun DEF OwnFiles, Saved, Files, RunsStarted
  <2>4. LoadTells(q)'
    BY <1>2, <2>1, <2>2, <2>3 DEF LoadTells, Saved
  <2> QED
    BY <1>2, <1>4, <2>1, <2>4 DEF LoadsTell, ListIsFaithful, TypeOK
<1>7. CASE ReadOne(q)
  <2>0. load[q].step = "reading" /\ page' = page
    BY <1>7 DEF ReadOne
  <2>1. PICK id \in load[q].names :
           load' = [load EXCEPT ![q] =
               IF file[id] \in R
               THEN [step |-> "reading", since |-> load[q].since,
                     names |-> load[q].names \ {id}, got |-> load[q].got \cup {file[id]}]
               ELSE [step |-> "error", since |-> load[q].since]]
    BY <1>7 DEF ReadOne
  <2>2. id \in Ids
    BY <1>3, <2>0 DEF LoadSteps
  <2>3. /\ load[q].since \subseteq Saved /\ load[q].got \subseteq Saved
        /\ \A r \in load[q].since :
               Collided(r) \/ r \in load[q].got \/ RequestId(r) \in load[q].names
    BY <1>3, <2>0 DEF LoadTells
  <2>4. LoadTells(q)'
    <3>1. CASE file[id] \in R
      <4>1. load'[q] = [step |-> "reading", since |-> load[q].since,
                        names |-> load[q].names \ {id}, got |-> load[q].got \cup {file[id]}]
        BY <2>1, <3>1 DEF TypeOK
      <4>2. file[id] \in Saved
        BY <2>2, <3>1 DEF FilesTell, FileTells, Saved
      <4>3. \A r \in load[q].since : RequestId(r) = id => Collided(r) \/ r = file[id]
        BY <2>3 DEF OwnFiles
      <4> QED
        BY <1>2, <2>3, <4>1, <4>2, <4>3 DEF LoadTells, Saved
    <3>2. CASE file[id] \notin R
      <4>1. load'[q] = [step |-> "error", since |-> load[q].since]
        BY <2>1, <3>2 DEF TypeOK
      <4> QED
        BY <1>2, <2>3, <4>1 DEF LoadTells
    <3> QED
      BY <3>1, <3>2
  <2> QED
    BY <1>2, <1>4, <2>0, <2>4 DEF LoadsTell, ListIsFaithful, TypeOK
<1>8. ASSUME Answer(q) \/ AnswerEmpty(q) \/ AnswerError(q) \/ LoadFails(q)
      PROVE  (LoadsTell /\ ListIsFaithful)' /\ page'.since \subseteq Saved'
  <2>1. load'[q] = NoLoad
    BY <1>8 DEF Answer, AnswerEmpty, AnswerError, LoadFails, Show, TypeOK
  <2>2. LoadTells(q)'
    BY <2>1 DEF LoadTells, NoLoad
  <2>3. load[q].step # "none"
    BY <1>3, <1>8 DEF Answer, AnswerEmpty, AnswerError, LoadFails, LoadSteps, NoLoad
  <2>4. page'.since = load[q].since /\ load[q].since \subseteq Saved
    BY <1>3, <1>8, <2>3 DEF Answer, AnswerEmpty, AnswerError, LoadFails, Show, LoadTells
  <2>5. ListIsFaithful'
    <3>1. CASE Answer(q)
      <4>1. load[q].step = "reading" /\ load[q].names = {} /\ page'.runs = load[q].got
        BY <3>1 DEF Answer, Show
      <4>2. load[q].got \subseteq Saved /\ \A r \in load[q].since : Collided(r) \/ r \in load[q].got
        BY <1>3, <4>1 DEF LoadTells
      <4> QED
        BY <1>2, <2>4, <4>1, <4>2 DEF ListIsFaithful, Saved
    <3>2. CASE AnswerEmpty(q) \/ AnswerError(q) \/ LoadFails(q)
      BY <3>2 DEF AnswerEmpty, AnswerError, LoadFails, Show, ListIsFaithful
    <3> QED
      BY <1>8, <3>1, <3>2
  <2> QED
    BY <1>2, <1>4, <2>2, <2>4, <2>5 DEF LoadsTell
<1>9. CASE ReadDirFails(q)
  <2>1. /\ load'[q] = [step |-> "unlisted", since |-> load[q].since]
        /\ load[q].step = "asked" /\ page' = page
    BY <1>9 DEF ReadDirFails, TypeOK
  <2>2. LoadTells(q)'
    BY <1>2, <1>3, <2>1 DEF LoadTells
  <2> QED
    BY <1>2, <1>4, <2>1, <2>2 DEF LoadsTell, ListIsFaithful, TypeOK
<1> QED
  BY <1>5, <1>6, <1>7, <1>8, <1>9 DEF Serve, Fault

(***************************************************************************)
(* The theorems.                                                           *)
(***************************************************************************)
LEMMA ListInvStep == ListInv /\ [Next]_vars => ListInv'
<1> SUFFICES ASSUME ListInv, [Next]_vars PROVE ListInv'
  OBVIOUS
<1>1. CASE UNCHANGED vars
  BY <1>1 DEF vars, writers, readers, ListInv, FilesInv, TypeOK, RequestId, RunsStarted,
     FilesTell, FileTells, OwnFiles, LoadsTell, LoadTells, ListIsFaithful, Saved, Started, Collided
<1>2. CASE Next
  <2>1. TypeOK' /\ (RunsStarted /\ FilesTell /\ OwnFiles)'
    BY <1>2, TypeStep, FilesStep DEF ListInv, FilesInv
  <2>2. UNCHANGED readers \/ \E q \in Loads : Serve(q) \/ Fault(q)
    BY <1>2 DEF Next, Tick, Start, OpenFile, Write, Die
  <2>3. (LoadsTell /\ ListIsFaithful)' /\ page'.since \subseteq Saved'
    BY <1>2, <2>2, ListStepOfRuns, ListStepOfLoads
  <2> QED
    BY <2>1, <2>3 DEF ListInv, FilesInv
<1> QED
  BY <1>1, <1>2

(* What a file holds says where its owners are, and what a load has read   *)
(* is no more than what was there (cli.ts, runReview; dashboard-server.ts).*)
THEOREM ListInvHolds == Spec => []ListInv
BY InitInv, ListInvStep, PTL DEF Spec

(* The state is always well typed, and a file is named after the run that  *)
(* wrote it (cli.ts, runReview).                                           *)
THEOREM TypeCorrect == Spec => []TypeOK
<1>1. ListInv => TypeOK
  BY DEF ListInv, FilesInv
<1> QED
  BY <1>1, ListInvHolds, PTL

(* A saved run keeps its file, and a file that cannot be read is being     *)
(* written, was being written by a run that died, or has two owners        *)
(* (cli.ts, runReview): for any number of runs, in any interleaving.       *)
THEOREM SavedStaysCorrect == Spec => []SavedStays
<1>1. ListInv => SavedStays
  <2> SUFFICES ASSUME ListInv PROVE SavedStays
    OBVIOUS
  <2> USE DEF ListInv, FilesInv
  <2>1. ASSUME NEW id \in Files, file[id] \notin R
        PROVE  \E r \in R : /\ Started(r) /\ RequestId(r) = id
                            /\ phase[r] \in {"writing", "dead"} \/ Collided(r)
    <3>1. FileTells(id) /\ file[id] \in {Empty, Mixed}
      BY <2>1 DEF Files, FilesTell, TypeOK, Contents
    <3> QED
      BY <3>1 DEF FileTells
  <2> QED
    BY <2>1 DEF SavedStays, OwnFiles
<1> QED
  BY <1>1, ListInvHolds, PTL

(* A list the page shows has every run saved before it was asked for and   *)
(* not collided, and nothing unsaved (dashboard-server.ts, listRuns, and   *)
(* dashboard/index.html, load): for any number of runs and of overlapping  *)
(* requests.                                                               *)
THEOREM ListCorrect == Spec => []ListIsFaithful
<1>1. ListInv => ListIsFaithful
  BY DEF ListInv
<1> QED
  BY <1>1, ListInvHolds, PTL
=============================================================================
