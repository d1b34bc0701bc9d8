-------------------------- MODULE EncryptionJournal --------------------------
(***************************************************************************)
(* Staged encryption of one medium: an executor encrypts the source into a *)
(* stage, journals it, (under legacy plans) hides the plaintext in a       *)
(* quarantine, and commits the stage together with its row.  A reconciler  *)
(* runs at every start and then beside the executors; it puts back what    *)
(* executors left behind, deletes their ciphertext and closes the journal. *)
(*                                                                         *)
(* An execution is one claim of the row, and its number is its attempt and *)
(* its owner token.  A stage is the number of the execution that created   *)
(* it: an execution stages once.  The medium stays in one generation.      *)
(***************************************************************************)
EXTENDS Naturals

CONSTANTS
    MaxExec,     \* bound: claims of the row
    MaxTries,    \* encryptionRecoveryMaxAttempts
    MaxFaults    \* bound: ends of the process, and passes that fail

ASSUME BoundAssumption ==
    MaxExec \in Nat \ {0} /\ MaxTries \in Nat \ {0} /\ MaxFaults \in Nat

Execs == 1..MaxExec
Stages == Execs
Source == 0
Places == {Source} \cup Stages

\* "verified" is committed with recovery_error verified_committed, and
\* "restore_pending" is failed_closed with that recovery_error.
States == {"none", "staged", "quarantining", "quarantined", "committed",
           "verified", "restored", "restore_pending", "failed_closed"}

\* The steps of the two moves of plaintext, which executors and the reconciler
\* have in common: into the quarantine of a stage, and back to the source.
Moves == {"move", "place", "unlink", "return", "putback", "unhide"}

\* What the executor does next.
Steps == Moves \cup
         {"idle", "stage", "journal", "check", "reserve", "mark", "hash",
          "commit", "cleanup", "record", "restore", "restored", "over"}

\* What the reconciler does next.
Phases == Moves \cup
          {"idle", "next", "compare", "drop", "mark", "restore", "discard",
           "remove", "write"}

VARIABLES
    legacy,    \* the run's policy_version is below 3
    plain,     \* where the plaintext is: at its source, in stages' quarantines
    cipher,    \* stages whose complete .enc file exists
    selected,  \* media.file_path: the source or a stage's file
    resume,    \* media_encrypt_resume: the stage recorded as staged, 0 if none
    journal,   \* media_encryption_stage_journal: [state, by, hidden, tries]
    row,       \* the queue row (its step follows it): [status, claims]
    published, \* the run is published, or published as degraded
    exec,      \* the executors: [pc, stage]
    rec,       \* the reconciler: [pc, todo, cur, failed]
    mode,      \* "up", "starting" or "down"
    faults

files == <<plain, cipher>>
db == <<selected, resume, journal, row, published>>
process == <<mode, faults>>
vars == <<legacy, files, db, exec, rec, process>>

NoEntry == [state |-> "none", by |-> 0, hidden |-> FALSE, tries |-> 0]
NoItem == [stage |-> 0, state |-> "none", hidden |-> FALSE]
Asleep == [pc |-> "idle", todo |-> {}, cur |-> NoItem, failed |-> FALSE]

Init ==
    /\ legacy \in BOOLEAN
    /\ plain = {Source}
    /\ cipher = {}
    /\ selected = Source
    /\ resume = 0
    /\ journal = [s \in Stages |-> NoEntry]
    /\ row = [status |-> "waiting", claims |-> 0]
    /\ published = FALSE
    /\ exec = [e \in Execs |-> [pc |-> "idle", stage |-> 0]]
    /\ rec = Asleep
    /\ mode = "up"
    /\ faults = 0

------------------------------------------------------------------------------
(* The row. *)

\* The row still belongs to the execution: running, its token, its attempt.
Owns(e) == row.status = "running" /\ row.claims = e

Claim ==
    /\ mode = "up" /\ row.status = "waiting" /\ row.claims < MaxExec
    /\ row' = [status |-> "running", claims |-> row.claims + 1]
    /\ exec' = [exec EXCEPT ![row.claims + 1].pc = "stage"]
    /\ UNCHANGED <<legacy, files, selected, resume, journal, published, rec, process>>

\* The row is taken back: its executor failed, an administrator cancelled it
\* and reset the row, or recovery found its lease expired.
LoseRow ==
    /\ mode = "up" /\ row.status = "running"
    /\ row' = [row EXCEPT !.status = "waiting"]
    /\ UNCHANGED <<legacy, files, selected, resume, journal, published, exec, rec, process>>

\* The other required steps of the run are done, too.
Publish ==
    /\ mode = "up" /\ row.status = "done" /\ ~published
    /\ published' = TRUE
    /\ UNCHANGED <<legacy, files, selected, resume, journal, row, exec, rec, process>>

------------------------------------------------------------------------------
(* Moves of plaintext. *)

\* os.Rename replaces its target; a rename of a finished copy only adds one.
Rename(from, to) == from \in plain /\ plain' = (plain \ {from}) \cup {to}
Put(to) == plain' = plain \cup {to}
Delete(at) == at \in plain /\ plain' = plain \ {at}

\* quarantinePlaintext, one step from pc to next: a rename or, if the system
\* refuses it, a copy beside the target that is compared with the source, put
\* in place, and then the removal of the source.
Hide(pc, next, s) ==
    \/ pc = "move" /\ next = "mark" /\ Rename(Source, s)
    \/ pc = "move" /\ next = "place" /\ Source \in plain /\ UNCHANGED plain
    \/ pc = "place" /\ next = "unlink" /\ Put(s)
    \/ pc = "unlink" /\ next = "mark" /\ Delete(Source)

\* restoreQuarantinedPlaintext after its look at the files, in the same way.
BringBack(pc, next, s, done) ==
    \/ pc = "return" /\ next = done /\ Rename(s, Source)
    \/ pc = "return" /\ next = "putback" /\ s \in plain /\ UNCHANGED plain
    \/ pc = "putback" /\ next = "unhide" /\ Put(Source)
    \/ pc = "unhide" /\ next = done /\ Delete(s)

------------------------------------------------------------------------------
(* The executor. *)

Goto(e, pc) == exec' = [exec EXCEPT ![e].pc = pc]

\* StageMediaEncryption.  A stage recorded as staged whose file is complete is
\* taken over as it is; an execution that joins a running one of the medium is
\* given its stage, which is the same.
StageMedia(e) ==
    /\ exec[e].pc = "stage"
    /\ IF Owns(e) /\ selected = Source /\ Source \in plain
       THEN LET s == IF resume \in cipher THEN resume ELSE e
            IN  /\ cipher' = cipher \cup {s}
                /\ resume' = s
                /\ exec' = [exec EXCEPT ![e] = [pc |-> "journal", stage |-> s]]
       ELSE Goto(e, "over") /\ UNCHANGED <<cipher, resume>>
    /\ UNCHANGED <<legacy, plain, selected, journal, row, published, rec, process>>

\* ON CONFLICT(stage_id) DO NOTHING: the entry of a stage taken over stays
\* that of the execution that wrote it.
InsertJournal(e) ==
    /\ exec[e].pc = "journal"
    /\ journal' = IF journal[exec[e].stage].state = "none"
                  THEN [journal EXCEPT ![exec[e].stage] =
                           [state |-> "staged", by |-> e, hidden |-> FALSE, tries |-> 0]]
                  ELSE journal
    /\ Goto(e, "check")
    /\ UNCHANGED <<legacy, files, selected, resume, row, published, rec, process>>

\* The preflight.  Only the commit, which finishes the row, selects a stage, so
\* an execution that owns the row never finds its own stage selected already.
Check(e) ==
    /\ exec[e].pc = "check"
    /\ Goto(e, IF ~(Owns(e) /\ selected = Source /\ Source \in plain) THEN "over"
               ELSE IF legacy THEN "reserve" ELSE "hash")
    /\ UNCHANGED <<legacy, files, db, rec, process>>

Fenced(e, state) ==
    journal[exec[e].stage].state = state /\ journal[exec[e].stage].by = e

Reserve(e) ==
    /\ exec[e].pc = "reserve"
    /\ IF Fenced(e, "staged")
       THEN /\ journal' = [journal EXCEPT ![exec[e].stage].state = "quarantining",
                                          ![exec[e].stage].hidden = TRUE]
            /\ Goto(e, "move")
       ELSE Goto(e, "over") /\ UNCHANGED journal
    /\ UNCHANGED <<legacy, files, selected, resume, row, published, rec, process>>

\* The source that is to be moved or removed is gone: the executor returns.
MoveAway(e) ==
    /\ \/ \E next \in {"place", "unlink", "mark"} :
             Hide(exec[e].pc, next, exec[e].stage) /\ Goto(e, next)
       \/ /\ exec[e].pc \in {"move", "unlink"} /\ Source \notin plain
          /\ UNCHANGED plain /\ Goto(e, "over")
    /\ UNCHANGED <<legacy, cipher, db, rec, process>>

Mark(e) ==
    /\ exec[e].pc = "mark"
    /\ IF Fenced(e, "quarantining")
       THEN /\ journal' = [journal EXCEPT ![exec[e].stage].state = "quarantined"]
            /\ Goto(e, "hash")
       ELSE Goto(e, "over") /\ UNCHANGED journal
    /\ UNCHANGED <<legacy, files, selected, resume, row, published, rec, process>>

\* The files are hashed before the transaction, which only reads the tables.
Hash(e) ==
    /\ exec[e].pc = "hash"
    /\ Goto(e, IF exec[e].stage \in cipher /\ (legacy => exec[e].stage \in plain)
               THEN "commit" ELSE "over")
    /\ UNCHANGED <<legacy, files, db, rec, process>>

\* The transaction commits and, if it finishes the last required step of the
\* run, publishes that; if that is reported as uncertain, the executor
\* ends without the cleanup, whatever it then reads back.
Commit(e) ==
    LET s == exec[e].stage IN
    /\ exec[e].pc = "commit"
    /\ Owns(e) /\ selected = Source
    /\ legacy => Fenced(e, "quarantined") /\ Source \notin plain
    /\ selected' = s
    /\ row' = [row EXCEPT !.status = "done"]
    /\ published' \in BOOLEAN
    /\ journal' = IF journal[s].state \in {"staged", "quarantined"}
                  THEN [journal EXCEPT ![s].state = "committed"] ELSE journal
    /\ \E next \in {IF legacy THEN "cleanup" ELSE "record", "over"} : Goto(e, next)
    /\ UNCHANGED <<legacy, files, resume, rec, process>>

\* A mutant: the cleanup runs although the commit did not happen.
CommitFailsCleansUp(e) ==
    /\ exec[e].pc = "commit"
    /\ \E next \in {IF legacy THEN "cleanup" ELSE "over", "over"} : Goto(e, next)
    /\ UNCHANGED <<legacy, files, db, rec, process>>

\* It does not commit: a fence is lost or the database fails.  Unless that is
\* uncertain, plaintext that was hidden is brought back.
CommitFails(e) ==
    /\ exec[e].pc = "commit"
    /\ \E next \in {IF legacy THEN "restore" ELSE "over", "over"} : Goto(e, next)
    /\ UNCHANGED <<legacy, files, db, rec, process>>

Cleanup(e) ==
    /\ exec[e].pc = "cleanup"
    /\ plain' = plain \ {exec[e].stage}
    /\ Goto(e, "record")
    /\ UNCHANGED <<legacy, cipher, db, rec, process>>

Record(e) ==
    /\ exec[e].pc = "record"
    /\ journal' = IF journal[exec[e].stage].state = "committed"
                  THEN [journal EXCEPT ![exec[e].stage].state = "verified"] ELSE journal
    /\ Goto(e, "over")
    /\ UNCHANGED <<legacy, files, selected, resume, row, published, rec, process>>

Restore(e) ==
    /\ exec[e].pc = "restore"
    /\ exec[e].stage \in plain /\ Source \notin plain
    /\ Goto(e, "return")
    /\ UNCHANGED <<legacy, files, db, rec, process>>

Return(e) ==
    /\ \E next \in {"putback", "unhide", "restored"} :
          BringBack(exec[e].pc, next, exec[e].stage, "restored") /\ Goto(e, next)
    /\ UNCHANGED <<legacy, cipher, db, rec, process>>

\* The restore is refused or one of its steps fails, the last being the sync of
\* what it has moved.
RestoreFails(e) ==
    /\ exec[e].pc \in {"restore", "return", "putback", "unhide", "restored"}
    /\ journal' = [journal EXCEPT ![exec[e].stage].state = "failed_closed"]
    /\ Goto(e, "over")
    /\ UNCHANGED <<legacy, files, selected, resume, row, published, rec, process>>

RecordRestored(e) ==
    /\ exec[e].pc = "restored"
    /\ journal' = [journal EXCEPT ![exec[e].stage].state = "restored",
                                  ![exec[e].stage].hidden = FALSE]
    /\ Goto(e, "over")
    /\ UNCHANGED <<legacy, files, selected, resume, row, published, rec, process>>

\* A step fails or the context is cancelled: the executor returns at once.
Interrupt(e) ==
    /\ exec[e].pc \notin {"idle", "commit", "restore", "return", "putback", "unhide", "over"}
    /\ Goto(e, "over")
    /\ UNCHANGED <<legacy, files, db, rec, process>>

ExecutorStep(e) ==
    \/ StageMedia(e) \/ InsertJournal(e) \/ Check(e)
    \/ Reserve(e) \/ MoveAway(e) \/ Mark(e) \/ Hash(e)
    \/ Commit(e) \/ CommitFails(e) \/ Cleanup(e) \/ Record(e)
    \/ Restore(e) \/ Return(e) \/ RestoreFails(e) \/ RecordRestored(e)

------------------------------------------------------------------------------
(* The reconciler. *)

\* A mutant: a reservation counts as its executor's own business.
ListedReserved(s) ==
    \/ journal[s].state = "committed"
    \/ /\ \/ journal[s].state \in {"staged", "quarantined"}
          \/ /\ journal[s].state = "restore_pending"
             /\ journal[s].hidden /\ journal[s].tries < MaxTries
       /\ ~Owns(journal[s].by)

Listed(s) ==
    \/ journal[s].state \in {"quarantining", "committed"}
    \/ /\ \/ journal[s].state \in {"staged", "quarantined"}
          \/ /\ journal[s].state = "restore_pending"
             /\ journal[s].hidden /\ journal[s].tries < MaxTries
       /\ ~Owns(journal[s].by)

Batch == {[stage |-> s, state |-> journal[s].state, hidden |-> journal[s].hidden] :
             s \in {t \in Stages : Listed(t)}}

\* The entries to look after are read once; all that follows uses these copies.
List ==
    /\ mode \in {"starting", "up"} /\ rec.pc = "idle" /\ Batch # {}
    /\ rec' = [Asleep EXCEPT !.pc = "next", !.todo = Batch]
    /\ UNCHANGED <<legacy, files, db, exec, process>>

Doing(pc, r) == rec' = [rec EXCEPT !.pc = pc, !.cur = r]
Passed(r) == [rec EXCEPT !.pc = "next", !.todo = @ \ {r}, !.cur = NoItem]
\* The error of a pass matters to a start; later it is only logged.  A pass that
\* finds what it does not understand ends.
Failed(r) == [Passed(r) EXCEPT !.failed = (mode = "starting")]
Aborted == IF mode = "starting" THEN [Asleep EXCEPT !.pc = "next", !.failed = TRUE]
           ELSE Asleep

\* The stage is selected: its commit is verified against the published run and
\* the attempt in the journal, or the entry is closed.
LookCommitted(r) ==
    /\ selected = r.stage
    /\ LET ok == published /\ row.claims = journal[r.stage].by
       IN  /\ rec' = IF ok THEN Passed(r) ELSE Failed(r)
           /\ journal' = IF journal[r.stage].state = "committed"
                         THEN [journal EXCEPT ![r.stage].state =
                                  IF ok THEN "verified" ELSE "failed_closed"]
                         ELSE journal
    /\ UNCHANGED <<legacy, files, selected, resume, row, published, exec, process>>

LookActive(r) ==
    /\ selected # r.stage
    /\ Owns(journal[r.stage].by) /\ r.state # "quarantining"
    /\ rec' = Passed(r)
    /\ UNCHANGED <<legacy, files, db, exec, process>>

\* A reservation is carried out, even for an executor that is about to.
LookQuarantining(r) ==
    LET open == Source \in plain
        hidden == r.stage \in plain
    IN
    /\ selected # r.stage /\ r.state = "quarantining"
    /\ \/ open /\ ~hidden /\ Doing("move", r)
       \/ ~open /\ hidden /\ Doing("mark", r)
       \/ open /\ hidden /\ Doing("compare", r)
       \/ ~open /\ ~hidden /\ rec' = Aborted
    /\ UNCHANGED <<legacy, files, db, exec, process>>

LookStale(r) ==
    /\ selected # r.stage
    /\ ~Owns(journal[r.stage].by) /\ r.state # "quarantining"
    /\ Doing(IF r.hidden THEN "restore" ELSE "remove", r)
    /\ UNCHANGED <<legacy, files, db, exec, process>>

Look ==
    /\ rec.pc = "next"
    /\ \E r \in rec.todo :
          LookCommitted(r) \/ LookActive(r) \/ LookQuarantining(r) \/ LookStale(r)

CarryOut ==
    /\ \/ \E next \in {"place", "unlink", "mark"} :
             Hide(rec.pc, next, rec.cur.stage) /\ Doing(next, rec.cur)
       \/ /\ rec.pc \in {"move", "unlink"} /\ Source \notin plain
          /\ UNCHANGED plain /\ rec' = Aborted
    /\ UNCHANGED <<legacy, cipher, db, exec, process>>

\* Two copies are hashed.  A missing file hashes as nothing, so two files that
\* are gone by now are alike.
Compare ==
    LET same == Source \in plain <=> rec.cur.stage \in plain IN
    /\ rec.pc = "compare"
    /\ IF same THEN Doing("drop", rec.cur) ELSE rec' = Aborted
    /\ UNCHANGED <<legacy, files, db, exec, process>>

\* A failing removal goes unnoticed.
Drop ==
    /\ rec.pc = "drop"
    /\ plain' \in {plain, plain \ {Source}}
    /\ Doing("mark", rec.cur)
    /\ UNCHANGED <<legacy, cipher, db, exec, process>>

\* A read, a move or a write that should succeed fails: the pass ends.
AbortPass ==
    /\ rec.pc = "idle" => mode = "starting"
    /\ faults < MaxFaults /\ faults' = faults + 1
    /\ rec' = Aborted
    /\ UNCHANGED <<legacy, files, db, exec, mode>>

MarkQuarantined ==
    LET s == rec.cur.stage IN
    /\ rec.pc = "mark"
    /\ journal' = IF journal[s].state = "quarantining"
                  THEN [journal EXCEPT ![s].state = "quarantined"] ELSE journal
    /\ rec' = Passed(rec.cur)
    /\ UNCHANGED <<legacy, files, selected, resume, row, published, exec, process>>

\* reconcilePlaintextRestore: where the files are decides what is left to do.
PutBack ==
    LET open == Source \in plain
        hidden == rec.cur.stage \in plain
    IN
    /\ rec.pc = "restore"
    /\ \/ open /\ ~hidden /\ Doing("remove", rec.cur)
       \/ open /\ hidden /\ Doing("discard", rec.cur)
       \/ ~open /\ hidden /\ Doing("return", rec.cur)
    /\ UNCHANGED <<legacy, files, db, exec, process>>

Discard ==
    /\ rec.pc = "discard"
    /\ plain' = plain \ {rec.cur.stage}
    /\ Doing("remove", rec.cur)
    /\ UNCHANGED <<legacy, cipher, db, exec, process>>

TakeOut ==
    /\ \E next \in {"putback", "unhide", "remove"} :
          BringBack(rec.pc, next, rec.cur.stage, "remove") /\ Doing(next, rec.cur)
    /\ UNCHANGED <<legacy, cipher, db, exec, process>>

\* A failing file operation, up to the sync after the move, is tried again
\* later; files that are missing or not what the journal expects are not.
PutBackFails ==
    LET s == rec.cur.stage IN
    /\ \/ rec.pc \in {"restore", "discard", "return", "putback", "unhide"}
       \/ rec.pc = "remove" /\ rec.cur.hidden
    /\ journal[s].tries < MaxTries
    /\ \E state \in {"restore_pending", "failed_closed"} :
          /\ state = "failed_closed" => rec.pc = "restore"
          /\ journal' = [journal EXCEPT ![s].state = state, ![s].tries = @ + 1]
          /\ rec' = IF state = "failed_closed" THEN Failed(rec.cur) ELSE Passed(rec.cur)
    /\ UNCHANGED <<legacy, files, selected, resume, row, published, exec, process>>

RemoveCipher ==
    /\ rec.pc = "remove"
    /\ cipher' = cipher \ {rec.cur.stage}
    /\ Doing("write", rec.cur)
    /\ UNCHANGED <<legacy, plain, db, exec, process>>

WriteRestored ==
    LET s == rec.cur.stage IN
    /\ rec.pc = "write"
    /\ journal' = [journal EXCEPT ![s].state = "restored", ![s].hidden = FALSE]
    /\ rec' = Passed(rec.cur)
    /\ UNCHANGED <<legacy, files, selected, resume, row, published, exec, process>>

EndPass ==
    /\ rec.pc = "next" /\ rec.todo = {} /\ mode = "up"
    /\ rec' = Asleep
    /\ UNCHANGED <<legacy, files, db, exec, process>>

------------------------------------------------------------------------------
(* The process. *)

Crash ==
    /\ mode # "down" /\ faults < MaxFaults
    /\ mode' = "down" /\ faults' = faults + 1
    /\ exec' = [e \in Execs |-> IF exec[e].pc = "idle" THEN exec[e]
                                ELSE [exec[e] EXCEPT !.pc = "over"]]
    /\ rec' = Asleep
    /\ UNCHANGED <<legacy, files, db>>

Start ==
    /\ mode = "down"
    /\ mode' = "starting"
    /\ UNCHANGED <<legacy, files, db, exec, rec, faults>>

\* The start runs the reconciler before it recovers the leases of rows, and
\* ends the process if the reconciler reports an error.
Started ==
    /\ mode = "starting"
    /\ \/ rec.pc = "idle" /\ Batch = {}
       \/ rec.pc = "next" /\ rec.todo = {} /\ ~rec.failed
    /\ mode' = "up"
    /\ rec' = Asleep
    /\ row' = [row EXCEPT !.status = IF @ = "running" THEN "waiting" ELSE @]
    /\ UNCHANGED <<legacy, files, selected, resume, journal, published, exec, faults>>

StartFails ==
    /\ mode = "starting"
    /\ rec.pc = "next" /\ rec.todo = {} /\ rec.failed
    /\ mode' = "down"
    /\ rec' = Asleep
    /\ UNCHANGED <<legacy, files, db, exec, faults>>

StartUp == Start \/ Started \/ StartFails

ReconcilerStep ==
    \/ List \/ Look \/ CarryOut \/ Compare \/ Drop \/ MarkQuarantined
    \/ PutBack \/ Discard \/ TakeOut \/ PutBackFails
    \/ RemoveCipher \/ WriteRestored \/ EndPass

Next ==
    \/ Claim \/ LoseRow \/ Publish
    \/ \E e \in Execs : ExecutorStep(e) \/ Interrupt(e)
    \/ ReconcilerStep \/ AbortPass
    \/ Crash \/ StartUp

\* The row of an executor that has ended is taken back by its dispatcher or,
\* if that write is lost, by recovery.
TakeBack == exec[row.claims].pc = "over" /\ LoseRow

Fairness ==
    /\ \A e \in Execs : WF_vars(ExecutorStep(e))
    /\ WF_vars(row.claims \in Execs /\ TakeBack)
    /\ WF_vars(ReconcilerStep)
    /\ WF_vars(StartUp)

Spec == Init /\ [][Next]_vars /\ Fairness

------------------------------------------------------------------------------
(* Properties. *)

Items == [stage : Stages, state : States, hidden : BOOLEAN]

\* Types of every variable.
TypeOK ==
    /\ legacy \in BOOLEAN /\ published \in BOOLEAN
    /\ plain \subseteq Places /\ cipher \subseteq Stages
    /\ selected \in Places /\ resume \in Places
    /\ journal \in [Stages -> [state : States, by : Places, hidden : BOOLEAN, tries : 0..MaxTries]]
    /\ row \in [status : {"waiting", "running", "done"}, claims : 0..MaxExec]
    /\ exec \in [Execs -> [pc : Steps, stage : Places]]
    /\ rec \in [pc : Phases, todo : SUBSET Items, cur : Items \cup {NoItem}, failed : BOOLEAN]
    /\ mode \in {"up", "starting", "down"} /\ faults \in 0..MaxFaults

\* Plaintext is deleted only when the medium selects an existing ciphertext.
ContentIsKept == plain = {} => selected \in cipher

\* The reconciler never deletes the ciphertext of a stage that is committed by
\* the execution which journaled it.
CommittedIsKept ==
    selected \in Stages /\ journal[selected].by = row.claims => selected \in cipher

\* Someone is about to take the plaintext of a stage away from its source, and
\* someone else to take it back out of the quarantine.
Hiding(s) ==
    \/ \E e \in Execs : exec[e].stage = s /\ exec[e].pc \in {"move", "unlink"}
    \/ rec.pc \in {"move", "unlink", "compare", "drop"} /\ rec.cur.stage = s

Returning(s) ==
    \/ \E e \in Execs : exec[e].stage = s /\ exec[e].pc \in {"return", "unhide"}
    \/ rec.pc \in {"return", "unhide", "discard"} /\ rec.cur.stage = s

Opposed == \E s \in Stages : Hiding(s) /\ Returning(s)

\* Whatever executors that overlap, the reconciler, failing steps and crashes
\* do between the steps of each other, no copy that is needed is deleted.  The
\* reconciler, whose list may be older than the commit, leaves a committed
\* ciphertext alone; and of the copies of the content, which a move makes two
\* for a while, the last one stays unless the plaintext of one stage is moved
\* both ways at once (ReconcileEncryptionStages beside commitEncryptionStage).
CopiesAreKept == []CommittedIsKept /\ ([]~Opposed => []ContentIsKept)

\* A restore of commitEncryptionStage that succeeds leaves a copy of the content
\* (the test of restoreQuarantinedPlaintext reads it back from the source).
RestoreLeavesContent ==
    [][\A e \in Execs : exec[e].pc # "restored" /\ exec'[e].pc = "restored"
                            => plain' # {}]_vars

\* The file that the medium selects exists, also when the stage was taken over
\* from an earlier execution.
SelectedFileIsThere == selected \in Stages => selected \in cipher

\* An entry of the journal is open, or the plaintext is hidden for nothing.
Unfinished(s) ==
    \/ journal[s].state \in {"staged", "quarantining", "quarantined", "restore_pending"}
    \/ s \in plain /\ selected # s

\* Closed for an administrator, or out of tries.
GivenUp(s) == journal[s].state = "failed_closed" \/ journal[s].tries = MaxTries

\* The reconciler holds an entry whose stage an executor is still working on.
Contended ==
    \E r \in rec.todo, e \in Execs :
        exec[e].stage = r.stage /\ exec[e].pc \notin {"idle", "record", "over"}

\* As long as the reconciler and a living executor do not get at the same
\* stage, and passes of the reconciler do not fail for ever (faults are finite),
\* an encryption that is interrupted anywhere is settled: its plaintext comes
\* back and its entry is closed, by the executor or by the reconciler.
InterruptedWorkSettles ==
    []~Contended =>
        \A s \in Stages : Unfinished(s) ~> ~Unfinished(s) \/ GivenUp(s)
=============================================================================
