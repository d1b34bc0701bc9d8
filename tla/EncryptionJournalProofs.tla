----------------------- MODULE EncryptionJournalProofs -----------------------
(***************************************************************************)
(* Proofs about EncryptionJournal, for any number of executions, tries and *)
(* ends of the process.                                                    *)
(*                                                                         *)
(* The reconciler works from a list that may be older than everything the  *)
(* executors did since.  What saves the files is that an execution which   *)
(* once lost its row never owns it again: whatever the reconciler is about *)
(* to delete was journaled by such an execution, and so is not what an     *)
(* execution commits that journaled its stage itself.  Of the two copies   *)
(* that a move of plaintext makes for a while, the one that is not being   *)
(* deleted stays, unless a move in the other direction deletes it.         *)
(***************************************************************************)
EXTENDS EncryptionJournal, TLAPS

Working == {"check", "reserve", "move", "place", "unlink", "mark", "hash", "commit",
            "cleanup", "record", "restore", "return", "putback", "unhide", "restored"}

(* Executions are claimed in order and stage once; an entry of the journal *)
(* belongs to the execution that works on its stage and wrote it.          *)
Journaled ==
    /\ \A e \in Execs :
          /\ e > row.claims => exec[e].pc = "idle"
          /\ exec[e].pc \in {"idle", "stage"} => exec[e].stage = 0
          /\ exec[e].pc = "journal" => exec[e].stage \in Stages
          /\ exec[e].pc \in Working => exec[e].stage \in Stages /\ journal[exec[e].stage].by # 0
    /\ \A s \in Stages :
          /\ journal[s].by # 0 => journal[s].by <= row.claims /\ exec[journal[s].by].stage = s
          /\ journal[s].state = "none" <=> journal[s].by = 0

(* The reconciler has taken an entry up, and then to undo its execution.   *)
Busy == {"move", "place", "unlink", "compare", "drop", "mark", "restore", "discard",
         "return", "putback", "unhide", "remove", "write"}
Disposing == {"restore", "discard", "return", "putback", "unhide", "remove", "write"}

(* The execution will not own the row any more.                            *)
Lost(b) == b < row.claims \/ (b = row.claims /\ row.status = "waiting")

(* The stage that the reconciler is deleting was journaled by a lost one.  *)
Doomed ==
    /\ \A r \in rec.todo : journal[r.stage].by # 0
    /\ rec.pc \in Busy => rec.cur \in Items /\ journal[rec.cur.stage].by # 0
    /\ rec.pc \in Disposing => Lost(journal[rec.cur.stage].by)

(* A stage is selected with the end of the row, by the last execution.     *)
Selection ==
    /\ row.status # "done" => selected = Source
    /\ row.status = "done" =>
          /\ row.claims \in Execs
          /\ selected \in Stages /\ selected = exec[row.claims].stage
          /\ journal[selected].by # 0

(* Who is about to commit or to delete the plaintext may do so.            *)
Ready ==
    \A e \in Execs :
        /\ exec[e].pc = "commit" /\ Owns(e) /\ journal[exec[e].stage].by = e =>
              exec[e].stage \in cipher
        /\ exec[e].pc = "cleanup" =>
              selected = exec[e].stage /\ row.claims = e /\ journal[selected].by = e

Inv ==
    /\ TypeOK /\ Journaled /\ Doomed /\ Selection
    /\ Ready /\ CommittedIsKept

-----------------------------------------------------------------------------
(* Frames: steps that only move an executor or only the reconciler.        *)

(* Entries change, but no entry appears or changes hands.                  *)
EntriesKept ==
    \A s \in Stages : /\ journal'[s].by = journal[s].by
                      /\ journal'[s].state = "none" <=> journal[s].state = "none"

LEMMA ExecutorFrame ==
  ASSUME Inv, TypeOK', EntriesKept, NEW e \in Execs,
         exec[e].pc # "idle",
         \A f \in Execs \ {e} : exec'[f] = exec[f],
         exec'[e].stage = exec[e].stage,
         \/ exec'[e].pc = "over"
         \/ exec[e].pc \in Working /\ exec'[e].pc \in Working \ {"cleanup"},
         exec'[e].pc = "commit" => exec[e].stage \in cipher,
         row' = row, selected' = selected, cipher' = cipher, rec' = rec
  PROVE  Inv'
<1> USE DEF Inv, EntriesKept
<1>t. /\ \A r \in rec.todo : r.stage \in Stages
      /\ \A c \in Items : c.stage \in Stages
      /\ \A s \in Stages : journal[s].by \in Places
  BY DEF TypeOK, Items
<1>1. Journaled'
  <2> USE DEF Journaled, Working
  <2>1. \A f \in Execs : exec'[f].stage = exec[f].stage
    OBVIOUS
  <2>2. \A s \in Stages : journal[s].by # 0 => journal[s].by \in Execs
    BY <1>t DEF Places, Stages, Source
  <2> QED BY <2>1, <2>2
<1>2. Doomed'
  BY <1>t DEF Doomed, Lost, Busy, Disposing
<1>3. Selection'
  BY DEF Selection
<1>4. Ready'
  BY DEF Ready, Owns, Journaled, Working, Selection
<1>5. CommittedIsKept'
  BY DEF CommittedIsKept
<1> QED BY <1>1, <1>2, <1>3, <1>4, <1>5

LEMMA ReconcilerFrame ==
  ASSUME Inv, TypeOK', EntriesKept, Doomed',
         row' = row, selected' = selected, cipher' = cipher, exec' = exec
  PROVE  Inv'
<1> USE DEF Inv, EntriesKept
<1>1. Journaled'
  <2>1. \A s \in Stages : journal[s].by # 0 => journal[s].by \in Execs
    BY DEF TypeOK, Places, Stages, Source
  <2> QED BY <2>1 DEF Journaled
<1>3. Selection'
  BY DEF Selection
<1>4. Ready'
  BY DEF Ready, Owns, Journaled, Working, Selection
<1>5. CommittedIsKept'
  BY DEF CommittedIsKept
<1> QED BY <1>1, <1>3, <1>4, <1>5

-----------------------------------------------------------------------------
(* The shapes of an entry and of the reconciler's record.                  *)

Entry == [state : States, by : Places, hidden : BOOLEAN, tries : 0..MaxTries]

Passes == [pc : Phases,
           todo : SUBSET Items, cur : Items \cup {NoItem}, failed : BOOLEAN]

LEMMA PassShape ==
  ASSUME rec \in Passes
  PROVE  /\ Asleep \in Passes /\ Asleep.pc = "idle" /\ Asleep.todo = {}
         /\ Aborted \in Passes /\ Aborted.pc \in {"idle", "next"} /\ Aborted.todo = {}
         /\ \A r \in Items : \A next \in {Passed(r), Failed(r)} :
               next \in Passes /\ next.pc = "next" /\ next.todo \subseteq rec.todo
         /\ \A r \in Items, pc \in Busy : Doing(pc, r) =>
               /\ rec' \in Passes /\ rec'.pc = pc
               /\ rec'.cur = r /\ rec'.todo = rec.todo
<1>1. Asleep \in Passes /\ Asleep.pc = "idle" /\ Asleep.todo = {}
  BY DEF Asleep, Passes, Phases, Moves
<1>2. Aborted \in Passes /\ Aborted.pc \in {"idle", "next"} /\ Aborted.todo = {}
  BY <1>1 DEF Aborted, Asleep, Passes, Phases, Moves
<1>3. ASSUME NEW r \in Items
      PROVE  Passed(r) \in Passes /\ Passed(r).pc = "next" /\ Passed(r).todo \subseteq rec.todo
  BY DEF Passed, Passes, Phases, Moves
<1>4. ASSUME NEW r \in Items
      PROVE  Failed(r) \in Passes /\ Failed(r).pc = "next" /\ Failed(r).todo \subseteq rec.todo
  <2> DEFINE p == Passed(r)
  <2>1. Failed(r) = [p EXCEPT !.failed = (mode = "starting")]
    BY DEF Failed
  <2>2. p \in Passes /\ p.pc = "next" /\ p.todo \subseteq rec.todo
    BY <1>3
  <2> HIDE DEF p
  <2> QED BY <2>1, <2>2 DEF Passes
<1>5. ASSUME NEW r \in Items, NEW pc \in Busy, Doing(pc, r)
      PROVE  rec' \in Passes /\ rec'.pc = pc /\ rec'.cur = r /\ rec'.todo = rec.todo
  BY <1>5 DEF Doing, Passes, Busy, Phases, Moves
<1> QED BY <1>1, <1>2, <1>3, <1>4, <1>5

-----------------------------------------------------------------------------
(* Every step keeps the invariant.                                         *)

LEMMA InitInv == Init => Inv
<1> SUFFICES ASSUME Init PROVE Inv
  OBVIOUS
<1> USE BoundAssumption DEF Init, Stages, Source, Places
<1>1. TypeOK
  <2>1. /\ NoEntry \in [state : States, by : Places, hidden : BOOLEAN, tries : 0..MaxTries]
        /\ "idle" \in Steps /\ Source \in Places /\ 0 \in 0..MaxFaults /\ 0 \in 0..MaxExec
    BY DEF NoEntry, States, Steps, Moves
  <2>2. Asleep \in [pc : Phases, todo : SUBSET Items, cur : Items \cup {NoItem},
                    failed : BOOLEAN]
    BY DEF Asleep, Phases, Moves
  <2>3. /\ journal \in [Stages -> [state : States, by : Places, hidden : BOOLEAN,
                                   tries : 0..MaxTries]]
        /\ exec \in [Execs -> [pc : Steps, stage : Places]]
        /\ row \in [status : {"waiting", "running", "done"}, claims : 0..MaxExec]
    BY <2>1
  <2> QED BY <2>1, <2>2, <2>3 DEF TypeOK
<1>2. Journaled
  BY DEF Journaled, NoEntry, Execs, Working
<1>3. Doomed
  BY DEF Doomed, Asleep, Busy, Disposing
<1>4. Selection /\ Ready /\ CommittedIsKept
  BY DEF Selection, Ready, CommittedIsKept, Execs
<1> QED BY <1>1, <1>2, <1>3, <1>4 DEF Inv

(* Claim, LoseRow and Publish. *)
LEMMA RowInv ==
  ASSUME Inv, Claim \/ LoseRow \/ Publish
  PROVE  Inv'
<1> USE DEF Inv
<1>t. /\ \A s \in Stages : journal[s].by \in Places
      /\ row.claims \in Nat /\ row.claims <= MaxExec
      /\ \A r \in rec.todo : r.stage \in Stages
      /\ \A c \in Items : c.stage \in Stages
  BY BoundAssumption DEF TypeOK, Items
<1>b. \A s \in Stages : journal[s].by \in Nat /\ (journal[s].by # 0 => journal[s].by \in Execs)
  BY <1>t DEF Places, Stages, Execs, Source
<1>1. CASE Claim
  <2> USE <1>1 DEF Claim, files, process
  <2> DEFINE c == row.claims + 1
  <2>1. /\ c \in Execs /\ exec[c].pc = "idle" /\ exec[c].stage = 0
        /\ row' = [status |-> "running", claims |-> c] /\ selected = Source
    <3>1. c \in Execs /\ c > row.claims
      BY <1>t, BoundAssumption DEF Execs
    <3> QED BY <3>1 DEF Journaled, Selection
  <2>2. /\ exec' \in [Execs -> [pc : Steps, stage : Places]]
        /\ exec'[c].pc = "stage" /\ exec'[c].stage = 0
        /\ \A e \in Execs \ {c} : exec'[e] = exec[e]
        /\ \A e \in Execs : exec'[e].stage = exec[e].stage
    BY <2>1 DEF TypeOK, Steps, Moves
  <2> HIDE DEF c
  <2>3. TypeOK'
    BY <2>1, <2>2, BoundAssumption DEF TypeOK, Execs
  <2>4. Journaled'
    BY <1>t, <1>b, <2>1, <2>2 DEF Journaled, Working, Execs, c
  <2>5. Doomed'
    BY <1>t, <1>b, <2>1 DEF Doomed, Lost, c, Journaled, Busy, Disposing
  <2>6. Selection' /\ CommittedIsKept'
    BY <2>1, BoundAssumption DEF Selection, CommittedIsKept, Stages, Execs, Source
  <2>7. Ready'
    <3>1. \A e \in Execs : exec[e].pc # "cleanup"
      BY <2>1, BoundAssumption DEF Ready, Journaled, Working, Stages, Execs, Source
    <3>2. \A e \in Execs : exec'[e].pc = "commit" => e # c
      BY <2>2
    <3> QED BY <2>1, <2>2, <3>1, <3>2 DEF Ready, Owns
  <2> QED BY <2>3, <2>4, <2>5, <2>6, <2>7
<1>2. CASE LoseRow \/ Publish
  <2> USE <1>2 DEF LoseRow, Publish, files, process
  <2>1. /\ row'.claims = row.claims
        /\ row' = row \/ (row.status = "running" /\ row'.status = "waiting")
        /\ TypeOK'
    BY DEF TypeOK
  <2>2. Journaled'
    BY <2>1 DEF Journaled
  <2>3. Doomed'
    BY <1>t, <1>b, <2>1 DEF Doomed, Lost, Busy, Disposing
  <2>4. Selection' /\ Ready' /\ CommittedIsKept'
    BY <2>1 DEF Selection, Ready, Owns, CommittedIsKept
  <2> QED BY <2>1, <2>2, <2>3, <2>4
<1> QED BY <1>1, <1>2

(* The executor's steps that create a stage, write its entry, commit and   *)
(* delete the plaintext; all others only move it on (ExecutorFrame).       *)
LEMMA StageInv ==
  ASSUME Inv, NEW e \in Execs, StageMedia(e)
  PROVE  Inv'
<1> USE DEF Inv, StageMedia, files, process, Goto
<1> DEFINE s == IF resume \in cipher THEN resume ELSE e
<1>1. CASE ~(Owns(e) /\ selected = Source /\ Source \in plain)
  <2>1. /\ exec' = [exec EXCEPT ![e].pc = "over"]
        /\ UNCHANGED <<legacy, plain, cipher, selected, resume, journal, row,
                       published, rec, mode, faults>>
    BY <1>1
  <2>2. TypeOK'
    BY <2>1 DEF TypeOK, Steps, Moves
  <2> QED BY <2>1, <2>2, ExecutorFrame DEF TypeOK, EntriesKept
<1>2. CASE Owns(e) /\ selected = Source /\ Source \in plain
  <2>1. /\ s \in Stages /\ s # 0 /\ cipher' = cipher \cup {s} /\ resume' = s
        /\ exec' = [exec EXCEPT ![e] = [pc |-> "journal", stage |-> s]]
        /\ exec[e].stage = 0 /\ exec[e].pc = "stage"
        /\ UNCHANGED <<legacy, plain, selected, journal, row, published, rec, mode, faults>>
    BY <1>2, BoundAssumption DEF TypeOK, Stages, Execs, Journaled
  <2> HIDE DEF s
  <2>2. /\ exec'[e].pc = "journal" /\ exec'[e].stage = s
        /\ \A f \in Execs \ {e} : exec'[f] = exec[f]
    BY <2>1 DEF TypeOK
  <2>3. TypeOK'
    BY <2>1 DEF TypeOK, Steps, Moves, Places
  <2>4. Journaled'
    <3>1. \A t \in Stages : journal[t].by # 0 => journal[t].by \in Execs \ {e}
      BY <2>1, BoundAssumption DEF TypeOK, Journaled, Places, Stages, Execs, Source
    <3> QED BY <1>2, <2>1, <2>2, <3>1, BoundAssumption DEF Journaled, Owns, Working, Execs
  <2>5. Doomed' /\ Selection'
    BY <1>2, <2>1, <2>2 DEF Doomed, Lost, Selection, Owns, Busy, Disposing
  <2>6. Ready' /\ CommittedIsKept'
    BY <2>1, <2>2 DEF Ready, Owns, CommittedIsKept
  <2> QED BY <2>3, <2>4, <2>5, <2>6
<1> QED BY <1>1, <1>2

LEMMA InsertInv ==
  ASSUME Inv, NEW e \in Execs, InsertJournal(e)
  PROVE  Inv'
<1> USE DEF Inv, InsertJournal, files, process, Goto
<1> DEFINE s == exec[e].stage
<1>1. /\ s \in Stages /\ exec[e].pc = "journal"
      /\ exec' = [exec EXCEPT ![e].pc = "check"]
      /\ UNCHANGED <<legacy, plain, cipher, selected, resume, row, published, rec, mode, faults>>
      /\ row.claims \in Nat /\ e <= row.claims /\ e \in Nat /\ e # 0
  BY BoundAssumption DEF Journaled, TypeOK, Execs
<1>2. /\ exec'[e].pc = "check" /\ \A f \in Execs : exec'[f].stage = exec[f].stage
      /\ \A f \in Execs \ {e} : exec'[f] = exec[f]
  BY <1>1 DEF TypeOK
<1>3. /\ journal'[s].by # 0 /\ journal'[s].state # "none"
      /\ journal'[s].by = journal[s].by \/ (journal[s].by = 0 /\ journal'[s].by = e)
      /\ \A t \in Stages \ {s} : journal'[t] = journal[t]
  BY <1>1 DEF TypeOK, Journaled, NoEntry
<1>4. TypeOK'
  <2> DEFINE new == [state |-> "staged", by |-> e, hidden |-> FALSE, tries |-> 0]
  <2>1. new \in Entry
    BY <1>1, BoundAssumption DEF Entry, States, Places, Stages
  <2>2. journal \in [Stages -> Entry]
    BY DEF TypeOK, Entry
  <2>3. journal' = [journal EXCEPT ![s] = new] \/ journal' = journal
    OBVIOUS
  <2>4. journal' \in [Stages -> Entry]
    <3> HIDE DEF new
    <3> QED BY <2>1, <2>2, <2>3
  <2>5. exec' \in [Execs -> [pc : Steps, stage : Places]]
    BY <1>1 DEF TypeOK, Steps, Moves
  <2> QED BY <1>1, <2>4, <2>5 DEF TypeOK, Entry
<1> HIDE DEF s
<1>5. Journaled'
  <2>1. \A t \in Stages : journal[t].by # 0 => journal[t].by \in Execs
    BY DEF TypeOK, Places, Stages, Source
  <2>2. s = exec[e].stage /\ s \in Stages
    BY <1>1 DEF s
  <2>3. \A f \in Execs :
           /\ f > row.claims => exec'[f].pc = "idle"
           /\ exec'[f].pc \in {"idle", "stage"} => exec'[f].stage = 0
           /\ exec'[f].pc = "journal" => exec'[f].stage \in Stages
    BY <1>1, <1>2, <2>2 DEF Journaled
  <2>4. \A f \in Execs : exec'[f].pc \in Working =>
                            exec'[f].stage \in Stages /\ journal'[exec'[f].stage].by # 0
    BY <1>1, <1>2, <1>3, <2>2 DEF Journaled, Working
  <2>5. \A t \in Stages : journal'[t].by # 0 =>
                             journal'[t].by <= row.claims /\ exec'[journal'[t].by].stage = t
    BY <1>1, <1>2, <1>3, <2>1, <2>2 DEF Journaled
  <2>6. \A t \in Stages : journal'[t].state = "none" <=> journal'[t].by = 0
    BY <1>3 DEF Journaled
  <2> QED BY <1>1, <2>3, <2>4, <2>5, <2>6 DEF Journaled
<1>6. Doomed'
  <2>1. /\ \A r \in rec.todo : r.stage \in Stages
        /\ \A c \in Items : c.stage \in Stages
    BY DEF TypeOK, Items
  <2>2. \A t \in Stages : journal[t].by # 0 => journal'[t].by = journal[t].by
    BY <1>3
  <2>3. /\ \A r \in rec.todo : r.stage \in Stages /\ journal'[r.stage].by = journal[r.stage].by
        /\ rec.pc \in Busy =>
              rec.cur \in Items /\ journal'[rec.cur.stage].by = journal[rec.cur.stage].by
    BY <2>1, <2>2 DEF Doomed, Busy, Disposing
  <2> QED BY <1>1, <2>3 DEF Doomed, Lost, Busy, Disposing
<1>7. Selection'
  BY <1>1, <1>2, <1>3 DEF Selection
<1>8. Ready'
  <2>1. \A f \in Execs \ {e} : exec[f].pc \in {"commit", "cleanup"} =>
           exec[f].stage \in Stages /\ journal'[exec[f].stage].by = journal[exec[f].stage].by
    BY <1>3 DEF Journaled, Working
  <2> QED BY <1>1, <1>2, <2>1 DEF Ready, Owns
<1>9. CommittedIsKept'
  <2>1. selected \in Stages => journal'[selected].by = journal[selected].by
    <3>1. 0 \notin Stages
      BY DEF Stages, Execs
    <3> QED BY <1>3, <3>1 DEF Selection, TypeOK, Source
  <2> QED BY <1>1, <2>1 DEF CommittedIsKept
<1> QED BY <1>4, <1>5, <1>6, <1>7, <1>8, <1>9

LEMMA CommitInv ==
  ASSUME Inv, NEW e \in Execs, Commit(e)
  PROVE  Inv'
<1> USE DEF Inv, Commit, files, process, Goto
<1> DEFINE s == exec[e].stage
<1>1. /\ s \in Stages /\ exec[e].pc = "commit" /\ Owns(e) /\ selected = Source
      /\ journal[s].by # 0 /\ selected' = s /\ row' = [row EXCEPT !.status = "done"]
      /\ UNCHANGED <<legacy, plain, cipher, resume, rec, mode, faults>>
      /\ published' \in BOOLEAN
  BY DEF Journaled, Working
<1>2. PICK next \in {IF legacy THEN "cleanup" ELSE "record", "over"} :
         exec' = [exec EXCEPT ![e].pc = next]
  OBVIOUS
<1>3. /\ next \in {"cleanup", "record", "over"}
      /\ exec'[e].pc = next /\ next = "cleanup" => legacy
      /\ \A f \in Execs : exec'[f].stage = exec[f].stage
      /\ \A f \in Execs \ {e} : exec'[f] = exec[f]
  BY <1>2 DEF TypeOK
<1>4. EntriesKept
  BY <1>1 DEF EntriesKept, TypeOK
<1>5. /\ row.claims = e /\ row.status = "running"
      /\ row'.claims = e /\ row'.status = "done" /\ 0 \notin Stages
  BY <1>1 DEF Owns, TypeOK, Stages, Execs
<1>6. legacy => journal[s].by = e
  BY DEF Fenced
<1>7. TypeOK'
  BY <1>1, <1>2, <1>3 DEF TypeOK, Steps, Moves, States, Places
<1> HIDE DEF s
<1>8. Journaled'
  <2>1. \A t \in Stages : journal[t].by # 0 => journal[t].by \in Execs
    BY DEF TypeOK, Places, Stages, Source
  <2> QED BY <1>1, <1>3, <1>4, <1>5, <2>1 DEF Journaled, Working, EntriesKept, s
<1>9. Doomed'
  BY <1>1, <1>4, <1>5 DEF Doomed, Lost, EntriesKept, TypeOK, Items, Busy, Disposing
<1>10. Selection'
  BY <1>1, <1>3, <1>4, <1>5 DEF Selection, EntriesKept, s
<1>11. Ready'
  <2>1. \A f \in Execs : exec[f].pc # "cleanup"
    BY <1>1, <1>5 DEF Ready, Journaled, Working, Source
  <2> QED BY <1>1, <1>3, <1>4, <1>5, <1>6, <2>1 DEF Ready, Owns, EntriesKept, s
<1>12. CommittedIsKept'
  BY <1>1, <1>4, <1>5 DEF CommittedIsKept, Ready, EntriesKept, Source, s
<1> QED BY <1>7, <1>8, <1>9, <1>10, <1>11, <1>12

LEMMA CleanupInv ==
  ASSUME Inv, NEW e \in Execs, Cleanup(e)
  PROVE  Inv'
<1> USE DEF Inv, Cleanup, db, process, Goto
<1>1. TypeOK'
  BY DEF TypeOK, Steps, Moves, Places
<1>2. /\ \A f \in Execs \ {e} : exec'[f] = exec[f]
      /\ exec'[e].pc = "record" /\ exec'[e].stage = exec[e].stage
      /\ \A f \in Execs : exec'[f].stage = exec[f].stage
      /\ exec[e].stage \in Stages /\ selected = exec[e].stage
      /\ row.claims = e /\ journal[selected].by = e
  BY DEF TypeOK, Ready, Journaled, Working
<1>3. Journaled'
  <2>1. \A t \in Stages : journal[t].by # 0 => journal[t].by \in Execs
    BY DEF TypeOK, Places, Stages, Source
  <2> QED BY <1>2, <2>1 DEF Journaled, Working
<1>4. Doomed' /\ Selection'
  BY <1>2 DEF Doomed, Lost, Selection, Busy, Disposing
<1>5. Ready' /\ CommittedIsKept'
  BY <1>2 DEF Ready, Owns, CommittedIsKept
<1> QED BY <1>1, <1>3, <1>4, <1>5

LEMMA ExecutorInv ==
  ASSUME Inv, NEW e \in Execs, ExecutorStep(e) \/ Interrupt(e)
  PROVE  Inv'
<1> USE DEF Inv, files, db, process, Goto
<1>t. /\ exec \in [Execs -> [pc : Steps, stage : Places]]
      /\ exec[e].pc \in Working => exec[e].stage \in Stages /\ journal[exec[e].stage].state # "none"
  BY DEF TypeOK, Journaled
<1>1. CASE Check(e) \/ CommitFails(e) \/ Interrupt(e)
  <2> USE <1>1 DEF Check, CommitFails, Interrupt
  <2>1. PICK pc \in {"over", "reserve", "hash", "restore"} :
           /\ exec' = [exec EXCEPT ![e].pc = pc]
           /\ exec[e].pc # "idle" /\ (pc # "over" => exec[e].pc \in Working)
    BY DEF Working
  <2>2. UNCHANGED <<legacy, plain, cipher, selected, resume, journal, row, published,
                   rec, mode, faults>>
    OBVIOUS
  <2>3. TypeOK'
    BY <2>1, <2>2 DEF TypeOK, Steps, Moves
  <2> QED BY <1>t, <2>1, <2>2, <2>3, ExecutorFrame DEF EntriesKept, Working
<1>2. CASE Hash(e)
  <2>1. TypeOK'
    BY <1>2 DEF Hash, TypeOK, Steps
  <2> QED BY <1>2, <1>t, <2>1, ExecutorFrame DEF Hash, EntriesKept, Working
<1>3. CASE Reserve(e) \/ Mark(e)
  <2> USE <1>3 DEF Reserve, Mark
  <2>1. EntriesKept
    <3>1. exec[e].stage \in Stages /\ journal[exec[e].stage].state # "none"
      BY <1>t DEF Working
    <3>2. journal \in [Stages -> Entry]
      BY DEF TypeOK, Entry
    <3>3. \/ UNCHANGED journal
          \/ journal' = [journal EXCEPT ![exec[e].stage].state = "quarantining",
                                        ![exec[e].stage].hidden = TRUE]
          \/ journal' = [journal EXCEPT ![exec[e].stage].state = "quarantined"]
      OBVIOUS
    <3> HIDE DEF Inv
    <3> HIDE <1>3
    <3> QED BY <3>1, <3>2, <3>3 DEF EntriesKept, Entry
  <2>2. TypeOK'
    <3>1. exec' \in [Execs -> [pc : Steps, stage : Places]]
      BY <1>t DEF Steps, Moves
    <3>2. journal' \in [Stages -> [state : States, by : Places, hidden : BOOLEAN,
                                  tries : 0..MaxTries]]
      BY DEF TypeOK, States
    <3> QED BY <3>1, <3>2 DEF TypeOK
  <2> QED BY <1>t, <2>1, <2>2, ExecutorFrame DEF Working, Ready, Hash
<1>4. CASE MoveAway(e) \/ Restore(e) \/ Return(e)
  <2> USE <1>4 DEF MoveAway, Restore, Return
  <2>1. PICK pc \in {"place", "unlink", "mark", "return", "putback", "unhide",
                     "restored", "over"} :
           /\ exec' = [exec EXCEPT ![e].pc = pc]
           /\ exec[e].pc \in Working
    BY DEF Working, Moves, Hide, BringBack
  <2>2. plain' \subseteq Places
    BY <1>t, <2>1 DEF TypeOK, Places, Hide, BringBack, Rename, Put, Delete
  <2>3. UNCHANGED <<legacy, cipher, selected, resume, journal, row, published, rec, mode, faults>>
    OBVIOUS
  <2>4. TypeOK'
    BY <2>1, <2>2, <2>3 DEF TypeOK, Steps, Moves
  <2> QED BY <1>t, <2>1, <2>3, <2>4, ExecutorFrame DEF EntriesKept, Working, Moves
<1>5. CASE Record(e) \/ RestoreFails(e) \/ RecordRestored(e)
  <2> USE <1>5 DEF Record, RestoreFails, RecordRestored
  <2>1. EntriesKept
    <3>1. exec[e].stage \in Stages /\ journal[exec[e].stage].state # "none"
      BY <1>t DEF Working
    <3>2. CASE Record(e)
      BY <3>1, <3>2 DEF EntriesKept, TypeOK
    <3>3. CASE RestoreFails(e)
      BY <3>1, <3>3 DEF EntriesKept, TypeOK
    <3>4. CASE RecordRestored(e)
      BY <3>1, <3>4 DEF EntriesKept, TypeOK
    <3> QED BY <3>2, <3>3, <3>4
  <2>2. TypeOK'
    <3>1. exec' \in [Execs -> [pc : Steps, stage : Places]]
      BY <1>t DEF Steps, Moves
    <3>2. journal' \in [Stages -> Entry]
      <4>1. /\ exec[e].stage \in Stages /\ journal \in [Stages -> Entry]
            /\ {"verified", "failed_closed", "restored"} \subseteq States
        BY <1>t DEF TypeOK, Entry, Working, States
      <4> DEFINE s == exec[e].stage
      <4>2. \/ journal' = journal
            \/ \E state \in {"verified", "failed_closed", "restored"} :
                  \/ journal' = [journal EXCEPT ![s].state = state]
                  \/ journal' = [journal EXCEPT ![s].state = state, ![s].hidden = FALSE]
        BY DEF Record
      <4> HIDE DEF s
      <4>3. s \in Stages
        BY <4>1 DEF s
      <4>4. ASSUME NEW state \in {"verified", "failed_closed", "restored"}
            PROVE  /\ [journal EXCEPT ![s].state = state] \in [Stages -> Entry]
                   /\ [journal EXCEPT ![s].state = state, ![s].hidden = FALSE] \in [Stages -> Entry]
        <5>1. state \in States
          BY DEF States
        <5>2. journal \in [Stages -> Entry]
          BY <4>1
        <5> DEFINE j == [journal EXCEPT ![s].state = state]
        <5>3. j \in [Stages -> Entry]
          BY ONLY <4>3, <5>1, <5>2 DEF Entry
        <5>4. [journal EXCEPT ![s].state = state, ![s].hidden = FALSE] =
                [j EXCEPT ![s].hidden = FALSE]
          BY ONLY <4>3, <5>2 DEF Entry
        <5> HIDE DEF j
        <5>5. [j EXCEPT ![s].hidden = FALSE] \in [Stages -> Entry]
          BY ONLY <4>3, <5>3 DEF Entry
        <5> QED BY ONLY <5>3, <5>4, <5>5 DEF j
      <4> QED BY ONLY <4>1, <4>2, <4>4
    <3> QED BY <3>1, <3>2 DEF TypeOK, Entry
  <2> QED BY <1>t, <2>1, <2>2, ExecutorFrame DEF Working
<1> QED BY <1>1, <1>2, <1>3, <1>4, <1>5, StageInv, InsertInv, CommitInv, CleanupInv
        DEF ExecutorStep

(* What the reconciler takes up as stale was journaled by a lost execution. *)
LEMMA ReconcilerInv ==
  ASSUME Inv, ReconcilerStep \/ AbortPass
  PROVE  Inv'
<1> USE DEF Inv, files, db, process
<1>t. /\ \A r \in rec.todo : r \in Items /\ r.stage \in Stages /\ journal[r.stage].by # 0
      /\ rec.pc \in Busy =>
            rec.cur \in Items /\ rec.cur.stage \in Stages /\ journal[rec.cur.stage].state # "none"
      /\ \A s \in Stages : journal[s].by # 0 => journal[s].by \in Execs
  BY DEF TypeOK, Items, Doomed, Journaled, Places, Stages, Source, Busy, Disposing
<1>r. rec \in Passes
  BY DEF TypeOK, Passes
<1>1. CASE List
  <2> USE <1>1 DEF List
  <2>1. Batch \subseteq Items /\ \A r \in Batch : journal[r.stage].by # 0
    BY DEF Batch, Listed, Items, TypeOK, Journaled
  <2>2. rec'.todo = Batch /\ rec'.pc = "next"
    BY DEF Asleep
  <2>3. TypeOK'
    BY <2>1 DEF TypeOK, Asleep, Phases
  <2>4. Doomed'
    BY <2>1, <2>2 DEF Doomed, Busy, Disposing
  <2> QED BY <2>3, <2>4, ReconcilerFrame DEF EntriesKept
<1>2. CASE Look
  <2> USE <1>2 DEF Look
  <2>1. PICK r \in rec.todo :
           LookCommitted(r) \/ LookActive(r) \/ LookQuarantining(r) \/ LookStale(r)
    OBVIOUS
  <2> USE <2>1 DEF LookCommitted, LookActive, LookQuarantining, LookStale
  <2>2. EntriesKept
    BY <1>t DEF EntriesKept, TypeOK
  <2>3. row' = row /\ selected' = selected /\ cipher' = cipher /\ exec' = exec
    OBVIOUS
  <2>5. /\ rec' \in Passes /\ rec'.todo \subseteq rec.todo
        /\ rec'.pc \in Busy => rec'.cur = r
        /\ rec'.pc \in Disposing => LookStale(r)
    <3>1. r \in Items
      BY <1>t
    <3>2. CASE LookCommitted(r) \/ LookActive(r)
      <4>1. rec' \in {Passed(r), Failed(r)}
        BY <3>2
      <4> QED BY <4>1, <3>1, <1>r, PassShape DEF Busy, Disposing
    <3>3. CASE LookQuarantining(r)
      <4>1. rec' = Aborted \/ \E pc \in {"move", "mark", "compare"} : Doing(pc, r)
        BY <3>3
      <4> QED BY <4>1, <3>1, <1>r, PassShape DEF Busy, Disposing, Phases, Moves
    <3>4. CASE LookStale(r)
      <4>1. Doing("restore", r) \/ Doing("remove", r)
        BY <3>4
      <4> QED BY <4>1, <3>1, <3>4, <1>r, PassShape DEF Busy, Phases, Moves
    <3> QED BY <3>2, <3>3, <3>4
  <2>6. LookStale(r) => Lost(journal[r.stage].by)
    <3> SUFFICES ASSUME LookStale(r) PROVE Lost(journal[r.stage].by)
      OBVIOUS
    <3> DEFINE b == journal[r.stage].by
    <3>1. /\ b \in Execs /\ b <= row.claims /\ exec[b].stage = r.stage
          /\ row.claims \in Nat /\ row.status \in {"waiting", "running", "done"}
      BY <1>t DEF Journaled, TypeOK
    <3>2. selected # r.stage /\ ~Owns(b)
      OBVIOUS
    <3>3. CASE b = row.claims
      BY <3>1, <3>2, <3>3 DEF Selection, Owns, Lost
    <3>4. CASE b # row.claims
      BY <3>1, <3>4 DEF Lost, Execs
    <3> QED BY <3>3, <3>4
  <2>7. Doomed'
    <3>1. Lost(journal[r.stage].by) => Lost(journal[r.stage].by)'
      BY <1>t, <2>2, <2>3 DEF Lost, EntriesKept
    <3> QED BY <1>t, <2>2, <2>5, <2>6, <3>1 DEF Doomed, EntriesKept, Busy, Disposing
  <2>8. TypeOK'
    <3>1. rec' \in Passes
      BY <2>5
    <3>2. plain' \subseteq Places
      BY DEF TypeOK
    <3>3. journal' \in [Stages -> [state : States, by : Places, hidden : BOOLEAN,
                                  tries : 0..MaxTries]]
      BY DEF TypeOK, States
    <3> QED BY <3>1, <3>2, <3>3 DEF TypeOK, Passes
  <2> QED BY <2>2, <2>3, <2>7, <2>8, ReconcilerFrame
<1>3. CASE MarkQuarantined \/ PutBackFails \/ WriteRestored
  <2> USE <1>3 DEF MarkQuarantined, PutBackFails, WriteRestored
  <2>0. rec' \in Passes /\ rec'.pc = "next" /\ rec'.todo \subseteq rec.todo
    <3>1. rec.cur \in Items /\ rec' \in {Passed(rec.cur), Failed(rec.cur)}
      BY DEF Doomed, Busy, Disposing
    <3> QED BY <3>1, <1>r, PassShape
  <2>1. EntriesKept
    <3> DEFINE s == rec.cur.stage
    <3>1. s \in Stages /\ journal[s].state # "none"
      BY <1>t DEF Busy
    <3>2. journal \in [Stages -> Entry]
      BY DEF TypeOK, Entry
    <3>3. \/ UNCHANGED journal
          \/ journal' = [journal EXCEPT ![s].state = "quarantined"]
          \/ journal' = [journal EXCEPT ![s].state = "restored", ![s].hidden = FALSE]
          \/ \E n \in {"failed_closed", "restore_pending"} :
                journal' = [journal EXCEPT ![s].state = n, ![s].tries = @ + 1]
      OBVIOUS
    <3> HIDE DEF Inv, s
    <3> HIDE <1>3
    <3> QED BY <3>1, <3>2, <3>3 DEF EntriesKept, Entry
  <2>2. TypeOK'
    <3>2. journal' \in [Stages -> [state : States, by : Places, hidden : BOOLEAN,
                                  tries : 0..MaxTries]]
      BY <1>t, BoundAssumption DEF TypeOK, States
    <3> QED BY <2>0, <3>2 DEF TypeOK, Passes
  <2>3. Doomed'
    BY <1>t, <2>0, <2>1 DEF Doomed, EntriesKept, Busy, Disposing
  <2> QED BY <2>1, <2>2, <2>3, ReconcilerFrame
<1>4. CASE CarryOut \/ Compare \/ Drop
  <2> USE <1>4 DEF CarryOut, Compare, Drop
  <2>0. /\ rec.cur \in Items /\ rec.cur.stage \in Stages
        /\ rec' = Aborted \/ \E pc \in {"place", "unlink", "mark", "drop"} : Doing(pc, rec.cur)
    BY <1>t DEF Hide, Busy, Phases, Moves
  <2>1. /\ rec' \in Passes /\ rec'.todo \subseteq rec.todo
        /\ rec'.pc \in Busy => rec'.cur = rec.cur
        /\ rec'.pc \notin Disposing
    BY <1>r, <2>0, PassShape DEF Busy, Disposing, Phases, Moves
  <2>2. plain' \subseteq Places
    BY <2>0 DEF TypeOK, Places, Hide, Rename, Put, Delete
  <2>3. TypeOK'
    BY <2>1, <2>2 DEF TypeOK, Passes
  <2>4. Doomed'
    BY <1>t, <2>0, <2>1 DEF Doomed, Hide, Busy, Phases, Moves, Disposing
  <2> QED BY <2>3, <2>4, ReconcilerFrame DEF EntriesKept
<1>5. CASE PutBack \/ Discard \/ TakeOut
  <2> USE <1>5 DEF PutBack, Discard, TakeOut
  <2>0. /\ rec.cur \in Items /\ rec.cur.stage \in Stages /\ rec.pc \in Disposing
        /\ \E pc \in {"discard", "return", "putback", "unhide", "remove"} : Doing(pc, rec.cur)
    BY <1>t DEF BringBack, Busy, Disposing, Phases, Moves
  <2>1. rec' \in Passes /\ rec'.todo = rec.todo /\ rec'.cur = rec.cur
    BY <1>r, <2>0, PassShape DEF Busy, Phases, Moves
  <2>2. plain' \subseteq Places
    BY <2>0 DEF TypeOK, Places, BringBack, Rename, Put, Delete
  <2>3. TypeOK'
    BY <2>1, <2>2 DEF TypeOK, Passes
  <2>4. Doomed'
    BY <2>0, <2>1 DEF Doomed, Lost, Busy, Disposing, Phases, Moves
  <2> QED BY <2>3, <2>4, ReconcilerFrame DEF EntriesKept
<1>6. CASE RemoveCipher
  <2> USE <1>6 DEF RemoveCipher
  <2>0. rec' \in Passes /\ rec'.pc = "write" /\ rec'.cur = rec.cur /\ rec'.todo = rec.todo
    BY <1>r, PassShape DEF Doomed, Busy, Disposing
  <2>1. TypeOK'
    BY <2>0 DEF TypeOK, Passes
  <2>2. Journaled' /\ Selection'
    BY DEF Journaled, Selection
  <2>3. Doomed'
    BY <2>0 DEF Doomed, Lost, Busy, Disposing
  <2>4. Lost(journal[rec.cur.stage].by)
    BY DEF Doomed, Busy, Disposing
  <2>5. CommittedIsKept'
    BY <2>4 DEF CommittedIsKept, Lost, Selection, TypeOK, Source, Stages, Execs
  <2>6. Ready'
    BY <2>4 DEF Ready, Lost, Owns, TypeOK
  <2> QED BY <2>1, <2>2, <2>3, <2>5, <2>6
<1>7. CASE EndPass
  <2>1. TypeOK' /\ Doomed'
    BY <1>7 DEF EndPass, TypeOK, Doomed, Asleep, Phases, Busy, Disposing
  <2> QED BY <1>7, <2>1, ReconcilerFrame DEF EndPass, EntriesKept
<1>8. CASE AbortPass
  <2>1. rec' \in Passes /\ rec'.todo = {} /\ rec'.pc \in {"idle", "next"}
    BY <1>8, <1>r, PassShape DEF AbortPass
  <2>2. faults' \in 0..MaxFaults
    BY <1>8, BoundAssumption DEF AbortPass, TypeOK
  <2>3. TypeOK'
    BY <1>8, <2>1, <2>2 DEF AbortPass, TypeOK, Passes
  <2>4. Doomed'
    BY <2>1 DEF Doomed, Busy, Disposing
  <2> QED BY <1>8, <2>3, <2>4, ReconcilerFrame DEF AbortPass, EntriesKept
<1> QED BY <1>1, <1>2, <1>3, <1>4, <1>5, <1>6, <1>7, <1>8 DEF ReconcilerStep

LEMMA ProcessInv ==
  ASSUME Inv, Crash \/ Start \/ Started \/ StartFails
  PROVE  Inv'
<1> USE DEF Inv, files, db
<1>1. CASE Crash
  <2> USE <1>1 DEF Crash
  <2>1. \A e \in Execs : /\ exec'[e].stage = exec[e].stage
                         /\ exec'[e].pc = IF exec[e].pc = "idle" THEN "idle" ELSE "over"
    BY DEF TypeOK
  <2>2. TypeOK'
    <3>1. exec' \in [Execs -> [pc : Steps, stage : Places]]
      BY DEF TypeOK, Steps, Moves
    <3>2. faults' \in 0..MaxFaults
      BY BoundAssumption DEF TypeOK
    <3> QED BY <3>1, <3>2 DEF TypeOK, Asleep, Phases
  <2>3. Journaled'
    <3>1. \A s \in Stages : journal[s].by # 0 => journal[s].by \in Execs
      BY DEF TypeOK, Places, Stages, Source
    <3> QED BY <2>1, <3>1 DEF Journaled, Working
  <2>4. Doomed' /\ Selection' /\ Ready' /\ CommittedIsKept'
    BY <2>1 DEF Doomed, Asleep, Selection, Ready, CommittedIsKept, Busy, Disposing
  <2> QED BY <2>2, <2>3, <2>4
<1>2. CASE Start \/ StartFails
  <2> USE <1>2 DEF Start, StartFails
  <2>1. rec' = rec \/ rec' = Asleep
    OBVIOUS
  <2>2. TypeOK'
    <3>1. rec' \in Passes
      BY <2>1, PassShape DEF TypeOK, Passes
    <3> QED BY <3>1 DEF TypeOK, Passes
  <2>3. Doomed'
    BY <2>1 DEF Doomed, Lost, Asleep, Busy, Disposing
  <2> QED BY <2>2, <2>3, ReconcilerFrame DEF EntriesKept
<1>3. CASE Started
  <2> USE <1>3 DEF Started
  <2>1. /\ row'.claims = row.claims
        /\ row' = row \/ (row.status = "running" /\ row'.status = "waiting")
    BY DEF TypeOK
  <2>2. TypeOK'
    BY DEF TypeOK, Asleep, Phases
  <2>3. Journaled'
    BY <2>1 DEF Journaled
  <2>4. Doomed'
    BY DEF Doomed, Asleep, Busy, Disposing
  <2>5. Selection' /\ Ready' /\ CommittedIsKept'
    BY <2>1 DEF Selection, Ready, Owns, CommittedIsKept
  <2> QED BY <2>2, <2>3, <2>4, <2>5
<1> QED BY <1>1, <1>2, <1>3

LEMMA StutterInv ==
  ASSUME Inv, UNCHANGED vars
  PROVE  Inv'
<1> USE DEF Inv, vars, files, db, process
<1>1. TypeOK' /\ Journaled' /\ Selection' /\ CommittedIsKept'
  BY DEF TypeOK, Journaled, Selection, CommittedIsKept
<1>2. Doomed' /\ Ready'
  BY DEF Doomed, Lost, Ready, Owns, Busy, Disposing
<1> QED BY <1>1, <1>2

-----------------------------------------------------------------------------
(* Two copies of the plaintext, and who deletes one of them.               *)

(* What a run has published is there: nobody needs the plaintext.          *)
Committed == selected \in Stages /\ journal[selected].by = row.claims

(* Someone is about to delete the copy in the quarantine of a stage.       *)
Closing(p) ==
    \/ \E e \in Execs : exec[e].stage = p /\ exec[e].pc = "unhide"
    \/ rec.pc \in {"unhide", "discard"} /\ rec.cur.stage = p

(* Someone is about to delete the copy at the source for that of a stage.  *)
Opening(s) ==
    \/ \E e \in Execs : exec[e].stage = s /\ exec[e].pc = "unlink"
    \/ rec.pc \in {"unlink", "compare", "drop"} /\ rec.cur.stage = s

Remaining == Committed \/ \E p \in plain : ~Closing(p)
Covered == Committed \/ \A s \in Stages : Opening(s) => s \in plain

(* A published stage is not replaced.                                      *)
LEMMA CommittedStays ==
  ASSUME Inv, [Next]_vars, Committed
  PROVE  Committed'
<1>1. /\ selected \in Stages /\ selected # Source /\ row.status = "done"
      /\ journal[selected].by # 0 /\ journal[selected].by = row.claims
  BY DEF Committed, Inv, Selection, Stages, Execs, Source
<1>2. row' = row /\ selected' = selected
  <2>1. ASSUME NEW e \in Execs, ExecutorStep(e) \/ Interrupt(e)
        PROVE  row' = row /\ selected' = selected
    BY <1>1, <2>1 DEF ExecutorStep, Interrupt, StageMedia, InsertJournal, Check, Reserve, MoveAway,
       Mark, Hash, Commit, CommitFails, Cleanup, Record, Restore, Return, RestoreFails,
       RecordRestored, Owns, db
  <2>2. ASSUME ReconcilerStep \/ AbortPass
        PROVE  row' = row /\ selected' = selected
    BY <2>2 DEF ReconcilerStep, AbortPass, List, Look, LookCommitted, LookActive,
       LookQuarantining, LookStale, CarryOut, Compare, Drop, MarkQuarantined, PutBack, Discard,
       TakeOut, PutBackFails, RemoveCipher, WriteRestored, EndPass, db
  <2>3. ASSUME Claim \/ LoseRow \/ Publish \/ Crash \/ StartUp \/ UNCHANGED vars
        PROVE  row' = row /\ selected' = selected
    <3>1. row = [row EXCEPT !.status = row.status]
      BY DEF Inv, TypeOK
    <3> QED BY <1>1, <2>3, <3>1 DEF Claim, LoseRow, Publish, Crash, StartUp, Start, Started, StartFails,
               vars, db
  <2> QED BY <2>1, <2>2, <2>3 DEF Next
<1>3. journal'[selected].by = journal[selected].by
  <2>1. ASSUME NEW e \in Execs, ExecutorStep(e) \/ Interrupt(e)
        PROVE  journal'[selected].by = journal[selected].by
    <3>1. /\ journal \in [Stages -> Entry] /\ journal[selected].state # "none"
          /\ exec[e].stage \in Places
      BY <1>1 DEF Inv, TypeOK, Journaled, Entry
    <3>2. CASE InsertJournal(e) \/ Reserve(e) \/ Mark(e)
      BY <1>1, <3>1, <3>2 DEF InsertJournal, Reserve, Mark, Entry
    <3>3. CASE Commit(e)
      BY <1>1, <3>3 DEF Commit, Owns
    <3>4. CASE Record(e) \/ RestoreFails(e) \/ RecordRestored(e)
      BY <1>1, <3>1, <3>4 DEF Record, RestoreFails, RecordRestored, Entry
    <3>5. CASE StageMedia(e) \/ Check(e) \/ MoveAway(e) \/ Hash(e) \/ CommitFails(e)
               \/ Cleanup(e) \/ Restore(e) \/ Return(e) \/ Interrupt(e)
      BY <3>5 DEF StageMedia, Check, MoveAway, Hash, CommitFails, Cleanup, Restore, Return,
                 Interrupt, db
    <3> QED BY <2>1, <3>2, <3>3, <3>4, <3>5 DEF ExecutorStep
  <2>2. ASSUME ReconcilerStep \/ AbortPass
        PROVE  journal'[selected].by = journal[selected].by
    <3>1. journal \in [Stages -> Entry]
      BY DEF Inv, TypeOK, Entry
    <3>2. CASE Look
      BY <1>1, <3>1, <3>2 DEF Look, LookCommitted, LookActive, LookQuarantining, LookStale, db, Entry
    <3>3. CASE MarkQuarantined \/ WriteRestored
      BY <1>1, <3>1, <3>3 DEF MarkQuarantined, WriteRestored, Entry
    <3>4. CASE PutBackFails
      <4>1. PICK s, n : journal' = [journal EXCEPT ![s].state = n, ![s].tries = @ + 1]
        BY <3>4 DEF PutBackFails
      <4> QED BY <1>1, <3>1, <4>1 DEF Entry
    <3>5. CASE List \/ CarryOut \/ Compare \/ Drop \/ PutBack \/ Discard \/ TakeOut
               \/ RemoveCipher \/ EndPass \/ AbortPass
      BY <3>5 DEF List, CarryOut, Compare, Drop, PutBack, Discard, TakeOut, RemoveCipher,
                 EndPass, AbortPass, db
    <3> QED BY <2>2, <3>2, <3>3, <3>4, <3>5 DEF ReconcilerStep
  <2>3. ASSUME Claim \/ LoseRow \/ Publish \/ Crash \/ StartUp \/ UNCHANGED vars
        PROVE  journal'[selected].by = journal[selected].by
    BY <2>3 DEF Claim, LoseRow, Publish, Crash, StartUp, Start, Started, StartFails, vars, db
  <2> QED BY <2>1, <2>2, <2>3 DEF Next
<1> QED BY <1>1, <1>2, <1>3 DEF Committed

(* What a step deletes while nothing moves the other way: not the last     *)
(* copy, and not the one that the next removal relies on.                  *)
LEMMA CopiesByExecutor ==
  ASSUME Inv, Remaining, Covered, ~Opposed, NEW e \in Execs, ExecutorStep(e) \/ Interrupt(e)
  PROVE  Remaining' /\ Covered'
<1> USE DEF files, db, process, Goto
<1> DEFINE s == exec[e].stage
<1>1. CASE Committed'
  BY <1>1 DEF Remaining, Covered
<1>2. CASE ~Committed'
  <2>c. ~Committed
    <3>1. [Next]_vars
      BY DEF Next
    <3> QED BY <1>2, <3>1, CommittedStays
  <2>t. /\ exec \in [Execs -> [pc : Steps, stage : Places]]
        /\ exec[e].pc \in Working => s \in Stages
        /\ Source \notin Stages /\ plain \subseteq Places
        /\ \A f \in Execs : exec[f].pc = "unhide" => exec[f].stage \in Stages
        /\ rec.pc \in Busy => rec.cur.stage \in Stages
    BY DEF Inv, TypeOK, Journaled, Working, Doomed, Busy, Items, Source, Stages, Execs
  <2>p. PICK p \in plain : ~Closing(p)
    BY <2>c DEF Remaining
  <2>o. ~Closing(Source)
    BY <2>t DEF Closing, Busy
  <2>3. CASE \/ StageMedia(e) \/ InsertJournal(e) \/ Check(e) \/ Reserve(e) \/ Mark(e) \/ Hash(e)
             \/ Commit(e) \/ CommitFails(e) \/ Record(e) \/ Restore(e) \/ RestoreFails(e)
             \/ RecordRestored(e) \/ Interrupt(e)
    <3>1. /\ plain' = plain /\ rec' = rec
          /\ \A f \in Execs : \A q \in {"unlink", "unhide"} :
                exec'[f].pc = q => exec[f].pc = q /\ exec'[f].stage = exec[f].stage
      BY <2>3, <2>t DEF StageMedia, InsertJournal, Check, Reserve, Mark, Hash, Commit, CommitFails, Record,
         Restore, RestoreFails, RecordRestored, Interrupt
    <3>2. \A q : (Closing(q)' => Closing(q)) /\ (Opening(q)' => Opening(q))
      BY <3>1 DEF Closing, Opening
    <3> QED BY <3>1, <3>2, <2>p, <2>c DEF Remaining, Covered
  <2>4. CASE MoveAway(e)
    <3>1. /\ rec' = rec
          /\ \A f \in Execs : exec'[f].stage = exec[f].stage
          /\ \A f \in Execs : exec'[f].pc = "unhide" => exec[f].pc = "unhide"
          /\ \A f \in Execs : exec'[f].pc = "unlink" =>
                exec[f].pc = "unlink" \/ (f = e /\ exec[e].pc = "place")
      BY <2>4, <2>t DEF MoveAway, Hide
    <3>2. /\ \A q : Closing(q)' => Closing(q)
          /\ \A q : Opening(q)' => Opening(q) \/ (q = s /\ exec[e].pc = "place")
      BY <3>1 DEF Closing, Opening
    <3>3. \/ plain' = plain /\ exec[e].pc # "place"
          \/ exec[e].pc = "place" /\ plain' = plain \cup {s}
          \/ exec[e].pc \in {"move", "unlink"} /\ plain' = (plain \ {Source}) \cup {s}
      <4>1. CASE exec[e].pc = "unlink"
        <5>1. Opening(s)
          BY <4>1 DEF Opening
        <5>2. s \in plain /\ s # Source
          BY <5>1, <4>1, <2>t, <2>c DEF Covered, Working
        <5> QED BY <2>4, <4>1, <5>2 DEF MoveAway, Hide, Delete
      <4> QED BY <2>4, <4>1 DEF MoveAway, Hide, Rename, Put
    <3>4. exec[e].pc \in {"move", "unlink"} => s \in Stages /\ ~Closing(s)
      <4> SUFFICES ASSUME exec[e].pc \in {"move", "unlink"} PROVE s \in Stages /\ ~Closing(s)
        OBVIOUS
      <4>1. s \in Stages /\ Hiding(s)
        BY <2>t DEF Hiding, Working
      <4> QED BY <4>1 DEF Opposed, Returning, Closing
    <3>5. Remaining'
      BY <3>2, <3>3, <3>4, <2>p DEF Remaining
    <3>6. Covered'
      BY <3>2, <3>3, <2>c, <2>t DEF Covered, Working
    <3> QED BY <3>5, <3>6
  <2>5. CASE Return(e)
    <3>1. /\ rec' = rec
          /\ \A f \in Execs : exec'[f].stage = exec[f].stage
          /\ \A f \in Execs : exec'[f].pc = "unlink" => exec[f].pc = "unlink"
          /\ \A f \in Execs : exec'[f].pc = "unhide" =>
                exec[f].pc = "unhide" \/ (f = e /\ exec[e].pc = "putback")
      BY <2>5, <2>t DEF Return, BringBack
    <3>2. /\ \A q : Closing(q)' => Closing(q) \/ (q = s /\ exec[e].pc = "putback")
          /\ \A q : Opening(q)' => Opening(q)
      BY <3>1 DEF Closing, Opening
    <3>3. /\ s \in Stages /\ s # Source
          /\ exec[e].pc \in {"return", "unhide"} => ~Opening(s)
      <4>1. exec[e].pc \in {"return", "putback", "unhide"} /\ s \in Stages
        BY <2>5, <2>t DEF Return, BringBack, Working
      <4>2. exec[e].pc \in {"return", "unhide"} => Returning(s)
        BY DEF Returning
      <4> QED BY <4>1, <4>2, <2>t DEF Opposed, Hiding, Opening
    <3>4. \/ plain' = plain /\ exec[e].pc = "return"
          \/ exec[e].pc = "putback" /\ plain' = plain \cup {Source}
          \/ exec[e].pc = "return" /\ plain' = (plain \ {s}) \cup {Source}
          \/ exec[e].pc = "unhide" /\ plain' = plain \ {s}
      BY <2>5 DEF Return, BringBack, Rename, Put, Delete
    <3>5. Remaining'
      <4>1. CASE Source \in plain'
        BY <4>1, <2>o, <3>2, <3>3 DEF Remaining
      <4>2. CASE Source \notin plain' /\ plain' = plain /\ exec[e].pc = "return"
        BY <4>2, <2>p, <3>2 DEF Remaining
      <4>3. CASE exec[e].pc = "unhide" /\ plain' = plain \ {s}
        <5>1. Closing(s)
          BY <4>3 DEF Closing
        <5> QED BY <4>3, <5>1, <2>p, <3>2 DEF Remaining
      <4> QED BY <3>4, <4>1, <4>2, <4>3
    <3>6. Covered'
      BY <3>2, <3>3, <3>4, <2>c DEF Covered
    <3> QED BY <3>5, <3>6
  <2>6. CASE Cleanup(e)
    <3>1. Committed
      BY <2>6, <2>t DEF Inv, Ready, Cleanup, Committed, Working
    <3> QED BY <3>1, <2>c
  <2> QED BY <2>3, <2>4, <2>5, <2>6 DEF ExecutorStep
<1> QED BY <1>1, <1>2

LEMMA CopiesByReconciler ==
  ASSUME Inv, Remaining, Covered, ~Opposed, ReconcilerStep \/ AbortPass
  PROVE  Remaining' /\ Covered'
<1> USE DEF files, db, process
<1> DEFINE s == rec.cur.stage
<1>1. CASE Committed'
  BY <1>1 DEF Remaining, Covered
<1>2. CASE ~Committed'
  <2>c. ~Committed
    <3>1. [Next]_vars
      BY DEF Next
    <3> QED BY <1>2, <3>1, CommittedStays
  <2>t. /\ rec \in Passes /\ Source \notin Stages
        /\ rec.pc \in Busy => rec.cur \in Items /\ s \in Stages
        /\ \A r \in rec.todo : r \in Items
        /\ \A f \in Execs : exec[f].pc = "unhide" => exec[f].stage \in Stages
    BY DEF Inv, TypeOK, Journaled, Working, Doomed, Busy, Disposing, Items, Source, Stages, Execs,
           Passes
  <2>p. PICK p \in plain : ~Closing(p)
    BY <2>c DEF Remaining
  <2>o. ~Closing(Source)
    BY <2>t DEF Closing, Busy
  <2>3. CASE plain' = plain /\ exec' = exec
             /\ rec'.pc \notin {"unlink", "compare", "drop", "unhide", "discard"}
    <3>1. \A q : (Closing(q)' => Closing(q)) /\ (Opening(q)' => Opening(q))
      BY <2>3 DEF Closing, Opening
    <3> QED BY <2>3, <3>1, <2>p, <2>c DEF Remaining, Covered
  <2>4. CASE List \/ MarkQuarantined \/ PutBackFails \/ RemoveCipher \/ WriteRestored
             \/ EndPass \/ AbortPass
    <3>1. rec' \in {Aborted, Asleep, Passed(rec.cur), Failed(rec.cur)} \/ Doing("write", rec.cur)
          \/ (rec'.pc = "next")
      BY <2>4 DEF List, MarkQuarantined, PutBackFails, RemoveCipher, WriteRestored, EndPass,
                 AbortPass, Asleep
    <3>2. MarkQuarantined \/ PutBackFails \/ RemoveCipher \/ WriteRestored => rec.cur \in Items
      BY <2>t DEF MarkQuarantined, PutBackFails, RemoveCipher, WriteRestored, Busy
    <3>3. rec'.pc \in {"idle", "next", "write"}
      BY <2>4, <3>1, <3>2, <2>t, PassShape DEF Busy, List, EndPass, AbortPass, Asleep
    <3>4. plain' = plain /\ exec' = exec
      BY <2>4 DEF List, MarkQuarantined, PutBackFails, RemoveCipher, WriteRestored, EndPass, AbortPass
    <3> QED BY <2>3, <3>3, <3>4
  <2>5. CASE Look
    <3>1. PICK r \in rec.todo :
             LookCommitted(r) \/ LookActive(r) \/ LookQuarantining(r) \/ LookStale(r)
      BY <2>5 DEF Look
    <3>2. plain' = plain /\ exec' = exec /\ rec.pc = "next"
      BY <2>5, <3>1 DEF Look, LookCommitted, LookActive, LookQuarantining, LookStale
    <3>3. \/ rec' \in {Aborted, Passed(r), Failed(r)}
          \/ \E pc \in {"move", "mark", "restore", "remove"} : Doing(pc, r)
          \/ Doing("compare", r) /\ r.stage \in plain
      BY <3>1 DEF LookCommitted, LookActive, LookQuarantining, LookStale
    <3>4. CASE ~Doing("compare", r)
      <4>1. rec'.pc \in {"idle", "next", "move", "mark", "restore", "remove"}
        BY <3>3, <3>4, <2>t, PassShape DEF Busy
      <4> QED BY <2>3, <3>2, <4>1
    <3>5. CASE Doing("compare", r) /\ r.stage \in plain
      <4>1. rec'.pc = "compare" /\ rec'.cur = r
        BY <3>5, <2>t, PassShape DEF Busy
      <4>2. \A q : (Closing(q)' => Closing(q)) /\ (Opening(q)' => Opening(q) \/ q = r.stage)
        BY <3>2, <4>1 DEF Closing, Opening
      <4> QED BY <3>2, <3>5, <4>2, <2>p, <2>c DEF Remaining, Covered
    <3> QED BY <3>3, <3>4, <3>5, <2>t, PassShape DEF Busy
  <2>6. CASE CarryOut \/ Compare \/ Drop
    <3>1. /\ s \in Stages /\ exec' = exec
          /\ rec.pc \in {"move", "unlink", "compare", "drop"} => ~Closing(s)
      <4>1. s \in Stages /\ exec' = exec
        BY <2>6, <2>t DEF CarryOut, Compare, Drop, Hide, Busy
      <4>2. rec.pc \in {"move", "unlink", "compare", "drop"} => Hiding(s)
        BY DEF Hiding
      <4> QED BY <4>1, <4>2 DEF Opposed, Returning, Closing
    <3>2. \/ rec' = Aborted
          \/ Doing("mark", rec.cur) \/ Doing("place", rec.cur)
          \/ Doing("unlink", rec.cur) /\ rec.pc = "place"
          \/ Doing("drop", rec.cur) /\ rec.pc = "compare"
      BY <2>6 DEF CarryOut, Compare, Drop, Hide
    <3>3. /\ rec'.pc \in {"idle", "next", "mark", "place", "unlink", "drop"}
          /\ rec'.pc = "unlink" => rec.pc = "place" /\ rec'.cur = rec.cur
          /\ rec'.pc = "drop" => rec.pc = "compare" /\ rec'.cur = rec.cur
      <4>1. rec.cur \in Items
        BY <2>6, <2>t DEF CarryOut, Compare, Drop, Hide, Busy
      <4> QED BY <3>2, <4>1, <2>t, PassShape DEF Busy
    <3>4. /\ \A q : Closing(q)' => Closing(q)
          /\ \A q : Opening(q)' => Opening(q) \/ (q = s /\ rec.pc = "place")
      BY <3>1, <3>3 DEF Closing, Opening
    <3>5. \/ plain' = plain /\ rec.pc # "place"
          \/ rec.pc = "place" /\ plain' = plain \cup {s}
          \/ rec.pc \in {"move", "unlink", "drop"} /\ plain' = (plain \ {Source}) \cup {s}
      <4>1. CASE rec.pc \in {"unlink", "drop"}
        <5>1. Opening(s)
          BY <4>1 DEF Opening
        <5>2. s \in plain /\ s # Source
          BY <5>1, <3>1, <2>t, <2>c DEF Covered
        <5> QED BY <2>6, <4>1, <5>2 DEF CarryOut, Compare, Drop, Hide, Delete
      <4> QED BY <2>6, <4>1 DEF CarryOut, Compare, Drop, Hide, Rename, Put
    <3>6. Remaining'
      BY <3>1, <3>4, <3>5, <2>p DEF Remaining
    <3>7. Covered'
      BY <3>1, <3>4, <3>5, <2>c, <2>t DEF Covered
    <3> QED BY <3>6, <3>7
  <2>7. CASE PutBack \/ Discard \/ TakeOut
    <3>1. /\ rec.cur \in Items /\ s \in Stages /\ s # Source /\ exec' = exec
          /\ rec.pc \in {"return", "unhide", "discard"} => ~Opening(s)
      <4>1. rec.cur \in Items /\ s \in Stages /\ exec' = exec
        BY <2>7, <2>t DEF PutBack, Discard, TakeOut, BringBack, Busy
      <4>2. rec.pc \in {"return", "unhide", "discard"} => Returning(s)
        BY DEF Returning
      <4> QED BY <4>1, <4>2, <2>t DEF Opposed, Hiding, Opening
    <3>2. \/ Doing("remove", rec.cur) \/ Doing("return", rec.cur) \/ Doing("putback", rec.cur)
          \/ Doing("discard", rec.cur) /\ rec.pc = "restore" /\ Source \in plain
          \/ Doing("unhide", rec.cur) /\ rec.pc = "putback"
      BY <2>7 DEF PutBack, Discard, TakeOut, BringBack
    <3>3. /\ rec'.pc \in {"remove", "return", "putback", "discard", "unhide"} /\ rec'.cur = rec.cur
          /\ rec'.pc = "discard" => rec.pc = "restore" /\ Source \in plain
          /\ rec'.pc = "unhide" => rec.pc = "putback"
      BY <3>1, <3>2, <2>t, PassShape DEF Busy
    <3>4. /\ \A q : Closing(q)' => Closing(q) \/ (q = s /\ rec'.pc \in {"discard", "unhide"})
          /\ \A q : Opening(q)' => Opening(q)
      BY <3>1, <3>3 DEF Closing, Opening
    <3>5. \/ plain' = plain /\ rec.pc \in {"restore", "return"}
          \/ rec.pc = "putback" /\ plain' = plain \cup {Source}
          \/ rec.pc = "return" /\ plain' = (plain \ {s}) \cup {Source}
          \/ rec.pc \in {"unhide", "discard"} /\ plain' = plain \ {s}
      BY <2>7 DEF PutBack, Discard, TakeOut, BringBack, Rename, Put, Delete
    <3>6. Remaining'
      <4>1. CASE Source \in plain'
        BY <4>1, <2>o, <3>1, <3>4 DEF Remaining
      <4>2. CASE Source \notin plain' /\ plain' = plain /\ rec.pc \in {"restore", "return"}
        <5>1. rec'.pc \notin {"discard", "unhide"}
          BY <4>2, <3>3
        <5> QED BY <4>2, <5>1, <2>p, <3>4 DEF Remaining
      <4>3. CASE rec.pc \in {"unhide", "discard"} /\ plain' = plain \ {s}
        <5>1. Closing(s)
          BY <4>3 DEF Closing
        <5> QED BY <4>3, <5>1, <2>p, <3>3, <3>4 DEF Remaining
      <4> QED BY <3>5, <4>1, <4>2, <4>3
    <3>7. Covered'
      BY <3>1, <3>4, <3>5, <2>c, <2>t DEF Covered
    <3> QED BY <3>6, <3>7
  <2> QED BY <2>4, <2>5, <2>6, <2>7 DEF ReconcilerStep
<1> QED BY <1>1, <1>2

LEMMA CopiesStep ==
  ASSUME Inv, Remaining, Covered, ~Opposed, [Next]_vars
  PROVE  Remaining' /\ Covered'
<1>1. CASE Committed'
  BY <1>1 DEF Remaining, Covered
<1>2. CASE Claim \/ LoseRow \/ Publish \/ Crash \/ StartUp \/ UNCHANGED vars
  <2>1. /\ plain' = plain
        /\ rec' = rec \/ rec' = Asleep
        /\ \A e \in Execs : exec'[e].stage = exec[e].stage
        /\ \A e \in Execs : exec'[e].pc \in {"unlink", "unhide"} => exec'[e].pc = exec[e].pc
    BY <1>2 DEF Claim, LoseRow, Publish, Crash, StartUp, Start, Started, StartFails, vars, files, process,
               Inv, TypeOK
  <2>2. \A q : (Closing(q)' => Closing(q)) /\ (Opening(q)' => Opening(q))
    BY <2>1 DEF Closing, Opening, Asleep
  <2>3. Committed => Committed'
    BY CommittedStays
  <2> QED BY <2>1, <2>2, <2>3 DEF Remaining, Covered
<1> QED BY <1>2, CopiesByExecutor, CopiesByReconciler DEF Next

-----------------------------------------------------------------------------
(* Theorems.                                                               *)

(* The invariant holds in every reachable state, whatever the policy and   *)
(* however many executions, failures and ends of the process.              *)
THEOREM JournalInvariant == Spec => []Inv
<1>1. Inv /\ [Next]_vars => Inv'
  BY RowInv, ExecutorInv, ReconcilerInv, ProcessInv, StutterInv DEF Next, StartUp
<1> QED BY InitInv, <1>1, PTL DEF Spec

(* Every variable keeps its type: in particular commitEncryptionStage only *)
(* ever selects the source or a stage that an execution created.           *)
THEOREM TypeCorrect == Spec => []TypeOK
<1>1. Inv => TypeOK
  BY DEF Inv
<1> QED BY JournalInvariant, <1>1, PTL

(* No copy that is needed is deleted: ReconcileEncryptionStages never      *)
(* removes the ciphertext that an execution has committed which wrote its  *)
(* entry; and as long as no stage's plaintext is moved both ways at once,  *)
(* quarantinePlaintext, the restores and the cleanup, of executors and of  *)
(* the reconciler, leave a copy of the content.                            *)
THEOREM CopiesCorrect == Spec => CopiesAreKept
<1>1. Init => Remaining /\ Covered
  BY DEF Init, Remaining, Covered, Closing, Opening, Asleep
<1>2. Inv /\ Remaining /\ Covered /\ ~Opposed /\ [Next]_vars => Remaining' /\ Covered'
  BY CopiesStep
<1>3. Inv => CommittedIsKept
  BY DEF Inv
<1>4. Inv /\ Remaining => ContentIsKept
  BY DEF Inv, Remaining, Committed, CommittedIsKept, ContentIsKept
<1> QED BY <1>1, <1>2, <1>3, <1>4, JournalInvariant, PTL DEF Spec, CopiesAreKept
=============================================================================
