------------------------ MODULE AgentCommands_proofs ------------------------
(***************************************************************************)
(* Proofs about AgentCommands, for any set of commands and any number of    *)
(* runs and faults: a backup at a time, no command run twice, nothing       *)
(* completed without a snapshot.                                            *)
(***************************************************************************)
EXTENDS AgentCommands, FiniteSetTheorems, SequenceTheorems, TLAPS

RunStatus == Active \cup {"completed", "failed"}

\* The part of the invariant that is about the tables.
StoresOK ==
  /\ runs \in Seq(RunState) /\ Len(runs) <= MaxRun
  /\ cmd \in [Command -> CommandState]
  /\ overdue \subseteq Command /\ stale \subseteq DOMAIN runs
  /\ OneActiveRun /\ CompletedHasSnapshot /\ NotRunYet

\* What no step takes back.
Kept ==
  /\ DOMAIN runs \subseteq DOMAIN runs'
  /\ \A r \in DOMAIN runs : HasSnapshot(r) => HasSnapshot(r)'
  /\ \A c \in Command : cmd[c].run # NoRun => cmd'[c].run = cmd[c].run
  /\ \A c \in Command : cmd[c].status \in Ended => cmd'[c] = cmd[c]

-----------------------------------------------------------------------------
(* The tables.                                                             *)

LEMMA RunsDomain ==
  ASSUME runs \in Seq(RunState)
  PROVE  /\ DOMAIN runs = 1..Len(runs) /\ Len(runs) \in Nat
         /\ \A r \in DOMAIN runs : runs[r] \in RunState
         /\ NoRun \notin DOMAIN runs
  BY LenProperties DEF NoRun

\* A run gets another status.
LEMMA SetRunEffect ==
  ASSUME runs \in Seq(RunState), NEW r \in DOMAIN runs, NEW status \in RunStatus, SetRun(r, status)
  PROVE  /\ runs' \in Seq(RunState) /\ Len(runs') = Len(runs) /\ DOMAIN runs' = DOMAIN runs
         /\ \A x \in DOMAIN runs : runs'[x] = IF x = r THEN [runs[x] EXCEPT !.status = status] ELSE runs[x]
<1>1. runs[r] \in RunState
  BY RunsDomain
<1>2. [runs[r] EXCEPT !.status = status] \in RunState
  BY <1>1 DEF RunState, RunStatus
<1>3. runs' = [runs EXCEPT ![r] = [runs[r] EXCEPT !.status = status]]
  BY DEF SetRun
<1> QED
  BY <1>2, <1>3, ExceptSeq, RunsDomain, LenProperties

\* ... which leaves the tables consistent when it makes no run active again
\* and completes none without a snapshot.
LEMMA SetRunKeeps ==
  ASSUME StoresOK, NEW r \in DOMAIN runs, NEW status \in RunStatus, SetRun(r, status),
         status \in Active => r \in ActiveRuns,
         status = "completed" => HasSnapshot(r),
         UNCHANGED <<cmd, overdue, stale>>
  PROVE  StoresOK' /\ Kept
<1>1. /\ runs' \in Seq(RunState) /\ Len(runs') = Len(runs) /\ DOMAIN runs' = DOMAIN runs
      /\ \A x \in DOMAIN runs : runs'[x] = IF x = r THEN [runs[x] EXCEPT !.status = status] ELSE runs[x]
  BY SetRunEffect DEF StoresOK
<1>2. \A x \in DOMAIN runs :
        /\ runs'[x].snapshots = runs[x].snapshots
        /\ runs'[x].status = IF x = r THEN status ELSE runs[x].status
  BY <1>1, RunsDomain DEF StoresOK, RunState
<1>3. \A x \in DOMAIN runs : HasSnapshot(x)' <=> HasSnapshot(x)
  BY <1>2 DEF HasSnapshot
<1>4. ActiveRuns' \subseteq ActiveRuns
  BY <1>1, <1>2 DEF ActiveRuns
<1>5. OneActiveRun'
  BY <1>4 DEF OneActiveRun, StoresOK
<1>6. CompletedHasSnapshot'
  <2>1. \A x \in DOMAIN runs' : runs'[x].status = "completed" => HasSnapshot(x)'
    BY <1>1, <1>2, <1>3 DEF StoresOK, CompletedHasSnapshot
  <2>2. \A c \in Command : cmd[c].status = "completed" => cmd[c].run # NoRun /\ HasSnapshot(cmd[c].run)'
    BY <1>3 DEF StoresOK, CompletedHasSnapshot, CommandState
  <2> QED
    BY <2>1, <2>2 DEF CompletedHasSnapshot
<1>7. CommandState' = CommandState
  BY <1>1 DEF CommandState
<1> QED
  BY <1>1, <1>3, <1>5, <1>6, <1>7 DEF StoresOK, Kept, NotRunYet

\* Commands change, but none once it has ended, and none its run.
LEMMA CommandsKeep ==
  ASSUME StoresOK, UNCHANGED <<runs, stale>>, cmd' \in [Command -> CommandState], overdue' \subseteq Command,
         \A c \in Command : cmd[c].status \in Ended => cmd'[c] = cmd[c],
         \A c \in Command : cmd[c].run # NoRun => cmd'[c].run = cmd[c].run,
         \A c \in Command : cmd'[c].status \in {"none", "pending", "claimed"} => cmd'[c].run = NoRun,
         \A c \in Command : cmd'[c].status = "completed" => cmd'[c].run # NoRun /\ HasSnapshot(cmd'[c].run)
  PROVE  StoresOK' /\ Kept
<1>1. CommandState' = CommandState /\ OneActiveRun' /\ NotRunYet'
  BY DEF CommandState, OneActiveRun, NotRunYet, StoresOK, ActiveRuns
<1>2. \A r : HasSnapshot(r)' <=> HasSnapshot(r)
  BY DEF HasSnapshot
<1>3. CompletedHasSnapshot'
  BY <1>2 DEF CompletedHasSnapshot, StoresOK
<1> QED
  BY <1>1, <1>2, <1>3 DEF StoresOK, Kept

LEMMA StoresSame ==
  ASSUME StoresOK, UNCHANGED <<cmd, runs>>, overdue' \subseteq Command, stale' \subseteq DOMAIN runs
  PROVE  StoresOK' /\ Kept
  BY DEF StoresOK, Kept, CommandState, OneActiveRun, NotRunYet, ActiveRuns, HasSnapshot, CompletedHasSnapshot

-----------------------------------------------------------------------------
(* What each step does to the tables.                                      *)

\* The types of a request, spelled out, and where it may be.
LEMMA RequestFields ==
  ASSUME CommandsInv, NEW q \in reqs
  PROVE  /\ q.kind \in {"heartbeat", "ack", "create", "post", "finish"}
         /\ q.cmd \in Command \cup {NoCommand} /\ q.run \in {NoRun} \cup DOMAIN runs
         /\ q.arg \in {"", "completed", "failed", "dropped"} /\ q.orphan \in 0..MaxFault
         /\ q.at \in Place[q.kind] /\ HandlerOK(q)
<1>1. q \in RequestType
  BY DEF CommandsInv, TypeOK
<1>2. DOMAIN Place = {"heartbeat", "ack", "create", "post", "finish"}
  BY DEF Place
<1> QED
  BY <1>1, <1>2 DEF CommandsInv, HandlerOK, RequestType

\* What the last statements of a manifest and of a finished run share.
LEMMA EndPlaces ==
  ASSUME CommandsInv, NEW q \in reqs, q.at \in {"complete", "end", "fail", "tell"}
  PROVE  q.kind \in {"post", "finish"} /\ q.run \in DOMAIN runs
<1>1. /\ Place["heartbeat"] = {"begin", "list"} /\ Place["ack"] = {"begin"}
      /\ Place["create"] = {"begin", "start", "resume", "mark", "join", "undo"}
  BY DEF Place
<1>2. q.kind \in {"post", "finish"}
  BY <1>1, RequestFields
<1> QED
  BY <1>2, RequestFields DEF HandlerOK

LEMMA StoresOfInv ==
  ASSUME CommandsInv
  PROVE  StoresOK
  BY DEF CommandsInv, TypeOK, StoresOK

LEMMA NewRun ==
  ASSUME StoresOK, ActiveRuns = {}, Len(runs) < MaxRun, UNCHANGED <<cmd, overdue, stale>>,
         runs' = Append(runs, [status |-> "pending", snapshots |-> 0]), MaxRun \in Nat
  PROVE  StoresOK' /\ Kept /\ DOMAIN runs' = 1..(Len(runs) + 1)
<1> DEFINE new == [status |-> "pending", snapshots |-> 0]
<1>1. new \in RunState
  BY DEF RunState, Active
<1>2. /\ runs' \in Seq(RunState) /\ Len(runs') = Len(runs) + 1
      /\ DOMAIN runs = 1..Len(runs) /\ DOMAIN runs' = 1..(Len(runs) + 1)
      /\ \A r \in DOMAIN runs : runs'[r] = runs[r]
      /\ runs'[Len(runs) + 1] = new
  BY <1>1, RunsDomain DEF StoresOK
<1>3. \A r \in DOMAIN runs : r \in DOMAIN runs' /\ (HasSnapshot(r)' <=> HasSnapshot(r))
  BY <1>2, RunsDomain DEF StoresOK, HasSnapshot
<1>4. ActiveRuns' \subseteq {Len(runs) + 1}
  BY <1>2 DEF ActiveRuns
<1>5. OneActiveRun'
  BY <1>4 DEF OneActiveRun
<1>6. \A r \in DOMAIN runs' : runs'[r].status = "completed" => HasSnapshot(r)'
  <2> SUFFICES ASSUME NEW r \in DOMAIN runs', runs'[r].status = "completed"
               PROVE  HasSnapshot(r)'
    OBVIOUS
  <2>1. r # Len(runs) + 1
    BY <1>2
  <2>2. r \in DOMAIN runs
    BY <1>2, <2>1, RunsDomain DEF StoresOK
  <2> QED
    BY <1>2, <1>3, <2>2 DEF StoresOK, CompletedHasSnapshot
<1>7. (\A c \in Command : cmd[c].status = "completed" => cmd[c].run # NoRun /\ HasSnapshot(cmd[c].run))'
  BY <1>3 DEF StoresOK, CompletedHasSnapshot, CommandState
<1>8. cmd' \in [Command -> CommandState']
  BY <1>3 DEF StoresOK, CommandState
<1>9. NotRunYet' /\ stale' \subseteq DOMAIN runs' /\ overdue' \subseteq Command
  BY <1>3 DEF StoresOK, NotRunYet
<1>10. Len(runs') <= MaxRun
  BY <1>2, RunsDomain DEF StoresOK
<1> QED
  BY <1>2, <1>3, <1>5, <1>6, <1>7, <1>8, <1>9, <1>10 DEF StoresOK, Kept, CompletedHasSnapshot

LEMMA AckWritesStores ==
  ASSUME CommandsInv, NEW q \in reqs, AckWrites(q)
  PROVE  StoresOK' /\ Kept
<1>1. q.cmd \in Command /\ q.arg \in Ended /\ q.arg \in {"completed", "failed", "dropped"}
      /\ (q.arg = "completed" => cmd[q.cmd].run # NoRun /\ HasSnapshot(cmd[q.cmd].run))
  BY RequestFields DEF AckWrites, Serving, HandlerOK, Ended
<1>2. UNCHANGED <<runs, stale, overdue>>
  BY DEF AckWrites
<1>3. CASE cmd[q.cmd].status \in Open
  <2>1. cmd' = [cmd EXCEPT ![q.cmd].status = q.arg]
    BY <1>3 DEF AckWrites
  <2>2. cmd[q.cmd].status \notin Ended
    BY <1>3 DEF Open, Ended
  <2>3. \A c \in Command : cmd'[c] = IF c = q.cmd THEN [cmd[c] EXCEPT !.status = q.arg] ELSE cmd[c]
    BY <2>1, StoresOfInv DEF StoresOK
  <2>4. \A c \in Command : cmd[c] \in CommandState
    BY StoresOfInv DEF StoresOK
  <2>5. [cmd[q.cmd] EXCEPT !.status = q.arg] \in CommandState
    BY <1>1, <2>4 DEF CommandState
  <2>6. \A c \in Command : cmd'[c].run = cmd[c].run /\ (cmd'[c].status = IF c = q.cmd THEN q.arg ELSE cmd[c].status)
    BY <1>1, <2>3, <2>4 DEF CommandState
  <2>7. cmd' \in [Command -> CommandState]
    BY <2>1, <2>3, <2>4, <2>5, StoresOfInv DEF StoresOK
  <2>8. q.arg \notin {"none", "pending", "claimed"}
    BY <1>1
  <2> HIDE DEF CommandsInv
  <2> QED
    BY <1>1, <1>2, <2>2, <2>3, <2>6, <2>7, <2>8, CommandsKeep, StoresOfInv DEF StoresOK, NotRunYet, CompletedHasSnapshot
<1>4. CASE cmd[q.cmd].status \notin Open
  BY <1>2, <1>4, StoresSame, StoresOfInv DEF AckWrites, StoresOK
<1> QED
  BY <1>3, <1>4

\* FinishAgentCommandForRun ends the commands of a run.
LEMMA CommandsOfStores ==
  ASSUME StoresOK, NEW r \in DOMAIN runs, NEW status \in {"completed", "failed"},
         status = "completed" => HasSnapshot(r),
         cmd' = CommandsOf(r, status), UNCHANGED <<runs, stale, overdue>>
  PROVE  StoresOK' /\ Kept
<1>1. \A c \in Command : cmd[c] \in CommandState
  BY DEF StoresOK
<1>2. \A c \in Command : [cmd[c] EXCEPT !.status = status] \in CommandState
  BY <1>1 DEF CommandState, Ended
<1>3. r # NoRun
  BY RunsDomain DEF StoresOK
<1>4. \A c \in Command : cmd'[c] = IF cmd[c].run = r /\ cmd[c].status \in Open
                                   THEN [cmd[c] EXCEPT !.status = status] ELSE cmd[c]
  BY <1>3 DEF CommandsOf
<1>5. cmd' \in [Command -> CommandState]
  BY <1>1, <1>2 DEF CommandsOf
<1>6. \A c \in Command :
        /\ cmd'[c].run = cmd[c].run
        /\ cmd'[c].status = IF cmd[c].run = r /\ cmd[c].status \in Open THEN status ELSE cmd[c].status
  BY <1>1, <1>4 DEF CommandState
<1>7. \A c \in Command : cmd[c].status \in Ended => cmd'[c] = cmd[c]
  BY <1>4 DEF Open, Ended
<1> QED
  BY <1>3, <1>5, <1>6, <1>7, CommandsKeep DEF StoresOK, NotRunYet, CompletedHasSnapshot

LEMMA HeartbeatStores ==
  ASSUME CommandsInv, NEW q \in reqs, HeartbeatExpires(q)
  PROVE  StoresOK' /\ Kept
<1>1. \A c \in Command : cmd[c] \in CommandState
  BY StoresOfInv DEF StoresOK
<1>2. \A c \in Command : [cmd[c] EXCEPT !.status = "expired"] \in CommandState
  BY <1>1 DEF CommandState, Ended
<1>3. cmd' = Expired /\ UNCHANGED <<overdue, runs, stale>>
  BY DEF HeartbeatExpires
<1>4. cmd' \in [Command -> CommandState]
  BY <1>1, <1>2, <1>3 DEF Expired
<1>5. \A c \in Command : cmd'[c] = IF c \in overdue /\ cmd[c].status \in {"pending", "claimed"}
                                   THEN [cmd[c] EXCEPT !.status = "expired"] ELSE cmd[c]
  BY <1>3 DEF Expired
<1>6. \A c \in Command :
        /\ cmd'[c].run = cmd[c].run
        /\ cmd'[c].status = IF c \in overdue /\ cmd[c].status \in {"pending", "claimed"}
                            THEN "expired" ELSE cmd[c].status
  BY <1>1, <1>5 DEF CommandState
<1>7. \A c \in Command : cmd[c].status \in Ended => cmd'[c] = cmd[c]
  BY <1>5 DEF Ended
<1> HIDE DEF CommandsInv
<1> QED
  BY <1>3, <1>4, <1>6, <1>7, CommandsKeep, StoresOfInv DEF StoresOK, NotRunYet, CompletedHasSnapshot

LEMMA MarkCommandStores ==
  ASSUME CommandsInv, NEW q \in reqs, MarkCommand(q)
  PROVE  /\ StoresOK' /\ Kept
         /\ Runnable(q.cmd) \/ Marked(q.cmd, q.run) => cmd'[q.cmd].run = q.run
<1>1. q.cmd \in Command /\ q.run \in DOMAIN runs
  BY RequestFields DEF MarkCommand, HandlerOK
<1>2. UNCHANGED <<runs, stale, overdue>>
  BY DEF MarkCommand
<1>3. CASE Runnable(q.cmd)
  <2> DEFINE new == [status |-> "running", run |-> q.run]
  <2>1. cmd' = [cmd EXCEPT ![q.cmd] = new] /\ new \in CommandState
    BY <1>1, <1>3 DEF MarkCommand, CommandState, Open
  <2>2. \A c \in Command : cmd'[c] = IF c = q.cmd THEN new ELSE cmd[c]
    BY <2>1, StoresOfInv DEF StoresOK
  <2>3. cmd' \in [Command -> CommandState]
    BY <2>1, StoresOfInv DEF StoresOK
  <2>4. cmd[q.cmd].status \notin Ended /\ cmd[q.cmd].run = NoRun
    BY <1>1, <1>3, StoresOfInv DEF Runnable, Ended, StoresOK, NotRunYet
  <2> HIDE DEF CommandsInv
  <2>5. StoresOK' /\ Kept
    BY <1>2, <2>2, <2>3, <2>4, CommandsKeep, StoresOfInv DEF StoresOK, NotRunYet, CompletedHasSnapshot
  <2> QED
    BY <1>1, <2>2, <2>5
<1>4. CASE ~Runnable(q.cmd)
  <2>1. UNCHANGED cmd
    BY <1>4 DEF MarkCommand
  <2>2. StoresOK' /\ Kept
    BY <1>2, <2>1, StoresSame, StoresOfInv DEF StoresOK
  <2> QED
    BY <1>4, <2>1, <2>2 DEF Marked
<1> QED
  BY <1>3, <1>4

\* The run a request resumes is the active one.
LEMMA ResumeStores ==
  ASSUME CommandsInv, NEW q \in reqs, Resume(q)
  PROVE  /\ StoresOK' /\ Kept
         /\ ActiveRuns # {} => Max(ActiveRuns) \in DOMAIN runs /\ DOMAIN runs' = DOMAIN runs
<1>1. UNCHANGED <<cmd, overdue, stale>>
  BY DEF Resume
<1>2. CASE ActiveRuns = {}
  BY <1>1, <1>2, StoresSame, StoresOfInv DEF Resume, StoresOK
<1>3. CASE ActiveRuns # {}
  <2>1. PICK r \in ActiveRuns : ActiveRuns = {r}
    BY <1>3, StoresOfInv DEF StoresOK, OneActiveRun
  <2>2. r \in DOMAIN runs /\ r \in Nat
    BY StoresOfInv, RunsDomain DEF ActiveRuns, StoresOK
  <2>3. Max(ActiveRuns) = r
    BY <2>1, <2>2 DEF Max
  <2>4. SetRun(r, "running")
    BY <1>3, <2>3 DEF Resume
  <2>5. "running" \in RunStatus
    BY DEF RunStatus, Active
  <2>6. StoresOK' /\ Kept
    BY <1>1, <2>1, <2>2, <2>4, <2>5, SetRunKeeps, StoresOfInv
  <2>7. DOMAIN runs' = DOMAIN runs
    BY <2>2, <2>4, <2>5, SetRunEffect, StoresOfInv DEF StoresOK
  <2> QED
    BY <2>2, <2>3, <2>6, <2>7
<1> QED
  BY <1>2, <1>3

LEMMA RunStores ==
  ASSUME CommandsInv, NEW q \in reqs, StartRun(q) \/ UndoRun(q) \/ CompleteRun(q) \/ FailRun(q)
  PROVE  StoresOK' /\ Kept /\ DOMAIN runs' = DOMAIN runs
<1>1. q.run \in DOMAIN runs
  BY RequestFields, EndPlaces DEF HandlerOK, StartRun, UndoRun, CompleteRun, FailRun, Serving
<1>2. UNCHANGED <<cmd, overdue, stale>>
  BY DEF StartRun, UndoRun, CompleteRun, FailRun
<1>3. {"running", "failed", "completed"} \subseteq RunStatus /\ "running" \in Active
      /\ "failed" \notin Active /\ "completed" \notin Active
  BY DEF RunStatus, Active
<1>4. CASE StartRun(q) /\ runs[q.run].status = "pending"
  <2>1. SetRun(q.run, "running")
    BY <1>4 DEF StartRun
  <2>2. q.run \in ActiveRuns
    BY <1>1, <1>4 DEF ActiveRuns, Active
  <2> QED
    BY <1>1, <1>2, <1>3, <2>1, <2>2, SetRunKeeps, SetRunEffect, StoresOfInv DEF StoresOK
<1>5. CASE StartRun(q) /\ runs[q.run].status # "pending"
  BY <1>2, <1>5, StoresSame, StoresOfInv DEF StartRun, StoresOK
<1>6. CASE UndoRun(q) \/ FailRun(q)
  <2>1. SetRun(q.run, "failed")
    BY <1>6 DEF UndoRun, FailRun
  <2> QED
    BY <1>1, <1>2, <1>3, <2>1, SetRunKeeps, SetRunEffect, StoresOfInv DEF StoresOK
<1>7. CASE CompleteRun(q)
  <2>1. SetRun(q.run, "completed") /\ HasSnapshot(q.run)
    BY <1>7, RequestFields DEF CompleteRun, HandlerOK
  <2> QED
    BY <1>1, <1>2, <1>3, <2>1, SetRunKeeps, SetRunEffect, StoresOfInv DEF StoresOK
<1> QED
  BY <1>4, <1>5, <1>6, <1>7

LEMMA MinOfTwo ==
  ASSUME NEW n \in 0..2
  PROVE  Min({n + 1, 2}) \in 1..2
<1>1. CASE n + 1 <= 2
  <2>1. \E x \in {n + 1, 2} : \A y \in {n + 1, 2} : x =< y
    BY <1>1
  <2> QED
    BY <2>1 DEF Min
<1>2. CASE n + 1 > 2
  <2>1. \E x \in {n + 1, 2} : \A y \in {n + 1, 2} : x =< y
    BY <1>2
  <2> QED
    BY <2>1 DEF Min
<1> QED
  BY <1>1, <1>2

LEMMA PublishStores ==
  ASSUME CommandsInv, NEW q \in reqs, Publish(q)
  PROVE  StoresOK' /\ Kept /\ DOMAIN runs' = DOMAIN runs /\ HasSnapshot(q.run)'
<1>1. q.run \in DOMAIN runs
  BY RequestFields DEF HandlerOK, Publish, Serving
<1>2. UNCHANGED <<cmd, overdue, stale>>
  BY DEF Publish
<1>3. runs[q.run] \in RunState
  BY <1>1, StoresOfInv, RunsDomain DEF StoresOK
<1> DEFINE n == Min({runs[q.run].snapshots + 1, 2})
           new == [runs[q.run] EXCEPT !.snapshots = n]
<1>4. n \in 1..2
  BY <1>3, MinOfTwo DEF RunState
<1>5. new \in RunState /\ new.snapshots = n /\ new.status = runs[q.run].status
  BY <1>3, <1>4 DEF RunState
<1>6. runs' = [runs EXCEPT ![q.run] = new]
  BY DEF Publish
<1> HIDE DEF n, new
<1>7. /\ runs' \in Seq(RunState) /\ Len(runs') = Len(runs) /\ DOMAIN runs' = DOMAIN runs
      /\ \A x \in DOMAIN runs : runs'[x] = IF x = q.run THEN new ELSE runs[x]
  BY <1>1, <1>5, <1>6, ExceptSeq, LenProperties, StoresOfInv DEF StoresOK
<1>8. \A x \in DOMAIN runs : runs'[x].status = runs[x].status
  BY <1>5, <1>7
<1>9. \A x \in DOMAIN runs : HasSnapshot(x) \/ x = q.run => HasSnapshot(x)'
  BY <1>4, <1>5, <1>7 DEF HasSnapshot
<1>10. OneActiveRun'
  BY <1>7, <1>8, StoresOfInv DEF StoresOK, OneActiveRun, ActiveRuns
<1>11. CompletedHasSnapshot'
  <2>1. \A x \in DOMAIN runs' : runs'[x].status = "completed" => HasSnapshot(x)'
    BY <1>7, <1>8, <1>9, StoresOfInv DEF StoresOK, CompletedHasSnapshot
  <2>2. (\A c \in Command : cmd[c].status = "completed" => cmd[c].run # NoRun /\ HasSnapshot(cmd[c].run))'
    BY <1>2, <1>9, StoresOfInv DEF StoresOK, CompletedHasSnapshot, CommandState
  <2> QED
    BY <2>1, <2>2 DEF CompletedHasSnapshot
<1>12. CommandState' = CommandState
  BY <1>7 DEF CommandState
<1> QED
  BY <1>1, <1>2, <1>7, <1>9, <1>10, <1>11, <1>12, StoresOfInv DEF StoresOK, Kept, NotRunYet

LEMMA MarkStaleStores ==
  ASSUME CommandsInv, MarkStale
  PROVE  StoresOK' /\ Kept
<1> DEFINE failed(r) == r \in stale /\ runs[r].status \in Active
<1>1. /\ runs' = [r \in DOMAIN runs |-> IF failed(r) THEN [runs[r] EXCEPT !.status = "failed"] ELSE runs[r]]
      /\ UNCHANGED <<cmd, overdue, stale>>
  BY DEF MarkStale
<1>2. \A r \in DOMAIN runs :
        /\ runs'[r] \in RunState
        /\ runs'[r].snapshots = runs[r].snapshots
        /\ runs'[r].status = IF failed(r) THEN "failed" ELSE runs[r].status
  BY <1>1, StoresOfInv, RunsDomain DEF StoresOK, RunState
<1>3. runs' \in Seq(RunState) /\ DOMAIN runs' = DOMAIN runs /\ Len(runs') = Len(runs)
  <2>1. runs' \in [1..Len(runs) -> RunState] /\ Len(runs) \in Nat
    BY <1>1, <1>2, StoresOfInv, RunsDomain DEF StoresOK
  <2>2. runs' \in Seq(RunState)
    BY <2>1, SeqDef
  <2> QED
    BY <2>1, <2>2, LenProperties, StoresOfInv, RunsDomain DEF StoresOK
<1> HIDE DEF failed
<1>4. \A x \in DOMAIN runs : HasSnapshot(x)' <=> HasSnapshot(x)
  BY <1>2 DEF HasSnapshot
<1>5. OneActiveRun'
  BY <1>2, <1>3, StoresOfInv DEF StoresOK, OneActiveRun, ActiveRuns, Active
<1>6. CompletedHasSnapshot'
  <2>1. \A x \in DOMAIN runs' : runs'[x].status = "completed" => HasSnapshot(x)'
    BY <1>2, <1>3, <1>4, StoresOfInv DEF StoresOK, CompletedHasSnapshot
  <2>2. (\A c \in Command : cmd[c].status = "completed" => cmd[c].run # NoRun /\ HasSnapshot(cmd[c].run))'
    BY <1>1, <1>4, StoresOfInv DEF StoresOK, CompletedHasSnapshot, CommandState
  <2> QED
    BY <2>1, <2>2 DEF CompletedHasSnapshot
<1>7. CommandState' = CommandState
  BY <1>3 DEF CommandState
<1> QED
  BY <1>1, <1>3, <1>4, <1>5, <1>6, <1>7, StoresOfInv DEF StoresOK, Kept, NotRunYet

LEMMA CreateCommandStores ==
  ASSUME CommandsInv, NEW c \in Command, CreateCommand(c)
  PROVE  StoresOK' /\ Kept
<1>1. /\ cmd[c].status = "none" /\ cmd' = [cmd EXCEPT ![c].status = "pending"]
      /\ UNCHANGED <<runs, stale, overdue>>
  BY DEF CreateCommand
<1>2. \A d \in Command : cmd[d] \in CommandState
  BY StoresOfInv DEF StoresOK
<1>3. [cmd[c] EXCEPT !.status = "pending"] \in CommandState
  BY <1>2 DEF CommandState, Open
<1>4. cmd' \in [Command -> CommandState]
  BY <1>1, <1>3, StoresOfInv DEF StoresOK
<1>5. \A d \in Command : cmd'[d] = IF d = c THEN [cmd[d] EXCEPT !.status = "pending"] ELSE cmd[d]
  BY <1>1, StoresOfInv DEF StoresOK
<1>6. \A d \in Command : cmd'[d].run = cmd[d].run /\ (cmd'[d].status = IF d = c THEN "pending" ELSE cmd[d].status)
  BY <1>2, <1>5 DEF CommandState
<1>7. \A d \in Command : cmd[d].status \in Ended => cmd'[d] = cmd[d]
  BY <1>1, <1>5 DEF Ended
<1> HIDE DEF CommandsInv
<1> QED
  BY <1>1, <1>4, <1>6, <1>7, CommandsKeep, StoresOfInv DEF StoresOK, NotRunYet, CompletedHasSnapshot

-----------------------------------------------------------------------------
(* Requests and the daemon: what a step must see to.                       *)

RestOK ==
  /\ faults \in 0..MaxFault
  /\ reqs \subseteq RequestType
  /\ reply.answer \in {"none", "heeded", "ok", "error", "missing"}
  /\ reply.run \in {NoRun} \cup DOMAIN runs
  /\ agent \in AgentType
  /\ OneRequest /\ DaemonOK
  /\ \A q \in reqs : HandlerOK(q)

LEMMA InvParts == CommandsInv <=> StoresOK /\ RestOK
  BY DEF CommandsInv, TypeOK, StoresOK, RestOK

\* The requests that are not touched.
LEMMA HandlersKept ==
  ASSUME CommandsInv, Kept
  PROVE  /\ \A q \in reqs : q \in RequestType' /\ HandlerOK(q)'
         /\ RequestType \subseteq RequestType' /\ AgentType \subseteq AgentType'
<1>1. RequestType \subseteq RequestType' /\ AgentType \subseteq AgentType'
  BY DEF Kept, RequestType, AgentType
<1>2. reqs \subseteq RequestType
  BY DEF CommandsInv, TypeOK
<1> SUFFICES ASSUME NEW q \in reqs
             PROVE  HandlerOK(q)'
  BY <1>1, <1>2
<1>3. q.kind \in {"post", "finish"} \/ q.at \in {"start", "mark", "join", "undo"} => q.run \in DOMAIN runs'
  BY RequestFields DEF HandlerOK, Kept
<1>4. q.at \in {"complete", "end"} => HasSnapshot(q.run)'
  BY RequestFields, EndPlaces DEF HandlerOK, Kept
<1>5. q.kind = "ack" /\ q.arg = "completed" => (cmd[q.cmd].run # NoRun /\ HasSnapshot(cmd[q.cmd].run))'
  <2> SUFFICES ASSUME q.kind = "ack", q.arg = "completed"
               PROVE  (cmd[q.cmd].run # NoRun /\ HasSnapshot(cmd[q.cmd].run))'
    OBVIOUS
  <2>1. q.cmd \in Command /\ cmd[q.cmd].run # NoRun /\ HasSnapshot(cmd[q.cmd].run)
    BY RequestFields DEF HandlerOK
  <2>2. cmd[q.cmd].run \in DOMAIN runs
    BY <2>1, StoresOfInv DEF StoresOK, CommandState
  <2>3. cmd'[q.cmd].run = cmd[q.cmd].run /\ HasSnapshot(cmd[q.cmd].run)'
    BY <2>1, <2>2 DEF Kept, HasSnapshot
  <2> QED
    BY <2>1, <2>2, <2>3 DEF Kept, HasSnapshot
<1> QED
  BY <1>3, <1>4, <1>5, RequestFields DEF HandlerOK

\* What the daemon knows of its run stays true.
LEMMA DaemonKept ==
  ASSUME CommandsInv, Kept
  PROVE  /\ agent.run \in DOMAIN runs => agent.run \in DOMAIN runs'
         /\ agent.at \in {"scan", "post", "finish", "fail"} =>
              agent.run \in DOMAIN runs' /\ (agent.cmd # NoCommand => cmd'[agent.cmd].run = agent.run)
         /\ agent.at = "create" /\ reply.answer = "ok" =>
              reply.run \in DOMAIN runs' /\ (agent.cmd # NoCommand => cmd'[agent.cmd].run = reply.run)
         /\ agent.at = "finish" /\ reply.answer = "ok" => runs'[agent.run].snapshots > 0
         /\ agent \in AgentType' /\ agent.cmd \in Command \cup {NoCommand}
<1>1. agent \in AgentType /\ agent.cmd \in Command \cup {NoCommand} /\ NoRun \notin DOMAIN runs
  BY StoresOfInv, RunsDomain DEF CommandsInv, TypeOK, AgentType, StoresOK
<1>2. DaemonOK
  BY DEF CommandsInv
<1>3. agent.at \in {"scan", "post", "finish", "fail"} =>
        agent.run \in DOMAIN runs' /\ (agent.cmd # NoCommand => cmd'[agent.cmd].run = agent.run)
  BY <1>1, <1>2 DEF DaemonOK, Kept, RunIsOfCommand
<1>4. agent.at = "create" /\ reply.answer = "ok" =>
        reply.run \in DOMAIN runs' /\ (agent.cmd # NoCommand => cmd'[agent.cmd].run = reply.run)
  BY <1>1, <1>2 DEF DaemonOK, Kept, RunIsOfCommand
<1>5. agent.at = "finish" /\ reply.answer = "ok" => runs'[agent.run].snapshots > 0
  BY <1>2 DEF DaemonOK, Kept, HasSnapshot
<1> QED
  BY <1>1, <1>3, <1>4, <1>5, HandlersKept DEF Kept

\* A handler goes on at another statement.
LEMMA MoveKeeps ==
  ASSUME CommandsInv, StoresOK', Kept, NEW q \in reqs, NEW p \in RequestType', HandlerOK(p)',
         p.kind = q.kind, p.cmd = q.cmd, p.arg = q.arg, p.orphan = q.orphan,
         p.run = q.run \/ q.kind = "create",
         reqs' = (reqs \ {q}) \cup {p}, UNCHANGED <<reply, agent, faults>>
  PROVE  CommandsInv'
<1>1. reqs' \subseteq RequestType' /\ (\A r \in reqs' : HandlerOK(r)')
  BY HandlersKept
<1>2. OneRequest'
  <2>1. OneRequest
    BY DEF CommandsInv
  <2>2. \A r : AskedFor(r)' <=> AskedFor(r)
    BY DEF AskedFor
  <2>3. AskedFor(q) => AskedFor(p)
    BY DEF AskedFor
  <2> QED
    BY <2>1, <2>2, <2>3 DEF OneRequest, Waiting
<1>3. DaemonOK'
  BY DaemonKept DEF DaemonOK, RunIsOfCommand, HasSnapshot, CommandsInv
<1>4. agent' \in AgentType' /\ reply'.run \in {NoRun} \cup DOMAIN runs'
      /\ reply'.answer \in {"none", "heeded", "ok", "error", "missing"} /\ faults' \in 0..MaxFault
  BY DaemonKept DEF CommandsInv, TypeOK, Kept
<1>5. RestOK'
  BY <1>1, <1>2, <1>3, <1>4 DEF RestOK
<1> QED
  BY <1>5 DEF CommandsInv, TypeOK, StoresOK, RestOK

\* What an answer promises.
AnswerTrue(q, a) ==
  a.answer = "ok" =>
    /\ q.kind = "heartbeat" => a.commands \in Seq(Command)
    /\ q.kind = "create" => a.run \in DOMAIN runs /\ RunIsOfCommand(q.cmd, a.run)
    /\ q.kind = "finish" /\ q.arg = "" => HasSnapshot(q.run)

\* A handler answers.
LEMMA AnswerKeeps ==
  ASSUME CommandsInv, StoresOK', Kept, NEW q \in reqs, NEW a, Answer(q, a),
         a.answer \in {"ok", "error", "missing"}, a.run \in {NoRun} \cup DOMAIN runs',
         AnswerTrue(q, a)', UNCHANGED <<agent, faults>>
  PROVE  CommandsInv'
<1>1. reqs' = reqs \ {q}
  BY DEF Answer
<1>2. reqs' \subseteq RequestType' /\ (\A r \in reqs' : HandlerOK(r)')
  BY <1>1, HandlersKept
<1>3. agent' \in AgentType' /\ faults' \in 0..MaxFault
  BY DaemonKept DEF CommandsInv, TypeOK
<1>4. \A r : AskedFor(r)' <=> AskedFor(r)
  BY DEF AskedFor
<1>5. CASE q.orphan = 0
  <2>1. reply' = a
    BY <1>5 DEF Answer
  <2>2. AskedFor(q) /\ \A r \in reqs' : r.orphan # 0
    BY <1>1, <1>5 DEF CommandsInv, OneRequest
  <2>3. OneRequest'
    BY <2>1, <2>2 DEF OneRequest, Waiting
  <2>4. reply'.answer = "ok" =>
          /\ agent.at = "heartbeat" => reply'.commands \in Seq(Command)
          /\ agent.at = "create" => reply'.run \in DOMAIN runs' /\ (agent.cmd # NoCommand => cmd'[agent.cmd].run = reply'.run)
          /\ agent.at = "finish" => runs'[agent.run].snapshots > 0
    BY <2>1, <2>2 DEF AnswerTrue, AskedFor, RunIsOfCommand, HasSnapshot
  <2>5. DaemonOK'
    BY <2>4, DaemonKept DEF DaemonOK, RunIsOfCommand, HasSnapshot, CommandsInv
  <2> QED
    BY <1>2, <1>3, <2>1, <2>3, <2>5 DEF CommandsInv, TypeOK, StoresOK
<1>6. CASE q.orphan # 0
  <2>1. reply' = reply
    BY <1>6 DEF Answer
  <2>2. OneRequest'
    BY <1>1, <1>4, <2>1 DEF CommandsInv, OneRequest, Waiting
  <2>3. DaemonOK'
    BY <2>1, DaemonKept DEF DaemonOK, RunIsOfCommand, HasSnapshot, CommandsInv
  <2> QED
    BY <1>2, <1>3, <2>1, <2>2, <2>3 DEF CommandsInv, TypeOK, StoresOK, Kept
<1> QED
  BY <1>5, <1>6

\* The request a handler works on, at another statement.
LEMMA At ==
  ASSUME CommandsInv, Kept, NEW q \in reqs, NEW at \in Place[q.kind]
  PROVE  q \in RequestType' /\ at \in AnyPlace
<1>1. q \in RequestType'
  BY HandlersKept
<1> QED
  BY <1>1 DEF AnyPlace, RequestType

LEMMA GotoKeeps ==
  ASSUME CommandsInv, StoresOK', Kept, NEW q \in reqs, NEW at \in Place[q.kind], Goto(q, at),
         at \in {"start", "mark", "join", "undo"} => q.run \in DOMAIN runs',
         at \in {"mark", "join"} => q.cmd \in Command,
         at \in {"complete", "end"} => HasSnapshot(q.run)',
         q.kind = "finish" /\ at \in {"fail", "tell"} => q.arg = "failed", UNCHANGED <<agent, faults>>
  PROVE  CommandsInv'
<1>1. PICK p : p = [q EXCEPT !.at = at]
  OBVIOUS
<1>2. q \in RequestType' /\ at \in AnyPlace
  BY At
<1>3. /\ p \in RequestType' /\ p.kind = q.kind /\ p.cmd = q.cmd /\ p.arg = q.arg /\ p.orphan = q.orphan
      /\ p.run = q.run
  BY <1>1, <1>2 DEF RequestType
<1>4. reqs' = (reqs \ {q}) \cup {p} /\ UNCHANGED reply
  BY <1>1 DEF Goto
<1>5. HandlerOK(q)'
  BY HandlersKept
<1>6. HandlerOK(p)'
  BY <1>1, <1>2, <1>3, <1>5 DEF RequestType, HandlerOK
<1> QED
  BY <1>3, <1>4, <1>6, MoveKeeps

LEMMA GotoRunKeeps ==
  ASSUME CommandsInv, StoresOK', Kept, NEW q \in reqs, q.kind = "create", NEW at \in Place[q.kind],
         NEW run \in DOMAIN runs', GotoRun(q, at, run),
         at \in {"mark", "join"} => q.cmd \in Command,
         at \notin {"complete", "end"}, UNCHANGED <<agent, faults>>
  PROVE  CommandsInv'
<1>1. PICK p : p = [q EXCEPT !.at = at, !.run = run]
  OBVIOUS
<1>2. q \in RequestType' /\ at \in AnyPlace
  BY At
<1>3. /\ p \in RequestType' /\ p.kind = q.kind /\ p.cmd = q.cmd /\ p.arg = q.arg /\ p.orphan = q.orphan
  BY <1>1, <1>2 DEF RequestType
<1>4. reqs' = (reqs \ {q}) \cup {p} /\ UNCHANGED reply
  BY <1>1 DEF GotoRun
<1>5. HandlerOK(q)'
  BY HandlersKept
<1>6. HandlerOK(p)'
  BY <1>1, <1>2, <1>3, <1>5 DEF RequestType, HandlerOK
<1> QED
  BY <1>3, <1>4, <1>6, MoveKeeps

-----------------------------------------------------------------------------
(* The handlers.                                                           *)

LEMMA PlaceIs ==
  /\ Place["heartbeat"] = {"begin", "list"} /\ Place["ack"] = {"begin"}
  /\ Place["create"] = {"begin", "start", "resume", "mark", "join", "undo"}
  /\ Place["post"] = {"begin", "canonicalize", "publish", "complete", "end", "fail", "tell"}
  /\ Place["finish"] = {"begin", "complete", "end", "fail", "tell"}
  BY DEF Place

LEMMA NoChangeStores ==
  ASSUME CommandsInv, UNCHANGED stores
  PROVE  StoresOK' /\ Kept
  BY StoresOfInv, StoresSame DEF stores, StoresOK

\* An answer that refuses, or says nothing of a run.
LEMMA RefuseKeeps ==
  ASSUME CommandsInv, StoresOK', Kept, NEW q \in reqs, Answer(q, Refuse), UNCHANGED <<agent, faults>>
  PROVE  CommandsInv'
<1>1. PICK a : a = Refuse
  OBVIOUS
<1>2. a.answer = "error" /\ a.run = NoRun
  BY <1>1 DEF Refuse, Said
<1>3. Answer(q, a)
  BY <1>1
<1>4. AnswerTrue(q, a)'
  BY <1>2 DEF AnswerTrue
<1> QED
  BY <1>2, <1>3, <1>4, AnswerKeeps

\* ... and one that names a run.
LEMMA SaidKeeps ==
  ASSUME CommandsInv, StoresOK', Kept, NEW q \in reqs, NEW word \in {"ok", "missing"},
         NEW run \in {NoRun} \cup DOMAIN runs', Answer(q, Said(word, run)), UNCHANGED <<agent, faults>>,
         q.kind # "heartbeat", word = "missing" => q.kind = "post",
         q.kind = "create" => run \in DOMAIN runs' /\ (q.cmd # NoCommand => cmd'[q.cmd].run = run),
         q.kind = "finish" /\ q.arg = "" => HasSnapshot(q.run)'
  PROVE  CommandsInv'
<1>1. PICK a : a = Said(word, run)
  OBVIOUS
<1>2. a.answer = word /\ a.run = run
  BY <1>1 DEF Said
<1>3. Answer(q, a)
  BY <1>1
<1>4. AnswerTrue(q, a)'
  BY <1>2 DEF AnswerTrue, RunIsOfCommand
<1> QED
  BY <1>2, <1>3, <1>4, AnswerKeeps

LEMMA HeartbeatKeeps ==
  ASSUME CommandsInv, NEW q \in reqs, HeartbeatExpires(q) \/ HeartbeatLists(q)
  PROVE  CommandsInv'
<1>1. CASE HeartbeatExpires(q)
  <2>1. q.kind = "heartbeat" /\ Goto(q, "list") /\ UNCHANGED <<agent, faults>>
    BY <1>1 DEF HeartbeatExpires, Serving
  <2>2. "list" \in Place[q.kind]
    BY <2>1, PlaceIs
  <2> QED
    BY <1>1, <2>1, <2>2, HeartbeatStores, GotoKeeps
<1>2. CASE HeartbeatLists(q)
  <2> DEFINE S == {c \in Command : cmd[c].status = "pending" /\ c \notin overdue}
  <2>1. StoresOK' /\ Kept /\ q.kind = "heartbeat" /\ UNCHANGED <<agent, faults>>
    BY <1>2, NoChangeStores DEF HeartbeatLists, NoChange, Serving
  <2>2. PICK s \in SetToSeqs(S) : Answer(q, [answer |-> "ok", run |-> NoRun, commands |-> s])
    BY <1>2 DEF HeartbeatLists
  <2>3. IsFiniteSet(S)
    BY ConstantsOK, FS_Subset DEF ConstantsOK
  <2>4. Cardinality(S) \in Nat
    BY <2>3, FS_CardinalityType
  <2>5. s \in [1..Cardinality(S) -> S]
    BY DEF SetToSeqs
  <2>6. s \in Seq(Command)
    <3>1. s \in [1..Cardinality(S) -> Command]
      BY <2>5
    <3> HIDE DEF S
    <3> QED
      BY <2>4, <3>1, SeqDef
  <2>7. PICK a : a = [answer |-> "ok", run |-> NoRun, commands |-> s]
    OBVIOUS
  <2>8. a.answer = "ok" /\ a.run = NoRun /\ a.commands = s
    BY <2>7
  <2>9. Answer(q, a)
    BY <2>2, <2>7
  <2>10. AnswerTrue(q, a)'
    BY <2>1, <2>6, <2>8 DEF AnswerTrue
  <2> QED
    BY <2>1, <2>8, <2>9, <2>10, AnswerKeeps
<1> QED
  BY <1>1, <1>2

LEMMA AckKeeps ==
  ASSUME CommandsInv, NEW q \in reqs, AckWrites(q)
  PROVE  CommandsInv'
<1>1. StoresOK' /\ Kept /\ q.kind = "ack" /\ UNCHANGED <<agent, faults>>
  BY AckWritesStores DEF AckWrites, Serving
<1>2. Answer(q, Said("ok", NoRun)) \/ Answer(q, Refuse)
  BY DEF AckWrites
<1> QED
  BY <1>1, <1>2, RefuseKeeps, SaidKeeps

LEMMA CreateKeeps ==
  ASSUME CommandsInv, NEW q \in reqs,
         CreateRefused(q) \/ CreateRun(q) \/ FindActiveRun(q) \/ Resume(q) \/ StartRun(q)
           \/ MarkCommand(q) \/ UndoRun(q)
  PROVE  CommandsInv'
<1>1. q.kind = "create" /\ UNCHANGED <<agent, faults>> /\ q.cmd \in Command \cup {NoCommand}
  BY RequestFields
  DEF CreateRefused, CreateRun, FindActiveRun, Resume, StartRun, MarkCommand, UndoRun, Serving, NoChange
<1>2. {"start", "resume", "mark", "join", "undo"} \subseteq Place[q.kind]
  BY <1>1, PlaceIs
<1>3. CASE CreateRefused(q)
  BY <1>1, <1>3, NoChangeStores, RefuseKeeps DEF CreateRefused, NoChange
<1>4. CASE CreateRun(q)
  <2>1. StoresOK' /\ Kept /\ DOMAIN runs' = 1..(Len(runs) + 1)
    BY <1>4, NewRun, StoresOfInv, ConstantsOK DEF CreateRun, ConstantsOK
  <2>2. PICK r : r = Len(runs) + 1
    OBVIOUS
  <2>3. r \in DOMAIN runs'
    BY <2>1, <2>2, RunsDomain, StoresOfInv DEF StoresOK
  <2>4. GotoRun(q, "start", r)
    BY <1>4, <2>2 DEF CreateRun
  <2> QED
    BY <1>1, <1>2, <2>1, <2>3, <2>4, GotoRunKeeps
<1>5. CASE FindActiveRun(q)
  BY <1>1, <1>2, <1>5, NoChangeStores, GotoKeeps DEF FindActiveRun, NoChange
<1>6. CASE Resume(q)
  <2>1. StoresOK' /\ Kept
    BY <1>6, ResumeStores
  <2>2. CASE ActiveRuns = {}
    BY <1>1, <1>6, <2>1, <2>2, RefuseKeeps DEF Resume
  <2>3. CASE ActiveRuns # {}
    <3>1. PICK r : r = Max(ActiveRuns)
      OBVIOUS
    <3>2. r \in DOMAIN runs'
      BY <1>6, <2>3, <3>1, ResumeStores
    <3>3. IF q.cmd = NoCommand THEN Answer(q, Said("ok", r)) ELSE GotoRun(q, "join", r)
      BY <1>6, <2>3, <3>1 DEF Resume
    <3>4. CASE q.cmd = NoCommand
      BY <1>1, <2>1, <3>2, <3>3, <3>4, SaidKeeps
    <3>5. CASE q.cmd # NoCommand
      BY <1>1, <1>2, <2>1, <3>2, <3>3, <3>5, GotoRunKeeps
    <3> QED
      BY <3>4, <3>5
  <2> QED
    BY <2>2, <2>3
<1>7. CASE StartRun(q)
  <2>1. StoresOK' /\ Kept /\ q.run \in DOMAIN runs'
    BY <1>7, RunStores, RequestFields DEF StartRun, Serving, HandlerOK
  <2>2. CASE q.cmd = NoCommand
    BY <1>1, <1>7, <2>1, <2>2, SaidKeeps DEF StartRun
  <2>3. CASE q.cmd # NoCommand
    BY <1>1, <1>2, <1>7, <2>1, <2>3, GotoKeeps DEF StartRun
  <2> QED
    BY <2>2, <2>3
<1>8. CASE MarkCommand(q)
  <2>1. StoresOK' /\ Kept /\ q.run \in DOMAIN runs'
    BY <1>8, MarkCommandStores, RequestFields DEF MarkCommand, HandlerOK, Kept
  <2>2. CASE Runnable(q.cmd) \/ Marked(q.cmd, q.run)
    BY <1>1, <1>8, <2>1, <2>2, MarkCommandStores, SaidKeeps DEF MarkCommand
  <2>3. CASE ~(Runnable(q.cmd) \/ Marked(q.cmd, q.run))
    BY <1>1, <1>2, <1>8, <2>1, <2>3, RefuseKeeps, GotoKeeps DEF MarkCommand
  <2> QED
    BY <2>2, <2>3
<1>9. CASE UndoRun(q)
  BY <1>1, <1>9, RunStores, RefuseKeeps DEF UndoRun
<1> QED
  BY <1>3, <1>4, <1>5, <1>6, <1>7, <1>8, <1>9

LEMMA PostKeeps ==
  ASSUME CommandsInv, NEW q \in reqs, PostChecks(q) \/ Canonicalize(q) \/ Publish(q) \/ FinishChecks(q)
  PROVE  CommandsInv'
<1>1. q.kind \in {"post", "finish"} /\ UNCHANGED <<agent, faults>>
  BY DEF PostChecks, Canonicalize, Publish, FinishChecks, Serving, NoChange
<1>2. q.run \in DOMAIN runs /\ q.arg \in {"", "completed", "failed", "dropped"}
  BY <1>1, RequestFields DEF HandlerOK
<1>3. {"end", "fail", "complete"} \subseteq Place[q.kind]
  BY <1>1, PlaceIs
<1>4. CASE PostChecks(q)
  <2>1. StoresOK' /\ Kept /\ q.kind = "post"
    BY <1>4, NoChangeStores DEF PostChecks, NoChange, Serving
  <2>2. HasSnapshot(q.run) => HasSnapshot(q.run)' /\ q.run \in DOMAIN runs'
    BY <1>2, <2>1 DEF Kept
  <2>3. "canonicalize" \in Place[q.kind]
    BY <2>1, PlaceIs
  <2>4. CASE HasSnapshot(q.run)
    BY <1>1, <1>3, <1>4, <2>1, <2>2, <2>4, GotoKeeps DEF PostChecks
  <2>5. CASE ~HasSnapshot(q.run)
    BY <1>1, <1>3, <1>4, <2>1, <2>3, <2>5, GotoKeeps, RefuseKeeps DEF PostChecks
  <2> QED
    BY <2>4, <2>5
<1>5. CASE Canonicalize(q)
  <2>1. StoresOK' /\ Kept /\ q.kind = "post" /\ q.run \in {NoRun} \cup DOMAIN runs'
    BY <1>2, <1>5, NoChangeStores DEF Canonicalize, NoChange, Serving, Kept
  <2>2. "publish" \in Place[q.kind]
    BY <2>1, PlaceIs
  <2>3. Answer(q, Said("missing", q.run)) \/ Goto(q, "fail") \/ Goto(q, "publish")
    BY <1>5 DEF Canonicalize
  <2> QED
    BY <1>1, <1>3, <2>1, <2>2, <2>3, SaidKeeps, GotoKeeps
<1>6. CASE Publish(q)
  BY <1>1, <1>3, <1>6, PublishStores, GotoKeeps DEF Publish
<1>7. CASE FinishChecks(q)
  <2>1. StoresOK' /\ Kept /\ q.kind = "finish"
    BY <1>7, NoChangeStores DEF FinishChecks, NoChange, Serving
  <2>2. HasSnapshot(q.run) => HasSnapshot(q.run)'
    BY <1>2, <2>1 DEF Kept
  <2>3. runs[q.run].status = "completed" => HasSnapshot(q.run)
    BY <1>2, StoresOfInv DEF StoresOK, CompletedHasSnapshot
  <2>4. CASE runs[q.run].status = "completed"
    BY <1>1, <1>3, <1>7, <2>1, <2>2, <2>3, <2>4, GotoKeeps DEF FinishChecks
  <2>5. CASE runs[q.run].status # "completed" /\ q.arg = "failed"
    BY <1>1, <1>3, <1>7, <2>1, <2>5, GotoKeeps DEF FinishChecks
  <2>6. CASE runs[q.run].status # "completed" /\ q.arg # "failed" /\ HasSnapshot(q.run)
    BY <1>1, <1>3, <1>7, <2>1, <2>2, <2>6, GotoKeeps DEF FinishChecks
  <2>7. CASE runs[q.run].status # "completed" /\ q.arg # "failed" /\ ~HasSnapshot(q.run)
    BY <1>1, <1>7, <2>1, <2>7, RefuseKeeps DEF FinishChecks
  <2> QED
    BY <2>4, <2>5, <2>6, <2>7
<1> QED
  BY <1>4, <1>5, <1>6, <1>7

LEMMA EndKeeps ==
  ASSUME CommandsInv, NEW q \in reqs, CompleteRun(q) \/ EndCommand(q) \/ FailRun(q) \/ FailCommand(q)
  PROVE  CommandsInv'
<1>1. q.kind \in {"post", "finish"} /\ q.run \in DOMAIN runs /\ UNCHANGED <<agent, faults>>
  BY EndPlaces DEF CompleteRun, EndCommand, FailRun, FailCommand
<1>2. {"end", "fail", "tell", "complete"} \subseteq Place[q.kind]
  BY <1>1, PlaceIs
<1>3. q.at \in {"complete", "end"} => HasSnapshot(q.run)
  BY RequestFields DEF HandlerOK
<1>4. q.kind = "finish" /\ q.at \in {"fail", "tell"} => q.arg = "failed"
  BY RequestFields DEF HandlerOK
<1>5. CASE CompleteRun(q)
  <2>1. StoresOK' /\ Kept
    BY <1>5, RunStores
  <2>2. HasSnapshot(q.run)' /\ Goto(q, "end")
    BY <1>1, <1>3, <1>5, <2>1 DEF CompleteRun, Kept
  <2> QED
    BY <1>1, <1>2, <2>1, <2>2, GotoKeeps
<1>6. CASE FailRun(q)
  BY <1>1, <1>2, <1>4, <1>6, RunStores, GotoKeeps DEF FailRun
<1>7. CASE EndCommand(q)
  <2>1. StoresOK' /\ Kept
    BY <1>1, <1>3, <1>7, CommandsOfStores, StoresOfInv DEF EndCommand
  <2>2. q.run \in {NoRun} \cup DOMAIN runs' /\ HasSnapshot(q.run)'
    BY <1>1, <1>3, <1>7, <2>1 DEF EndCommand, Kept
  <2> QED
    BY <1>1, <1>7, <2>1, <2>2, SaidKeeps DEF EndCommand
<1>8. CASE FailCommand(q)
  <2>1. StoresOK' /\ Kept
    BY <1>1, <1>8, CommandsOfStores, StoresOfInv DEF FailCommand
  <2>2. q.run \in {NoRun} \cup DOMAIN runs' /\ (q.kind = "finish" => q.arg = "failed")
    BY <1>1, <1>4, <1>8, <2>1 DEF FailCommand, Kept
  <2>3. Answer(q, Refuse) \/ (q.kind = "finish" /\ Answer(q, Said("ok", q.run)))
    BY <1>1, <1>8 DEF FailCommand
  <2> QED
    BY <1>1, <2>1, <2>2, <2>3, RefuseKeeps, SaidKeeps
<1> QED
  BY <1>5, <1>6, <1>7, <1>8

\* A request whose context is cancelled.
LEMMA CutOffKeeps ==
  ASSUME CommandsInv, NEW q \in reqs, CutOff(q)
  PROVE  CommandsInv'
<1>1. UNCHANGED <<cmd, overdue, runs, stale, reply, agent, faults>> /\ reqs' = reqs \ {q}
  BY DEF CutOff, stores
<1>2. StoresOK' /\ Kept
  BY <1>1, NoChangeStores DEF stores
<1>3. reqs' \subseteq RequestType' /\ (\A r \in reqs' : HandlerOK(r)')
  BY <1>1, <1>2, HandlersKept
<1>4. OneRequest'
  <2>1. \A r : AskedFor(r)' <=> AskedFor(r)
    BY <1>1 DEF AskedFor
  <2> QED
    BY <1>1, <2>1 DEF CommandsInv, OneRequest, Waiting
<1>5. DaemonOK'
  BY <1>1, <1>2, DaemonKept DEF DaemonOK, RunIsOfCommand, HasSnapshot, CommandsInv
<1> QED
  BY <1>1, <1>2, <1>3, <1>4, <1>5, DaemonKept DEF CommandsInv, TypeOK, StoresOK, Kept

-----------------------------------------------------------------------------
(* The daemon.                                                             *)

\* The daemon as it may be, whatever it is told next.
ToOK(to) ==
  /\ to \in AgentType
  /\ to.at \in {"idle", "heartbeat", "commands", "drop"} => to.cmd = NoCommand
  /\ to.at \in {"drop", "report"} \/ to.cmd # NoCommand => to.left # <<>>
  /\ to.at \in {"scan", "post", "finish", "fail"} => to.run \in DOMAIN runs /\ RunIsOfCommand(to.cmd, to.run)

LEMMA AgentFields ==
  ASSUME CommandsInv
  PROVE  /\ agent \in AgentType /\ agent.left \in Seq(Command) /\ agent.cmd \in Command \cup {NoCommand}
         /\ agent.run \in {NoRun} \cup DOMAIN runs /\ agent.handled \in BOOLEAN /\ agent.repaired \in BOOLEAN
         /\ agent.since \subseteq Command /\ DaemonOK
         /\ reply.run \in {NoRun} \cup DOMAIN runs
  BY DEF CommandsInv, TypeOK, AgentType

\* When the daemon has its answer, or needs none, it has no request going.
LEMMA Quiet ==
  ASSUME CommandsInv, ~Waiting \/ agent.at \in {"idle", "commands", "scan"}
  PROVE  \A q \in reqs : q.orphan # 0
  BY DEF CommandsInv, OneRequest

LEMMA GoKeeps ==
  ASSUME CommandsInv, \A q \in reqs : q.orphan # 0, NEW to, ToOK(to), Go(to)
  PROVE  CommandsInv'
<1>1. agent' = to /\ reply' = Heeded /\ UNCHANGED <<cmd, overdue, runs, stale, reqs, faults>>
  BY DEF Go, stores
<1>2. StoresOK' /\ Kept
  BY <1>1, NoChangeStores DEF stores
<1>3. reply'.answer = "heeded" /\ reply'.run = NoRun
  BY <1>1 DEF Heeded, Said
<1>4. reqs' \subseteq RequestType' /\ (\A r \in reqs' : HandlerOK(r)') /\ to \in AgentType'
  BY <1>1, <1>2, HandlersKept DEF ToOK
<1>5. OneRequest'
  BY <1>1, <1>3 DEF OneRequest, Waiting
<1>6. DaemonOK'
  BY <1>1, <1>3 DEF DaemonOK, ToOK, RunIsOfCommand
<1> QED
  BY <1>1, <1>2, <1>3, <1>4, <1>5, <1>6 DEF CommandsInv, TypeOK, StoresOK

LEMMA ServedAtOnce == 0 \in 0..MaxFault
<1>1. MaxFault \in Nat
  BY ConstantsOK DEF ConstantsOK
<1> QED
  BY <1>1

LEMMA AskKeeps ==
  ASSUME CommandsInv, \A q \in reqs : q.orphan # 0, NEW to, ToOK(to),
         NEW kind \in {"heartbeat", "ack", "create", "post", "finish"}, NEW c \in Command \cup {NoCommand},
         NEW r \in {NoRun} \cup DOMAIN runs, NEW arg \in {"", "completed", "failed", "dropped"},
         Ask(Request(kind, c, r, arg), to),
         kind \in {"post", "finish"} => r \in DOMAIN runs,
         kind = "ack" => c \in Command /\ arg # "",
         kind = "ack" /\ arg = "completed" => cmd[c].run # NoRun /\ HasSnapshot(cmd[c].run),
         \/ to.at = "heartbeat" /\ kind = "heartbeat"
         \/ to.at \in {"drop", "report"} /\ kind = "ack"
         \/ to.at = "create" /\ kind = "create" /\ c = to.cmd
         \/ to.at = "post" /\ kind = "post" /\ r = to.run
         \/ to.at = "finish" /\ kind = "finish" /\ r = to.run /\ arg = ""
         \/ to.at = "fail" /\ kind = "finish" /\ r = to.run /\ arg = "failed"
  PROVE  CommandsInv'
<1>1. PICK q : q = Request(kind, c, r, arg)
  OBVIOUS
<1>2. /\ q.kind = kind /\ q.at = "begin" /\ q.cmd = c /\ q.run = r /\ q.arg = arg /\ q.orphan = 0
  BY <1>1 DEF Request
<1>3. "begin" \in Place[kind] /\ kind \in DOMAIN Place
  BY PlaceIs DEF Place
<1>4. q \in RequestType
  <2>1. "begin" \in AnyPlace
    BY <1>3 DEF AnyPlace
  <2>2. 0 \in 0..MaxFault
    BY ServedAtOnce
  <2> QED
    BY <1>1, <1>3, <2>1, <2>2 DEF Request, RequestType
<1>5. agent' = to /\ reply' = Nothing /\ reqs' = reqs \cup {q} /\ UNCHANGED <<cmd, overdue, runs, stale, faults>>
  BY <1>1 DEF Ask, Send, stores
<1>6. StoresOK' /\ Kept
  BY <1>5, NoChangeStores DEF stores
<1>7. reply'.answer = "none" /\ reply'.run = NoRun
  BY <1>5 DEF Nothing, Said
<1>8. HandlerOK(q)'
  BY <1>2, <1>3, <1>5 DEF HandlerOK, HasSnapshot, Ended
<1>9. reqs' \subseteq RequestType' /\ (\A p \in reqs' : HandlerOK(p)') /\ to \in AgentType'
  BY <1>4, <1>5, <1>6, <1>8, HandlersKept DEF ToOK
<1>10. AskedFor(q)'
  BY <1>2, <1>5 DEF AskedFor
<1>11. OneRequest'
  BY <1>2, <1>5, <1>7, <1>10 DEF OneRequest, Waiting
<1>12. DaemonOK'
  BY <1>5, <1>7 DEF DaemonOK, ToOK, RunIsOfCommand
<1> QED
  BY <1>5, <1>6, <1>7, <1>9, <1>11, <1>12 DEF CommandsInv, TypeOK, StoresOK

\* The daemon between its requests: idle, at its commands, scanning.
LEMMA GoSteps ==
  ASSUME CommandsInv, Polled \/ Dropped \/ Sleep \/ Reported
  PROVE  CommandsInv'
<1>1. CASE Polled
  <2>1. agent.at = "heartbeat" /\ \A q \in reqs : q.orphan # 0
    BY <1>1, Quiet DEF Polled, Heard
  <2>2. CASE reply.answer = "ok"
    <3>1. PICK to : to = [agent EXCEPT !.at = "commands", !.left = reply.commands, !.handled = FALSE]
      OBVIOUS
    <3>2. reply.commands \in Seq(Command) /\ agent.cmd = NoCommand
      BY <2>1, <2>2, AgentFields DEF DaemonOK
    <3>3. ToOK(to)
      BY <3>1, <3>2, AgentFields DEF ToOK, AgentType
    <3> QED
      BY <1>1, <2>1, <2>2, <3>1, <3>3, GoKeeps DEF Polled
  <2>3. CASE reply.answer # "ok"
    <3>1. PICK to : to = [agent EXCEPT !.at = "idle"]
      OBVIOUS
    <3>2. ToOK(to)
      BY <2>1, <3>1, AgentFields DEF ToOK, AgentType, DaemonOK
    <3> QED
      BY <1>1, <2>1, <2>3, <3>1, <3>2, GoKeeps DEF Polled
  <2> QED
    BY <2>2, <2>3
<1>2. CASE Dropped
  <2>1. agent.at = "drop" /\ \A q \in reqs : q.orphan # 0
    BY <1>2, Quiet DEF Dropped, Heard
  <2>2. PICK to : to = [agent EXCEPT !.at = "commands", !.left = Tail(@)]
    OBVIOUS
  <2>3. Tail(agent.left) \in Seq(Command) /\ agent.cmd = NoCommand
    BY <2>1, AgentFields, HeadTailProperties DEF DaemonOK
  <2>4. ToOK(to)
    BY <2>2, <2>3, AgentFields DEF ToOK, AgentType
  <2> QED
    BY <1>2, <2>1, <2>2, <2>4, GoKeeps DEF Dropped
<1>3. CASE Sleep
  <2>1. agent.at = "commands" /\ \A q \in reqs : q.orphan # 0
    BY <1>3, Quiet DEF Sleep
  <2>2. PICK to : to = [agent EXCEPT !.at = "idle"]
    OBVIOUS
  <2>3. ToOK(to)
    BY <2>1, <2>2, AgentFields DEF ToOK, AgentType, DaemonOK
  <2> QED
    BY <1>3, <2>1, <2>2, <2>3, GoKeeps DEF Sleep
<1>4. CASE Reported
  <2>1. agent.at = "report" /\ \A q \in reqs : q.orphan # 0
    BY <1>4, Quiet DEF Reported, Heard
  <2>2. PICK to : to = [agent EXCEPT !.at = "commands", !.left = Tail(@), !.cmd = NoCommand]
    OBVIOUS
  <2>3. agent.left # <<>>
    BY <2>1, AgentFields DEF DaemonOK
  <2>4. Tail(agent.left) \in Seq(Command)
    BY <2>3, AgentFields, HeadTailProperties
  <2>5. ToOK(to)
    BY <2>2, <2>4, AgentFields DEF ToOK, AgentType
  <2> QED
    BY <1>4, <2>1, <2>2, <2>5, GoKeeps DEF Reported
<1> QED
  BY <1>1, <1>2, <1>3, <1>4

\* The daemon asks for commands, or turns one down.
LEMMA AskSteps ==
  ASSUME CommandsInv, Poll \/ DropCommand \/ RejectCommand
  PROVE  CommandsInv'
<1>1. \A q \in reqs : q.orphan # 0
  BY Quiet DEF Poll, DropCommand, RejectCommand
<1>2. CASE Poll
  <2>1. PICK to : to = [agent EXCEPT !.at = "heartbeat"]
    OBVIOUS
  <2>2. ToOK(to) /\ to.at = "heartbeat"
    BY <1>2, <2>1, AgentFields DEF Poll, ToOK, AgentType, DaemonOK
  <2>3. Ask(Request("heartbeat", NoCommand, NoRun, ""), to)
    BY <1>2, <2>1 DEF Poll
  <2> QED
    BY <1>1, <2>2, <2>3, AskKeeps
<1>3. CASE DropCommand \/ RejectCommand
  <2>1. PICK status \in {"failed", "dropped"} : Ack(status)
    BY <1>3 DEF DropCommand, RejectCommand
  <2>2. agent.at = "commands" /\ agent.left # <<>> /\ agent.cmd = NoCommand
    BY <1>3, AgentFields DEF DropCommand, RejectCommand, DaemonOK
  <2>3. PICK to : to = [agent EXCEPT !.at = "drop"]
    OBVIOUS
  <2>4. ToOK(to) /\ to.at = "drop"
    BY <2>2, <2>3, AgentFields DEF ToOK, AgentType
  <2>5. PICK c : c = Head(agent.left)
    OBVIOUS
  <2>6. c \in Command
    BY <2>2, <2>5, AgentFields, HeadTailProperties
  <2>7. Ask(Request("ack", c, NoRun, status), to)
    BY <2>1, <2>3, <2>5 DEF Ack
  <2> QED
    BY <1>1, <2>4, <2>6, <2>7, AskKeeps
<1> QED
  BY <1>2, <1>3

\* The daemon starts a backup.
LEMMA BeginKeeps ==
  ASSUME CommandsInv, RunCommand \/ RunSchedule
  PROVE  CommandsInv'
<1>1. agent.at = "commands" /\ \A q \in reqs : q.orphan # 0
  BY Quiet DEF RunCommand, RunSchedule
<1>2. PICK c \in Command \cup {NoCommand} : Begin(c) /\ (c # NoCommand => agent.left # <<>>)
  <2>1. CASE RunCommand
    <3>1. agent.left # <<>> /\ Begin(Head(agent.left))
      BY <2>1 DEF RunCommand
    <3>2. Head(agent.left) \in Command
      BY <3>1, AgentFields, HeadTailProperties
    <3> QED
      BY <3>1, <3>2
  <2>2. CASE RunSchedule
    BY <2>2 DEF RunSchedule
  <2> QED
    BY <2>1, <2>2
<1>3. PICK to : to = [agent EXCEPT !.at = "create", !.cmd = c, !.run = NoRun, !.handled = (c # NoCommand),
                                   !.since = {}, !.repaired = FALSE]
  OBVIOUS
<1>4. to \in AgentType /\ to.at = "create" /\ to.cmd = c /\ to.left = agent.left
  <2>1. (c # NoCommand) \in BOOLEAN
    OBVIOUS
  <2> QED
    BY <1>3, <2>1, AgentFields DEF AgentType, Backing
<1>5. ToOK(to)
  BY <1>2, <1>4 DEF ToOK
<1>6. Ask(Request("create", c, NoRun, ""), to)
  BY <1>2, <1>3 DEF Begin
<1> QED
  BY <1>1, <1>4, <1>5, <1>6, AskKeeps

\* A backup is over, and its command told.
LEMMA OverKeeps ==
  ASSUME CommandsInv, \A q \in reqs : q.orphan # 0, NEW status \in {"completed", "failed"}, Over(status),
         status = "completed" /\ agent.cmd # NoCommand =>
           cmd[agent.cmd].run # NoRun /\ HasSnapshot(cmd[agent.cmd].run)
  PROVE  CommandsInv'
<1>1. CASE agent.cmd = NoCommand
  <2>1. PICK to : to = [agent EXCEPT !.at = "idle", !.run = NoRun]
    OBVIOUS
  <2>2. ToOK(to)
    BY <1>1, <2>1, AgentFields DEF ToOK, AgentType
  <2> QED
    BY <1>1, <2>1, <2>2, GoKeeps DEF Over
<1>2. CASE agent.cmd # NoCommand
  <2>1. PICK to : to = [agent EXCEPT !.at = "report", !.run = NoRun]
    OBVIOUS
  <2>2. PICK c : c = agent.cmd
    OBVIOUS
  <2>3. c \in Command /\ agent.left # <<>>
    BY <1>2, <2>2, AgentFields DEF DaemonOK
  <2>4. ToOK(to) /\ to.at = "report"
    BY <2>1, <2>3, AgentFields DEF ToOK, AgentType
  <2>5. Ask(Request("ack", c, NoRun, status), to)
    BY <1>2, <2>1, <2>2 DEF Over
  <2>6. status = "completed" => cmd[c].run # NoRun /\ HasSnapshot(cmd[c].run)
    BY <1>2, <2>2
  <2> QED
    BY <2>3, <2>4, <2>5, <2>6, AskKeeps
<1> QED
  BY <1>1, <1>2

\* The daemon sends something about the run it is backing up.
LEMMA ReportsKeep ==
  ASSUME CommandsInv, \A q \in reqs : q.orphan # 0,
         agent.at \in {"scan", "post", "finish", "fail"},
         \/ Ask(Request("post", NoCommand, agent.run, ""), [agent EXCEPT !.at = "post"])
         \/ Ask(Request("finish", NoCommand, agent.run, ""), [agent EXCEPT !.at = "finish"])
         \/ Fail
  PROVE  CommandsInv'
<1>1. PICK r : r = agent.run
  OBVIOUS
<1>2. r \in DOMAIN runs /\ RunIsOfCommand(agent.cmd, r)
  BY <1>1, AgentFields DEF DaemonOK
<1>3. \A to, at : at \in {"post", "finish", "fail"} /\ to = [agent EXCEPT !.at = at] =>
        ToOK(to) /\ to.at = at /\ to.run = r
  BY <1>1, <1>2, AgentFields DEF ToOK, AgentType, Backing, DaemonOK
<1>4. CASE Ask(Request("post", NoCommand, agent.run, ""), [agent EXCEPT !.at = "post"])
  <2>1. PICK to : to = [agent EXCEPT !.at = "post"]
    OBVIOUS
  <2>2. Ask(Request("post", NoCommand, r, ""), to)
    BY <1>1, <1>4, <2>1
  <2>3. ToOK(to) /\ to.at = "post" /\ to.run = r
    BY <1>3, <2>1
  <2> QED
    BY <1>2, <2>2, <2>3, AskKeeps
<1>5. CASE Ask(Request("finish", NoCommand, agent.run, ""), [agent EXCEPT !.at = "finish"])
  <2>1. PICK to : to = [agent EXCEPT !.at = "finish"]
    OBVIOUS
  <2>2. Ask(Request("finish", NoCommand, r, ""), to)
    BY <1>1, <1>5, <2>1
  <2>3. ToOK(to) /\ to.at = "finish" /\ to.run = r
    BY <1>3, <2>1
  <2> QED
    BY <1>2, <2>2, <2>3, AskKeeps
<1>6. CASE Fail
  <2>1. PICK to : to = [agent EXCEPT !.at = "fail"]
    OBVIOUS
  <2>2. Ask(Request("finish", NoCommand, r, "failed"), to)
    BY <1>1, <1>6, <2>1 DEF Fail
  <2>3. ToOK(to) /\ to.at = "fail" /\ to.run = r
    BY <1>3, <2>1
  <2> QED
    BY <1>2, <2>2, <2>3, AskKeeps
<1> QED
  BY <1>4, <1>5, <1>6

LEMMA BackupSteps ==
  ASSUME CommandsInv, Created \/ ScanEnds \/ ScanFails \/ Posted \/ Finished \/ Failed
  PROVE  CommandsInv'
<1>1. \A q \in reqs : q.orphan # 0
  BY Quiet DEF Created, ScanEnds, ScanFails, Posted, Finished, Failed, Heard
<1>2. CASE Created
  <2>1. CASE reply.answer = "ok"
    <3>1. PICK to : to = [agent EXCEPT !.at = "scan", !.run = reply.run]
      OBVIOUS
    <3>2. /\ reply.run \in DOMAIN runs /\ RunIsOfCommand(agent.cmd, reply.run)
          /\ agent.cmd # NoCommand => agent.left # <<>>
      BY <1>2, <2>1, AgentFields DEF Created, Heard, DaemonOK
    <3>3. ToOK(to)
      BY <3>1, <3>2, AgentFields DEF ToOK, AgentType, RunIsOfCommand
    <3> QED
      BY <1>1, <1>2, <2>1, <3>1, <3>3, GoKeeps DEF Created
  <2>2. CASE reply.answer # "ok"
    BY <1>1, <1>2, <2>2, OverKeeps DEF Created
  <2> QED
    BY <2>1, <2>2
<1>3. CASE ScanEnds \/ ScanFails
  BY <1>1, <1>3, ReportsKeep DEF ScanEnds, ScanFails
<1>4. CASE Posted
  <2>1. agent.at = "post"
    BY <1>4 DEF Posted, Heard
  <2>2. CASE Go([agent EXCEPT !.at = "scan", !.repaired = TRUE])
    <3>1. PICK to : to = [agent EXCEPT !.at = "scan", !.repaired = TRUE]
      OBVIOUS
    <3>2. ToOK(to)
      BY <2>1, <3>1, AgentFields DEF ToOK, AgentType, DaemonOK
    <3> QED
      BY <1>1, <2>2, <3>1, <3>2, GoKeeps
  <2> QED
    BY <1>1, <1>4, <2>1, <2>2, ReportsKeep DEF Posted
<1>5. CASE Finished
  <2>1. agent.at = "finish"
    BY <1>5 DEF Finished, Heard
  <2>2. CASE reply.answer = "ok"
    <3>1. HasSnapshot(agent.run) /\ agent.run \in DOMAIN runs /\ RunIsOfCommand(agent.cmd, agent.run)
      BY <2>1, <2>2, AgentFields DEF DaemonOK
    <3>2. agent.cmd # NoCommand => cmd[agent.cmd].run # NoRun /\ HasSnapshot(cmd[agent.cmd].run)
      BY <3>1, RunsDomain, StoresOfInv DEF RunIsOfCommand, StoresOK
    <3>3. Over("completed")
      BY <1>5, <2>2 DEF Finished
    <3> QED
      BY <1>1, <3>2, <3>3, OverKeeps
  <2>3. CASE reply.answer # "ok"
    <3>1. Over("failed")
      BY <1>5, <2>3 DEF Finished
    <3> QED
      BY <1>1, <3>1, OverKeeps
  <2> QED
    BY <2>2, <2>3
<1>6. CASE Failed
  BY <1>1, <1>6, OverKeeps DEF Failed
<1> QED
  BY <1>2, <1>3, <1>4, <1>5, <1>6

-----------------------------------------------------------------------------
(* Users, time, and faults.                                                *)

\* The tables change behind the backs of handlers and daemon.
LEMMA BehindKeeps ==
  ASSUME CommandsInv, StoresOK', Kept, UNCHANGED <<reqs, reply, faults>>,
         agent' = agent \/ \E c \in Command : agent' = [agent EXCEPT !.since = @ \cup {c}]
  PROVE  CommandsInv'
<1>1. /\ agent'.at = agent.at /\ agent'.cmd = agent.cmd /\ agent'.run = agent.run /\ agent'.left = agent.left
      /\ agent' \in AgentType
  BY AgentFields DEF AgentType
<1>2. agent' \in AgentType'
  BY <1>1, HandlersKept
<1>3. reqs' \subseteq RequestType' /\ (\A r \in reqs' : HandlerOK(r)')
  BY HandlersKept
<1>4. OneRequest'
  <2>1. \A r : AskedFor(r)' <=> AskedFor(r)
    BY <1>1 DEF AskedFor
  <2> QED
    BY <1>1, <2>1 DEF CommandsInv, OneRequest, Waiting
<1>5. DaemonOK'
  BY <1>1, DaemonKept DEF DaemonOK, RunIsOfCommand, HasSnapshot, CommandsInv
<1>6. reply'.run \in {NoRun} \cup DOMAIN runs'
  BY AgentFields DEF Kept
<1> QED
  BY <1>2, <1>3, <1>4, <1>5, <1>6 DEF CommandsInv, TypeOK, StoresOK

LEMMA BehindSteps ==
  ASSUME CommandsInv, MarkStale \/ \E c \in Command : CreateCommand(c) \/ TimePasses(c)
  PROVE  CommandsInv'
<1>1. CASE MarkStale
  BY <1>1, MarkStaleStores, BehindKeeps DEF MarkStale
<1>2. ASSUME NEW c \in Command, CreateCommand(c)
      PROVE  CommandsInv'
  BY <1>2, CreateCommandStores, BehindKeeps DEF CreateCommand
<1>3. ASSUME NEW c \in Command, TimePasses(c)
      PROVE  CommandsInv'
  <2>1. overdue' \subseteq Command /\ UNCHANGED <<cmd, runs, stale, reqs, reply, agent, faults>>
    BY <1>3, StoresOfInv DEF TimePasses, StoresOK
  <2>2. StoresOK' /\ Kept
    BY <2>1, StoresSame, StoresOfInv DEF StoresOK
  <2> QED
    BY <2>1, <2>2, BehindKeeps
<1> QED
  BY <1>1, <1>2, <1>3

\* Every request of the daemon has been given up.
LEMMA OrphanedType ==
  ASSUME CommandsInv, NEW n \in 1..MaxFault
  PROVE  \A p \in Orphaned(n) : p \in RequestType /\ HandlerOK(p) /\ p.orphan # 0
<1> SUFFICES ASSUME NEW q \in reqs, NEW p, p = IF q.orphan = 0 THEN [q EXCEPT !.orphan = n] ELSE q
             PROVE  p \in RequestType /\ HandlerOK(p) /\ p.orphan # 0
  BY DEF Orphaned
<1>1. q \in RequestType /\ HandlerOK(q)
  BY DEF CommandsInv, TypeOK
<1>2. /\ p \in RequestType /\ p.kind = q.kind /\ p.at = q.at /\ p.cmd = q.cmd /\ p.run = q.run /\ p.arg = q.arg
      /\ p.orphan # 0
  <2>1. n \in 0..MaxFault /\ n # 0
    OBVIOUS
  <2>2. CASE q.orphan = 0
    <3>1. p = [q EXCEPT !.orphan = n]
      BY <2>2
    <3> QED
      BY <1>1, <2>1, <3>1 DEF RequestType
  <2> QED
    BY <1>1, <2>2
<1> QED
  BY <1>1, <1>2 DEF HandlerOK

LEMMA FaultSteps ==
  ASSUME CommandsInv, GiveUp \/ Crash \/ Restart
  PROVE  CommandsInv'
<1>1. MaxFault \in Nat /\ faults \in 0..MaxFault
  BY ConstantsOK DEF ConstantsOK, CommandsInv, TypeOK
<1>2. faults' \in 1..MaxFault
  BY <1>1 DEF GiveUp, Crash, Restart, Fault
<1>3. PICK n \in 1..MaxFault : n = faults'
  BY <1>2
<1>4. \A p \in Orphaned(n) : p \in RequestType /\ HandlerOK(p) /\ p.orphan # 0
  BY OrphanedType
<1>5. reqs \subseteq RequestType /\ \A q \in reqs : HandlerOK(q)
  BY DEF CommandsInv, TypeOK
<1>6. reqs' \subseteq RequestType /\ (\A q \in reqs' : HandlerOK(q) /\ q.orphan # 0)
  <2>1. CASE GiveUp
    <3>1. CASE reqs' = Orphaned(faults')
      BY <1>3, <1>4, <3>1
    <3>2. CASE \E q \in reqs : q.orphan = 0 /\ q.at = "begin" /\ reqs' = reqs \ {q}
      BY <1>5, <3>2 DEF CommandsInv, OneRequest
    <3> QED
      BY <2>1, <3>1, <3>2 DEF GiveUp
  <2>2. CASE Crash
    BY <1>3, <1>4, <2>2 DEF Crash
  <2>3. CASE Restart
    BY <2>3 DEF Restart
  <2> QED
    BY <2>1, <2>2, <2>3
<1>7. UNCHANGED <<cmd, overdue, runs>> /\ stale' \subseteq DOMAIN runs
  BY StoresOfInv DEF GiveUp, Crash, Restart, stores, StoresOK
<1>8. StoresOK' /\ Kept
  BY <1>7, StoresSame, StoresOfInv DEF StoresOK
<1>9. reqs' \subseteq RequestType' /\ (\A q \in reqs' : HandlerOK(q)')
  BY <1>6, <1>7 DEF RequestType, HandlerOK, HasSnapshot
<1>10. /\ reply'.answer # "none" /\ (reply'.answer = "ok" => UNCHANGED <<reply, agent>>)
       /\ reply'.answer \in {"heeded", "ok", "error", "missing"} /\ reply'.run \in {NoRun} \cup DOMAIN runs
  <2>1. Refuse.answer = "error" /\ Refuse.run = NoRun /\ Heeded.answer = "heeded" /\ Heeded.run = NoRun
    BY DEF Refuse, Heeded, Said
  <2>2. CASE GiveUp
    BY <2>1, <2>2 DEF GiveUp
  <2>3. CASE Crash
    BY <2>1, <2>3 DEF Crash
  <2>4. CASE Restart
    BY <2>1, <2>4 DEF Restart, Waiting, CommandsInv, TypeOK
  <2> QED
    BY <2>2, <2>3, <2>4
<1>11. agent' = agent \/ agent' = AtStart
  BY DEF GiveUp, Crash, Restart
<1>12. AtStart \in AgentType /\ AtStart.at = "idle" /\ AtStart.cmd = NoCommand
  <2>1. <<>> \in Seq(Command)
    OBVIOUS
  <2> QED
    BY <2>1 DEF AtStart, AgentType
<1>13. OneRequest'
  BY <1>6, <1>10 DEF OneRequest, Waiting
<1>14. DaemonOK'
  <2>1. CASE agent' = agent
    BY <1>7, <1>10, <2>1, AgentFields DEF DaemonOK, RunIsOfCommand, HasSnapshot
  <2>2. CASE agent' = AtStart
    BY <1>10, <1>12, <2>2, AgentFields DEF DaemonOK
  <2> QED
    BY <1>11, <2>1, <2>2
<1>15. agent' \in AgentType'
  BY <1>7, <1>11, <1>12, AgentFields DEF AgentType
<1> QED
  BY <1>1, <1>2, <1>7, <1>8, <1>9, <1>10, <1>13, <1>14, <1>15 DEF CommandsInv, TypeOK, StoresOK

-----------------------------------------------------------------------------
(* The theorems.                                                           *)

\* Whatever a step does, it keeps what Kept says.
LEMMA StepKept ==
  ASSUME CommandsInv, [Next]_vars
  PROVE  Kept
<1>1. CASE Daemon \/ GiveUp \/ Crash \/ UNCHANGED vars
  <2>1. UNCHANGED stores
    BY <1>1
    DEF Daemon, Poll, Polled, DropCommand, RejectCommand, Dropped, RunCommand, RunSchedule, Sleep, Reported,
        Created, ScanEnds, ScanFails, Posted, Finished, Failed, Over, Ack, Begin, Fail, Go, Ask,
        GiveUp, Crash, vars
  <2> QED
    BY <2>1, NoChangeStores
<1>2. ASSUME NEW q \in reqs, Handle(q)
      PROVE  Kept
  <2>1. CASE HeartbeatExpires(q) \/ AckWrites(q) \/ MarkCommand(q) \/ Resume(q) \/ Publish(q)
    BY <2>1, HeartbeatStores, AckWritesStores, MarkCommandStores, ResumeStores, PublishStores
  <2>2. CASE StartRun(q) \/ UndoRun(q) \/ CompleteRun(q) \/ FailRun(q)
    BY <2>2, RunStores
  <2>3. CASE HeartbeatLists(q) \/ FindActiveRun(q) \/ PostChecks(q) \/ Canonicalize(q) \/ FinishChecks(q)
    BY <2>3, NoChangeStores DEF HeartbeatLists, FindActiveRun, PostChecks, Canonicalize, FinishChecks, NoChange
  <2>4. CASE CreateRun(q)
    BY <2>4, NewRun, StoresOfInv, ConstantsOK DEF CreateRun, ConstantsOK
  <2>5. CASE EndCommand(q) \/ FailCommand(q)
    <3>1. q.run \in DOMAIN runs /\ (q.at = "end" => HasSnapshot(q.run))
      BY <2>5, EndPlaces, RequestFields DEF EndCommand, FailCommand, HandlerOK
    <3> QED
      BY <2>5, <3>1, CommandsOfStores, StoresOfInv DEF EndCommand, FailCommand
  <2> QED
    BY <1>2, <2>1, <2>2, <2>3, <2>4, <2>5 DEF Handle
<1>3. CASE \E q \in reqs : CreateRefused(q) \/ CutOff(q)
  BY <1>3, NoChangeStores DEF CreateRefused, CutOff, NoChange
<1>4. CASE MarkStale \/ \E c \in Command : CreateCommand(c)
  BY <1>4, MarkStaleStores, CreateCommandStores
<1>5. CASE Restart \/ \E c \in Command : TimePasses(c)
  BY <1>5, StoresSame, StoresOfInv DEF Restart, TimePasses, StoresOK
<1> QED
  BY <1>1, <1>2, <1>3, <1>4, <1>5 DEF Next, Serve

LEMMA InitHolds == Init => CommandsInv
<1> SUFFICES ASSUME Init
             PROVE  CommandsInv
  OBVIOUS
<1>1. /\ runs = <<>> /\ cmd = [c \in Command |-> [status |-> "none", run |-> NoRun]] /\ overdue = {} /\ stale = {}
      /\ reqs = {} /\ reply = Heeded /\ agent = AtStart /\ faults = 0
  BY DEF Init
<1>2. <<>> \in Seq(RunState) /\ <<>> \in Seq(Command) /\ Len(runs) = 0 /\ DOMAIN runs = {}
  BY <1>1
<1>3. cmd \in [Command -> CommandState] /\ \A c \in Command : cmd[c].status = "none" /\ cmd[c].run = NoRun
  BY <1>1 DEF CommandState
<1>4. MaxRun \in Nat
  BY ConstantsOK DEF ConstantsOK
<1>5. StoresOK
  BY <1>1, <1>2, <1>3, <1>4 DEF StoresOK, OneActiveRun, ActiveRuns, CompletedHasSnapshot, NotRunYet
<1>6. agent \in AgentType /\ agent.at = "idle" /\ agent.cmd = NoCommand
  BY <1>1, <1>2 DEF AtStart, AgentType
<1>7. reply.answer = "heeded" /\ reply.run = NoRun
  BY <1>1 DEF Heeded, Said
<1>8. OneRequest /\ DaemonOK
  BY <1>1, <1>6, <1>7 DEF OneRequest, DaemonOK, Waiting
<1> QED
  BY <1>1, <1>5, <1>6, <1>7, <1>8, ServedAtOnce DEF CommandsInv, TypeOK, StoresOK

LEMMA StepKeeps == CommandsInv /\ [Next]_vars => CommandsInv'
<1> SUFFICES ASSUME CommandsInv, [Next]_vars
             PROVE  CommandsInv'
  OBVIOUS
<1>1. CASE Daemon
  BY <1>1, GoSteps, AskSteps, BeginKeeps, BackupSteps DEF Daemon
<1>2. CASE Serve
  BY <1>2, HeartbeatKeeps, AckKeeps, CreateKeeps, PostKeeps, EndKeeps DEF Serve, Handle
<1>3. CASE \E q \in reqs : CreateRefused(q) \/ CutOff(q)
  BY <1>3, CreateKeeps, CutOffKeeps
<1>4. CASE MarkStale \/ \E c \in Command : CreateCommand(c) \/ TimePasses(c)
  BY <1>4, BehindSteps
<1>5. CASE GiveUp \/ Crash \/ Restart
  BY <1>5, FaultSteps
<1>6. CASE UNCHANGED vars
  <2>1. UNCHANGED <<cmd, overdue, runs, stale, reqs, reply, agent, faults>>
    BY <1>6 DEF vars, stores
  <2>2. StoresOK' /\ Kept
    BY <2>1, StoresSame, StoresOfInv DEF StoresOK
  <2> QED
    BY <2>1, <2>2, BehindKeeps
<1> QED
  BY <1>1, <1>2, <1>3, <1>4, <1>5, <1>6 DEF Next

\* Daemon and server agree at every step on requests, runs and commands.
THEOREM CommandsConsistent == Spec => []CommandsInv
  BY InitHolds, StepKeeps, PTL DEF Spec

\* However requests of daemons that gave up or died overlap, the agent's job
\* has one active run at most.
THEOREM OneBackupAtATime == Spec => []OneActiveRun
<1>1. CommandsInv => OneActiveRun
  BY DEF CommandsInv
<1> QED
  BY <1>1, CommandsConsistent, PTL

\* No run and no command counts as completed without a snapshot.
THEOREM NothingCompletedInVain == Spec => []CompletedHasSnapshot
<1>1. CommandsInv => CompletedHasSnapshot
  BY DEF CommandsInv
<1> QED
  BY <1>1, CommandsConsistent, PTL

\* No command that has ended is changed, and none is given a second run.
THEOREM NoCommandRunsTwice == Spec => CommandsEndOnce
<1>1. CommandsInv /\ [Next]_vars =>
        [\A c \in Command : /\ cmd[c].status \in Ended => cmd'[c] = cmd[c]
                            /\ cmd[c].run # NoRun => cmd'[c].run = cmd[c].run]_vars
  BY StepKept DEF Kept
<1> QED
  BY <1>1, CommandsConsistent, PTL DEF CommandsEndOnce, Spec

=============================================================================
