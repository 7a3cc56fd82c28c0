---------------------------- MODULE AgentCommands ---------------------------
(***************************************************************************)
(* Manual backups of an agent: the commands of the server                   *)
(* (internal/state/agent_daemon.go), the runs they start                    *)
(* (internal/state/jobs.go), the handlers of internal/httpapi/server.go and *)
(* the daemon that polls for commands and backs up on its own schedule      *)
(* (cmd/turbk-agent/daemon.go, backup.go).                                  *)
(*                                                                         *)
(* The daemon sends one request at a time.  A handler works statement by    *)
(* statement.  When the client gives up (its timeout, a lost connection, a  *)
(* crash) the handler may work on, or be cut off at any of its statements   *)
(* as the context of the request is cancelled.                              *)
(*                                                                         *)
(* One host, thus one agent job; agent.lock keeps a second daemon away.     *)
(***************************************************************************)
EXTENDS Integers, SequencesExt, FiniteSetsExt

CONSTANTS
  Command,     \* run-backup commands a user may create
  NoCommand,
  MaxRun,      \* bound on the runs
  MaxFault     \* bound on requests given up, and restarts of daemon and server

ASSUME ConstantsOK ==
  /\ NoCommand \notin Command
  /\ {MaxRun, MaxFault} \subseteq Nat
  /\ IsFiniteSet(Command)

NoRun == 0

VARIABLES
  cmd,      \* agent_commands: status and run of each
  overdue,  \* commands past their expires_at
  runs,     \* runs: the status of each and its snapshots
  stale,    \* runs created before the server was last started
  reqs,     \* requests the server is serving
  reply,    \* what the daemon got for its last request
  agent,    \* the daemon
  faults

stores == <<cmd, overdue, runs, stale>>
vars == <<stores, reqs, reply, agent, faults>>

Active == {"pending", "running"}
Open   == {"pending", "claimed", "running"}
Ended  == {"completed", "failed", "dropped", "expired"}

ActiveRuns == {r \in DOMAIN runs : runs[r].status \in Active}
HasSnapshot(r) == runs[r].snapshots > 0

Said(a, r) == [answer |-> a, run |-> r]
Nothing == Said("none", NoRun)
Heeded  == Said("heeded", NoRun)
Waiting == reply.answer = "none"

AtStart == [at |-> "idle", left |-> <<>>, handled |-> FALSE, cmd |-> NoCommand, run |-> NoRun,
              since |-> {}, repaired |-> FALSE]

Init ==
  /\ cmd = [c \in Command |-> [status |-> "none", run |-> NoRun]]
  /\ overdue = {} /\ runs = <<>> /\ stale = {}
  /\ reqs = {} /\ reply = Heeded
  /\ agent = AtStart
  /\ faults = 0

-----------------------------------------------------------------------------
(* The tables.                                                             *)

\* CreateAgentCommand, of handleRunJob.
CreateCommand(c) ==
  /\ cmd[c].status = "none"
  /\ cmd' = [cmd EXCEPT ![c].status = "pending"]
  /\ agent' = IF agent.at \in {"create", "scan", "post", "finish", "fail"}
              THEN [agent EXCEPT !.since = @ \cup {c}] ELSE agent
  /\ UNCHANGED <<overdue, runs, stale, reqs, reply, faults>>

TimePasses(c) ==
  /\ cmd[c].status \notin {"none"} \cup Ended /\ c \notin overdue
  /\ overdue' = overdue \cup {c}
  /\ UNCHANGED <<cmd, runs, stale, reqs, reply, agent, faults>>

SetRun(r, status) == runs' = [runs EXCEPT ![r].status = status]

\* Mutated: a command can be ended again.
CommandsOfAlways(r, status) ==
  [c \in Command |-> IF r # NoRun /\ cmd[c].run = r THEN [cmd[c] EXCEPT !.status = status] ELSE cmd[c]]

\* FinishAgentCommandForRun.
CommandsOf(r, status) ==
  [c \in Command |-> IF r # NoRun /\ cmd[c].run = r /\ cmd[c].status \in Open
                     THEN [cmd[c] EXCEPT !.status = status] ELSE cmd[c]]

\* MarkAgentCommandRunning.
Runnable(c) == cmd[c].status \in {"pending", "claimed"} /\ c \notin overdue
Marked(c, r) == cmd[c] = [status |-> "running", run |-> r]

\* ExpireAgentCommands.
Expired == [c \in Command |-> IF c \in overdue /\ cmd[c].status \in {"pending", "claimed"}
                              THEN [cmd[c] EXCEPT !.status = "expired"] ELSE cmd[c]]

\* MarkStaleRunsFailed, by maintenance: runs from before the last start of the
\* server which have made no progress for a while.
MarkStale ==
  /\ \E r \in stale : runs[r].status \in Active
  /\ runs' = [r \in DOMAIN runs |->
                IF r \in stale /\ runs[r].status \in Active THEN [runs[r] EXCEPT !.status = "failed"] ELSE runs[r]]
  /\ UNCHANGED <<cmd, overdue, stale, reqs, reply, agent, faults>>

-----------------------------------------------------------------------------
(* Requests.                                                               *)

Request(kind, c, r, arg) ==
  [kind |-> kind, at |-> "begin", cmd |-> c, run |-> r, arg |-> arg, orphan |-> 0]

Send(q) == reqs' = reqs \cup {q} /\ reply' = Nothing

\* The handler goes on at another statement, or answers.
Goto(q, at)   == reqs' = (reqs \ {q}) \cup {[q EXCEPT !.at = at]} /\ UNCHANGED reply
GotoRun(q, at, r) == reqs' = (reqs \ {q}) \cup {[q EXCEPT !.at = at, !.run = r]} /\ UNCHANGED reply
Answer(q, a)  ==
  /\ reqs' = reqs \ {q}
  /\ reply' = IF q.orphan = 0 THEN a ELSE reply

Serving(q, kind, at) == q.kind = kind /\ q.at = at
NoChange == UNCHANGED <<stores, agent, faults>>

Refuse == Said("error", NoRun)

\* handleAgentHeartbeat: commands past their time expire, the others are
\* listed in the order of their creation.
HeartbeatExpires(q) ==
  /\ Serving(q, "heartbeat", "begin")
  /\ cmd' = Expired
  /\ Goto(q, "list")
  /\ UNCHANGED <<overdue, runs, stale, agent, faults>>

HeartbeatLists(q) ==
  /\ Serving(q, "heartbeat", "list")
  /\ \E s \in SetToSeqs({c \in Command : cmd[c].status = "pending" /\ c \notin overdue}) :
       Answer(q, [answer |-> "ok", run |-> NoRun, commands |-> s])
  /\ NoChange

\* handleAgentCommandAck, AckAgentCommand.
AckWrites(q) ==
  /\ Serving(q, "ack", "begin")
  /\ IF cmd[q.cmd].status \in Open
     THEN cmd' = [cmd EXCEPT ![q.cmd].status = q.arg] /\ Answer(q, Said("ok", NoRun))
     ELSE UNCHANGED cmd /\ Answer(q, Refuse)
  /\ UNCHANGED <<overdue, runs, stale, agent, faults>>

-----------------------------------------------------------------------------
(* handleAgentCreateRun.                                                   *)

\* The gate is held by a compact, or the bound on runs is reached.
CreateRefused(q) ==
  /\ Serving(q, "create", "begin")
  /\ Answer(q, Refuse) /\ NoChange

\* Mutated: the transaction of CreateRun does not look for an active run.
CreateRunAlways(q) ==
  /\ Serving(q, "create", "begin")
  /\ Len(runs) < MaxRun
  /\ runs' = Append(runs, [status |-> "pending", snapshots |-> 0])
  /\ GotoRun(q, "start", Len(runs) + 1)
  /\ UNCHANGED <<cmd, overdue, stale, agent, faults>>

\* CreateRun: in one transaction, unless the job has an active run.
CreateRun(q) ==
  /\ Serving(q, "create", "begin")
  /\ ActiveRuns = {} /\ Len(runs) < MaxRun
  /\ runs' = Append(runs, [status |-> "pending", snapshots |-> 0])
  /\ GotoRun(q, "start", Len(runs) + 1)
  /\ UNCHANGED <<cmd, overdue, stale, agent, faults>>

\* Mutated: an active run is an error.
FindActiveRunFails(q) ==
  /\ Serving(q, "create", "begin")
  /\ ActiveRuns # {}
  /\ Answer(q, Refuse) /\ NoChange

FindActiveRun(q) ==
  /\ Serving(q, "create", "begin")
  /\ ActiveRuns # {}
  /\ Goto(q, "resume") /\ NoChange

\* GetActiveRunForJob, and MarkRunRunning.
Resume(q) ==
  /\ Serving(q, "create", "resume")
  /\ IF ActiveRuns = {} THEN Answer(q, Refuse) /\ UNCHANGED runs
     ELSE LET r == Max(ActiveRuns) IN
          /\ SetRun(r, "running")
          /\ IF q.cmd = NoCommand THEN Answer(q, Said("ok", r)) ELSE GotoRun(q, "join", r)
  /\ UNCHANGED <<cmd, overdue, stale, agent, faults>>

\* MarkRunRunning.
StartRun(q) ==
  /\ Serving(q, "create", "start")
  /\ IF runs[q.run].status = "pending" THEN SetRun(q.run, "running") ELSE UNCHANGED runs
  /\ IF q.cmd = NoCommand THEN Answer(q, Said("ok", q.run)) ELSE Goto(q, "mark")
  /\ UNCHANGED <<cmd, overdue, stale, agent, faults>>

\* MarkAgentCommandRunning: a resumed run is left alone when it fails, a new
\* one is failed.
MarkCommand(q) ==
  /\ q.kind = "create" /\ q.at \in {"mark", "join"}
  /\ IF Runnable(q.cmd)
     THEN cmd' = [cmd EXCEPT ![q.cmd] = [status |-> "running", run |-> q.run]] ELSE UNCHANGED cmd
  /\ IF Runnable(q.cmd) \/ Marked(q.cmd, q.run) THEN Answer(q, Said("ok", q.run))
     ELSE IF q.at = "mark" THEN Goto(q, "undo") ELSE Answer(q, Refuse)
  /\ UNCHANGED <<overdue, runs, stale, agent, faults>>

\* Mutated: the run is given another status of the schema.
UndoRunCanceled(q) ==
  /\ Serving(q, "create", "undo")
  /\ SetRun(q.run, "canceled")
  /\ Answer(q, Refuse)
  /\ UNCHANGED <<cmd, overdue, stale, agent, faults>>

UndoRun(q) ==
  /\ Serving(q, "create", "undo")
  /\ SetRun(q.run, "failed")
  /\ Answer(q, Refuse)
  /\ UNCHANGED <<cmd, overdue, stale, agent, faults>>

-----------------------------------------------------------------------------
(* handleAgentPostManifest and handleAgentFinishRun.                       *)

PostChecks(q) ==
  /\ Serving(q, "post", "begin")
  /\ IF HasSnapshot(q.run) THEN Goto(q, "end")
     ELSE IF runs[q.run].status \notin Active THEN Answer(q, Refuse)
     ELSE Goto(q, "canonicalize")
  /\ NoChange

\* Mutated: the command is told of a snapshot before there is one.
CanonicalizeTelling(q) ==
  /\ Serving(q, "post", "canonicalize")
  /\ cmd' = CommandsOf(q.run, "completed")
  /\ \/ Answer(q, Said("missing", q.run))
     \/ Goto(q, "fail")
     \/ Goto(q, "publish")
  /\ UNCHANGED <<overdue, runs, stale, agent, faults>>

\* canonicalizeManifestChunks, WriteManifest: chunks are missing; the manifest
\* is wrong, or cannot be written; or it is.
Canonicalize(q) ==
  /\ Serving(q, "post", "canonicalize")
  /\ \/ Answer(q, Said("missing", q.run))
     \/ Goto(q, "fail")
     \/ Goto(q, "publish")
  /\ NoChange

\* CreateSnapshot; another one of the run may have been created meanwhile.
Publish(q) ==
  /\ Serving(q, "post", "publish")
  /\ runs' = [runs EXCEPT ![q.run].snapshots = Min({@ + 1, 2})]
  /\ Goto(q, "complete")
  /\ UNCHANGED <<cmd, overdue, stale, agent, faults>>

\* CompleteRun, whatever the run is by now.
CompleteRun(q) ==
  /\ q.at = "complete"
  /\ SetRun(q.run, "completed")
  /\ Goto(q, "end")
  /\ UNCHANGED <<cmd, overdue, stale, agent, faults>>

EndCommand(q) ==
  /\ q.at = "end"
  /\ cmd' = CommandsOf(q.run, "completed")
  /\ Answer(q, Said("ok", q.run))
  /\ UNCHANGED <<overdue, runs, stale, agent, faults>>

\* FailRun, whatever the run is by now.
FailRun(q) ==
  /\ q.at = "fail"
  /\ SetRun(q.run, "failed")
  /\ Goto(q, "tell")
  /\ UNCHANGED <<cmd, overdue, stale, agent, faults>>

\* A manifest that was refused is an error, a failure that was reported is not.
FailCommand(q) ==
  /\ q.at = "tell"
  /\ cmd' = CommandsOf(q.run, "failed")
  /\ Answer(q, IF q.kind = "post" THEN Refuse ELSE Said("ok", q.run))
  /\ UNCHANGED <<overdue, runs, stale, agent, faults>>

FinishChecks(q) ==
  /\ Serving(q, "finish", "begin")
  /\ IF runs[q.run].status = "completed" THEN Goto(q, "end")
     ELSE IF q.arg = "failed" THEN Goto(q, "fail")
     ELSE IF HasSnapshot(q.run) THEN Goto(q, "complete")
     ELSE Answer(q, Refuse)
  /\ NoChange

Handle(q) ==
  \/ HeartbeatExpires(q) \/ HeartbeatLists(q) \/ AckWrites(q)
  \/ CreateRun(q) \/ FindActiveRun(q) \/ Resume(q) \/ StartRun(q) \/ MarkCommand(q) \/ UndoRun(q)
  \/ PostChecks(q) \/ Canonicalize(q) \/ Publish(q) \/ CompleteRun(q) \/ EndCommand(q)
  \/ FailRun(q) \/ FailCommand(q) \/ FinishChecks(q)

\* The context of a request nobody waits for is cancelled.
CutOff(q) ==
  /\ q.orphan > 0
  /\ reqs' = reqs \ {q}
  /\ UNCHANGED <<stores, reply, agent, faults>>

-----------------------------------------------------------------------------
(* The daemon: runDaemon, runBackupWithOptions.                            *)

Backing == {"create", "scan", "post", "finish", "fail"}

\* The daemon sends a request and goes on at what follows its answer, in
\* which only "to" differs.
Ask(q, to) ==
  /\ Send(q) /\ agent' = to
  /\ UNCHANGED <<stores, faults>>
Go(to) == agent' = to /\ reply' = Heeded /\ UNCHANGED <<stores, reqs, faults>>
Heard(place) == agent.at = place /\ ~Waiting

Poll ==
  /\ agent.at = "idle"
  /\ Ask(Request("heartbeat", NoCommand, NoRun, ""), [agent EXCEPT !.at = "heartbeat"])

Polled ==
  /\ Heard("heartbeat")
  /\ Go(IF reply.answer = "ok"
        THEN [agent EXCEPT !.at = "commands", !.left = reply.commands, !.handled = FALSE]
        ELSE [agent EXCEPT !.at = "idle"])

Ack(status) == Ask(Request("ack", Head(agent.left), NoRun, status), [agent EXCEPT !.at = "drop"])

\* A backup was started on this round, or the command was created while the
\* last backup ran.
Busy(c) == agent.handled \/ c \in agent.since

DropCommand ==
  /\ agent.at = "commands" /\ agent.left # <<>> /\ Busy(Head(agent.left))
  /\ Ack("dropped")

\* Its roots cannot be parsed, or it has none and none are configured.
RejectCommand ==
  /\ agent.at = "commands" /\ agent.left # <<>> /\ ~Busy(Head(agent.left))
  /\ \E status \in {"failed", "dropped"} : Ack(status)

Dropped ==
  /\ Heard("drop")
  /\ Go([agent EXCEPT !.at = "commands", !.left = Tail(@)])

Begin(c) ==
  Ask(Request("create", c, NoRun, ""),
      [agent EXCEPT !.at = "create", !.cmd = c, !.run = NoRun, !.handled = (c # NoCommand),
                    !.since = {}, !.repaired = FALSE])

RunCommand ==
  /\ agent.at = "commands" /\ agent.left # <<>> /\ ~Busy(Head(agent.left))
  /\ Begin(Head(agent.left))

\* The backup_schedule is due.
RunSchedule ==
  /\ agent.at = "commands" /\ agent.left = <<>> /\ ~agent.handled
  /\ Begin(NoCommand)

Sleep ==
  /\ agent.at = "commands" /\ agent.left = <<>>
  /\ Go([agent EXCEPT !.at = "idle"])

\* The backup is over; the command it was for is told.
Over(status) ==
  IF agent.cmd = NoCommand THEN Go([agent EXCEPT !.at = "idle", !.run = NoRun])
  ELSE Ask(Request("ack", agent.cmd, NoRun, status), [agent EXCEPT !.at = "report", !.run = NoRun])

Reported ==
  /\ Heard("report")
  /\ Go([agent EXCEPT !.at = "commands", !.left = Tail(@), !.cmd = NoCommand])

Created ==
  /\ Heard("create")
  /\ IF reply.answer = "ok" THEN Go([agent EXCEPT !.at = "scan", !.run = reply.run]) ELSE Over("failed")

Fail == Ask(Request("finish", NoCommand, agent.run, "failed"), [agent EXCEPT !.at = "fail"])

\* The scan sends its progress, which handleAgentProgress refuses once the run
\* has ended.
ScanEnds ==
  /\ agent.at = "scan" /\ runs[agent.run].status \in Active
  /\ Ask(Request("post", NoCommand, agent.run, ""), [agent EXCEPT !.at = "post"])

ScanFails ==
  /\ agent.at = "scan"
  /\ Fail

Posted ==
  /\ Heard("post")
  /\ \/ /\ reply.answer = "ok"
        /\ Ask(Request("finish", NoCommand, agent.run, ""), [agent EXCEPT !.at = "finish"])
     \/ /\ reply.answer = "missing" /\ ~agent.repaired
        /\ Go([agent EXCEPT !.at = "scan", !.repaired = TRUE])
     \/ /\ reply.answer = "error" \/ (reply.answer = "missing" /\ agent.repaired)
        /\ Fail

Finished ==
  /\ Heard("finish")
  /\ Over(IF reply.answer = "ok" THEN "completed" ELSE "failed")

Failed ==
  /\ Heard("fail")
  /\ Over("failed")

Daemon ==
  \/ Poll \/ Polled \/ DropCommand \/ RejectCommand \/ Dropped \/ RunCommand \/ RunSchedule \/ Sleep
  \/ Reported \/ Created \/ ScanEnds \/ ScanFails \/ Posted \/ Finished \/ Failed

-----------------------------------------------------------------------------
(* Faults.                                                                 *)

Orphaned(n) == {IF q.orphan = 0 THEN [q EXCEPT !.orphan = n] ELSE q : q \in reqs}

Fault == faults < MaxFault /\ faults' = faults + 1

\* The daemon does not get its answer, or the request has never arrived.
GiveUp ==
  /\ Fault /\ Waiting
  /\ reply' = Refuse
  /\ \/ reqs' = Orphaned(faults')
     \/ \E q \in reqs : q.orphan = 0 /\ q.at = "begin" /\ reqs' = reqs \ {q}
  /\ UNCHANGED <<stores, agent>>

\* The daemon is started anew; its request is still being served.
Crash ==
  /\ Fault
  /\ agent' = AtStart /\ reply' = Heeded
  /\ reqs' = Orphaned(faults')
  /\ UNCHANGED stores

\* The server is started anew: what it was serving is gone.
Restart ==
  /\ Fault
  /\ reqs' = {} /\ reply' = IF Waiting THEN Refuse ELSE reply
  /\ stale' = DOMAIN runs
  /\ UNCHANGED <<cmd, overdue, runs, agent>>

Serve == \E q \in reqs : Handle(q)

Next ==
  \/ Daemon \/ Serve
  \/ \E q \in reqs : CreateRefused(q) \/ CutOff(q)
  \/ \E c \in Command : CreateCommand(c) \/ TimePasses(c)
  \/ MarkStale \/ GiveUp \/ Crash \/ Restart

Spec == Init /\ [][Next]_vars

\* The daemon polls and its backups come due again and again; handlers end;
\* the gate is not held for ever, and a request that is never let in is refused.
LiveSpec ==
  /\ Spec
  /\ WF_vars(Daemon) /\ SF_vars(RunSchedule)
  /\ WF_vars(Serve) /\ SF_vars(\E q \in reqs : CreateRun(q) \/ FindActiveRun(q))
  /\ WF_vars(\E q \in reqs : CutOff(q) \/ CreateRefused(q))

-----------------------------------------------------------------------------
(* Properties.                                                             *)

RunState     == [status : Active \cup {"completed", "failed"}, snapshots : 0..2]
CommandState == [status : {"none"} \cup Open \cup Ended, run : {NoRun} \cup DOMAIN runs]
Place        == [heartbeat |-> {"begin", "list"}, ack |-> {"begin"},
                 create |-> {"begin", "start", "resume", "mark", "join", "undo"},
                 post |-> {"begin", "canonicalize", "publish", "complete", "end", "fail", "tell"},
                 finish |-> {"begin", "complete", "end", "fail", "tell"}]

AnyPlace     == UNION {Place[kind] : kind \in DOMAIN Place}
RequestType  ==
  [kind : DOMAIN Place, at : AnyPlace, cmd : Command \cup {NoCommand}, run : {NoRun} \cup DOMAIN runs,
   arg : {"", "completed", "failed", "dropped"}, orphan : 0..MaxFault]
AgentType    ==
  [at : {"idle", "heartbeat", "commands", "drop", "report", "scan"} \cup Backing,
   left : Seq(Command), handled : BOOLEAN, cmd : Command \cup {NoCommand},
   run : {NoRun} \cup DOMAIN runs, since : SUBSET Command, repaired : BOOLEAN]

\* Type invariant.
TypeOK ==
  /\ runs \in Seq(RunState) /\ Len(runs) <= MaxRun
  /\ cmd \in [Command -> CommandState]
  /\ overdue \subseteq Command /\ stale \subseteq DOMAIN runs
  /\ faults \in 0..MaxFault
  /\ reqs \subseteq RequestType
  /\ reply.answer \in {"none", "heeded", "ok", "error", "missing"}
  /\ reply.run \in {NoRun} \cup DOMAIN runs
  /\ agent \in AgentType

\* The agent's job has one active run at most, however requests of daemons
\* that gave up or died overlap.
OneActiveRun == \A r1, r2 \in ActiveRuns : r1 = r2

\* A run that counts as completed, and a command that does, left a snapshot.
CompletedHasSnapshot ==
  /\ \A r \in DOMAIN runs : runs[r].status = "completed" => HasSnapshot(r)
  /\ \A c \in Command : cmd[c].status = "completed" => cmd[c].run # NoRun /\ HasSnapshot(cmd[c].run)

\* A request the daemon waits for is of the kind that its place says, for the
\* run and the command it is backing up.
AskedFor(q) ==
  LET at == agent.at IN
  \/ at = "heartbeat" /\ q.kind = "heartbeat"
  \/ at \in {"drop", "report"} /\ q.kind = "ack"
  \/ at = "create" /\ q.kind = "create" /\ q.cmd = agent.cmd
  \/ at = "post" /\ q.kind = "post" /\ q.run = agent.run
  \/ at = "finish" /\ q.kind = "finish" /\ q.run = agent.run /\ q.arg = ""
  \/ at = "fail" /\ q.kind = "finish" /\ q.run = agent.run /\ q.arg = "failed"

OneRequest ==
  /\ \A q \in reqs : q.orphan = 0 => Waiting /\ AskedFor(q)
  /\ \A p, q \in reqs : p.orphan = 0 /\ q.orphan = 0 => p = q
  /\ Waiting => agent.at \notin {"idle", "commands", "scan"}

\* A command has a run from when it is marked running, and keeps it.
RunIsOfCommand(c, r) == c # NoCommand => cmd[c].run = r
NotRunYet == \A c \in Command : cmd[c].status \in {"none", "pending", "claimed"} => cmd[c].run = NoRun

HandlerOK(q) ==
  /\ q.at \in Place[q.kind]
  /\ q.kind \in {"post", "finish"} \/ q.at \in {"start", "mark", "join", "undo"} => q.run \in DOMAIN runs
  /\ q.at \in {"mark", "join"} => q.cmd \in Command
  /\ q.at \in {"complete", "end"} => HasSnapshot(q.run)
  /\ q.kind = "finish" /\ q.at \in {"fail", "tell"} => q.arg = "failed"
  /\ q.kind = "ack" => q.cmd \in Command /\ q.arg \in Ended
  /\ q.kind = "ack" /\ q.arg = "completed" => cmd[q.cmd].run # NoRun /\ HasSnapshot(cmd[q.cmd].run)

DaemonOK ==
  /\ agent.at \in {"idle", "heartbeat", "commands", "drop"} => agent.cmd = NoCommand
  /\ agent.at \in {"drop", "report"} \/ agent.cmd # NoCommand => agent.left # <<>>
  /\ agent.at \in {"scan", "post", "finish", "fail"} =>
       agent.run \in DOMAIN runs /\ RunIsOfCommand(agent.cmd, agent.run)
  /\ reply.answer = "ok" =>
       CASE agent.at = "heartbeat" -> reply.commands \in Seq(Command)
         [] agent.at = "create" -> reply.run \in DOMAIN runs /\ RunIsOfCommand(agent.cmd, reply.run)
         [] agent.at = "finish" -> HasSnapshot(agent.run)
         [] OTHER -> TRUE

\* At any statement of any handler, daemon and server agree on which run is
\* of which command and what it has left behind.
CommandsInv ==
  TypeOK /\ OneActiveRun /\ CompletedHasSnapshot /\ OneRequest /\ NotRunYet /\ DaemonOK
  /\ \A q \in reqs : HandlerOK(q)

\* How a command ended is not overwritten by a report that comes late, and
\* no command is run twice.
CommandsEndOnce ==
  [][\A c \in Command :
       /\ cmd[c].status \in Ended => cmd'[c] = cmd[c]
       /\ cmd[c].run # NoRun => cmd'[c].run = cmd[c].run]_vars

\* A run the agent has lost track of does not stay active: a later backup
\* resumes it and ends it.
ActiveRunsEnd == \A r \in 1..MaxRun :
  (r \in ActiveRuns) ~> (r \notin ActiveRuns)
=============================================================================
