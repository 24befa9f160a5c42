----------------------------- MODULE Supervisor -----------------------------
(***************************************************************************)
(* The agent supervisor of src/src/supervisor.c: the in-memory slot table  *)
(* of every open handle, the slot files the handles share on disk, and the *)
(* operating-system processes the slots stand for.                         *)
(*                                                                         *)
(* A host is a process that embeds the library and has at most one handle. *)
(* A call that changes state is a sequence of steps of its host, because   *)
(* between fork(), write_slot() and the polls of kill_tree() other hosts   *)
(* and the agents themselves keep running, and the host may die:           *)
(*                                                                         *)
(*    idle --start--> attach --> write --> idle                            *)
(*                                 | (write failed)                        *)
(*                                 +--> term --> kill --> write --> idle   *)
(*    idle --bind, status, stop--> write --> idle                          *)
(*    idle --stop--> term --> kill --> write --> idle                      *)
(*                                                                         *)
(* A call refused before it touches the slot table (invalid argument, no   *)
(* free slot, unknown agent) changes nothing and is a stuttering step. The *)
(* mode of a slot takes part in no decision and is left out.               *)
(***************************************************************************)
EXTENDS Integers, FiniteSets

CONSTANTS
  Hosts,       \* processes that embed the library, one handle each
  Agents,      \* agent ids that pass valid_id
  Pids,        \* process ids the kernel hands out, in increasing order
  Workspaces,  \* non-empty workspace arguments that pass valid_token
  Empty,       \* the empty workspace string
  Dash,        \* the token "-", which stands for Empty in a slot file
  ExitCodes,   \* wait statuses an agent can end with
  BindOnly,    \* pids without a process tree a caller may bind: 0, 1
  SeatPids,    \* the pids that processes started by a session may get
  Moves,       \* pairs <<p, g>>: processes p that may call setpgid(0, g)
  MaxAgents    \* PHRONESIS_MAX_AGENTS

ASSUME PidsAssumption == Pids \subseteq Nat \ {0, 1}
ASSUME AgentsAssumption == Agents # {}
ASSUME TokensAssumption == Empty \notin Workspaces /\ Empty # Dash
ASSUME ExitAssumption == ExitCodes \subseteq Nat /\ 0 \in ExitCodes
ASSUME BindOnlyAssumption == BindOnly \subseteq {0, 1}
ASSUME MaxAgentsAssumption == MaxAgents \in Nat \ {0}

VARIABLES
  mem,       \* mem[h][a]: the slot of a in the table of h's handle
  disk,      \* disk[a]: what <runtime>/agents/<a>.slot holds
  proc,      \* proc[p]: the process with pid p
  op,        \* op[h]: the step h is at in the call it is executing
  dirty,     \* pairs <<h, a>>: h's slot changed and is not on disk
  lost       \* pids of live agents that a slot or the kill of its group may miss

vars == <<mem, disk, proc, op, dirty, lost>>

-----------------------------------------------------------------------------
(* The records. *)

Stopped == "stopped"   \* PHRONESIS_AGENT_STOPPED
Running == "running"   \* PHRONESIS_AGENT_RUNNING
Failed  == "failed"    \* PHRONESIS_AGENT_FAILED

Other   == "other"     \* init, a session, or an agent, as parent process
InitPid == 1
Unknown == -1          \* exit_status when none was collected

\* Mutant of CgroupOf: one directory for all agents.
CgroupShared(a) == <<"phronesis", CHOOSE b \in Agents : TRUE>>

\* The cgroup of an agent is a directory named after it.
CgroupOf(a) == <<"phronesis", a>>
NoCgroup    == <<>>
Cgroups     == {CgroupOf(a) : a \in Agents} \cup {NoCgroup}

SlotPids == Pids \cup BindOnly \cup {0}

Slot ==
  [in_use : BOOLEAN, state : {Stopped, Running, Failed},
   pid : SlotPids, pgid : Pids \cup {0}, exit : ExitCodes \cup {Unknown},
   ws : Workspaces \cup {Empty, Dash}, cgroup : Cgroups]

\* A zeroed table entry; on disk, a slot file that does not exist.
NoSlot ==
  [in_use |-> FALSE, state |-> Stopped, pid |-> 0, pgid |-> 0,
   exit |-> Unknown, ws |-> Empty, cgroup |-> NoCgroup]

\* What alloc_mem leaves in the entry it takes.
FreshSlot == [NoSlot EXCEPT !.in_use = TRUE]

\* kind tells the processes start() forked from the ones they fork and from
\* the seats a session starts by itself. Group 0 stands for the groups that
\* are no agent's: the one of the host, or of a session that starts a seat.
\* came is history and guards nothing: the process, or the one it was forked
\* from, was born into its group (or made it), joined it by setpgid(), or
\* joined it too late, when a kill_tree() had already sent its SIGKILL.
Process ==
  [st : {"unused", "live", "zombie", "gone"}, parent : Hosts \cup {Other},
   grp : Pids \cup {0}, came : {"born", "joined", "late"},
   agent : Agents, kind : {"leader", "child", "seat"},
   cgroup : Cgroups, code : ExitCodes]

SomeAgent == CHOOSE a \in Agents : TRUE

Unused ==
  [st |-> "unused", parent |-> Other, grp |-> 0, came |-> "born", agent |-> SomeAgent,
   kind |-> "child", cgroup |-> NoCgroup, code |-> 0]

Steps == {"closed", "idle", "attach", "write", "term", "kill"}
Calls == {"none", "start", "undo", "bind", "status", "stop"}
Op    == [step : Steps, call : Calls, agent : Agents, pgid : Pids \cup {0}]

At(step, call, a, g) == [step |-> step, call |-> call, agent |-> a, pgid |-> g]
Idle   == At("idle", "none", SomeAgent, 0)
Closed == At("closed", "none", SomeAgent, 0)

TypeOK ==
  /\ mem \in [Hosts -> [Agents -> Slot]]
  /\ disk \in [Agents -> Slot]
  /\ proc \in [Pids -> Process]
  /\ op \in [Hosts -> Op]
  /\ dirty \subseteq Hosts \X Agents
  /\ lost \subseteq Pids

-----------------------------------------------------------------------------
(* The kernel, as the supervisor sees it. *)

Live(p)   == p \in Pids /\ proc[p].st = "live"
Zombie(p) == p \in Pids /\ proc[p].st = "zombie"

\* kill(p, 0) succeeds: a zombie still has its pid.
Exists(p) == p = InitPid \/ Live(p) \/ Zombie(p)

\* The members of process group g; kill(-g, 0) succeeds iff there are any.
Group(g) == {p \in Pids : proc[p].st \in {"live", "zombie"} /\ proc[p].grp = g}

\* The pids that waitpid(WNOHANG) returns to h.
Waitable(h) == {p \in Pids : proc[p].st = "zombie" /\ proc[p].parent = h}

\* The pid fork() returns next. Pids are not reused.
NextPid(p) ==
  /\ p \in Pids
  /\ proc[p].st = "unused"
  /\ \A q \in Pids : q < p => proc[q].st # "unused"

Spawned(parent, g, a, kind, cg) ==
  [st |-> "live", parent |-> parent, grp |-> g, came |-> "born", agent |-> a,
   kind |-> kind, cgroup |-> cg, code |-> 0]

\* The processes after those in P have been waited for.
Reaping(P) ==
  [p \in Pids |->
     IF p \in P
       THEN [proc[p] EXCEPT !.st = "gone", !.parent = Other, !.grp = 0,
                            !.came = "born", !.cgroup = NoCgroup, !.code = 0]
       ELSE proc[p]]

\* The processes after SIGKILL has been sent to those in P. What remains of
\* a process is a zombie whatever it was doing; nobody collects its status.
Killing(P) ==
  [p \in Pids |->
     IF p \in P /\ proc[p].st = "live" THEN [proc[p] EXCEPT !.st = "zombie"]
                                       ELSE proc[p]]

-----------------------------------------------------------------------------
(* Slots: the file format, load_agent and reap_slot. *)

\* write_slot prints "-" for an empty workspace and no cgroup path;
\* read_slot_file reads "-" as empty.
Encode(s) == [s EXCEPT !.ws = IF @ = Empty THEN Dash ELSE @, !.cgroup = NoCgroup]
Decode(f) == [f EXCEPT !.ws = IF @ = Dash THEN Empty ELSE @]

\* Mutant of Loaded: the entry found in the table is not compared with a.
LoadedAny(h, a) ==
  IF \E b \in Agents : mem[h][b].in_use
    THEN mem[h][CHOOSE b \in Agents : mem[h][b].in_use]
    ELSE Decode(disk[a])

\* load_agent: the table first, the file only if the table has no entry.
Loaded(h, a) == IF mem[h][a].in_use THEN mem[h][a] ELSE Decode(disk[a])

HasRoom(h, a) ==
  \/ mem[h][a].in_use
  \/ Cardinality({b \in Agents : mem[h][b].in_use}) < MaxAgents

\* The processes reap_slot waits for, and the slot it leaves.
Collected(h, s) ==
  IF s.state = Running THEN {s.pid} \cap Waitable(h) ELSE {}

Reaped(h, s) ==
  IF s.state # Running \/ s.pid = 0 THEN s
  ELSE IF ~Exists(s.pid)
    THEN [s EXCEPT !.state = Stopped, !.pid = 0, !.exit = Unknown]
  ELSE IF s.pid \in Waitable(h)
    THEN [s EXCEPT !.state = Stopped, !.pid = 0, !.exit = proc[s.pid].code]
  ELSE s

\* The slot a start or bind works on: loaded and reaped, or newly allocated.
Current(h, a) ==
  IF Loaded(h, a).in_use THEN Reaped(h, Loaded(h, a)) ELSE FreshSlot

\* An idle handle with an entry for a, or room for one, takes a call on a.
Ready(h, a) == op[h].step = "idle" /\ HasRoom(h, a)

\* What loading and reaping the slot of a does to the processes.
ReapedProcs(h, a) == Reaping(Collected(h, Loaded(h, a)))

SetSlot(h, a, s) == mem' = [mem EXCEPT ![h][a] = s]
Goto(h, o)       == op' = [op EXCEPT ![h] = o]

\* Every slot change is followed by write_slot in the same call.
WriteNext(h, call, a, g) ==
  /\ Goto(h, At("write", call, a, g))
  /\ UNCHANGED <<disk, dirty, lost>>

\* The live group leader that slot s names and slot t does not.
Dropped(s, t) == {p \in Pids : Live(p) /\ p = s.pgid /\ p # t.pgid}

\* fopen() in read_slot_file fails although the file is there, for want of
\* a descriptor or of permission, and that is reported as "not found": start()
\* or bind() takes a fresh entry for an agent that may be running. When fork()
\* fails as well the call ends here; otherwise it goes on from the fresh entry,
\* as Start and Bind do.
LoadMisses(h, a) ==
  /\ Ready(h, a)
  /\ ~mem[h][a].in_use
  /\ disk[a].in_use
  /\ SetSlot(h, a, FreshSlot)
  /\ dirty' = dirty \cup {<<h, a>>}
  /\ lost' = lost \cup Dropped(disk[a], FreshSlot)
  /\ UNCHANGED <<disk, proc, op>>

-----------------------------------------------------------------------------
(* phronesis_supervisor_open and close, and the death of a host. *)

Open(h) ==
  /\ op[h] = Closed
  /\ Goto(h, Idle)
  /\ UNCHANGED <<mem, disk, proc, dirty, lost>>

\* The table dies with the handle.
Forget(h) ==
  /\ mem' = [mem EXCEPT ![h] = [a \in Agents |-> NoSlot]]
  /\ dirty' = {d \in dirty : d[1] # h}
  /\ Goto(h, Closed)

Close(h) ==
  /\ op[h].step = "idle"
  /\ Forget(h)
  /\ UNCHANGED <<disk, proc, lost>>

\* The host dies at any step and its children pass to another parent. An
\* agent that start() has forked but not yet written to disk is lost.
Crash(h) ==
  /\ op[h].step # "closed"
  /\ Forget(h)
  /\ proc' = [p \in Pids |-> IF proc[p].parent = h
                               THEN [proc[p] EXCEPT !.parent = Other]
                               ELSE proc[p]]
  /\ lost' = lost \cup
       {p \in Pids : /\ op[h].call \in {"start", "undo"}
                     /\ p = op[h].pgid
                     /\ Live(p)}
  /\ UNCHANGED disk

-----------------------------------------------------------------------------
(* phronesis_supervisor_start. *)

\* The child is a process-group leader before anyone can signal it: both
\* the child and the parent call setpgid.
LeaderOf(h, a, p) == Spawned(h, p, a, "leader", NoCgroup)

StartedSlot(p, ws) ==
  [FreshSlot EXCEPT !.state = Running, !.pid = p, !.pgid = p, !.ws = ws]

Start(h, a, ws, p) ==
  /\ Ready(h, a)
  /\ Current(h, a).state # Running
  /\ NextPid(p)
  /\ proc' = [ReapedProcs(h, a) EXCEPT ![p] = LeaderOf(h, a, p)]
  /\ SetSlot(h, a, StartedSlot(p, ws))
  /\ Goto(h, At("attach", "start", a, p))
  /\ UNCHANGED <<disk, dirty, lost>>

\* fork() fails: the slot stays in the table, reaped, and nothing is written.
StartForkFails(h, a) ==
  /\ Ready(h, a)
  /\ Current(h, a).state # Running
  /\ proc' = ReapedProcs(h, a)
  /\ SetSlot(h, a, Current(h, a))
  /\ dirty' = dirty \cup {<<h, a>>}
  /\ UNCHANGED <<disk, op, lost>>

\* Best-effort cgroup placement of the child, which may already have forked.
\* A process that is gone or a missing cgroup tree leaves the path empty.
Attach(h) ==
  LET a == op[h].agent
      p == op[h].pgid
  IN  /\ op[h].step = "attach"
      /\ \/ /\ proc[p].st = "live"
            /\ proc' = [proc EXCEPT ![p].cgroup = CgroupOf(a)]
            /\ SetSlot(h, a, [mem[h][a] EXCEPT !.cgroup = CgroupOf(a)])
         \/ UNCHANGED <<mem, proc>>
      /\ WriteNext(h, "start", a, p)

\* A start or bind on a running slot returns PHRONESIS_ERR_EXISTS and writes
\* nothing, but the slot it loaded stays in the table.
Refuse(h, a) ==
  /\ Ready(h, a)
  /\ Current(h, a).state = Running
  /\ SetSlot(h, a, Current(h, a))
  /\ UNCHANGED <<disk, proc, op, dirty, lost>>

-----------------------------------------------------------------------------
(* phronesis_supervisor_bind. *)

\* The pids a caller binds to agent a: none, init, or a process of a's own.
BindPids(a) == BindOnly \cup {p \in Pids : Live(p) /\ proc[p].agent = a}

\* Mutant of BoundPgid: the pid is taken for a group whatever it is.
BoundPgidUnchecked(pid) == pid

BoundPgid(pid) == IF pid > 1 THEN pid ELSE 0

\* A slot that is not running takes the new pid and runs; an empty incoming
\* workspace keeps the committed one.
BoundSlot(s, ws, pid) ==
  [s EXCEPT !.state = Running, !.pid = pid, !.pgid = BoundPgid(pid),
            !.exit = Unknown, !.cgroup = NoCgroup,
            !.ws = IF ws = Empty THEN @ ELSE ws]

Bind(h, a, ws, pid) ==
  /\ Ready(h, a)
  /\ Current(h, a).state # Running
  /\ proc' = ReapedProcs(h, a)
  /\ SetSlot(h, a, BoundSlot(Current(h, a), ws, pid))
  /\ WriteNext(h, "bind", a, 0)

\* A running slot with an empty workspace takes the incoming one, and a pid
\* if the caller gives one.
FilledSlot(s, ws, pid) ==
  [s EXCEPT !.ws = ws, !.pid = IF pid > 0 THEN pid ELSE @,
            !.pgid = IF pid > 1 THEN pid ELSE @]

\* Mutant of MayFill: a committed workspace is replaced as well.
MayFillAny(s, ws) == s.state = Running /\ ws # Empty

MayFill(s, ws) == s.state = Running /\ s.ws = Empty /\ ws # Empty

\* Mutant of BindFill: the fill stays in memory.
BindFillUnwritten(h, a, ws, pid) ==
  /\ Ready(h, a)
  /\ MayFill(Current(h, a), ws)
  /\ SetSlot(h, a, FilledSlot(Current(h, a), ws, pid))
  /\ lost' = lost \cup Dropped(Current(h, a), FilledSlot(Current(h, a), ws, pid))
  /\ UNCHANGED <<disk, proc, op, dirty>>

BindFill(h, a, ws, pid) ==
  /\ Ready(h, a)
  /\ MayFill(Current(h, a), ws)
  /\ SetSlot(h, a, FilledSlot(Current(h, a), ws, pid))
  /\ Goto(h, At("write", "bind", a, 0))
  /\ lost' = lost \cup Dropped(Current(h, a), FilledSlot(Current(h, a), ws, pid))
  /\ UNCHANGED <<disk, proc, dirty>>

-----------------------------------------------------------------------------
(* phronesis_supervisor_status, which is also what a policy check does. *)

Status(h, a) ==
  /\ Ready(h, a)
  /\ Loaded(h, a).in_use
  /\ proc' = ReapedProcs(h, a)
  /\ SetSlot(h, a, Current(h, a))
  /\ WriteNext(h, "status", a, 0)

-----------------------------------------------------------------------------
(* phronesis_supervisor_stop and kill_tree. *)

StopTarget(s) == IF s.pgid > 0 THEN s.pgid ELSE s.pid

StopIdempotent(h, a) ==
  /\ Ready(h, a)
  /\ Loaded(h, a).in_use
  /\ Current(h, a).state # Running
  /\ proc' = ReapedProcs(h, a)
  /\ SetSlot(h, a, Current(h, a))
  /\ WriteNext(h, "stop", a, 0)

\* No process group to signal: pid 0 or 1.
StopBindOnly(h, a) ==
  /\ Ready(h, a)
  /\ Current(h, a).state = Running
  /\ StopTarget(Current(h, a)) <= 1
  /\ SetSlot(h, a, [Current(h, a) EXCEPT !.state = Stopped, !.pid = 0, !.pgid = 0])
  /\ WriteNext(h, "stop", a, 0)
  /\ UNCHANGED proc

\* Mutant of StopKill: a slot without a process tree is signalled as well.
StopKillAny(h, a) ==
  /\ Ready(h, a)
  /\ Current(h, a).state = Running
  /\ SetSlot(h, a, Current(h, a))
  /\ Goto(h, At("term", "stop", a, StopTarget(Current(h, a))))
  /\ UNCHANGED <<disk, proc, dirty, lost>>

\* cgroup.kill reaches the members that left the group; writing it may fail.
\* SIGTERM then asks the group to exit, which its members may do or ignore.
StopKill(h, a) ==
  LET s == Current(h, a)
  IN  /\ Ready(h, a)
      /\ s.state = Running
      /\ StopTarget(s) > 1
      /\ \/ /\ s.cgroup # NoCgroup
            /\ proc' = Killing({p \in Pids : proc[p].cgroup = s.cgroup})
         \/ UNCHANGED proc
      /\ SetSlot(h, a, s)
      /\ Goto(h, At("term", "stop", a, StopTarget(s)))
      /\ UNCHANGED <<disk, dirty, lost>>

\* One poll of kill_tree collects one child of the host.
Poll(h) ==
  /\ op[h].step \in {"term", "kill"}
  /\ \E p \in Group(op[h].pgid) \cap Waitable(h) : proc' = Reaping({p})
  /\ UNCHANGED <<mem, disk, op, dirty, lost>>

\* The slot kill_tree returns to: stop() marks it stopped, a start() that
\* could not be recorded marks it failed.
KilledSlot(s, call) ==
  [s EXCEPT !.state = IF call = "undo" THEN Failed ELSE Stopped, !.pid = 0,
            !.exit = IF call = "undo" THEN @ ELSE Unknown, !.cgroup = NoCgroup]

\* kill_tree's last loop collects every child left in the group.
KillReturns(h) ==
  LET a == op[h].agent
  IN  /\ proc' = Reaping(Group(op[h].pgid) \cap Waitable(h))
      /\ SetSlot(h, a, KilledSlot(mem[h][a], op[h].call))
      /\ WriteNext(h, op[h].call, a, op[h].pgid)

\* The polls after SIGTERM end: the group is empty, ...
TermEmpty(h) ==
  /\ op[h].step = "term"
  /\ Group(op[h].pgid) = {}
  /\ KillReturns(h)

\* Mutant of TermTimeout: no SIGKILL after the last try.
TermTimeoutGivesUp(h) ==
  /\ op[h].step = "term"
  /\ Group(op[h].pgid) # {}
  /\ KillReturns(h)

\* Mutant of TermTimeout: the polls have no last try.
TermNeverTimesOut(h) == FALSE /\ UNCHANGED vars

\* ... or the tries are used up and what is left gets SIGKILL.
TermTimeout(h) ==
  /\ op[h].step = "term"
  /\ Group(op[h].pgid) # {}
  /\ proc' = Killing(Group(op[h].pgid))
  /\ Goto(h, [op[h] EXCEPT !.step = "kill"])
  /\ UNCHANGED <<mem, disk, dirty, lost>>

\* The polls after SIGKILL end, with the group empty or the tries used up.
KillDone(h) ==
  /\ op[h].step = "kill"
  /\ KillReturns(h)

-----------------------------------------------------------------------------
(* write_slot, and what the calls do with its result. *)

WriteSlot(h) ==
  LET a == op[h].agent
  IN  /\ op[h].step = "write"
      /\ disk' = [disk EXCEPT ![a] = Encode(mem[h][a])]
      /\ dirty' = dirty \ {<<h, a>>}
      /\ Goto(h, Idle)
      /\ UNCHANGED <<mem, proc, lost>>

\* Mutant of AfterFailedWrite: the error is returned, the child stays.
AfterFailedWriteReturn(o) == Idle

\* Only start() acts on a failed write: it kills what it has forked.
AfterFailedWrite(o) ==
  IF o.call = "start" THEN At("term", "undo", o.agent, o.pgid) ELSE Idle

WriteFails(h) ==
  /\ op[h].step = "write"
  /\ dirty' = dirty \cup {<<h, op[h].agent>>}
  /\ Goto(h, AfterFailedWrite(op[h]))
  /\ UNCHANGED <<mem, disk, proc, lost>>

-----------------------------------------------------------------------------
(* Everything else that runs on the machine. *)

\* What p forks: group, cgroup and agent are inherited.
Forked(p) == [Spawned(Other, proc[p].grp, proc[p].agent, "child", proc[p].cgroup)
                EXCEPT !.came = proc[p].came]

ProcFork(p, c) ==
  /\ Live(p)
  /\ NextPid(c)
  /\ proc' = [proc EXCEPT ![c] = Forked(p)]
  /\ UNCHANGED <<mem, disk, op, dirty, lost>>

\* The call is in kill_tree() after SIGKILL, or on its way back from there.
PastKill(o) == o.step = "kill" \/ (o.step = "write" /\ o.call \in {"stop", "undo"})

\* How a process that calls setpgid(0, g) comes to its new group.
Comes(p, g) ==
  IF \E h \in Hosts : PastKill(op[h]) /\ op[h].pgid = g /\ g # 0 THEN "late"
  ELSE IF g \in {0, p} THEN "born" ELSE "joined"

\* A process starts a group of its own or joins any group that exists, also
\* one of another agent and one whose members are all zombies: start() makes
\* process groups and no sessions, so that every agent is in the session of
\* the host, and setpgid() asks for no more. A leader that leaves its own
\* group has left what kill_tree() signals.
ProcSetsGroup(p, g) ==
  /\ <<p, g>> \in Moves
  /\ Live(p)
  /\ g # proc[p].grp
  /\ g \in {0, p} \/ Group(g) # {}
  /\ proc' = [proc EXCEPT ![p].grp = g, ![p].came = Comes(p, g)]
  /\ lost' = IF proc[p].kind = "leader" THEN lost \cup {p} ELSE lost
  /\ UNCHANGED <<mem, disk, op, dirty>>

ProcExit(p, code) ==
  /\ Live(p)
  /\ proc' = [proc EXCEPT ![p].st = "zombie", ![p].code = code]
  /\ UNCHANGED <<mem, disk, op, dirty, lost>>

\* A parent that is no host collects its child.
OtherReaps(p) ==
  /\ Zombie(p)
  /\ proc[p].parent = Other
  /\ proc' = Reaping({p})
  /\ UNCHANGED <<mem, disk, op, dirty, lost>>

\* A session starts a seat for agent a, as a group leader or not.
SpawnSeat(p, a) ==
  /\ p \in SeatPids
  /\ NextPid(p)
  /\ \E g \in {p, 0} :
       proc' = [proc EXCEPT ![p] = Spawned(Other, g, a, "seat", NoCgroup)]
  /\ UNCHANGED <<mem, disk, op, dirty, lost>>

-----------------------------------------------------------------------------
Init ==
  /\ mem = [h \in Hosts |-> [a \in Agents |-> NoSlot]]
  /\ disk = [a \in Agents |-> NoSlot]
  /\ proc = [p \in Pids |-> Unused]
  /\ op = [h \in Hosts |-> Closed]
  /\ dirty = {}
  /\ lost = {}

\* A step inside a call. Every such step is taken sooner or later: the polls
\* of kill_tree are counted and write_slot does not block.
CallStep(h) ==
  \/ Attach(h) \/ Poll(h) \/ TermEmpty(h) \/ TermTimeout(h) \/ KillDone(h)
  \/ WriteSlot(h) \/ WriteFails(h)

AgentCall(h, a) ==
  \/ \E ws \in Workspaces \cup {Empty}, p \in Pids : Start(h, a, ws, p)
  \/ StartForkFails(h, a)
  \/ LoadMisses(h, a)
  \/ Refuse(h, a)
  \/ \E ws \in Workspaces \cup {Empty}, pid \in BindPids(a) :
       Bind(h, a, ws, pid) \/ BindFill(h, a, ws, pid)
  \/ Status(h, a)
  \/ StopIdempotent(h, a) \/ StopBindOnly(h, a) \/ StopKill(h, a)

HostStep(h) ==
  \/ Open(h) \/ Close(h) \/ Crash(h) \/ CallStep(h)
  \/ \E a \in Agents : AgentCall(h, a)

ProcessStep ==
  \/ \E p, c \in Pids : ProcFork(p, c)
  \/ \E p \in Pids, g \in Pids \cup {0} : ProcSetsGroup(p, g)
  \/ \E p \in Pids : OtherReaps(p)
  \/ \E p \in Pids, code \in ExitCodes : ProcExit(p, code)
  \/ \E p \in Pids, a \in Agents : SpawnSeat(p, a)

Next == ProcessStep \/ \E h \in Hosts : HostStep(h)

Spec == Init /\ [][Next]_vars

FairSpec == Spec /\ \A h \in Hosts : WF_vars(CallStep(h))

-----------------------------------------------------------------------------
(* Properties. *)

\* While one host at a time runs the supervisor, a process that start() forked
\* is never lost: as long as it lives, the slot file names it, so that a stop()
\* from any later process kills it, or the call that forked it or is killing
\* it is still under way. There are four exceptions: a host that dies inside
\* start(), between fork() and write_slot(), a bind that fills the workspace
\* of a running slot with a pid of its own, a call that could not open the
\* slot file and took that for "not found", and a process that has moved to
\* another group and is not where kill_tree() looks for it.
LeaderTracked ==
  \A p \in Pids :
    (Live(p) /\ proc[p].kind = "leader" /\ p \notin lost) =>
      LET a == proc[p].agent
      IN  \/ disk[a].state = Running /\ disk[a].pgid = p
          \/ \E h \in Hosts :
               /\ op[h].step \notin {"idle", "closed"}
               /\ op[h].agent = a
               /\ mem[h][a].pgid = p

\* Between calls the slot file holds what the table holds, so that a host that
\* dies and comes back continues where it was, unless write_slot failed,
\* fork() failed after the slot had been reaped, or the slot file could not
\* be opened: those paths change the table and leave the file behind.
WriteThrough ==
  \A h \in Hosts, a \in Agents :
    (op[h].step = "idle" /\ mem[h][a].in_use /\ <<h, a>> \notin dirty) =>
      disk[a] = Encode(mem[h][a])

\* When kill_tree has returned, to stop() or to a start() that could not be
\* recorded, and until the call returns, no process that was in the group
\* before the SIGKILL is alive, and none that such a process has forked,
\* however the members fork, exit, leave or ignore SIGTERM meanwhile. There is
\* one SIGKILL: a process that moves into the group after it, while a zombie
\* still holds the group, survives with what it forks.
KilledGroupIsDead ==
  \A h \in Hosts :
    (/\ op[h].step = "write"
     /\ op[h].call \in {"stop", "undo"}
     /\ op[h].pgid \in Pids) =>
      \A p \in Group(op[h].pgid) : Live(p) => proc[p].came = "late"

\* A workspace recorded for an agent that runs, and that no host has failed to
\* write or to read, is sticky: as long as the agent runs it is neither replaced nor
\* wiped (supervisor.c: "A non-empty workspace is sticky: refuse replace",
\* "Empty incoming must not wipe a committed root").
Committed(a) ==
  /\ disk[a].state = Running
  /\ Decode(disk[a]).ws # Empty
  /\ disk[a].pid = 0 \/ Exists(disk[a].pid)
  /\ \A h \in Hosts : <<h, a>> \notin dirty

StickyWorkspace ==
  [][\A a \in Agents :
       (Committed(a) /\ disk'[a].state = Running) => disk'[a].ws = disk[a].ws]_vars

\* Everything that leads to a process leads to a process of the right agent:
\* the group of a process, the pids and the cgroup in a slot of any table and
\* in any slot file, and the group a call is killing. This is what makes it
\* safe to signal a group id read from a file that another host has written.
\* The one exception is a process that has itself moved into the group of
\* another agent with setpgid(), and what it forks there.
OwnedBy(p, a) == proc[p].st # "unused" /\ proc[p].agent = a

SlotOwned(s, a) ==
  /\ s.pid \in Pids => OwnedBy(s.pid, a)
  /\ s.pgid \in Pids => OwnedBy(s.pgid, a)
  /\ s.cgroup \in {NoCgroup, CgroupOf(a)}

Ownership ==
  /\ \A p \in Pids :
       /\ (/\ proc[p].st \in {"live", "zombie"}
           /\ proc[p].grp \in Pids
           /\ proc[p].came = "born") =>
            OwnedBy(proc[p].grp, proc[p].agent)
       /\ proc[p].cgroup \in {NoCgroup, CgroupOf(proc[p].agent)}
  /\ \A h \in Hosts, a \in Agents : SlotOwned(mem[h][a], a)
  /\ \A a \in Agents : SlotOwned(disk[a], a)
  /\ \A h \in Hosts : op[h].pgid \in Pids => OwnedBy(op[h].pgid, op[h].agent)

\* A call that signals a group has one: it never signals group 0, its own, or
\* group 1, everybody, although slots with pid 0 and 1 are bound and stopped
\* and a start() that cannot be recorded enters kill_tree from write_slot.
SignalsRealGroup ==
  \A h \in Hosts :
    (op[h].step \in {"attach", "term", "kill"} \/ op[h].call \in {"start", "undo"}) =>
      op[h].pgid \in Pids

\* Killing is confined to the agent the call is about: neither SIGKILL to the
\* recorded group nor cgroup.kill ever ends a process of another agent,
\* whichever hosts start, bind and stop which agents concurrently, unless that
\* process has moved into the group of the agent that is being killed.
OnlyOwnKilled ==
  [][\A h \in Hosts, p \in Pids :
       (op'[h] # op[h] /\ proc[p].st = "live" /\ proc'[p].st # "live") =>
         \/ proc[p].agent = op'[h].agent
         \/ /\ proc[p].came # "born"
            /\ proc[p].grp = op[h].pgid
            /\ OwnedBy(op[h].pgid, op'[h].agent)]_vars

\* Every call returns (or its host dies), also when members of the group
\* ignore SIGTERM: kill_tree's polls are bounded.
CallReturns ==
  \A h \in Hosts :
    op[h].step \notin {"idle", "closed"} ~> op[h].step \in {"idle", "closed"}

\* supervisor.h says of PHRONESIS_AGENT_STOPPED "No live process (never
\* started, or reaped stopped)": no live process in the group that the slot of
\* a stopped agent records.
StoppedHasNoLiveProcess ==
  \A h \in Hosts, a \in Agents :
    (op[h].step = "idle" /\ mem[h][a].in_use /\ mem[h][a].state = Stopped) =>
      \A p \in Group(mem[h][a].pgid) : mem[h][a].pgid = 0 \/ ~Live(p)
=============================================================================
