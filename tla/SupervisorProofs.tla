-------------------------- MODULE SupervisorProofs --------------------------
(***************************************************************************)
(* Theorems about Supervisor for every set of hosts, agents and pids.      *)
(*                                                                         *)
(* In three parts: types, and who owns the processes that the table names; *)
(* what a call leaves behind, namely that the group which kill_tree has    *)
(* killed is dead and that the slot file holds what the table holds; and   *)
(* that a process which start() forked can always be found again. What     *)
(* two hosts on one slot file may do to each other is left to the runs:    *)
(* the last two parts assume OneHost where they need it.                   *)
(***************************************************************************)
EXTENDS Supervisor, TLAPS

-----------------------------------------------------------------------------
(* The operators on slots and processes keep to their types. *)

\* The values Init starts from are a slot, a process and operations.
LEMMA BaseTypes ==
  /\ NoSlot \in Slot
  /\ FreshSlot \in Slot
  /\ FreshSlot.in_use /\ FreshSlot.state = Stopped
  /\ Unused \in Process
  /\ SomeAgent \in Agents
  /\ Idle \in Op
  /\ Closed \in Op
<1>1. SomeAgent \in Agents
  BY AgentsAssumption DEF SomeAgent
<1>2. NoSlot \in Slot /\ FreshSlot \in Slot
  BY DEF NoSlot, FreshSlot, Slot, SlotPids, Cgroups, Stopped, Running, Failed
<1>3. FreshSlot.in_use /\ FreshSlot.state = Stopped
  BY DEF NoSlot, FreshSlot
<1>4. Unused \in Process
  BY <1>1, ExitAssumption DEF Unused, Process, Cgroups
<1>5. Idle \in Op /\ Closed \in Op
  BY <1>1 DEF Idle, Closed, At, Op, Steps, Calls
<1>. QED  BY <1>1, <1>2, <1>3, <1>4, <1>5

\* What the slot file holds is a slot again, with the same pids.
LEMMA CodecType ==
  ASSUME NEW s \in Slot
  PROVE  /\ Encode(s) \in Slot
         /\ Encode(s).pid = s.pid /\ Encode(s).pgid = s.pgid
         /\ Encode(s).cgroup = NoCgroup
         /\ Decode(s) \in Slot
         /\ Decode(s).pid = s.pid /\ Decode(s).pgid = s.pgid
         /\ Decode(s).cgroup = s.cgroup
BY DEF Encode, Decode, Slot, Cgroups

\* Loading and reaping a slot gives a slot that names no new pid or cgroup.
LEMMA CurrentType ==
  ASSUME TypeOK, NEW h \in Hosts, NEW a \in Agents
  PROVE  /\ Loaded(h, a) \in Slot
         /\ Current(h, a) \in Slot
         /\ Current(h, a).pid \in {0, mem[h][a].pid, disk[a].pid}
         /\ Current(h, a).pgid \in {0, mem[h][a].pgid, disk[a].pgid}
         /\ Current(h, a).cgroup \in {NoCgroup, mem[h][a].cgroup, disk[a].cgroup}
<1>1. mem[h][a] \in Slot /\ disk[a] \in Slot
  BY DEF TypeOK
<1>2. /\ Loaded(h, a) \in Slot
      /\ Loaded(h, a).pid \in {mem[h][a].pid, disk[a].pid}
      /\ Loaded(h, a).pgid \in {mem[h][a].pgid, disk[a].pgid}
      /\ Loaded(h, a).cgroup \in {mem[h][a].cgroup, disk[a].cgroup}
  BY <1>1, CodecType DEF Loaded
<1>3. ASSUME NEW s \in Slot
      PROVE  /\ Reaped(h, s) \in Slot
             /\ Reaped(h, s).pid \in {0, s.pid}
             /\ Reaped(h, s).pgid = s.pgid
             /\ Reaped(h, s).cgroup = s.cgroup
  <2>1. CASE Reaped(h, s) = s
    BY <2>1
  <2>2. CASE Reaped(h, s) =
               [s EXCEPT !.state = Stopped, !.pid = 0, !.exit = Unknown]
    BY <2>2 DEF Slot, SlotPids
  <2>3. CASE /\ s.pid \in Waitable(h)
             /\ Reaped(h, s) =
                  [s EXCEPT !.state = Stopped, !.pid = 0, !.exit = proc[s.pid].code]
    <3>1. proc[s.pid].code \in ExitCodes
      BY <2>3 DEF Waitable, TypeOK, Process
    <3>. QED  BY <2>3, <3>1 DEF Slot, SlotPids
  <2>. QED  BY <2>1, <2>2, <2>3 DEF Reaped
<1>4. CASE Loaded(h, a).in_use
  BY <1>2, <1>3, <1>4 DEF Current
<1>5. CASE ~Loaded(h, a).in_use
  BY <1>2, <1>5, BaseTypes DEF Current, FreshSlot, NoSlot
<1>. QED  BY <1>2, <1>4, <1>5

\* What the kernel does to the processes keeps them processes.
LEMMA ProcessTypes ==
  ASSUME TypeOK
  PROVE  /\ \A P : Reaping(P) \in [Pids -> Process]
         /\ \A P : Killing(P) \in [Pids -> Process]
         /\ \A par \in Hosts \cup {Other}, g \in Pids \cup {0}, a \in Agents,
               kind \in {"leader", "child", "seat"}, cg \in Cgroups :
              Spawned(par, g, a, kind, cg) \in Process
<1>1. ASSUME NEW P
      PROVE  Reaping(P) \in [Pids -> Process]
  <2>1. ASSUME NEW p \in Pids
        PROVE  [proc[p] EXCEPT !.st = "gone", !.parent = Other, !.grp = 0,
                               !.came = "born", !.cgroup = NoCgroup, !.code = 0] \in Process
    <3>1. proc[p] \in Process
      BY DEF TypeOK
    <3>. QED  BY <3>1, ExitAssumption, ZenonT(60) DEF Process, Cgroups
  <2>. QED  BY <2>1 DEF Reaping, TypeOK
<1>2. ASSUME NEW P
      PROVE  Killing(P) \in [Pids -> Process]
  <2>1. ASSUME NEW p \in Pids
        PROVE  [proc[p] EXCEPT !.st = "zombie"] \in Process
    <3>1. proc[p] \in Process
      BY DEF TypeOK
    <3>. QED  BY <3>1, SMTT(30) DEF Process
  <2>. QED  BY <2>1 DEF Killing, TypeOK
<1>3. ASSUME NEW par \in Hosts \cup {Other}, NEW g \in Pids \cup {0}, NEW a \in Agents,
             NEW kind \in {"leader", "child", "seat"}, NEW cg \in Cgroups
      PROVE  Spawned(par, g, a, kind, cg) \in Process
  BY ExitAssumption DEF Spawned, Process
<1>. QED  BY <1>1, <1>2, <1>3

\* What a process hands down to the one it forks.
LEMMA ForkedFields ==
  ASSUME TypeOK, NEW p \in Pids
  PROVE  /\ Forked(p) \in Process
         /\ Forked(p).st = "live" /\ Forked(p).kind = "child"
         /\ Forked(p).grp = proc[p].grp /\ Forked(p).came = proc[p].came
         /\ Forked(p).agent = proc[p].agent /\ Forked(p).cgroup = proc[p].cgroup
<1> DEFINE s == Spawned(Other, proc[p].grp, proc[p].agent, "child", proc[p].cgroup)
<1>1. proc[p] \in Process
  BY DEF TypeOK
<1>2. s \in Process
  BY <1>1, ProcessTypes DEF Process
<1>3. /\ s.st = "live" /\ s.kind = "child" /\ s.grp = proc[p].grp
      /\ s.agent = proc[p].agent /\ s.cgroup = proc[p].cgroup
  BY DEF Spawned
<1>. HIDE DEF s
<1>4. [s EXCEPT !.came = proc[p].came] \in Process
  BY <1>1, <1>2 DEF Process
<1>5. /\ [s EXCEPT !.came = proc[p].came].st = s.st
      /\ [s EXCEPT !.came = proc[p].came].kind = s.kind
      /\ [s EXCEPT !.came = proc[p].came].grp = s.grp
      /\ [s EXCEPT !.came = proc[p].came].agent = s.agent
      /\ [s EXCEPT !.came = proc[p].came].cgroup = s.cgroup
      /\ [s EXCEPT !.came = proc[p].came].came = proc[p].came
  BY <1>2 DEF Process
<1>. QED  BY <1>3, <1>4, <1>5 DEF Forked, s

\* What setpgid() changes.
LEMMA MovedFields ==
  ASSUME TypeOK, NEW p \in Pids, NEW g \in Pids \cup {0}, ProcSetsGroup(p, g)
  PROVE  /\ proc' \in [Pids -> Process]
         /\ \A q \in Pids :
              /\ proc'[q].st = proc[q].st /\ proc'[q].agent = proc[q].agent
              /\ proc'[q].kind = proc[q].kind /\ proc'[q].cgroup = proc[q].cgroup
              /\ q # p => proc'[q] = proc[q]
         /\ proc'[p].grp = g /\ proc'[p].came = Comes(p, g) /\ proc[p].st = "live"
<1>1. Comes(p, g) \in {"born", "joined", "late"}
  BY DEF Comes
<1> DEFINE c == Comes(p, g)
           t == [[proc[p] EXCEPT !.grp = g] EXCEPT !.came = c]
<1>2. proc' = [proc EXCEPT ![p] = t] /\ proc[p].st = "live"
  BY DEF ProcSetsGroup, Live, TypeOK
<1>. HIDE DEF c
<1>3. proc[p] \in Process /\ c \in {"born", "joined", "late"}
  BY <1>1 DEF TypeOK, c
<1>4. t \in Process
  BY <1>3 DEF Process
<1>5. /\ t.st = proc[p].st /\ t.agent = proc[p].agent /\ t.kind = proc[p].kind
      /\ t.cgroup = proc[p].cgroup /\ t.grp = g /\ t.came = c
  BY <1>3 DEF Process
<1>. HIDE DEF t
<1>6. proc'[p] = t /\ \A q \in Pids : q # p => proc'[q] = proc[q]
  BY <1>2 DEF TypeOK
<1>. QED  BY <1>2, <1>4, <1>5, <1>6 DEF c, TypeOK

\* The slots the calls store in the table.
LEMMA SlotTypes ==
  ASSUME NEW s \in Slot, NEW ws \in Workspaces \cup {Empty}
  PROVE  /\ \A p \in Pids : StartedSlot(p, ws) \in Slot
         /\ \A pid \in Pids \cup BindOnly :
              BoundSlot(s, ws, pid) \in Slot /\ FilledSlot(s, ws, pid) \in Slot
         /\ \A call : KilledSlot(s, call) \in Slot
         /\ [s EXCEPT !.state = Stopped, !.pid = 0, !.pgid = 0] \in Slot
         /\ \A a \in Agents : [s EXCEPT !.cgroup = CgroupOf(a)] \in Slot
<1>1. ASSUME NEW p \in Pids
      PROVE  StartedSlot(p, ws) \in Slot
  BY DEF StartedSlot, FreshSlot, NoSlot, Slot, SlotPids, Cgroups
<1>2. ASSUME NEW pid \in Pids \cup BindOnly
      PROVE  BoundSlot(s, ws, pid) \in Slot /\ FilledSlot(s, ws, pid) \in Slot
  <2>1. pid \in SlotPids /\ (pid > 1 => pid \in Pids)
    BY PidsAssumption, BindOnlyAssumption DEF SlotPids
  <2>2. BoundPgid(pid) \in Pids \cup {0}
    BY <2>1 DEF BoundPgid
  <2>3. BoundSlot(s, ws, pid) \in Slot
    BY <2>1, <2>2 DEF BoundSlot, Slot, Cgroups
  <2>4. FilledSlot(s, ws, pid) \in Slot
    BY <2>1 DEF FilledSlot, Slot
  <2>. QED  BY <2>3, <2>4
<1>3. ASSUME NEW call
      PROVE  KilledSlot(s, call) \in Slot
  BY DEF KilledSlot, Slot, SlotPids, Cgroups
<1>4. [s EXCEPT !.state = Stopped, !.pid = 0, !.pgid = 0] \in Slot
  BY DEF Slot, SlotPids
<1>5. ASSUME NEW a \in Agents
      PROVE  [s EXCEPT !.cgroup = CgroupOf(a)] \in Slot
  BY DEF Slot, Cgroups
<1>. QED  BY <1>1, <1>2, <1>3, <1>4, <1>5

\* A slot stored and an operation entered by a call keep table and op typed.
LEMMA StoreTypes ==
  ASSUME TypeOK, NEW h \in Hosts, NEW a \in Agents
  PROVE  /\ \A s \in Slot : SetSlot(h, a, s) => mem' \in [Hosts -> [Agents -> Slot]]
         /\ \A o \in Op : Goto(h, o) => op' \in [Hosts -> Op]
         /\ \A step \in Steps, call \in Calls, g \in Pids \cup {0} :
              At(step, call, a, g) \in Op
<1>1. ASSUME NEW s \in Slot, SetSlot(h, a, s)
      PROVE  mem' \in [Hosts -> [Agents -> Slot]]
  BY <1>1 DEF TypeOK, SetSlot
<1>2. ASSUME NEW o \in Op, Goto(h, o)
      PROVE  op' \in [Hosts -> Op]
  BY <1>2 DEF TypeOK, Goto
<1>3. \A step \in Steps, call \in Calls, g \in Pids \cup {0} : At(step, call, a, g) \in Op
  BY DEF At, Op
<1>. QED  BY <1>1, <1>2, <1>3

-----------------------------------------------------------------------------
(* Type correctness. *)

\* A machine on which nothing has run yet is well typed.
LEMMA InitType == Init => TypeOK
BY BaseTypes DEF Init, TypeOK

\* The steps between calls: open, close, crash.
LEMMA HandleStepType ==
  ASSUME TypeOK, NEW h \in Hosts, Open(h) \/ Close(h) \/ Crash(h)
  PROVE  TypeOK'
<1>1. CASE Open(h)
  BY <1>1, BaseTypes DEF Open, Goto, TypeOK
<1>2. CASE Close(h)
  BY <1>2, BaseTypes DEF Close, Forget, Goto, TypeOK
<1>3. CASE Crash(h)
  <2>1. ASSUME NEW p \in Pids
        PROVE  [proc[p] EXCEPT !.parent = Other] \in Process
    <3>1. proc[p] \in Process
      BY DEF TypeOK
    <3>. QED  BY <3>1, SMTT(30) DEF Process
  <2>2. proc' \in [Pids -> Process]
    BY <1>3, <2>1 DEF Crash, TypeOK
  <2>. QED  BY <1>3, <2>2, BaseTypes DEF Crash, Forget, Goto, TypeOK
<1>. QED  BY <1>1, <1>2, <1>3

\* The steps that begin a call on an agent.
LEMMA AgentCallType ==
  ASSUME TypeOK, NEW h \in Hosts, NEW a \in Agents, AgentCall(h, a)
  PROVE  TypeOK'
<1> USE DEF Steps, Calls
<1>0. Current(h, a) \in Slot /\ \A P : Reaping(P) \in [Pids -> Process]
  BY CurrentType, ProcessTypes
<1>1. ASSUME NEW ws \in Workspaces \cup {Empty}, NEW p \in Pids, Start(h, a, ws, p)
      PROVE  TypeOK'
  <2>1. mem' \in [Hosts -> [Agents -> Slot]]
    BY <1>0, <1>1, SlotTypes, StoreTypes DEF Start
  <2>2. op' \in [Hosts -> Op]
    BY <1>1, StoreTypes DEF Start
  <2>3. LeaderOf(h, a, p) \in Process
    BY ProcessTypes DEF LeaderOf, Cgroups
  <2>4. proc' \in [Pids -> Process]
    BY <1>0, <1>1, <2>3 DEF Start, ReapedProcs
  <2>. QED  BY <1>1, <2>1, <2>2, <2>4 DEF Start, TypeOK
<1>2. CASE StartForkFails(h, a)
  BY <1>0, <1>2, StoreTypes DEF StartForkFails, ReapedProcs, TypeOK
<1>3. CASE Refuse(h, a)
  BY <1>0, <1>3, StoreTypes DEF Refuse, TypeOK
<1>4. ASSUME NEW ws \in Workspaces \cup {Empty}, NEW pid \in BindPids(a),
             Bind(h, a, ws, pid) \/ BindFill(h, a, ws, pid)
      PROVE  TypeOK'
  <2>1. pid \in Pids \cup BindOnly
    BY <1>4 DEF BindPids
  <2>2. BoundSlot(Current(h, a), ws, pid) \in Slot /\ FilledSlot(Current(h, a), ws, pid) \in Slot
    BY <1>0, <2>1, SlotTypes
  <2>3. CASE Bind(h, a, ws, pid)
    BY <1>0, <2>2, <2>3, StoreTypes DEF Bind, WriteNext, ReapedProcs, TypeOK
  <2>4. CASE BindFill(h, a, ws, pid)
    BY <2>2, <2>4, StoreTypes DEF BindFill, Dropped, TypeOK
  <2>. QED  BY <1>4, <2>3, <2>4
<1>5. CASE Status(h, a)
  BY <1>0, <1>5, StoreTypes DEF Status, WriteNext, ReapedProcs, TypeOK
<1>6. CASE StopIdempotent(h, a)
  BY <1>0, <1>6, StoreTypes DEF StopIdempotent, WriteNext, ReapedProcs, TypeOK
<1>7. CASE StopBindOnly(h, a)
  <2>1. [Current(h, a) EXCEPT !.state = Stopped, !.pid = 0, !.pgid = 0] \in Slot
    BY <1>0, SlotTypes
  <2>. QED  BY <1>7, <2>1, StoreTypes DEF StopBindOnly, WriteNext, TypeOK
<1>8. CASE StopKill(h, a)
  <2>1. StopTarget(Current(h, a)) \in Pids
    <3>1. Current(h, a).pid \in Pids \cup {0, 1} /\ Current(h, a).pgid \in Pids \cup {0}
      BY <1>0, BindOnlyAssumption DEF Slot, SlotPids
    <3>2. StopTarget(Current(h, a)) \in Pids \cup {0, 1} /\ StopTarget(Current(h, a)) > 1
      BY <1>8, <3>1 DEF StopKill, StopTarget
    <3>. QED  BY <3>2
  <2>2. op' \in [Hosts -> Op]
    BY <1>8, <2>1, StoreTypes DEF StopKill
  <2>3. proc' \in [Pids -> Process]
    BY <1>8, ProcessTypes DEF StopKill, TypeOK
  <2>4. mem' \in [Hosts -> [Agents -> Slot]]
    BY <1>0, <1>8, StoreTypes DEF StopKill
  <2>. QED  BY <1>8, <2>2, <2>3, <2>4 DEF StopKill, TypeOK
<1>9. CASE LoadMisses(h, a)
  BY <1>9, BaseTypes, StoreTypes DEF LoadMisses, Dropped, TypeOK
<1>. QED  BY <1>1, <1>2, <1>3, <1>4, <1>5, <1>6, <1>7, <1>8, <1>9 DEF AgentCall

\* The steps inside a call.
LEMMA CallStepType ==
  ASSUME TypeOK, NEW h \in Hosts, CallStep(h)
  PROVE  TypeOK'
<1> USE DEF Steps, Calls
<1> DEFINE a == op[h].agent
<1>0. /\ op[h] \in Op
      /\ a \in Agents /\ op[h].pgid \in Pids \cup {0} /\ op[h].call \in Calls
      /\ mem[h][a] \in Slot
  BY DEF TypeOK, Op
<1>1. CASE Attach(h)
  <2>1. ASSUME NEW p \in Pids
        PROVE  [proc[p] EXCEPT !.cgroup = CgroupOf(a)] \in Process
    <3>1. CgroupOf(a) \in Cgroups
      BY <1>0 DEF Cgroups
    <3>2. proc[p] \in Process
      BY DEF TypeOK
    <3>. HIDE DEF a
    <3>. QED  BY <3>1, <3>2 DEF Process
  <2>2. proc' \in [Pids -> Process]
    BY <1>1, <2>1 DEF Attach, TypeOK
  <2>3. mem' \in [Hosts -> [Agents -> Slot]]
    <3>1. [mem[h][a] EXCEPT !.cgroup = CgroupOf(a)] \in Slot
      BY <1>0, SlotTypes
    <3>. QED  BY <1>0, <1>1, <3>1, StoreTypes DEF Attach, TypeOK
  <2>4. op' \in [Hosts -> Op]
    BY <1>0, <1>1, StoreTypes DEF Attach, WriteNext
  <2>. QED  BY <1>1, <2>2, <2>3, <2>4 DEF Attach, WriteNext, TypeOK
<1>2. CASE Poll(h)
  BY <1>2, ProcessTypes DEF Poll, TypeOK
<1>3. ASSUME KillReturns(h)
      PROVE  TypeOK'
  <2>1. mem' \in [Hosts -> [Agents -> Slot]]
    BY <1>0, <1>3, SlotTypes, StoreTypes DEF KillReturns
  <2>2. op' \in [Hosts -> Op]
    BY <1>0, <1>3, StoreTypes DEF KillReturns, WriteNext
  <2>. QED  BY <1>3, <2>1, <2>2, ProcessTypes DEF KillReturns, WriteNext, TypeOK
<1>4. CASE TermEmpty(h) \/ KillDone(h)
  BY <1>3, <1>4 DEF TermEmpty, KillDone
<1>5. CASE TermTimeout(h)
  <2>1. [op[h] EXCEPT !.step = "kill"] \in Op
    BY <1>0 DEF Op
  <2>. QED  BY <1>5, <2>1, <1>0, StoreTypes, ProcessTypes DEF TermTimeout, TypeOK
<1>6. CASE WriteSlot(h)
  <2>1. Encode(mem[h][a]) \in Slot
    BY <1>0, CodecType
  <2>. QED  BY <1>0, <1>6, <2>1, BaseTypes DEF WriteSlot, Goto, TypeOK
<1>7. CASE WriteFails(h)
  <2>1. AfterFailedWrite(op[h]) \in Op
    BY <1>0, StoreTypes, BaseTypes DEF AfterFailedWrite
  <2>. QED  BY <1>0, <1>7, <2>1 DEF WriteFails, Goto, TypeOK
<1>. QED  BY <1>1, <1>2, <1>4, <1>5, <1>6, <1>7 DEF CallStep

\* The steps of the other processes.
LEMMA ProcessStepType ==
  ASSUME TypeOK, ProcessStep
  PROVE  TypeOK'
<1>1. ASSUME NEW p \in Pids, NEW c \in Pids, ProcFork(p, c)
      PROVE  TypeOK'
  <2>1. Forked(p) \in Process
    BY ForkedFields
  <2>. QED  BY <1>1, <2>1 DEF ProcFork, TypeOK
<1>2. ASSUME NEW p \in Pids, OtherReaps(p)
      PROVE  TypeOK'
  BY <1>2, ProcessTypes DEF OtherReaps, TypeOK
<1>5. ASSUME NEW p \in Pids, NEW g \in Pids \cup {0}, ProcSetsGroup(p, g)
      PROVE  TypeOK'
  <2>1. proc' \in [Pids -> Process]
    BY <1>5, MovedFields
  <2>. QED  BY <1>5, <2>1 DEF ProcSetsGroup, TypeOK
<1>3. ASSUME NEW p \in Pids, NEW code \in ExitCodes, ProcExit(p, code)
      PROVE  TypeOK'
  <2>1. [[proc[p] EXCEPT !.st = "zombie"] EXCEPT !.code = code] \in Process
    <3>1. proc[p] \in Process
      BY DEF TypeOK
    <3>. QED  BY <3>1, ZenonT(60) DEF Process
  <2>2. proc' = [proc EXCEPT ![p] = [[proc[p] EXCEPT !.st = "zombie"] EXCEPT !.code = code]]
    BY <1>3 DEF ProcExit, TypeOK
  <2>. QED  BY <1>3, <2>1, <2>2 DEF ProcExit, TypeOK
<1>4. ASSUME NEW p \in Pids, NEW a \in Agents, SpawnSeat(p, a)
      PROVE  TypeOK'
  <2>1. \A g \in {p, 0} : Spawned(Other, g, a, "seat", NoCgroup) \in Process
    BY ProcessTypes DEF Cgroups
  <2>. QED  BY <1>4, <2>1 DEF SpawnSeat, TypeOK
<1>. QED  BY <1>1, <1>2, <1>3, <1>4, <1>5 DEF ProcessStep

\* Every step of the machine keeps TypeOK.
LEMMA NextType == TypeOK /\ [Next]_vars => TypeOK'
<1>1. ASSUME TypeOK, NEW h \in Hosts, HostStep(h)
      PROVE  TypeOK'
  BY <1>1, HandleStepType, CallStepType, AgentCallType DEF HostStep
<1>2. ASSUME TypeOK, UNCHANGED vars
      PROVE  TypeOK'
  BY <1>2 DEF TypeOK, vars
<1>. QED  BY <1>1, <1>2, ProcessStepType DEF Next

\* Slots, slot files, processes and operations keep their types in every
\* behaviour: no call stores a group id that is not a process group, so that
\* stop() never signals group 0 or 1.
THEOREM TypeCorrect == Spec => []TypeOK
BY InitType, NextType, PTL DEF Spec

-----------------------------------------------------------------------------
(* Ownership: the inductive invariant behind OnlyOwnKilled. *)

\* A process keeps its agent for good: pids are not handed out twice.
AgentsKept ==
  \A p \in Pids : proc[p].st # "unused" =>
    proc'[p].st # "unused" /\ proc'[p].agent = proc[p].agent

\* The processes that somebody can wait for.
Dead == {p \in Pids : proc[p].st = "zombie"}

\* Reaping and killing keep agents, groups of the living and cgroups.
LEMMA ReapingKeeps ==
  ASSUME TypeOK, NEW P \in SUBSET Dead, NEW p \in Pids
  PROVE  /\ Reaping(P)[p].agent = proc[p].agent
         /\ Reaping(P)[p].cgroup \in {NoCgroup, proc[p].cgroup}
         /\ proc[p].st # "unused" => Reaping(P)[p].st # "unused"
         /\ proc[p].st = "live" => Reaping(P)[p] = proc[p]
         /\ Reaping(P)[p].st \in {"live", "zombie"} => Reaping(P)[p] = proc[p]
<1>1. proc[p] \in Process
  BY DEF TypeOK
<1>2. CASE p \in P
  BY <1>1, <1>2 DEF Reaping, Dead, Process
<1>3. CASE p \notin P
  BY <1>3 DEF Reaping
<1>. QED  BY <1>2, <1>3

\* SIGKILL changes the state of live members of P and nothing else.
LEMMA KillingKeeps ==
  ASSUME TypeOK, NEW P, NEW p \in Pids
  PROVE  /\ Killing(P)[p].agent = proc[p].agent
         /\ Killing(P)[p].cgroup = proc[p].cgroup
         /\ Killing(P)[p].grp = proc[p].grp /\ Killing(P)[p].came = proc[p].came
         /\ proc[p].st # "unused" => Killing(P)[p].st # "unused"
         /\ Killing(P)[p].st \in {"live", "zombie"} => proc[p].st \in {"live", "zombie"}
         /\ (proc[p].st = "live" /\ Killing(P)[p].st # "live") => p \in P
<1>1. proc[p] \in Process
  BY DEF TypeOK
<1>. QED  BY <1>1 DEF Killing, Process

\* The part of Ownership that is about processes alone.
ProcsOwned ==
  \A p \in Pids :
    /\ (/\ proc[p].st \in {"live", "zombie"}
        /\ proc[p].grp \in Pids
        /\ proc[p].came = "born") =>
         OwnedBy(proc[p].grp, proc[p].agent)
    /\ proc[p].cgroup \in {NoCgroup, CgroupOf(proc[p].agent)}

\* Waiting for dead processes keeps the processes owned.
LEMMA ReapingOwned ==
  ASSUME TypeOK, Ownership, NEW P \in SUBSET Dead,
         proc' = Reaping(P)
  PROVE  AgentsKept /\ ProcsOwned'
<1>1. AgentsKept
  BY ReapingKeeps DEF AgentsKept
<1>2. ASSUME NEW p \in Pids
      PROVE  /\ (/\ proc'[p].st \in {"live", "zombie"}
                 /\ proc'[p].grp \in Pids
                 /\ proc'[p].came = "born") =>
                  OwnedBy(proc[p].grp, proc[p].agent)'
             /\ proc'[p].cgroup \in {NoCgroup, CgroupOf(proc'[p].agent)}
  BY <1>1, ReapingKeeps DEF Ownership, AgentsKept, OwnedBy
<1>. QED  BY <1>1, <1>2 DEF ProcsOwned

\* SIGKILL keeps the processes owned.
LEMMA KillingOwned ==
  ASSUME TypeOK, Ownership, NEW P, proc' = Killing(P)
  PROVE  AgentsKept /\ ProcsOwned'
<1>1. AgentsKept
  BY KillingKeeps DEF AgentsKept
<1>2. ASSUME NEW p \in Pids
      PROVE  /\ (/\ proc'[p].st \in {"live", "zombie"}
                 /\ proc'[p].grp \in Pids
                 /\ proc'[p].came = "born") =>
                  OwnedBy(proc[p].grp, proc[p].agent)'
             /\ proc'[p].cgroup \in {NoCgroup, CgroupOf(proc'[p].agent)}
  BY <1>1, KillingKeeps DEF Ownership, AgentsKept, OwnedBy
<1>. QED  BY <1>1, <1>2 DEF ProcsOwned

\* Ownership survives a step that keeps the agents and stores only slots and
\* operations that are owned.
LEMMA OwnedStep ==
  ASSUME TypeOK, Ownership, AgentsKept, ProcsOwned',
         \A h \in Hosts, a \in Agents :
           mem'[h][a] = mem[h][a] \/ SlotOwned(mem[h][a], a)',
         \A a \in Agents : disk'[a] = disk[a] \/ SlotOwned(disk[a], a)',
         \A h \in Hosts :
           \/ op'[h].pgid = 0
           \/ op'[h].pgid = op[h].pgid /\ op'[h].agent = op[h].agent
           \/ op'[h].pgid \in Pids => OwnedBy(op[h].pgid, op[h].agent)'
  PROVE  Ownership'
<1>1. \A p \in Pids, a \in Agents : OwnedBy(p, a) => OwnedBy(p, a)'
  BY DEF AgentsKept, OwnedBy
<1>2. \A h \in Hosts, a \in Agents : SlotOwned(mem[h][a], a)'
  BY <1>1 DEF Ownership, SlotOwned
<1>3. \A a \in Agents : SlotOwned(disk[a], a)'
  BY <1>1 DEF Ownership, SlotOwned
<1>4. \A h \in Hosts : (op[h].pgid \in Pids => OwnedBy(op[h].pgid, op[h].agent))'
  <2>1. \A h \in Hosts : op[h].agent \in Agents
    BY DEF TypeOK, Op
  <2>. QED  BY <1>1, <2>1, PidsAssumption DEF Ownership
<1>. QED  BY <1>2, <1>3, <1>4 DEF Ownership, ProcsOwned

\* Slot s is owned by a once the step has been taken.
OwnedNext(s, a) ==
  /\ s.pid \in Pids => proc'[s.pid].st # "unused" /\ proc'[s.pid].agent = a
  /\ s.pgid \in Pids => proc'[s.pgid].st # "unused" /\ proc'[s.pgid].agent = a
  /\ s.cgroup \in {NoCgroup, CgroupOf(a)}

\* A slot that is owned before a step is owned after it.
LEMMA SlotStaysOwned ==
  ASSUME AgentsKept, NEW s \in Slot, NEW a \in Agents, SlotOwned(s, a)
  PROVE  OwnedNext(s, a)
BY DEF AgentsKept, SlotOwned, OwnedBy, OwnedNext

\* Storing an owned slot is what OwnedStep asks of mem.
LEMMA StoreOwned ==
  ASSUME TypeOK, NEW h \in Hosts, NEW a \in Agents, NEW s \in Slot,
         SetSlot(h, a, s), OwnedNext(s, a)
  PROVE  \A g \in Hosts, b \in Agents :
           mem'[g][b] = mem[g][b] \/ SlotOwned(mem[g][b], b)'
<1>1. mem'[h][a] = s
  BY DEF SetSlot, TypeOK
<1>2. SlotOwned(mem[h][a], a)'
  BY <1>1 DEF OwnedNext, SlotOwned, OwnedBy
<1>3. \A g \in Hosts, b \in Agents : mem'[g][b] = mem[g][b] \/ (g = h /\ b = a)
  BY DEF SetSlot, TypeOK
<1>. QED  BY <1>2, <1>3

\* The slot a call loads and reaps is owned by the agent of the call.
LEMMA CurrentOwned ==
  ASSUME TypeOK, Ownership, NEW h \in Hosts, NEW a \in Agents
  PROVE  SlotOwned(Current(h, a), a)
<1>1. SlotOwned(mem[h][a], a) /\ SlotOwned(disk[a], a)
  BY DEF Ownership
<1>2. 0 \notin Pids
  BY PidsAssumption
<1>. QED  BY <1>1, <1>2, CurrentType DEF SlotOwned

\* The slots the calls make from an owned slot are owned.
LEMMA MadeOwned ==
  ASSUME NEW s \in Slot, NEW a \in Agents, OwnedNext(s, a)
  PROVE  /\ \A ws, pid : (pid \in Pids => proc'[pid].st # "unused" /\ proc'[pid].agent = a)
              => OwnedNext(BoundSlot(s, ws, pid), a) /\ OwnedNext(FilledSlot(s, ws, pid), a)
         /\ \A call : OwnedNext(KilledSlot(s, call), a)
         /\ OwnedNext([s EXCEPT !.state = Stopped, !.pid = 0, !.pgid = 0], a)
         /\ OwnedNext([s EXCEPT !.cgroup = CgroupOf(a)], a)
<1>0. 0 \notin Pids
  BY PidsAssumption
<1>1. ASSUME NEW ws, NEW pid, pid \in Pids => proc'[pid].st # "unused" /\ proc'[pid].agent = a
      PROVE  OwnedNext(BoundSlot(s, ws, pid), a) /\ OwnedNext(FilledSlot(s, ws, pid), a)
  <2>1. /\ BoundSlot(s, ws, pid).pid = pid
        /\ BoundSlot(s, ws, pid).pgid \in {pid, 0}
        /\ BoundSlot(s, ws, pid).cgroup = NoCgroup
    BY DEF BoundSlot, BoundPgid, Slot
  <2>2. /\ FilledSlot(s, ws, pid).pid \in {pid, s.pid}
        /\ FilledSlot(s, ws, pid).pgid \in {pid, s.pgid}
        /\ FilledSlot(s, ws, pid).cgroup = s.cgroup
    BY DEF FilledSlot, Slot
  <2>. QED  BY <1>0, <1>1, <2>1, <2>2 DEF OwnedNext
<1>2. ASSUME NEW call
      PROVE  OwnedNext(KilledSlot(s, call), a)
  <2>1. /\ KilledSlot(s, call).pid = 0
        /\ KilledSlot(s, call).pgid = s.pgid
        /\ KilledSlot(s, call).cgroup = NoCgroup
    BY DEF KilledSlot, Slot
  <2>. QED  BY <1>0, <2>1 DEF OwnedNext
<1>3. OwnedNext([s EXCEPT !.state = Stopped, !.pid = 0, !.pgid = 0], a)
  <2> DEFINE t == [s EXCEPT !.state = Stopped, !.pid = 0, !.pgid = 0]
  <2>1. t.pid = 0 /\ t.pgid = 0 /\ t.cgroup = s.cgroup
    BY DEF Slot
  <2>. HIDE DEF t
  <2>2. OwnedNext(t, a)
    BY <1>0, <2>1 DEF OwnedNext
  <2>. QED  BY <2>2 DEF t
<1>4. OwnedNext([s EXCEPT !.cgroup = CgroupOf(a)], a)
  <2> DEFINE t == [s EXCEPT !.cgroup = CgroupOf(a)]
  <2>1. t.pid = s.pid /\ t.pgid = s.pgid /\ t.cgroup = CgroupOf(a)
    BY DEF Slot
  <2>. HIDE DEF t
  <2>2. OwnedNext(t, a)
    BY <2>1 DEF OwnedNext
  <2>. QED  BY <2>2 DEF t
<1>. QED  BY <1>1, <1>2, <1>3, <1>4

\* A pid handed out for the first time disturbs no owner: the new process is
\* in its own group, in no group of ours, or in one that belongs to its agent.
LEMMA SpawnOwned ==
  ASSUME TypeOK, Ownership, NEW P \in SUBSET Dead,
         NEW p \in Pids, proc[p].st = "unused",
         NEW par, NEW g, NEW a \in Agents, NEW kind, NEW cg \in {NoCgroup, CgroupOf(a)},
         g \in {p, 0} \/ (g \in Pids => OwnedBy(g, a)),
         proc' = [Reaping(P) EXCEPT ![p] = Spawned(par, g, a, kind, cg)]
  PROVE  AgentsKept /\ ProcsOwned' /\ proc'[p].st = "live" /\ proc'[p].agent = a
<1>1. Reaping(P) \in [Pids -> Process]
  BY ProcessTypes
<1>2. proc'[p] = Spawned(par, g, a, kind, cg) /\ \A q \in Pids \ {p} : proc'[q] = Reaping(P)[q]
  BY <1>1
<1>3. proc'[p].st = "live" /\ proc'[p].agent = a /\ proc'[p].grp = g /\ proc'[p].cgroup = cg
  BY <1>2 DEF Spawned
<1>4. AgentsKept
  BY <1>2, ReapingKeeps DEF AgentsKept
<1>5. ASSUME NEW q \in Pids
      PROVE  /\ (/\ proc'[q].st \in {"live", "zombie"}
                 /\ proc'[q].grp \in Pids
                 /\ proc'[q].came = "born") =>
                  OwnedBy(proc[q].grp, proc[q].agent)'
             /\ proc'[q].cgroup \in {NoCgroup, CgroupOf(proc'[q].agent)}
  <2>1. CASE q = p
    BY <1>3, <1>4, <2>1, PidsAssumption DEF OwnedBy, AgentsKept
  <2>2. CASE q # p
    BY <1>2, <1>4, <2>2, ReapingKeeps DEF Ownership, AgentsKept, OwnedBy
  <2>. QED  BY <2>1, <2>2
<1>. QED  BY <1>3, <1>4, <1>5 DEF ProcsOwned

\* Nothing that a step leaves alone needs a proof of its own.
LEMMA UnchangedOwned ==
  ASSUME TypeOK, Ownership
  PROVE  /\ UNCHANGED proc => AgentsKept /\ ProcsOwned'
         /\ UNCHANGED mem => \A h \in Hosts, a \in Agents : mem'[h][a] = mem[h][a]
         /\ UNCHANGED disk => \A a \in Agents : disk'[a] = disk[a]
         /\ UNCHANGED op => \A h \in Hosts : op'[h] = op[h]
<1>1. ASSUME UNCHANGED proc
      PROVE  AgentsKept /\ ProcsOwned'
  BY <1>1 DEF AgentsKept, ProcsOwned, Ownership, OwnedBy
<1>. QED  BY <1>1

\* What OwnedStep asks of op, for the operation a step of h leaves.
LEMMA GotoOwned ==
  ASSUME TypeOK, NEW h \in Hosts, NEW o \in Op, Goto(h, o),
         \/ o.pgid = 0
         \/ o.pgid = op[h].pgid /\ o.agent = op[h].agent
         \/ proc'[o.pgid].st # "unused" /\ proc'[o.pgid].agent = o.agent
  PROVE  \A g \in Hosts :
           \/ op'[g].pgid = 0
           \/ op'[g].pgid = op[g].pgid /\ op'[g].agent = op[g].agent
           \/ op'[g].pgid \in Pids => OwnedBy(op[g].pgid, op[g].agent)'
<1>1. op'[h] = o /\ \A g \in Hosts \ {h} : op'[g] = op[g]
  BY DEF Goto, TypeOK
<1>. QED  BY <1>1 DEF OwnedBy

\* The group and the agent of an operation.
LEMMA AtFields ==
  ASSUME NEW step, NEW call, NEW a, NEW g
  PROVE  At(step, call, a, g).pgid = g /\ At(step, call, a, g).agent = a
BY DEF At

-----------------------------------------------------------------------------
(* Every step keeps Ownership. *)

\* A machine on which nothing has run yet owns nothing.
LEMMA InitOwnership == Init => Ownership
BY PidsAssumption DEF Init, Ownership, SlotOwned, NoSlot, Unused, Closed, At

\* Opening, closing and losing a handle keeps Ownership.
LEMMA HandleStepOwnership ==
  ASSUME TypeOK, Ownership, NEW h \in Hosts, Open(h) \/ Close(h) \/ Crash(h)
  PROVE  Ownership'
<1>0. /\ Idle \in Op /\ Closed \in Op /\ Idle.pgid = 0 /\ Closed.pgid = 0
      /\ \A a \in Agents : OwnedNext(NoSlot, a)
  BY BaseTypes, PidsAssumption DEF Idle, Closed, At, OwnedNext, NoSlot
<1>1. CASE Open(h)
  BY <1>0, <1>1, UnchangedOwned, GotoOwned, OwnedStep DEF Open
<1>2. ASSUME Forget(h)
      PROVE  /\ \A g \in Hosts, b \in Agents :
                  mem'[g][b] = mem[g][b] \/ SlotOwned(mem[g][b], b)'
             /\ Goto(h, Closed)
  <2>1. \A g \in Hosts, b \in Agents : mem'[g][b] = mem[g][b] \/ mem'[g][b] = NoSlot
    BY <1>2 DEF Forget, TypeOK
  <2>2. \A b \in Agents : \A g \in Hosts : mem'[g][b] = NoSlot => SlotOwned(mem[g][b], b)'
    BY PidsAssumption DEF SlotOwned, NoSlot
  <2>. QED  BY <1>2, <2>1, <2>2 DEF Forget
<1>3. CASE Close(h)
  BY <1>0, <1>2, <1>3, UnchangedOwned, GotoOwned, OwnedStep DEF Close
<1>4. CASE Crash(h)
  <2>1. \A p \in Pids : /\ proc'[p].st = proc[p].st /\ proc'[p].grp = proc[p].grp
                        /\ proc'[p].came = proc[p].came
                        /\ proc'[p].agent = proc[p].agent /\ proc'[p].cgroup = proc[p].cgroup
    BY <1>4 DEF Crash, TypeOK, Process
  <2>2. AgentsKept /\ ProcsOwned'
    BY <2>1 DEF AgentsKept, ProcsOwned, Ownership, OwnedBy
  <2>. QED  BY <1>0, <1>2, <1>4, <2>2, UnchangedOwned, GotoOwned, OwnedStep DEF Crash
<1>. QED  BY <1>1, <1>3, <1>4

\* What processes do by themselves keeps Ownership.
LEMMA ProcessStepOwnership ==
  ASSUME TypeOK, Ownership, ProcessStep
  PROVE  Ownership'
<1>0. ASSUME UNCHANGED <<mem, disk, op>>, AgentsKept, ProcsOwned'
      PROVE  Ownership'
  BY <1>0, UnchangedOwned, OwnedStep
<1>1. proc = Reaping({}) /\ {} \in SUBSET Dead
  BY DEF Reaping, TypeOK
<1>2. ASSUME NEW p \in Pids, NEW c \in Pids, ProcFork(p, c)
      PROVE  Ownership'
  <2>1. /\ proc[c].st = "unused" /\ proc[p].st = "live"
        /\ proc'[c] = Forked(p) /\ \A q \in Pids \ {c} : proc'[q] = proc[q]
    BY <1>2 DEF ProcFork, NextPid, Live, TypeOK
  <2>2. AgentsKept
    BY <2>1 DEF AgentsKept
  <2>3. ProcsOwned'
    BY <2>1, <2>2, ForkedFields DEF ProcsOwned, Ownership, OwnedBy, AgentsKept
  <2>. QED  BY <1>0, <1>2, <2>2, <2>3 DEF ProcFork
<1>3. ASSUME NEW p \in Pids, NEW g \in Pids \cup {0}, ProcSetsGroup(p, g)
      PROVE  Ownership'
  <2>1. AgentsKept
    BY <1>3, MovedFields DEF AgentsKept
  <2>2. proc'[p].came = "born" => g \in {0, p}
    BY <1>3, MovedFields DEF Comes
  <2>3. ASSUME NEW q \in Pids
        PROVE  /\ (/\ proc'[q].st \in {"live", "zombie"}
                   /\ proc'[q].grp \in Pids
                   /\ proc'[q].came = "born") =>
                    OwnedBy(proc[q].grp, proc[q].agent)'
               /\ proc'[q].cgroup \in {NoCgroup, CgroupOf(proc'[q].agent)}
    <3>1. CASE q = p
      <4>1. /\ proc'[p].grp = g /\ proc'[p].st = "live"
            /\ proc'[p].cgroup = proc[p].cgroup /\ proc'[p].agent = proc[p].agent
        BY <1>3, MovedFields
      <4>. QED  BY <2>2, <3>1, <4>1, PidsAssumption DEF Ownership, OwnedBy
    <3>2. CASE q # p
      <4>1. proc'[q] = proc[q]
        BY <1>3, <3>2, MovedFields
      <4>. QED  BY <2>1, <4>1 DEF Ownership, OwnedBy, AgentsKept
    <3>. QED  BY <3>1, <3>2
  <2>4. ProcsOwned'
    BY <2>3 DEF ProcsOwned
  <2>. QED  BY <1>0, <1>3, <2>1, <2>4 DEF ProcSetsGroup
<1>4. ASSUME NEW p \in Pids, OtherReaps(p)
      PROVE  Ownership'
  <2>1. {p} \in SUBSET Dead /\ proc' = Reaping({p})
    BY <1>4 DEF OtherReaps, Zombie, Dead
  <2>2. AgentsKept /\ ProcsOwned'
    BY <2>1, ReapingOwned
  <2>. QED  BY <1>0, <1>4, <2>2 DEF OtherReaps
<1>5. ASSUME NEW p \in Pids, NEW code \in ExitCodes, ProcExit(p, code)
      PROVE  Ownership'
  <2>1. \A q \in Pids : /\ proc'[q].agent = proc[q].agent /\ proc'[q].cgroup = proc[q].cgroup
                        /\ proc'[q].grp = proc[q].grp /\ proc'[q].came = proc[q].came
                        /\ proc'[q].st = IF q = p THEN "zombie" ELSE proc[q].st
    BY <1>5 DEF ProcExit, TypeOK, Process
  <2>2. proc[p].st = "live"
    BY <1>5 DEF ProcExit, Live
  <2>3. AgentsKept /\ ProcsOwned'
    BY <2>1, <2>2 DEF AgentsKept, ProcsOwned, Ownership, OwnedBy
  <2>. QED  BY <1>0, <1>5, <2>3 DEF ProcExit
<1>6. ASSUME NEW p \in Pids, NEW a \in Agents, SpawnSeat(p, a)
      PROVE  Ownership'
  <2>1. PICK g \in {p, 0} :
          proc' = [proc EXCEPT ![p] = Spawned(Other, g, a, "seat", NoCgroup)]
    BY <1>6 DEF SpawnSeat
  <2>2. AgentsKept /\ ProcsOwned'
    BY <1>1, <1>6, <2>1, SpawnOwned DEF SpawnSeat, NextPid
  <2>. QED  BY <1>0, <1>6, <2>2 DEF SpawnSeat
<1>. QED  BY <1>2, <1>3, <1>4, <1>5, <1>6 DEF ProcessStep

\* The first step of a call on agent a keeps Ownership.
LEMMA AgentCallOwnership ==
  ASSUME TypeOK, Ownership, NEW h \in Hosts, NEW a \in Agents, AgentCall(h, a)
  PROVE  Ownership'
<1> USE DEF Steps, Calls
<1> DEFINE cur == Current(h, a)
           col == Collected(h, Loaded(h, a))
<1>0. cur \in Slot /\ SlotOwned(cur, a) /\ col \in SUBSET Dead
  BY CurrentType, CurrentOwned DEF Collected, Waitable, Dead
<1>1. ASSUME proc' = Reaping(col)
      PROVE  AgentsKept /\ ProcsOwned' /\ OwnedNext(cur, a)
  <2>. HIDE DEF cur, col
  <2>1. AgentsKept /\ ProcsOwned'
    BY <1>0, <1>1, ReapingOwned
  <2>. QED  BY <1>0, <2>1, SlotStaysOwned
<1>2. ASSUME UNCHANGED proc
      PROVE  AgentsKept /\ ProcsOwned' /\ OwnedNext(cur, a)
  <2>. HIDE DEF cur, col
  <2>. QED  BY <1>0, <1>2, UnchangedOwned, SlotStaysOwned
<1>3. ASSUME NEW s \in Slot, NEW call \in Calls, AgentsKept, ProcsOwned', OwnedNext(s, a),
             SetSlot(h, a, s), Goto(h, At("write", call, a, 0)), UNCHANGED disk
      PROVE  Ownership'
  <2>1. At("write", call, a, 0) \in Op /\ At("write", call, a, 0).pgid = 0
    BY StoreTypes, AtFields
  <2>2. \A g \in Hosts :
          \/ op'[g].pgid = 0
          \/ op'[g].pgid = op[g].pgid /\ op'[g].agent = op[g].agent
          \/ op'[g].pgid \in Pids => OwnedBy(op[g].pgid, op[g].agent)'
    BY <1>3, <2>1, GotoOwned
  <2>3. \A g \in Hosts, b \in Agents : mem'[g][b] = mem[g][b] \/ SlotOwned(mem[g][b], b)'
    BY <1>3, StoreOwned
  <2>. QED  BY <1>3, <2>2, <2>3, UnchangedOwned, OwnedStep
<1>4. ASSUME NEW ws \in Workspaces \cup {Empty}, NEW p \in Pids, Start(h, a, ws, p)
      PROVE  Ownership'
  <2>1. AgentsKept /\ ProcsOwned' /\ proc'[p].st = "live" /\ proc'[p].agent = a
    <3>1. /\ proc[p].st = "unused"
          /\ proc' = [Reaping(col) EXCEPT ![p] = Spawned(h, p, a, "leader", NoCgroup)]
      BY <1>4 DEF Start, NextPid, ReapedProcs, LeaderOf
    <3>2. col \in SUBSET Dead
      BY <1>0
    <3>. HIDE DEF col
    <3>3. proc[p].st = "unused" /\ NoCgroup \in {NoCgroup, CgroupOf(a)} /\ p \in {p, 0}
      BY <3>1
    <3>4. PICK P \in SUBSET Dead, cg \in {NoCgroup, CgroupOf(a)}, kind \in {"leader"} :
            proc' = [Reaping(P) EXCEPT ![p] = Spawned(h, p, a, kind, cg)]
      BY <3>1, <3>2, <3>3
    <3>5. AgentsKept /\ ProcsOwned'
      BY <3>3, <3>4, SpawnOwned
    <3>6. proc'[p].st = "live" /\ proc'[p].agent = a
      BY <3>4 DEF Reaping, Spawned
    <3>. QED  BY <3>5, <3>6
  <2>2. OwnedNext(StartedSlot(p, ws), a)
    <3>1. /\ StartedSlot(p, ws).pid = p /\ StartedSlot(p, ws).pgid = p
          /\ StartedSlot(p, ws).cgroup = NoCgroup
      BY DEF StartedSlot, FreshSlot, NoSlot
    <3>. QED  BY <2>1, <3>1 DEF OwnedNext
  <2>3. StartedSlot(p, ws) \in Slot /\ SetSlot(h, a, StartedSlot(p, ws))
    BY <1>4, SlotTypes, BaseTypes DEF Start
  <2>4. \A g \in Hosts, b \in Agents : mem'[g][b] = mem[g][b] \/ SlotOwned(mem[g][b], b)'
    BY <2>2, <2>3, StoreOwned
  <2>5. /\ At("attach", "start", a, p) \in Op /\ Goto(h, At("attach", "start", a, p))
        /\ At("attach", "start", a, p).pgid = p /\ At("attach", "start", a, p).agent = a
    BY <1>4, StoreTypes, AtFields DEF Start
  <2>6. \A g \in Hosts :
          \/ op'[g].pgid = 0
          \/ op'[g].pgid = op[g].pgid /\ op'[g].agent = op[g].agent
          \/ op'[g].pgid \in Pids => OwnedBy(op[g].pgid, op[g].agent)'
    BY <2>1, <2>5, GotoOwned
  <2>. QED  BY <1>4, <2>1, <2>4, <2>6, UnchangedOwned, OwnedStep DEF Start
<1>5. ASSUME SetSlot(h, a, cur), UNCHANGED <<disk, op>>, AgentsKept, ProcsOwned', OwnedNext(cur, a)
      PROVE  Ownership'
  <2>. HIDE DEF cur, col
  <2>1. \A g \in Hosts, b \in Agents : mem'[g][b] = mem[g][b] \/ SlotOwned(mem[g][b], b)'
    BY <1>0, <1>5, StoreOwned
  <2>. QED  BY <1>5, <2>1, UnchangedOwned, OwnedStep
<1>6. CASE StartForkFails(h, a)
  BY <1>1, <1>5, <1>6 DEF StartForkFails, ReapedProcs
<1>7. CASE Refuse(h, a)
  BY <1>2, <1>5, <1>7 DEF Refuse
<1>8. ASSUME NEW ws \in Workspaces \cup {Empty}, NEW pid \in BindPids(a),
             Bind(h, a, ws, pid) \/ BindFill(h, a, ws, pid)
      PROVE  Ownership'
  <2>1. pid \in Pids \cup BindOnly /\ (pid \in Pids => OwnedBy(pid, a))
    BY <1>8, PidsAssumption, BindOnlyAssumption DEF BindPids, Live, OwnedBy
  <2>2. AgentsKept /\ ProcsOwned' /\ OwnedNext(cur, a)
    BY <1>1, <1>2, <1>8 DEF Bind, BindFill, ReapedProcs
  <2>3. pid \in Pids => proc'[pid].st # "unused" /\ proc'[pid].agent = a
    BY <2>1, <2>2 DEF AgentsKept, OwnedBy
  <2>4. /\ BoundSlot(cur, ws, pid) \in Slot /\ FilledSlot(cur, ws, pid) \in Slot
        /\ OwnedNext(BoundSlot(cur, ws, pid), a) /\ OwnedNext(FilledSlot(cur, ws, pid), a)
    <3>. HIDE DEF cur
    <3>. QED  BY <1>0, <2>1, <2>2, <2>3, SlotTypes, MadeOwned
  <2>5. CASE Bind(h, a, ws, pid)
    BY <1>3, <2>2, <2>4, <2>5 DEF Bind, WriteNext
  <2>6. CASE BindFill(h, a, ws, pid)
    BY <1>3, <2>2, <2>4, <2>6 DEF BindFill
  <2>. QED  BY <1>8, <2>5, <2>6
<1>9. CASE Status(h, a) \/ StopIdempotent(h, a)
  BY <1>0, <1>1, <1>3, <1>9 DEF Status, StopIdempotent, WriteNext, ReapedProcs
<1>10. CASE StopBindOnly(h, a)
  <2> DEFINE t == [cur EXCEPT !.state = Stopped, !.pid = 0, !.pgid = 0]
  <2>1. AgentsKept /\ ProcsOwned' /\ OwnedNext(cur, a)
    BY <1>2, <1>10 DEF StopBindOnly
  <2>2. t \in Slot /\ OwnedNext(t, a)
    <3>. HIDE DEF cur
    <3>. QED  BY <1>0, <2>1, SlotTypes, MadeOwned
  <2>3. SetSlot(h, a, t) /\ Goto(h, At("write", "stop", a, 0)) /\ UNCHANGED disk
    BY <1>10 DEF StopBindOnly, WriteNext
  <2>. HIDE DEF t
  <2>. QED  BY <1>3, <2>1, <2>2, <2>3
<1>11. CASE StopKill(h, a)
  <2>1. AgentsKept /\ ProcsOwned'
    BY <1>11, UnchangedOwned, KillingOwned DEF StopKill
  <2>2. OwnedNext(cur, a)
    <3>. HIDE DEF cur
    <3>. QED  BY <1>0, <2>1, SlotStaysOwned
  <2>3. SetSlot(h, a, cur) /\ UNCHANGED disk
    BY <1>11 DEF StopKill
  <2>4. \A g \in Hosts, b \in Agents : mem'[g][b] = mem[g][b] \/ SlotOwned(mem[g][b], b)'
    <3>. HIDE DEF cur
    <3>. QED  BY <1>0, <2>2, <2>3, StoreOwned
  <2> DEFINE t == StopTarget(cur)
             o == At("term", "stop", a, t)
  <2>5. t \in Pids /\ OwnedBy(t, a)
    <3>1. cur.pid \in Pids \cup {0, 1} /\ cur.pgid \in Pids \cup {0}
      BY <1>0, BindOnlyAssumption DEF Slot, SlotPids
    <3>2. t \in {cur.pid, cur.pgid} /\ t > 1
      BY <1>11, <3>1 DEF StopKill, StopTarget
    <3>3. t \in Pids
      BY <3>1, <3>2
    <3>. HIDE DEF t, cur
    <3>. QED  BY <1>0, <3>2, <3>3 DEF SlotOwned
  <2>6. o \in Op /\ o.pgid = t /\ o.agent = a /\ Goto(h, o)
    <3>1. Goto(h, o)
      BY <1>11 DEF StopKill
    <3>. HIDE DEF t, cur
    <3>. QED  BY <2>5, <3>1, StoreTypes, AtFields
  <2>7. proc'[t].st # "unused" /\ proc'[t].agent = a
    <3>. HIDE DEF t
    <3>. QED  BY <2>1, <2>5 DEF AgentsKept, OwnedBy
  <2>8. \A g \in Hosts :
          \/ op'[g].pgid = 0
          \/ op'[g].pgid = op[g].pgid /\ op'[g].agent = op[g].agent
          \/ op'[g].pgid \in Pids => OwnedBy(op[g].pgid, op[g].agent)'
    <3>. HIDE DEF t, o
    <3>. QED  BY <2>6, <2>7, GotoOwned
  <2>. QED  BY <2>1, <2>3, <2>4, <2>8, UnchangedOwned, OwnedStep
<1>12. CASE LoadMisses(h, a)
  <2>1. AgentsKept /\ ProcsOwned' /\ UNCHANGED <<disk, op>>
    BY <1>2, <1>12 DEF LoadMisses
  <2>2. FreshSlot \in Slot /\ OwnedNext(FreshSlot, a) /\ SetSlot(h, a, FreshSlot)
    BY <1>12, BaseTypes, PidsAssumption DEF LoadMisses, OwnedNext, FreshSlot, NoSlot
  <2>3. \A g \in Hosts, b \in Agents : mem'[g][b] = mem[g][b] \/ SlotOwned(mem[g][b], b)'
    BY <2>2, StoreOwned
  <2>. QED  BY <2>1, <2>3, UnchangedOwned, OwnedStep
<1>. QED  BY <1>4, <1>6, <1>7, <1>8, <1>9, <1>10, <1>11, <1>12 DEF AgentCall

\* A step inside a call of h works on the agent of op[h], and the group it
\* kills or records is that agent's.
LEMMA CallStepOwnership ==
  ASSUME TypeOK, Ownership, NEW h \in Hosts, CallStep(h)
  PROVE  Ownership'
<1> USE DEF Steps, Calls
<1> DEFINE a == op[h].agent
           g == op[h].pgid
           s == mem[h][a]
<1>0. /\ a \in Agents /\ g \in Pids \cup {0} /\ op[h].call \in Calls /\ op[h] \in Op
      /\ s \in Slot /\ SlotOwned(s, a)
      /\ g \in Pids => OwnedBy(g, a)
  BY DEF TypeOK, Op, Ownership
<1>1. ASSUME NEW o \in Op, Goto(h, o), o.pgid = 0 \/ (o.pgid = g /\ o.agent = a)
      PROVE  \A i \in Hosts :
               \/ op'[i].pgid = 0
               \/ op'[i].pgid = op[i].pgid /\ op'[i].agent = op[i].agent
               \/ op'[i].pgid \in Pids => OwnedBy(op[i].pgid, op[i].agent)'
  BY <1>1, GotoOwned
<1>2. ASSUME NEW t \in Slot, OwnedNext(t, a), SetSlot(h, a, t)
      PROVE  \A i \in Hosts, b \in Agents : mem'[i][b] = mem[i][b] \/ SlotOwned(mem[i][b], b)'
  <2>. HIDE DEF a
  <2>. QED  BY <1>0, <1>2, StoreOwned
<1>3. \A step \in Steps, call \in Calls : /\ At(step, call, a, g) \in Op
                                          /\ At(step, call, a, g).pgid = g
                                          /\ At(step, call, a, g).agent = a
  <2>. HIDE DEF a, g
  <2>. QED  BY <1>0, StoreTypes, AtFields
<1>4. AgentsKept => OwnedNext(s, a)
  <2>. HIDE DEF a, s
  <2>. QED  BY <1>0, SlotStaysOwned
<1>5. CASE Attach(h)
  <2>1. \A q \in Pids : /\ proc'[q].st = proc[q].st /\ proc'[q].agent = proc[q].agent
                        /\ proc'[q].grp = proc[q].grp /\ proc'[q].came = proc[q].came
                        /\ proc'[q].cgroup = proc[q].cgroup
                           \/ (q = g /\ proc'[q].cgroup = CgroupOf(a))
    BY <1>5 DEF Attach, TypeOK, Process
  <2>2. AgentsKept /\ ProcsOwned'
    <3>1. AgentsKept
      BY <2>1 DEF AgentsKept
    <3>2. \A q \in Pids : proc'[q].cgroup \in {NoCgroup, CgroupOf(proc'[q].agent)}
      BY <1>0, <2>1 DEF Ownership, OwnedBy
    <3>3. \A q \in Pids : (/\ proc'[q].st \in {"live", "zombie"}
                            /\ proc'[q].grp \in Pids
                            /\ proc'[q].came = "born") =>
                            OwnedBy(proc[q].grp, proc[q].agent)'
      BY <2>1 DEF Ownership, OwnedBy
    <3>. QED  BY <3>2, <3>1, <3>3 DEF ProcsOwned
  <2>3. \A i \in Hosts, b \in Agents : mem'[i][b] = mem[i][b] \/ SlotOwned(mem[i][b], b)'
    <3> DEFINE t == [s EXCEPT !.cgroup = CgroupOf(a)]
    <3>1. CASE UNCHANGED mem
      BY <3>1
    <3>2. CASE SetSlot(h, a, t)
      <4>1. t \in Slot /\ OwnedNext(t, a)
        <5>. HIDE DEF s, a
        <5>. QED  BY <1>0, <1>4, <2>2, SlotTypes, MadeOwned
      <4>. HIDE DEF t
      <4>. QED  BY <1>2, <3>2, <4>1
    <3>. QED  BY <1>5, <3>1, <3>2 DEF Attach
  <2>4. Goto(h, At("write", "start", a, g)) /\ UNCHANGED disk
    BY <1>5 DEF Attach, WriteNext
  <2>. HIDE DEF a, g, s
  <2>. QED  BY <1>1, <1>3, <2>2, <2>3, <2>4, UnchangedOwned, OwnedStep
<1>6. CASE Poll(h)
  <2>1. PICK p \in Group(g) \cap Waitable(h) : proc' = Reaping({p})
    BY <1>6 DEF Poll
  <2>2. {p} \in SUBSET Dead
    BY <2>1 DEF Waitable, Dead
  <2>3. AgentsKept /\ ProcsOwned'
    BY <2>1, <2>2, ReapingOwned
  <2>. QED  BY <1>6, <2>3, UnchangedOwned, OwnedStep DEF Poll
<1>7. ASSUME KillReturns(h)
      PROVE  Ownership'
  <2> DEFINE P == Group(g) \cap Waitable(h)
             t == KilledSlot(s, op[h].call)
  <2>1. P \in SUBSET Dead
    BY DEF Waitable, Dead
  <2>2. AgentsKept /\ ProcsOwned'
    <3>1. proc' = Reaping(P)
      BY <1>7 DEF KillReturns
    <3>. HIDE DEF P
    <3>. QED  BY <2>1, <3>1, ReapingOwned
  <2>3. t \in Slot /\ OwnedNext(t, a)
    <3>. HIDE DEF s, a
    <3>. QED  BY <1>0, <1>4, <2>2, SlotTypes, MadeOwned
  <2>4. /\ SetSlot(h, a, t) /\ UNCHANGED disk
        /\ Goto(h, At("write", op[h].call, a, g))
    BY <1>7 DEF KillReturns, WriteNext
  <2>5. \A i \in Hosts, b \in Agents : mem'[i][b] = mem[i][b] \/ SlotOwned(mem[i][b], b)'
    <3>. HIDE DEF t
    <3>. QED  BY <1>2, <2>3, <2>4
  <2>. HIDE DEF a, g, s
  <2>. QED  BY <1>0, <1>1, <1>3, <2>2, <2>4, <2>5, UnchangedOwned, OwnedStep
<1>8. CASE TermEmpty(h) \/ KillDone(h)
  BY <1>7, <1>8 DEF TermEmpty, KillDone
<1>9. CASE TermTimeout(h)
  <2> DEFINE o == [op[h] EXCEPT !.step = "kill"]
  <2>1. AgentsKept /\ ProcsOwned'
    BY <1>9, KillingOwned DEF TermTimeout
  <2>2. o \in Op /\ o.pgid = g /\ o.agent = a
    BY <1>0 DEF Op
  <2>3. Goto(h, o) /\ UNCHANGED <<mem, disk>>
    BY <1>9 DEF TermTimeout
  <2>. HIDE DEF o, a, g
  <2>. QED  BY <1>1, <2>1, <2>2, <2>3, UnchangedOwned, OwnedStep
<1>10. Idle \in Op /\ Idle.pgid = 0
  BY BaseTypes DEF Idle, At
<1>11. CASE WriteSlot(h)
  <2>1. UNCHANGED <<mem, proc>> /\ Goto(h, Idle) /\ disk' = [disk EXCEPT ![a] = Encode(s)]
    BY <1>11 DEF WriteSlot
  <2>2. AgentsKept /\ ProcsOwned'
    BY <2>1, UnchangedOwned
  <2>3. \A b \in Agents : disk'[b] = disk[b] \/ (b = a /\ disk'[b] = Encode(s))
    BY <2>1 DEF TypeOK
  <2>4. \A b \in Agents : disk'[b] = disk[b] \/ SlotOwned(disk[b], b)'
    <3>1. OwnedNext(Encode(s), a)
      <4>. HIDE DEF s, a
      <4>. QED  BY <1>0, <1>4, <2>2, CodecType DEF OwnedNext
    <3>2. ASSUME NEW b \in Agents, b = a, disk'[b] = Encode(s)
          PROVE  SlotOwned(disk[b], b)'
      <4>1. OwnedNext(disk'[b], b)
        BY <3>1, <3>2
      <4>. QED  BY <4>1 DEF OwnedNext, SlotOwned, OwnedBy
    <3>. HIDE DEF s, a
    <3>. QED  BY <2>3, <3>2
  <2>. HIDE DEF a, g, s
  <2>. QED  BY <1>1, <1>10, <2>1, <2>2, <2>4, UnchangedOwned, OwnedStep
<1>12. CASE WriteFails(h)
  <2>1. UNCHANGED <<mem, disk, proc>> /\ Goto(h, AfterFailedWrite(op[h]))
    BY <1>12 DEF WriteFails
  <2>2. /\ AfterFailedWrite(op[h]) \in Op
        /\ \/ AfterFailedWrite(op[h]).pgid = 0
           \/ AfterFailedWrite(op[h]).pgid = g /\ AfterFailedWrite(op[h]).agent = a
    BY <1>3, <1>10 DEF AfterFailedWrite
  <2>. HIDE DEF a, g
  <2>. QED  BY <1>1, <2>1, <2>2, UnchangedOwned, OwnedStep
<1>. QED  BY <1>5, <1>6, <1>8, <1>9, <1>11, <1>12 DEF CallStep

\* Every step of the machine keeps Ownership.
LEMMA NextOwnership ==
  ASSUME TypeOK, Ownership, [Next]_vars
  PROVE  Ownership'
<1>1. CASE ProcessStep
  BY <1>1, ProcessStepOwnership
<1>2. ASSUME NEW h \in Hosts, HostStep(h)
      PROVE  Ownership'
  BY <1>2, HandleStepOwnership, CallStepOwnership, AgentCallOwnership DEF HostStep
<1>3. CASE UNCHANGED vars
  BY <1>3, UnchangedOwned, OwnedStep DEF vars
<1>. QED  BY <1>1, <1>2, <1>3 DEF Next

\* Whatever the hosts, agents and pids: a pid, a group or a cgroup found in a
\* slot, in a slot file or in a call under way belongs to the agent it is
\* filed under, so the group kill_tree signals is never another agent's.
THEOREM OwnershipHolds == Spec => []Ownership
<1>1. TypeOK /\ Ownership /\ [Next]_vars => Ownership'
  BY NextOwnership
<1>. QED  BY <1>1, InitOwnership, TypeCorrect, PTL DEF Spec

-----------------------------------------------------------------------------
(* Who gets SIGKILL. *)

\* Every step keeps the target of a call that signals a group a real pid.
LEMMA NextSignalsRealGroup ==
  ASSUME TypeOK, SignalsRealGroup, [Next]_vars
  PROVE  SignalsRealGroup'
<1> DEFINE Real(o) == (o.step \in {"attach", "term", "kill"} \/ o.call \in {"start", "undo"})
                        => o.pgid \in Pids
<1>1. ASSUME NEW h \in Hosts, NEW o, Goto(h, o), Real(o)
      PROVE  SignalsRealGroup'
  BY <1>1 DEF Goto, TypeOK, SignalsRealGroup
<1>2. CASE UNCHANGED op
  BY <1>2 DEF SignalsRealGroup
<1>3. Real(Idle) /\ Real(Closed)
  BY DEF Idle, Closed, At
<1>4. \A call \in {"bind", "status", "stop"} : \A a, g : Real(At("write", call, a, g))
  BY DEF At
<1>5. ASSUME NEW h \in Hosts, CallStep(h)
      PROVE  SignalsRealGroup'
  <2>0. op[h] \in Op /\ Real(op[h])
    BY DEF SignalsRealGroup, TypeOK
  <2>1. CASE Attach(h)
    <3>1. Real(At("write", "start", op[h].agent, op[h].pgid))
      BY <2>0, <2>1 DEF Attach, At
    <3>. QED  BY <1>1, <2>1, <3>1 DEF Attach, WriteNext
  <2>2. CASE TermEmpty(h) \/ KillDone(h)
    <3>1. Real(At("write", op[h].call, op[h].agent, op[h].pgid))
      BY <2>0 DEF At
    <3>. QED  BY <1>1, <2>2, <3>1 DEF TermEmpty, KillDone, KillReturns, WriteNext
  <2>3. CASE TermTimeout(h)
    <3>1. Real([op[h] EXCEPT !.step = "kill"])
      BY <2>0, <2>3 DEF TermTimeout, Op
    <3>. QED  BY <1>1, <2>3, <3>1 DEF TermTimeout
  <2>4. CASE WriteSlot(h)
    BY <1>1, <1>3, <2>4 DEF WriteSlot
  <2>5. CASE WriteFails(h)
    <3>1. Real(AfterFailedWrite(op[h]))
      BY <1>3, <2>0 DEF AfterFailedWrite, At
    <3>. QED  BY <1>1, <2>5, <3>1 DEF WriteFails
  <2>. QED  BY <1>2, <1>5, <2>1, <2>2, <2>3, <2>4, <2>5 DEF CallStep, Poll
<1>6. ASSUME NEW h \in Hosts, NEW a \in Agents, AgentCall(h, a)
      PROVE  SignalsRealGroup'
  <2>1. ASSUME NEW ws, NEW p \in Pids, Start(h, a, ws, p)
        PROVE  SignalsRealGroup'
    <3>1. Real(At("attach", "start", a, p))
      BY DEF At
    <3>. QED  BY <1>1, <2>1, <3>1 DEF Start
  <2>2. CASE StopKill(h, a)
    <3>1. StopTarget(Current(h, a)) \in Pids
      BY <2>2, CurrentType, BindOnlyAssumption DEF StopKill, StopTarget, Slot, SlotPids
    <3>2. Real(At("term", "stop", a, StopTarget(Current(h, a))))
      BY <3>1 DEF At
    <3>. QED  BY <1>1, <2>2, <3>2 DEF StopKill
  <2>3. ASSUME NEW call \in {"bind", "status", "stop"}, Goto(h, At("write", call, a, 0))
        PROVE  SignalsRealGroup'
    BY <1>1, <1>4, <2>3
  <2>4. CASE Status(h, a) \/ StopIdempotent(h, a) \/ StopBindOnly(h, a)
    BY <2>3, <2>4 DEF Status, StopIdempotent, StopBindOnly, WriteNext
  <2>5. ASSUME NEW ws, NEW pid, Bind(h, a, ws, pid) \/ BindFill(h, a, ws, pid)
        PROVE  SignalsRealGroup'
    BY <2>3, <2>5 DEF Bind, BindFill, WriteNext
  <2>6. CASE StartForkFails(h, a) \/ LoadMisses(h, a) \/ Refuse(h, a)
    BY <1>2, <2>6 DEF StartForkFails, LoadMisses, Refuse
  <2>. QED  BY <1>6, <2>1, <2>2, <2>4, <2>5, <2>6 DEF AgentCall
<1>7. ASSUME NEW h \in Hosts, Open(h) \/ Close(h) \/ Crash(h)
      PROVE  SignalsRealGroup'
  BY <1>1, <1>3, <1>7 DEF Open, Close, Crash, Forget
<1>8. CASE ProcessStep \/ UNCHANGED vars
  BY <1>2, <1>8 DEF ProcessStep, ProcFork, ProcSetsGroup, ProcExit, OtherReaps, SpawnSeat, vars
<1>. QED  BY <1>5, <1>6, <1>7, <1>8 DEF Next, HostStep

\* Whatever is bound, started or stopped, and wherever a call is interrupted:
\* kill_tree is entered with the pid of a process, never with 0 or 1, which
\* kill() would take for the caller's own group or for every process.
THEOREM SignalsRealGroupHolds == Spec => []SignalsRealGroup
<1>1. Init => SignalsRealGroup
  BY DEF Init, SignalsRealGroup, Closed, At
<1>2. TypeOK /\ SignalsRealGroup /\ [Next]_vars => SignalsRealGroup'
  BY NextSignalsRealGroup
<1>. QED  BY <1>1, <1>2, TypeCorrect, PTL DEF Spec

\* A call that ends a live process ends one of the agent it is about: only
\* StopKill and TermTimeout send SIGKILL, to the agent's cgroup and group.
LEMMA StepKillsOnlyOwn ==
  ASSUME TypeOK, Ownership, SignalsRealGroup, [Next]_vars, NEW h \in Hosts, NEW p \in Pids,
         op'[h] # op[h], proc[p].st = "live", proc'[p].st # "live"
  PROVE  \/ proc[p].agent = op'[h].agent
         \/ /\ proc[p].came # "born"
            /\ proc[p].grp = op[h].pgid
            /\ OwnedBy(op[h].pgid, op'[h].agent)
<1>0. \A P \in SUBSET Dead : Reaping(P)[p].st = "live"
  BY ReapingKeeps
<1>1. ASSUME NEW i \in Hosts, NEW o, Goto(i, o)
      PROVE  i = h /\ op'[h] = o
  BY <1>1 DEF Goto, TypeOK
<1>2. CASE ProcessStep \/ UNCHANGED vars
  BY <1>2 DEF ProcessStep, ProcFork, ProcSetsGroup, ProcExit, OtherReaps, SpawnSeat, vars
<1>3. ASSUME NEW i \in Hosts, Open(i) \/ Close(i) \/ Crash(i)
      PROVE  FALSE
  BY <1>3 DEF Open, Close, Crash, TypeOK, Process
<1>4. ASSUME NEW i \in Hosts, CallStep(i)
      PROVE  \/ proc[p].agent = op'[h].agent
             \/ /\ proc[p].came # "born"
                /\ proc[p].grp = op[h].pgid
                /\ OwnedBy(op[h].pgid, op'[h].agent)
  <2>1. CASE Attach(i)
    BY <2>1 DEF Attach, TypeOK, Process
  <2>2. CASE Poll(i)
    BY <2>2 DEF Poll
  <2>3. CASE TermEmpty(i) \/ KillDone(i)
    <3>1. Group(op[i].pgid) \cap Waitable(i) \in SUBSET Dead
      BY DEF Waitable, Dead
    <3>. QED  BY <1>0, <2>3, <3>1 DEF TermEmpty, KillDone, KillReturns
  <2>4. CASE TermTimeout(i)
    <3>1. op[i] \in Op /\ op[i].pgid \in Pids
      BY <2>4 DEF TermTimeout, SignalsRealGroup, TypeOK
    <3>2. p \in Group(op[i].pgid)
      BY <2>4, KillingKeeps DEF TermTimeout
    <3>3. /\ proc[p].grp = op[i].pgid
          /\ proc[p].came = "born" => OwnedBy(op[i].pgid, proc[p].agent)
      BY <3>1, <3>2 DEF Group, Ownership
    <3>4. OwnedBy(op[i].pgid, op[i].agent)
      BY <3>1 DEF Ownership
    <3>5. i = h /\ op'[h].agent = op[i].agent
      BY <1>1, <2>4, <3>1 DEF TermTimeout, Op
    <3>. QED  BY <3>3, <3>4, <3>5 DEF OwnedBy
  <2>5. CASE WriteSlot(i) \/ WriteFails(i)
    BY <2>5 DEF WriteSlot, WriteFails
  <2>. QED  BY <1>4, <2>1, <2>2, <2>3, <2>4, <2>5 DEF CallStep
<1>5. ASSUME NEW i \in Hosts, NEW a \in Agents, AgentCall(i, a)
      PROVE  proc[p].agent = op'[h].agent
  <2>1. Collected(i, Loaded(i, a)) \in SUBSET Dead
    BY DEF Collected, Waitable, Dead
  <2>2. ASSUME proc' = ReapedProcs(i, a)
        PROVE  FALSE
    BY <1>0, <2>1, <2>2 DEF ReapedProcs
  <2>3. ASSUME NEW ws, NEW q, Start(i, a, ws, q)
        PROVE  FALSE
    <3>1. q \in Pids /\ q # p
      BY <2>3 DEF Start, NextPid
    <3>2. proc'[p] = ReapedProcs(i, a)[p]
      BY <2>3, <3>1 DEF Start, ReapedProcs, Reaping
    <3>. QED  BY <1>0, <2>1, <3>2 DEF ReapedProcs
  <2>4. CASE StopKill(i, a)
    <3> DEFINE s == Current(i, a)
    <3>1. s.cgroup # NoCgroup /\ proc[p].cgroup = s.cgroup
      BY <2>4, KillingKeeps DEF StopKill
    <3>2. s.cgroup = CgroupOf(a)
      BY <3>1, CurrentOwned DEF SlotOwned
    <3>3. proc[p].cgroup \in {NoCgroup, CgroupOf(proc[p].agent)}
      BY DEF Ownership
    <3>4. proc[p].agent = a
      BY <3>1, <3>2, <3>3 DEF CgroupOf, NoCgroup
    <3>5. op'[h].agent = a
      BY <1>1, <2>4, AtFields DEF StopKill
    <3>. QED  BY <3>4, <3>5
  <2>. QED  BY <1>5, <2>2, <2>3, <2>4
         DEF AgentCall, StartForkFails, LoadMisses, Refuse, Bind, BindFill, Status, StopIdempotent, StopBindOnly
<1>. QED  BY <1>2, <1>3, <1>4, <1>5 DEF Next, HostStep

\* Whatever the hosts, agents and pids: SIGKILL and cgroup.kill end no process
\* of an agent that the call is not about, unless the process itself moved
\* into the group of the agent that is being killed.
THEOREM KillsOnlyOwn == Spec => OnlyOwnKilled
<1>1. TypeOK /\ Ownership /\ SignalsRealGroup /\ [Next]_vars =>
        [\A h \in Hosts, p \in Pids :
           (op'[h] # op[h] /\ proc[p].st = "live" /\ proc'[p].st # "live") =>
             \/ proc[p].agent = op'[h].agent
             \/ /\ proc[p].came # "born"
                /\ proc[p].grp = op[h].pgid
                /\ OwnedBy(op[h].pgid, op'[h].agent)]_vars
  BY StepKillsOnlyOwn
<1>. QED  BY <1>1, TypeCorrect, OwnershipHolds, SignalsRealGroupHolds, PTL
       DEF Spec, OnlyOwnKilled

-----------------------------------------------------------------------------
(* Which group a process can be in. *)

\* A process that start() forked and that has not moved leads its group.
LeadersLead ==
  \A p \in Pids :
    (proc[p].st \in {"live", "zombie"} /\ proc[p].kind = "leader" /\ p \notin lost) =>
      proc[p].grp = p /\ proc[p].came = "born"

\* No member of group g is alive but those who came too late.
GroupDead(g) ==
  \A p \in Pids : (proc[p].st = "live" /\ proc[p].grp = g) => proc[p].came = "late"

\* None is alive after the step.
DeadNext(g) ==
  \A p \in Pids : (proc'[p].st = "live" /\ proc'[p].grp = g) => proc'[p].came = "late"

\* p calls setpgid(): a leader that does is in lost, and who enters a group
\* that has been killed is late.
MovesGroup(p) ==
  /\ proc[p].st = "live"
  /\ proc[p].kind = "leader" => p \in lost'
  /\ \A h \in Hosts :
       (PastKill(op[h]) /\ op[h].pgid \in Pids /\ op[h].pgid = proc'[p].grp) =>
         proc'[p].came = "late"

\* How one step can change groups: a process stays in its group or moves; a
\* new one starts its own or inherits the group of a living process.
GroupStep(p) ==
  /\ proc[p].st # "unused" =>
       /\ proc'[p].st # "unused" /\ proc'[p].kind = proc[p].kind
       /\ proc'[p].agent = proc[p].agent
       /\ proc'[p].st \in {"live", "zombie"} =>
            /\ proc[p].st \in {"live", "zombie"}
            /\ \/ proc'[p].grp = proc[p].grp /\ proc'[p].came = proc[p].came
               \/ MovesGroup(p)
       /\ proc'[p].st = "live" => proc[p].st = "live"
  /\ proc[p].st = "unused" =>
       \/ proc'[p].st = "unused"
       \/ proc'[p].grp = p /\ proc'[p].came = "born"
       \/ /\ proc'[p].kind # "leader"
          /\ \/ proc'[p].grp = 0
             \/ \E q \in Pids : /\ proc[q].st = "live" /\ proc'[p].grp = proc[q].grp
                               /\ proc'[p].came = proc[q].came

\* Waiting for dead processes is such a step.
LEMMA ReapingGroups ==
  ASSUME TypeOK, NEW P \in SUBSET Dead, proc' = Reaping(P), NEW p \in Pids
  PROVE  GroupStep(p)
<1>1. proc[p] \in Process
  BY DEF TypeOK
<1>2. CASE p \in P
  BY <1>1, <1>2 DEF Reaping, Dead, Process, GroupStep
<1>3. CASE p \notin P
  BY <1>3 DEF Reaping, GroupStep
<1>. QED  BY <1>2, <1>3

\* So is SIGKILL.
LEMMA KillingGroups ==
  ASSUME TypeOK, NEW P, proc' = Killing(P), NEW p \in Pids
  PROVE  GroupStep(p)
<1>1. proc[p] \in Process
  BY DEF TypeOK
<1>. QED  BY <1>1 DEF Killing, Process, GroupStep

\* Every step of the machine is.
LEMMA NextGroups ==
  ASSUME TypeOK, [Next]_vars, NEW p \in Pids
  PROVE  GroupStep(p)
<1>0. proc[p] \in Process
  BY DEF TypeOK
<1>1. ASSUME UNCHANGED proc
      PROVE  GroupStep(p)
  BY <1>0, <1>1 DEF GroupStep
<1>2. ASSUME NEW c \in Pids, NEW P \in SUBSET Dead, proc[c].st = "unused",
             p # c => proc'[p] = Reaping(P)[p],
             \/ proc'[c].grp = c /\ proc'[c].came = "born"
             \/ /\ proc'[c].kind # "leader"
                /\ \/ proc'[c].grp = 0
                   \/ \E q \in Pids : /\ proc[q].st = "live" /\ proc'[c].grp = proc[q].grp
                                     /\ proc'[c].came = proc[q].came
      PROVE  GroupStep(p)
  <2>1. CASE p = c
    BY <1>2, <2>1 DEF GroupStep
  <2>2. CASE p # c /\ p \in P
    BY <1>0, <1>2, <2>2, ZenonT(60) DEF Reaping, Dead, Process, GroupStep
  <2>3. CASE p # c /\ p \notin P
    BY <1>2, <2>3 DEF Reaping, GroupStep
  <2>. QED  BY <2>1, <2>2, <2>3
<1>3. proc[p] = Reaping({})[p] /\ {} \in SUBSET Dead
  BY DEF Reaping, TypeOK
<1>4. ASSUME NEW c \in Pids, proc[c].st = "unused",
             p # c => proc'[p] = proc[p],
             \/ proc'[c].grp = c /\ proc'[c].came = "born"
             \/ /\ proc'[c].kind # "leader"
                /\ \/ proc'[c].grp = 0
                   \/ \E q \in Pids : /\ proc[q].st = "live" /\ proc'[c].grp = proc[q].grp
                                     /\ proc'[c].came = proc[q].came
      PROVE  GroupStep(p)
  BY <1>2, <1>3, <1>4
<1>5. CASE ProcessStep
  <2>1. ASSUME NEW q \in Pids, NEW c \in Pids, ProcFork(q, c)
        PROVE  GroupStep(p)
    <3>1. /\ proc[c].st = "unused" /\ proc[q].st = "live"
          /\ proc'[c] = Forked(q)
          /\ p # c => proc'[p] = proc[p]
      BY <2>1 DEF ProcFork, NextPid, Live, TypeOK
    <3>2. proc'[c].grp = proc[q].grp /\ proc'[c].came = proc[q].came /\ proc'[c].kind = "child"
      BY <3>1, ForkedFields
    <3>. QED  BY <1>4, <3>1, <3>2
  <2>2. ASSUME NEW q \in Pids, NEW g \in Pids \cup {0}, ProcSetsGroup(q, g)
        PROVE  GroupStep(p)
    <3>1. p # q => proc'[p] = proc[p]
      BY <2>2, MovedFields
    <3>2. CASE p = q
      <4>1. proc[p].kind = "leader" => p \in lost'
        BY <2>2, <3>2 DEF ProcSetsGroup
      <4>2. \A h \in Hosts :
              (PastKill(op[h]) /\ op[h].pgid \in Pids /\ op[h].pgid = g) => Comes(p, g) = "late"
        BY PidsAssumption DEF Comes
      <4>3. MovesGroup(p)
        BY <2>2, <3>2, <4>1, <4>2, MovedFields DEF MovesGroup
      <4>. QED  BY <2>2, <3>2, <4>3, MovedFields DEF GroupStep
    <3>. QED  BY <1>0, <3>1, <3>2 DEF GroupStep
  <2>3. ASSUME NEW q \in Pids, OtherReaps(q)
        PROVE  GroupStep(p)
    <3>1. {q} \in SUBSET Dead /\ proc' = Reaping({q})
      BY <2>3 DEF OtherReaps, Zombie, Dead
    <3>. QED  BY <3>1, ReapingGroups
  <2>4. ASSUME NEW q \in Pids, NEW code \in ExitCodes, ProcExit(q, code)
        PROVE  GroupStep(p)
    BY <1>0, <2>4 DEF ProcExit, Live, TypeOK, Process, GroupStep
  <2>5. ASSUME NEW q \in Pids, NEW a \in Agents, SpawnSeat(q, a)
        PROVE  GroupStep(p)
    <3>1. PICK g \in {q, 0} :
            proc' = [proc EXCEPT ![q] = Spawned(Other, g, a, "seat", NoCgroup)]
      BY <2>5 DEF SpawnSeat
    <3>2. /\ proc[q].st = "unused" /\ proc'[q] = Spawned(Other, g, a, "seat", NoCgroup)
          /\ p # q => proc'[p] = proc[p]
      BY <2>5, <3>1 DEF SpawnSeat, NextPid, TypeOK
    <3>3. proc'[q].grp \in {q, 0} /\ proc'[q].came = "born" /\ proc'[q].kind = "seat"
      BY <3>2 DEF Spawned
    <3>. QED  BY <1>4, <3>2, <3>3
  <2>. QED  BY <1>5, <2>1, <2>2, <2>3, <2>4, <2>5 DEF ProcessStep
<1>6. ASSUME NEW h \in Hosts, NEW a \in Agents, AgentCall(h, a)
      PROVE  GroupStep(p)
  <2>1. Collected(h, Loaded(h, a)) \in SUBSET Dead
    BY DEF Collected, Waitable, Dead
  <2>2. ASSUME proc' = ReapedProcs(h, a)
        PROVE  GroupStep(p)
    BY <2>1, <2>2, ReapingGroups DEF ReapedProcs
  <2>3. ASSUME NEW ws, NEW q \in Pids, Start(h, a, ws, q)
        PROVE  GroupStep(p)
    <3> DEFINE col == Collected(h, Loaded(h, a))
    <3>1. /\ proc[q].st = "unused"
          /\ proc' = [Reaping(col) EXCEPT ![q] = Spawned(h, q, a, "leader", NoCgroup)]
      BY <2>3 DEF Start, NextPid, ReapedProcs, LeaderOf
    <3>2. col \in SUBSET Dead
      BY <2>1
    <3>3. proc'[q].grp = q /\ proc'[q].came = "born" /\ (p # q => proc'[p] = Reaping(col)[p])
      BY <3>1 DEF Reaping, Spawned
    <3>. HIDE DEF col
    <3>. QED  BY <1>2, <3>1, <3>2, <3>3
  <2>4. CASE StopKill(h, a)
    BY <1>1, <2>4, KillingGroups DEF StopKill
  <2>. QED  BY <1>1, <1>6, <2>2, <2>3, <2>4
         DEF AgentCall, StartForkFails, LoadMisses, Refuse, Bind, BindFill, Status,
             StopIdempotent, StopBindOnly, WriteNext
<1>7. ASSUME NEW h \in Hosts, CallStep(h)
      PROVE  GroupStep(p)
  <2>1. CASE Attach(h)
    <3> DEFINE q == op[h].pgid
    <3>1. CASE /\ proc[q].st = "live"
               /\ proc' = [proc EXCEPT ![q].cgroup = CgroupOf(op[h].agent)]
      <4>1. CASE p = q
        BY <1>0, <3>1, <4>1 DEF TypeOK, Process, GroupStep
      <4>2. CASE p # q
        BY <1>0, <3>1, <4>2 DEF TypeOK, GroupStep
      <4>. QED  BY <4>1, <4>2
    <3>. QED  BY <1>1, <2>1, <3>1 DEF Attach
  <2>2. CASE Poll(h)
    <3>1. PICK q \in Group(op[h].pgid) \cap Waitable(h) : proc' = Reaping({q})
      BY <2>2 DEF Poll
    <3>2. {q} \in SUBSET Dead
      BY DEF Waitable, Dead
    <3>. QED  BY <3>1, <3>2, ReapingGroups
  <2>3. CASE TermEmpty(h) \/ KillDone(h)
    <3>1. Group(op[h].pgid) \cap Waitable(h) \in SUBSET Dead
      BY DEF Waitable, Dead
    <3>. QED  BY <2>3, <3>1, ReapingGroups DEF TermEmpty, KillDone, KillReturns
  <2>4. CASE TermTimeout(h)
    BY <2>4, KillingGroups DEF TermTimeout
  <2>. QED  BY <1>1, <1>7, <2>1, <2>2, <2>3, <2>4 DEF CallStep, WriteSlot, WriteFails
<1>8. ASSUME NEW h \in Hosts, Open(h) \/ Close(h) \/ Crash(h)
      PROVE  GroupStep(p)
  <2>1. CASE Crash(h)
    BY <1>0, <2>1 DEF Crash, TypeOK, Process, GroupStep
  <2>. QED  BY <1>1, <1>8, <2>1 DEF Open, Close
<1>. QED  BY <1>1, <1>5, <1>6, <1>7, <1>8 DEF Next, HostStep, vars

\* What is lost stays lost.
LEMMA LostGrows ==
  ASSUME [Next]_vars
  PROVE  lost \subseteq lost'
<1>1. CASE ProcessStep \/ UNCHANGED vars
  BY <1>1 DEF ProcessStep, ProcFork, ProcSetsGroup, ProcExit, OtherReaps, SpawnSeat, vars
<1>2. ASSUME NEW h \in Hosts, CallStep(h)
      PROVE  lost \subseteq lost'
  BY <1>2 DEF CallStep, Attach, Poll, TermEmpty, TermTimeout, KillDone, KillReturns, WriteNext,
              WriteSlot, WriteFails
<1>3. ASSUME NEW h \in Hosts, NEW a \in Agents, AgentCall(h, a)
      PROVE  lost \subseteq lost'
  BY <1>3 DEF AgentCall, Start, StartForkFails, LoadMisses, Refuse, Bind, BindFill, Status,
              StopIdempotent, StopBindOnly, StopKill, WriteNext
<1>4. ASSUME NEW h \in Hosts, Open(h) \/ Close(h) \/ Crash(h)
      PROVE  lost \subseteq lost'
  BY <1>4 DEF Open, Close, Crash
<1>. QED  BY <1>1, <1>2, <1>3, <1>4 DEF Next, HostStep

\* No step makes a leader that has not moved follow, and none revives a group
\* that a call has killed.
LEMMA GroupFacts ==
  ASSUME TypeOK, LeadersLead, [Next]_vars
  PROVE  /\ LeadersLead'
         /\ \A h \in Hosts, g \in Pids :
              (/\ PastKill(op[h]) /\ op[h].pgid = g
               /\ proc[g].st # "unused" /\ GroupDead(g)) => DeadNext(g)
<1>0. \A p \in Pids : GroupStep(p)
  BY NextGroups
<1>1. LeadersLead'
  <2>. SUFFICES ASSUME NEW p \in Pids, proc'[p].st \in {"live", "zombie"},
                       proc'[p].kind = "leader", p \notin lost'
                PROVE  proc'[p].grp = p /\ proc'[p].came = "born"
    BY DEF LeadersLead
  <2>0. p \notin lost
    BY LostGrows
  <2>1. CASE proc[p].st # "unused"
    BY <1>0, <2>0, <2>1 DEF GroupStep, MovesGroup, LeadersLead
  <2>2. CASE proc[p].st = "unused"
    BY <1>0, <2>2 DEF GroupStep
  <2>. QED  BY <2>1, <2>2
<1>2. ASSUME NEW h \in Hosts, NEW g \in Pids, PastKill(op[h]), op[h].pgid = g,
             proc[g].st # "unused", GroupDead(g),
             NEW p \in Pids, proc'[p].st = "live", proc'[p].grp = g
      PROVE  proc'[p].came = "late"
  <2>1. CASE proc[p].st # "unused"
    BY <1>0, <1>2, <2>1 DEF GroupStep, MovesGroup, GroupDead
  <2>2. CASE proc[p].st = "unused"
    <3>1. p # g /\ g # 0
      BY <1>2, <2>2, PidsAssumption
    <3>2. \E q \in Pids : /\ proc[q].st = "live" /\ g = proc[q].grp
                          /\ proc'[p].came = proc[q].came
      BY <1>0, <1>2, <2>2, <3>1 DEF GroupStep
    <3>. QED  BY <1>2, <3>2 DEF GroupDead
  <2>. QED  BY <2>1, <2>2
<1>. QED  BY <1>1, <1>2 DEF DeadNext

-----------------------------------------------------------------------------
(* The group that kill_tree has killed. *)

\* The inductive form of KilledGroupIsDead: it holds from SIGKILL on, or from
\* where the polls after SIGTERM have found the group empty.
KilledStaysDead ==
  \A h \in Hosts :
    (PastKill(op[h]) /\ op[h].pgid \in Pids) => GroupDead(op[h].pgid)

\* The steps that enter or leave kill_tree keep it, and all others leave the
\* dead group alone.
LEMMA NextKilled ==
  ASSUME TypeOK, Ownership, LeadersLead, KilledStaysDead, [Next]_vars
  PROVE  KilledStaysDead'
<1>. SUFFICES ASSUME NEW h \in Hosts, NEW g \in Pids, PastKill(op'[h]), op'[h].pgid = g
              PROVE  DeadNext(g)
  BY DEF KilledStaysDead, GroupDead, DeadNext, PastKill
<1>2. ASSUME PastKill(op[h]), g = op[h].pgid
      PROVE  DeadNext(g)
  <2>1. proc[g].st # "unused"
    BY <1>2 DEF Ownership, OwnedBy
  <2>2. GroupDead(g)
    BY <1>2 DEF KilledStaysDead
  <2>. QED  BY <1>2, <2>1, <2>2, GroupFacts
<1>3. CASE op'[h] = op[h]
  BY <1>2, <1>3
<1>4. ASSUME NEW i \in Hosts, NEW o, Goto(i, o)
      PROVE  op'[h] = op[h] \/ (i = h /\ op'[h] = o)
  BY <1>4 DEF Goto, TypeOK
<1>5. 0 \notin Pids /\ Idle.pgid = 0 /\ Closed.pgid = 0
  BY PidsAssumption DEF Idle, Closed, At
<1>6. ASSUME NEW i \in Hosts, CallStep(i), op'[h] # op[h]
      PROVE  DeadNext(g)
  <2>0. op[i] \in Op
    BY DEF TypeOK
  <2>1. CASE Attach(i)
    BY <1>4, <1>6, <2>1 DEF Attach, WriteNext, At, PastKill
  <2>2. CASE Poll(i)
    BY <1>6, <2>2 DEF Poll
  <2>3. CASE TermEmpty(i)
    <3>1. i = h /\ g = op[h].pgid
      BY <1>4, <1>6, <2>3, AtFields DEF TermEmpty, KillReturns, WriteNext
    <3>2. proc' = Reaping({})
      BY <2>3, <3>1 DEF TermEmpty, KillReturns
    <3>3. \A p \in Pids : proc'[p] = proc[p]
      BY <3>2 DEF Reaping
    <3>. QED  BY <2>3, <3>1, <3>3 DEF TermEmpty, Group, DeadNext
  <2>4. CASE TermTimeout(i)
    <3>1. i = h /\ g = op[h].pgid
      BY <1>4, <1>6, <2>0, <2>4 DEF TermTimeout, Op
    <3>2. proc' = Killing(Group(g))
      BY <2>4, <3>1 DEF TermTimeout
    <3>3. ASSUME NEW p \in Pids, proc'[p].st = "live"
          PROVE  proc'[p].grp # g
      <4>1. proc[p] \in Process
        BY DEF TypeOK
      <4>2. proc[p].st = "live" /\ p \notin Group(g) /\ proc'[p] = proc[p]
        BY <3>2, <3>3, <4>1 DEF Killing, Process
      <4>. QED  BY <4>2 DEF Group
    <3>. QED  BY <3>3 DEF DeadNext
  <2>5. CASE KillDone(i)
    <3>1. i = h /\ g = op[h].pgid
      BY <1>4, <1>6, <2>5, AtFields DEF KillDone, KillReturns, WriteNext
    <3>. QED  BY <1>2, <2>5, <3>1 DEF KillDone, PastKill
  <2>6. CASE WriteSlot(i)
    BY <1>4, <1>5, <1>6, <2>6 DEF WriteSlot
  <2>7. CASE WriteFails(i)
    BY <1>4, <1>5, <1>6, <2>7 DEF WriteFails, AfterFailedWrite, At, PastKill
  <2>. QED  BY <1>6, <2>1, <2>2, <2>3, <2>4, <2>5, <2>6, <2>7 DEF CallStep
<1>7. ASSUME NEW i \in Hosts, NEW a \in Agents, AgentCall(i, a), op'[h] # op[h]
      PROVE  FALSE
  <2>1. ASSUME NEW ws, NEW p, Start(i, a, ws, p)
        PROVE  FALSE
    BY <1>4, <1>7, <2>1 DEF Start, At, PastKill
  <2>2. CASE StopKill(i, a)
    BY <1>4, <1>7, <2>2 DEF StopKill, At, PastKill
  <2>3. ASSUME NEW call, Goto(i, At("write", call, a, 0))
        PROVE  FALSE
    BY <1>4, <1>5, <1>7, <2>3, AtFields
  <2>4. ASSUME NEW ws, NEW pid, Bind(i, a, ws, pid) \/ BindFill(i, a, ws, pid)
        PROVE  FALSE
    BY <2>3, <2>4 DEF Bind, BindFill, WriteNext
  <2>5. CASE Status(i, a) \/ StopIdempotent(i, a) \/ StopBindOnly(i, a)
    BY <2>3, <2>5 DEF Status, StopIdempotent, StopBindOnly, WriteNext
  <2>. QED  BY <1>7, <2>1, <2>2, <2>4, <2>5
         DEF AgentCall, StartForkFails, LoadMisses, Refuse
<1>8. ASSUME NEW i \in Hosts, Open(i) \/ Close(i) \/ Crash(i), op'[h] # op[h]
      PROVE  FALSE
  BY <1>4, <1>5, <1>8 DEF Open, Close, Crash, Forget
<1>9. CASE ProcessStep \/ UNCHANGED vars
  BY <1>3, <1>9 DEF ProcessStep, ProcFork, ProcSetsGroup, ProcExit, OtherReaps, SpawnSeat, vars
<1>. QED  BY <1>3, <1>6, <1>7, <1>8, <1>9 DEF Next, HostStep

\* Whatever the hosts, agents and pids, and whatever the members of the group
\* do meanwhile: when kill_tree has returned to stop(), or to a start() that
\* could not be recorded, nobody who was in the group before the SIGKILL, or
\* was forked by one who was, is alive in it.
THEOREM KilledGroupIsDeadHolds == Spec => []KilledGroupIsDead
<1>1. Init => LeadersLead /\ KilledStaysDead
  BY DEF Init, LeadersLead, KilledStaysDead, PastKill, Unused, Closed, At
<1>2. TypeOK /\ Ownership /\ LeadersLead /\ KilledStaysDead /\ [Next]_vars =>
        LeadersLead' /\ KilledStaysDead'
  BY GroupFacts, NextKilled
<1>3. KilledStaysDead => KilledGroupIsDead
  BY DEF KilledStaysDead, KilledGroupIsDead, PastKill, GroupDead, Group, Live
<1>. QED  BY <1>1, <1>2, <1>3, TypeCorrect, OwnershipHolds, PTL DEF Spec

-----------------------------------------------------------------------------
(* The slot file follows the table. *)

\* One process runs the supervisor.
OneHost == \A g, h \in Hosts : g = h

InCall(h, a) == op[h].step \notin {"idle", "closed"} /\ op[h].agent = a

\* The slot files have been written by write_slot.
FilesEncoded ==
  \A a \in Agents : disk[a].in_use => disk[a].ws # Empty /\ disk[a].cgroup = NoCgroup

\* The inductive form of WriteThrough: outside the call that works on it, an
\* entry of the table is on disk unless a failure is on record.
OnDisk ==
  \A h \in Hosts, a \in Agents :
    (mem[h][a].in_use /\ <<h, a>> \notin dirty /\ ~InCall(h, a)) =>
      disk[a] = Encode(mem[h][a])

\* write_slot and read_slot_file agree on what write_slot has written.
LEMMA CodecRoundTrip ==
  ASSUME NEW s \in Slot
  PROVE  /\ Encode(s).ws # Empty /\ Encode(s).cgroup = NoCgroup
         /\ (s.ws # Empty /\ s.cgroup = NoCgroup) => Encode(Decode(s)) = s
BY TokensAssumption DEF Encode, Decode, Slot

\* With one host it is enough to look at its table.
LEMMA OneTable ==
  ASSUME OneHost, NEW h \in Hosts,
         \A b \in Agents : (mem'[h][b].in_use /\ <<h, b>> \notin dirty' /\ ~InCall(h, b)') =>
                            disk'[b] = Encode(mem'[h][b])
  PROVE  OnDisk'
<1>. SUFFICES ASSUME NEW g \in Hosts, NEW b \in Agents,
                     (mem[g][b].in_use /\ <<g, b>> \notin dirty /\ ~InCall(g, b))'
              PROVE  (disk[b] = Encode(mem[g][b]))'
  BY DEF OnDisk
<1>1. g = h
  BY DEF OneHost
<1>. QED  BY <1>1

\* A step that touches the entry of a alone keeps OnDisk when the call on a
\* goes on or its failure is on record.
LEMMA TouchesOne ==
  ASSUME TypeOK, OneHost, OnDisk, NEW h \in Hosts, NEW a \in Agents,
         \A b \in Agents \ {a} : mem'[h][b] = mem[h][b],
         UNCHANGED disk, dirty \subseteq dirty',
         op[h].step = "idle" \/ op[h].agent = a,
         InCall(h, a)' \/ <<h, a>> \in dirty'
  PROVE  OnDisk'
<1>. SUFFICES ASSUME NEW b \in Agents, mem'[h][b].in_use, <<h, b>> \notin dirty', ~InCall(h, b)'
              PROVE  disk'[b] = Encode(mem'[h][b])
  BY OneTable
<1>1. b # a
  OBVIOUS
<1>2. ~InCall(h, b)
  BY <1>1 DEF InCall
<1>. QED  BY <1>1, <1>2 DEF OnDisk

\* What a call that stores a slot of a, or none, does to the other entries.
LEMMA StoresOne ==
  ASSUME TypeOK, NEW h \in Hosts, NEW a \in Agents,
         (\E s : SetSlot(h, a, s)) \/ UNCHANGED mem
  PROVE  \A b \in Agents \ {a} : mem'[h][b] = mem[h][b]
BY DEF SetSlot, TypeOK

\* A call that goes on works on the agent it names.
LEMMA GoesOn ==
  ASSUME TypeOK, NEW h \in Hosts, NEW o, Goto(h, o), o.step \notin {"idle", "closed"}
  PROVE  InCall(h, o.agent)'
BY DEF Goto, InCall, TypeOK

\* The first step of a call keeps the file with the table.
LEMMA AgentCallOnDisk ==
  ASSUME TypeOK, OneHost, FilesEncoded, OnDisk, NEW h \in Hosts, NEW a \in Agents,
         AgentCall(h, a)
  PROVE  OnDisk'
<1>1. ASSUME Ready(h, a), NEW s, SetSlot(h, a, s), UNCHANGED <<disk, dirty>>,
             NEW step \in {"attach", "write", "term"}, NEW call, NEW g,
             Goto(h, At(step, call, a, g))
      PROVE  OnDisk'
  <2>1. InCall(h, a)'
    <3>1. At(step, call, a, g).step = step /\ At(step, call, a, g).agent = a
      BY DEF At
    <3>. QED  BY <1>1, <3>1, GoesOn
  <2>2. \A b \in Agents \ {a} : mem'[h][b] = mem[h][b]
    BY <1>1, StoresOne
  <2>. QED  BY <1>1, <2>1, <2>2, TouchesOne DEF Ready
<1>2. ASSUME NEW ws, NEW p, Start(h, a, ws, p)
      PROVE  OnDisk'
  BY <1>1, <1>2 DEF Start
<1>3. ASSUME NEW ws, NEW pid, Bind(h, a, ws, pid) \/ BindFill(h, a, ws, pid)
      PROVE  OnDisk'
  BY <1>1, <1>3 DEF Bind, BindFill, WriteNext
<1>4. CASE Status(h, a) \/ StopIdempotent(h, a)
  BY <1>1, <1>4 DEF Status, StopIdempotent, WriteNext
<1>5. CASE StopBindOnly(h, a)
  BY <1>1, <1>5 DEF StopBindOnly, WriteNext
<1>6. CASE StopKill(h, a)
  BY <1>1, <1>6 DEF StopKill
<1>7. CASE StartForkFails(h, a) \/ LoadMisses(h, a)
  <2>1. PICK s : SetSlot(h, a, s)
    BY <1>7 DEF StartForkFails, LoadMisses
  <2>2. \A b \in Agents \ {a} : mem'[h][b] = mem[h][b]
    BY <2>1, StoresOne
  <2>. QED  BY <1>7, <2>2, TouchesOne DEF StartForkFails, LoadMisses, Ready
<1>8. CASE Refuse(h, a)
  <2> DEFINE s == Loaded(h, a)
  <2>1. Current(h, a) = s /\ s.in_use
    BY <1>8, BaseTypes DEF Refuse, Current, Reaped, Running, Stopped
  <2>2. SetSlot(h, a, s) /\ UNCHANGED <<disk, op, dirty>> /\ op[h].step = "idle"
    BY <1>8, <2>1 DEF Refuse, Ready
  <2>3. mem'[h][a] = s /\ \A b \in Agents \ {a} : mem'[h][b] = mem[h][b]
    BY <2>2 DEF SetSlot, TypeOK
  <2>4. <<h, a>> \notin dirty => disk[a] = Encode(s)
    <3>1. CASE mem[h][a].in_use
      BY <2>2, <3>1 DEF Loaded, OnDisk, InCall
    <3>2. CASE ~mem[h][a].in_use
      <4>1. disk[a] \in Slot /\ s = Decode(disk[a]) /\ disk[a].in_use
        BY <2>1, <3>2 DEF Loaded, Decode, TypeOK, Slot
      <4>. QED  BY <4>1, CodecRoundTrip DEF FilesEncoded
    <3>. QED  BY <3>1, <3>2
  <2>. HIDE DEF s
  <2>5. ASSUME NEW b \in Agents, mem'[h][b].in_use, <<h, b>> \notin dirty
        PROVE  disk[b] = Encode(mem'[h][b])
    BY <2>2, <2>3, <2>4, <2>5 DEF OnDisk, InCall
  <2>. QED  BY <2>2, <2>5, OneTable
<1>. QED  BY <1>2, <1>3, <1>4, <1>5, <1>6, <1>7, <1>8 DEF AgentCall

\* A step inside a call keeps the file with the table.
LEMMA CallStepOnDisk ==
  ASSUME TypeOK, OneHost, OnDisk, NEW h \in Hosts, CallStep(h)
  PROVE  OnDisk'
<1>0. op[h] \in Op
  BY DEF TypeOK
<1>. PICK a \in Agents : a = op[h].agent
  BY <1>0 DEF Op
<1>1. ASSUME (\E s : SetSlot(h, a, s)) \/ UNCHANGED mem, UNCHANGED <<disk, dirty>>,
             NEW o, Goto(h, o), o.step \notin {"idle", "closed"}, o.agent = a
      PROVE  OnDisk'
  <2>1. InCall(h, a)'
    BY <1>1, GoesOn
  <2>. QED  BY <1>0, <1>1, <2>1, StoresOne, TouchesOne
<1>2. \A step, call, g : At(step, call, a, g).step = step /\ At(step, call, a, g).agent = a
  BY DEF At
<1>3. CASE Attach(h)
  BY <1>1, <1>2, <1>3 DEF Attach, WriteNext
<1>4. CASE Poll(h)
  BY <1>4 DEF Poll, OnDisk, InCall, Encode
<1>5. CASE TermEmpty(h) \/ KillDone(h)
  BY <1>1, <1>2, <1>5 DEF TermEmpty, KillDone, KillReturns, WriteNext
<1>6. CASE TermTimeout(h)
  <2>1. [op[h] EXCEPT !.step = "kill"].step = "kill" /\ [op[h] EXCEPT !.step = "kill"].agent = a
    BY <1>0 DEF Op
  <2>. QED  BY <1>1, <1>6, <2>1 DEF TermTimeout
<1>7. CASE WriteSlot(h)
  <2>1. /\ disk'[a] = Encode(mem[h][a]) /\ \A b \in Agents \ {a} : disk'[b] = disk[b]
        /\ mem' = mem /\ dirty' = dirty \ {<<h, a>>}
    BY <1>0, <1>7 DEF WriteSlot, TypeOK
  <2>2. ASSUME NEW b \in Agents \ {a}, mem[h][b].in_use, <<h, b>> \notin dirty'
        PROVE  disk'[b] = Encode(mem[h][b])
    BY <2>1, <2>2 DEF OnDisk, InCall
  <2>3. ASSUME NEW b \in Agents, mem'[h][b].in_use, <<h, b>> \notin dirty'
        PROVE  disk'[b] = Encode(mem'[h][b])
    BY <2>1, <2>2, <2>3
  <2>. QED  BY <2>3, OneTable
<1>8. CASE WriteFails(h)
  BY <1>0, <1>8, StoresOne, TouchesOne DEF WriteFails
<1>. QED  BY <1>3, <1>4, <1>5, <1>6, <1>7, <1>8 DEF CallStep

\* Every step of the machine keeps the file with the table.
LEMMA NextOnDisk ==
  ASSUME TypeOK, OneHost, FilesEncoded, OnDisk, [Next]_vars
  PROVE  FilesEncoded' /\ OnDisk'
<1>1. ASSUME UNCHANGED disk
      PROVE  FilesEncoded'
  BY <1>1 DEF FilesEncoded
<1>2. ASSUME NEW h \in Hosts, WriteSlot(h)
      PROVE  FilesEncoded'
  <2>1. op[h].agent \in Agents /\ mem[h][op[h].agent] \in Slot
    BY DEF TypeOK, Op
  <2>. QED  BY <1>2, <2>1, CodecRoundTrip DEF WriteSlot, FilesEncoded, TypeOK
<1>3. ASSUME NEW h \in Hosts, Open(h) \/ Close(h) \/ Crash(h)
      PROVE  OnDisk' /\ UNCHANGED disk
  <2>1. CASE Open(h)
    <3>1. ~\E a \in Agents : InCall(h, a)
      BY <2>1 DEF Open, InCall, Closed, At
    <3>. QED  BY <2>1, <3>1, OneTable DEF Open, OnDisk
  <2>2. CASE Forget(h)
    <3>1. \A a \in Agents : mem'[h][a] = NoSlot
      BY <2>2 DEF Forget, TypeOK
    <3>. QED  BY <1>3, <3>1 DEF OneHost, OnDisk, NoSlot, Open, Close, Crash
  <2>. QED  BY <1>3, <2>1, <2>2 DEF Open, Close, Crash
<1>4. CASE ProcessStep \/ UNCHANGED vars
  <2>1. UNCHANGED <<mem, disk, op, dirty>>
    BY <1>4 DEF ProcessStep, ProcFork, ProcSetsGroup, ProcExit, OtherReaps, SpawnSeat, vars
  <2>. QED  BY <1>1, <2>1 DEF OnDisk, InCall, Encode
<1>5. ASSUME NEW h \in Hosts, CallStep(h)
      PROVE  FilesEncoded' /\ OnDisk'
  BY <1>1, <1>2, <1>5, CallStepOnDisk
       DEF CallStep, Attach, Poll, TermEmpty, TermTimeout, KillDone, KillReturns, WriteNext, WriteFails
<1>6. ASSUME NEW h \in Hosts, NEW a \in Agents, AgentCall(h, a)
      PROVE  FilesEncoded' /\ OnDisk'
  <2>1. UNCHANGED disk
    BY <1>6 DEF AgentCall, Start, StartForkFails, LoadMisses, Refuse, Bind, BindFill, Status,
                StopIdempotent, StopBindOnly, StopKill, WriteNext
  <2>. QED  BY <1>1, <1>6, <2>1, AgentCallOnDisk
<1>. QED  BY <1>1, <1>3, <1>4, <1>5, <1>6 DEF Next, HostStep

\* Whatever the agents and pids, while one process runs the supervisor: between
\* calls the slot file holds what the table holds, except for slots whose file
\* a failed call has left behind.
THEOREM WriteThroughHolds == OneHost => (Spec => []WriteThrough)
<1>. SUFFICES ASSUME OneHost PROVE Spec => []WriteThrough
  OBVIOUS
<1>1. Init => FilesEncoded /\ OnDisk
  BY DEF Init, FilesEncoded, OnDisk, NoSlot
<1>2. TypeOK /\ FilesEncoded /\ OnDisk /\ [Next]_vars => FilesEncoded' /\ OnDisk'
  BY NextOnDisk
<1>3. OnDisk => WriteThrough
  BY DEF OnDisk, WriteThrough, InCall
<1>. QED  BY <1>1, <1>2, <1>3, TypeCorrect, PTL DEF Spec

-----------------------------------------------------------------------------
(* The processes that start() forked. *)

\* A live process that start() forked and that must still be found.
Owed(p) == Live(p) /\ proc[p].kind = "leader" /\ p \notin lost

Names(s, p) == s.state = Running /\ s.pgid = p

\* What the calls of h go by.
Entry(h, a) == IF mem[h][a].in_use THEN mem[h][a] ELSE disk[a]

\* p has been forked by the call that h is in, and is not on disk yet.
Starting(h, a, p) ==
  InCall(h, a) /\ op[h].call \in {"start", "undo"} /\ op[h].pgid = p

\* A running slot is in use and records one pid, or a group and init.
SaneSlot(s) == s.state = Running => s.in_use /\ (s.pgid # 0 => s.pid \in {s.pgid, InitPid})

SaneSlots ==
  /\ \A h \in Hosts, a \in Agents : SaneSlot(mem[h][a])
  /\ \A a \in Agents : SaneSlot(disk[a])
  /\ \A h \in Hosts, a \in Agents : InCall(h, a) => mem[h][a].in_use

\* kill_tree is after the group of the entry it works on.
MayKill(o) == o.step \in {"attach", "term", "kill"} \/ (o.step = "write" /\ o.call = "start")

KillsEntry ==
  \A h \in Hosts : MayKill(op[h]) => mem[h][op[h].agent].pgid \in {0, op[h].pgid}

\* The inductive form of LeaderTracked: the calls of every host go by an entry
\* that names the process, and the file names it or the call that forked it
\* is still under way.
FollowedBy(p, a) ==
  /\ \A h \in Hosts : Names(Entry(h, a), p)
  /\ Names(disk[a], p) \/ \E h \in Hosts : Starting(h, a, p)

Followed == \A p \in Pids : Owed(p) => FollowedBy(p, proc[p].agent)

\* Only start() makes a leader.
LEMMA NewLeaders ==
  ASSUME TypeOK, [Next]_vars, NEW p \in Pids,
         proc[p].st = "unused", proc'[p].st # "unused", proc'[p].kind = "leader"
  PROVE  \E h \in Hosts, a \in Agents : \E ws \in Workspaces \cup {Empty}, q \in Pids : Start(h, a, ws, q)
<1>0. proc[p] \in Process
  BY DEF TypeOK
<1>1. proc' # proc
  OBVIOUS
<1>2. ASSUME NEW P \in SUBSET Dead, proc' = Reaping(P)
      PROVE  FALSE
  BY <1>2 DEF Reaping, Dead
<1>3. ASSUME NEW P, proc' = Killing(P)
      PROVE  FALSE
  BY <1>3 DEF Killing
<1>4. CASE ProcessStep
  <2>1. ASSUME NEW q \in Pids, NEW c \in Pids, ProcFork(q, c)
        PROVE  FALSE
    BY <2>1, ForkedFields DEF ProcFork, TypeOK
  <2>2. ASSUME NEW q \in Pids, NEW g \in Pids \cup {0}, ProcSetsGroup(q, g)
        PROVE  FALSE
    BY <2>2, MovedFields
  <2>3. ASSUME NEW q \in Pids, OtherReaps(q)
        PROVE  FALSE
    <3>1. {q} \in SUBSET Dead /\ proc' = Reaping({q})
      BY <2>3 DEF OtherReaps, Zombie, Dead
    <3>. QED  BY <3>1, <1>2
  <2>4. ASSUME NEW q \in Pids, NEW code \in ExitCodes, ProcExit(q, code)
        PROVE  FALSE
    BY <1>0, <2>4 DEF ProcExit, Live, TypeOK, Process
  <2>5. ASSUME NEW q \in Pids, NEW a \in Agents, SpawnSeat(q, a)
        PROVE  FALSE
    BY <2>5 DEF SpawnSeat, Spawned, TypeOK
  <2>. QED  BY <1>4, <2>1, <2>2, <2>3, <2>4, <2>5 DEF ProcessStep
<1>5. ASSUME NEW h \in Hosts, NEW a \in Agents, AgentCall(h, a),
             ~\E ws \in Workspaces \cup {Empty}, q \in Pids : Start(h, a, ws, q)
      PROVE  FALSE
  <2>1. Collected(h, Loaded(h, a)) \in SUBSET Dead
    BY DEF Collected, Waitable, Dead
  <2>2. proc' # ReapedProcs(h, a)
    BY <1>2, <2>1 DEF ReapedProcs
  <2>3. ~StopKill(h, a)
    BY <1>1, <1>3 DEF StopKill
  <2>. QED  BY <1>1, <1>5, <2>2, <2>3
         DEF AgentCall, StartForkFails, LoadMisses, Refuse, Bind, BindFill, Status,
             StopIdempotent, StopBindOnly, WriteNext
<1>6. ASSUME NEW h \in Hosts, CallStep(h)
      PROVE  FALSE
  <2>1. ~Attach(h)
    BY <1>0, <1>1 DEF Attach, TypeOK, Process
  <2>2. ~Poll(h)
    BY <1>2 DEF Poll, Waitable, Dead
  <2>3. ~TermEmpty(h) /\ ~KillDone(h)
    BY <1>2 DEF TermEmpty, KillDone, KillReturns, Waitable, Dead
  <2>4. ~TermTimeout(h)
    BY <1>3 DEF TermTimeout
  <2>. QED  BY <1>1, <1>6, <2>1, <2>2, <2>3, <2>4 DEF CallStep, WriteSlot, WriteFails
<1>7. ASSUME NEW h \in Hosts, Open(h) \/ Close(h) \/ Crash(h)
      PROVE  FALSE
  BY <1>0, <1>1, <1>7 DEF Open, Close, Crash, Process, TypeOK
<1>. QED  BY <1>1, <1>4, <1>5, <1>6, <1>7 DEF Next, HostStep, vars

\* Without a start(), who is owed has been owed before.
LEMMA NextOwed ==
  ASSUME TypeOK, [Next]_vars, lost \subseteq lost',
         NEW p \in Pids, proc[p].st # "unused", Owed(p)'
  PROVE  Owed(p) /\ proc'[p].agent = proc[p].agent
BY NextGroups DEF GroupStep, Owed, Live

-----------------------------------------------------------------------------
(* Slots stay sane. *)

\* What a call works on.
LEMMA CurrentSane ==
  ASSUME TypeOK, SaneSlots, NEW h \in Hosts, NEW a \in Agents
  PROVE  /\ Current(h, a).in_use /\ SaneSlot(Current(h, a))
         /\ Current(h, a).state = Running => Current(h, a) = Loaded(h, a)
         /\ SaneSlot(Loaded(h, a))
<1>1. Loaded(h, a) \in Slot /\ mem[h][a] \in Slot /\ disk[a] \in Slot
  BY CurrentType DEF TypeOK
<1>2. SaneSlot(Loaded(h, a))
  BY <1>1 DEF SaneSlots, SaneSlot, Loaded, Decode, Slot
<1>3. ASSUME NEW s \in Slot, s.in_use, SaneSlot(s)
      PROVE  /\ Reaped(h, s).in_use /\ SaneSlot(Reaped(h, s))
             /\ Reaped(h, s).state = Running => Reaped(h, s) = s
  BY <1>3 DEF Reaped, SaneSlot, Slot, Stopped, Running
<1>4. CASE Loaded(h, a).in_use
  BY <1>1, <1>2, <1>3, <1>4 DEF Current
<1>5. CASE ~Loaded(h, a).in_use
  BY <1>2, <1>5, BaseTypes DEF Current, SaneSlot, Stopped, Running
<1>. QED  BY <1>4, <1>5, <1>2

\* The slots the calls make of it.
LEMMA MadeSane ==
  ASSUME NEW s \in Slot, SaneSlot(s), s.in_use, NEW ws
  PROVE  /\ \A p : SaneSlot(StartedSlot(p, ws)) /\ StartedSlot(p, ws).in_use
         /\ \A pid \in Pids \cup BindOnly :
              /\ SaneSlot(BoundSlot(s, ws, pid)) /\ BoundSlot(s, ws, pid).in_use
              /\ SaneSlot(FilledSlot(s, ws, pid)) /\ FilledSlot(s, ws, pid).in_use
         /\ \A call : SaneSlot(KilledSlot(s, call)) /\ KilledSlot(s, call).in_use
         /\ SaneSlot([s EXCEPT !.state = Stopped, !.pid = 0, !.pgid = 0])
         /\ [s EXCEPT !.state = Stopped, !.pid = 0, !.pgid = 0].in_use
         /\ \A c : SaneSlot([s EXCEPT !.cgroup = c]) /\ [s EXCEPT !.cgroup = c].in_use
         /\ SaneSlot(Encode(s))
<1>1. \A p : SaneSlot(StartedSlot(p, ws)) /\ StartedSlot(p, ws).in_use
  BY DEF StartedSlot, FreshSlot, NoSlot, SaneSlot
<1>2. ASSUME NEW pid \in Pids \cup BindOnly
      PROVE  /\ SaneSlot(BoundSlot(s, ws, pid)) /\ BoundSlot(s, ws, pid).in_use
             /\ SaneSlot(FilledSlot(s, ws, pid)) /\ FilledSlot(s, ws, pid).in_use
  <2>1. pid \in Nat
    BY PidsAssumption, BindOnlyAssumption
  <2>2. pid > 1 \/ pid = 1 \/ pid = 0
    BY <2>1
  <2>. QED  BY <2>1, <2>2 DEF BoundSlot, BoundPgid, FilledSlot, SaneSlot, Slot, InitPid
<1>3. \A call : SaneSlot(KilledSlot(s, call)) /\ KilledSlot(s, call).in_use
  BY DEF KilledSlot, SaneSlot, Slot, Stopped, Failed, Running
<1>4. /\ SaneSlot([s EXCEPT !.state = Stopped, !.pid = 0, !.pgid = 0])
      /\ [s EXCEPT !.state = Stopped, !.pid = 0, !.pgid = 0].in_use
  BY DEF SaneSlot, Slot, Stopped, Running
<1>5. \A c : SaneSlot([s EXCEPT !.cgroup = c]) /\ [s EXCEPT !.cgroup = c].in_use
  BY DEF SaneSlot, Slot
<1>6. SaneSlot(Encode(s))
  BY DEF SaneSlot, Slot, Encode
<1>. QED  BY <1>1, <1>2, <1>3, <1>4, <1>5, <1>6

\* Storing a sane slot in the entry of a, in a call on a, keeps the tables.
LEMMA StoreSane ==
  ASSUME TypeOK, SaneSlots, KillsEntry, NEW h \in Hosts, NEW a \in Agents,
         NEW s, SaneSlot(s), s.in_use, SetSlot(h, a, s), UNCHANGED disk,
         \/ op' = op /\ op[h].step = "idle"
         \/ \E o : Goto(h, o) /\ o.agent = a /\ (MayKill(o) => s.pgid \in {0, o.pgid})
  PROVE  SaneSlots' /\ KillsEntry'
<1>1. /\ mem'[h][a] = s /\ \A b \in Agents \ {a} : mem'[h][b] = mem[h][b]
      /\ \A g \in Hosts \ {h} : mem'[g] = mem[g] /\ op'[g] = op[g]
  BY DEF SetSlot, TypeOK, Goto
<1>2. ~MayKill(op'[h]) \/ (op'[h].agent = a /\ s.pgid \in {0, op'[h].pgid})
  BY DEF MayKill, Goto, TypeOK
<1>3. \A b \in Agents : InCall(h, b)' => b = a
  BY DEF InCall, Goto, TypeOK
<1>4. /\ \A g \in Hosts, b \in Agents : SaneSlot(mem[g][b])'
      /\ \A b \in Agents : SaneSlot(disk[b])'
  BY <1>1 DEF SaneSlots, SaneSlot
<1>5. \A g \in Hosts, b \in Agents : InCall(g, b)' => mem'[g][b].in_use
  BY <1>1, <1>3 DEF SaneSlots, InCall
<1>6. KillsEntry'
  <2>. SUFFICES ASSUME NEW g \in Hosts, MayKill(op'[g])
                PROVE  mem'[g][op'[g].agent].pgid \in {0, op'[g].pgid}
    BY DEF KillsEntry, MayKill
  <2>1. CASE g = h
    BY <1>1, <1>2, <2>1
  <2>2. CASE g # h
    BY <1>1, <2>2 DEF KillsEntry, MayKill
  <2>. QED  BY <2>1, <2>2
<1>. QED  BY <1>4, <1>5, <1>6 DEF SaneSlots

\* The first step of a call keeps the slots sane.
LEMMA AgentCallSane ==
  ASSUME TypeOK, SaneSlots, KillsEntry, NEW h \in Hosts, NEW a \in Agents, AgentCall(h, a)
  PROVE  SaneSlots' /\ KillsEntry'
<1> DEFINE s == Current(h, a)
<1>1. s \in Slot /\ SaneSlot(s) /\ s.in_use
  BY CurrentType, CurrentSane
<1>. HIDE DEF s
<1>2. ASSUME NEW t, SaneSlot(t), t.in_use, SetSlot(h, a, t), UNCHANGED disk,
             NEW call \in {"bind", "status", "stop"}, Goto(h, At("write", call, a, 0))
      PROVE  SaneSlots' /\ KillsEntry'
  <2>1. At("write", call, a, 0).agent = a /\ ~MayKill(At("write", call, a, 0))
    BY DEF At, MayKill
  <2>. QED  BY <1>2, <2>1, StoreSane
<1>3. ASSUME NEW t, SaneSlot(t), t.in_use, SetSlot(h, a, t), UNCHANGED <<disk, op>>, Ready(h, a)
      PROVE  SaneSlots' /\ KillsEntry'
  BY <1>3, StoreSane DEF Ready
<1>4. ASSUME NEW ws \in Workspaces \cup {Empty}, NEW p \in Pids, Start(h, a, ws, p)
      PROVE  SaneSlots' /\ KillsEntry'
  <2>1. /\ SaneSlot(StartedSlot(p, ws)) /\ StartedSlot(p, ws).in_use
        /\ StartedSlot(p, ws).pgid = p
    BY <1>1, MadeSane DEF StartedSlot, FreshSlot, NoSlot
  <2>2. At("attach", "start", a, p).agent = a /\ At("attach", "start", a, p).pgid = p
    BY DEF At
  <2>. QED  BY <1>4, <2>1, <2>2, StoreSane DEF Start
<1>5. CASE StartForkFails(h, a) \/ Refuse(h, a)
  BY <1>1, <1>3, <1>5 DEF StartForkFails, Refuse, s
<1>6. CASE LoadMisses(h, a)
  <2>1. FreshSlot.in_use /\ SaneSlot(FreshSlot)
    BY BaseTypes DEF SaneSlot, Stopped, Running
  <2>. QED  BY <1>3, <1>6, <2>1 DEF LoadMisses
<1>7. ASSUME NEW ws \in Workspaces \cup {Empty}, NEW pid \in BindPids(a),
             Bind(h, a, ws, pid) \/ BindFill(h, a, ws, pid)
      PROVE  SaneSlots' /\ KillsEntry'
  <2>1. pid \in Pids \cup BindOnly
    BY DEF BindPids
  <2>2. /\ SaneSlot(BoundSlot(s, ws, pid)) /\ BoundSlot(s, ws, pid).in_use
        /\ SaneSlot(FilledSlot(s, ws, pid)) /\ FilledSlot(s, ws, pid).in_use
    BY <1>1, <2>1, MadeSane
  <2>. QED  BY <1>2, <1>7, <2>2 DEF Bind, BindFill, WriteNext, s
<1>8. CASE Status(h, a) \/ StopIdempotent(h, a)
  BY <1>1, <1>2, <1>8 DEF Status, StopIdempotent, WriteNext, s
<1>9. CASE StopBindOnly(h, a)
  <2> DEFINE t == [s EXCEPT !.state = Stopped, !.pid = 0, !.pgid = 0]
  <2>1. SaneSlot(t) /\ t.in_use
    BY <1>1, MadeSane
  <2>2. SetSlot(h, a, t) /\ UNCHANGED disk /\ Goto(h, At("write", "stop", a, 0))
    BY <1>9 DEF StopBindOnly, WriteNext, s
  <2>. HIDE DEF t
  <2>. QED  BY <1>2, <2>1, <2>2
<1>10. CASE StopKill(h, a)
  <2>1. /\ At("term", "stop", a, StopTarget(s)).agent = a
        /\ At("term", "stop", a, StopTarget(s)).pgid = StopTarget(s)
    BY DEF At
  <2>2. s.pgid \in {0, StopTarget(s)}
    <3>1. s.pgid \in Pids \cup {0}
      BY <1>1 DEF Slot
    <3>2. \A n \in Pids \cup {0} : n = 0 \/ n > 0
      BY PidsAssumption
    <3>. QED  BY <3>1, <3>2 DEF StopTarget
  <2>. QED  BY <1>1, <1>10, <2>1, <2>2, StoreSane DEF StopKill, s
<1>. QED  BY <1>4, <1>5, <1>6, <1>7, <1>8, <1>9, <1>10 DEF AgentCall

\* A step inside a call keeps the slots sane.
LEMMA CallStepSane ==
  ASSUME TypeOK, SaneSlots, KillsEntry, NEW h \in Hosts, CallStep(h)
  PROVE  SaneSlots' /\ KillsEntry'
<1>0. op[h] \in Op
  BY DEF TypeOK
<1>. PICK a \in Agents : a = op[h].agent
  BY <1>0 DEF Op
<1> DEFINE s == mem[h][a]
<1>1. s \in Slot /\ SaneSlot(s)
  BY DEF TypeOK, SaneSlots
<1>2. s.in_use
  BY DEF CallStep, Attach, Poll, TermEmpty, TermTimeout, KillDone, WriteSlot, WriteFails,
         SaneSlots, InCall
<1>3. mem = [mem EXCEPT ![h][a] = s]
  BY DEF TypeOK
<1>. HIDE DEF s
<1>4. MayKill(op[h]) => s.pgid \in {0, op[h].pgid}
  BY DEF KillsEntry, s
<1>5. CASE Attach(h)
  <2> DEFINE o == At("write", "start", a, op[h].pgid)
             t == [s EXCEPT !.cgroup = CgroupOf(a)]
  <2>1. o.agent = a /\ o.pgid = op[h].pgid
    BY DEF At
  <2>2. SaneSlot(t) /\ t.in_use /\ t.pgid = s.pgid
    BY <1>1, <1>2, MadeSane DEF Slot
  <2>3. s.pgid \in {0, op[h].pgid}
    BY <1>4, <1>5 DEF Attach, MayKill
  <2>4. Goto(h, o) /\ UNCHANGED disk /\ (SetSlot(h, a, s) \/ SetSlot(h, a, t))
    BY <1>3, <1>5 DEF Attach, WriteNext, SetSlot, s
  <2>. HIDE DEF o, t
  <2>. QED  BY <1>1, <1>2, <2>1, <2>2, <2>3, <2>4, StoreSane
<1>6. CASE Poll(h)
  BY <1>6 DEF Poll, SaneSlots, SaneSlot, KillsEntry, InCall, MayKill
<1>7. CASE TermEmpty(h) \/ KillDone(h)
  <2> DEFINE o == At("write", op[h].call, a, op[h].pgid)
             t == KilledSlot(s, op[h].call)
  <2>1. o.agent = a /\ o.pgid = op[h].pgid
    BY DEF At
  <2>2. SaneSlot(t) /\ t.in_use
    BY <1>1, <1>2, MadeSane
  <2>3. t.pgid \in {0, op[h].pgid}
    BY <1>1, <1>4, <1>7 DEF TermEmpty, KillDone, MayKill, KilledSlot, Slot
  <2>4. Goto(h, o) /\ UNCHANGED disk /\ SetSlot(h, a, t)
    BY <1>7 DEF TermEmpty, KillDone, KillReturns, WriteNext, s
  <2>. HIDE DEF o, t
  <2>. QED  BY <2>1, <2>2, <2>3, <2>4, StoreSane
<1>8. CASE TermTimeout(h)
  <2> DEFINE o == [op[h] EXCEPT !.step = "kill"]
  <2>1. o.agent = a /\ o.pgid = op[h].pgid
    BY <1>0 DEF Op
  <2>2. s.pgid \in {0, o.pgid}
    BY <1>4, <1>8, <2>1 DEF TermTimeout, MayKill
  <2>3. Goto(h, o) /\ UNCHANGED disk /\ SetSlot(h, a, s)
    BY <1>3, <1>8 DEF TermTimeout, SetSlot
  <2>. HIDE DEF o
  <2>. QED  BY <1>1, <1>2, <2>1, <2>2, <2>3, StoreSane
<1>9. CASE WriteSlot(h)
  <2>1. /\ disk'[a] = Encode(s) /\ \A b \in Agents \ {a} : disk'[b] = disk[b]
        /\ mem' = mem /\ op'[h] = Idle /\ \A g \in Hosts \ {h} : op'[g] = op[g]
    BY <1>9 DEF WriteSlot, Goto, TypeOK, s
  <2>2. SaneSlot(Encode(s))
    BY <1>1, <1>2, MadeSane
  <2>3. Idle.step = "idle" /\ ~MayKill(Idle)
    BY DEF Idle, At, MayKill
  <2>4. \A g \in Hosts, b \in Agents : InCall(g, b)' => InCall(g, b)
    BY <2>1, <2>3 DEF InCall
  <2>5. \A g \in Hosts : MayKill(op'[g]) => op'[g] = op[g]
    BY <2>1, <2>3
  <2>. QED  BY <2>1, <2>2, <2>4, <2>5 DEF SaneSlots, SaneSlot, KillsEntry, MayKill
<1>10. CASE WriteFails(h)
  <2>1. CASE op[h].call = "start"
    <3> DEFINE o == At("term", "undo", a, op[h].pgid)
    <3>1. o.agent = a /\ o.pgid = op[h].pgid
      BY DEF At
    <3>2. s.pgid \in {0, o.pgid}
      BY <1>4, <1>10, <2>1, <3>1 DEF WriteFails, MayKill
    <3>3. Goto(h, o) /\ UNCHANGED disk /\ SetSlot(h, a, s)
      BY <1>3, <1>10, <2>1 DEF WriteFails, SetSlot, AfterFailedWrite
    <3>. HIDE DEF o
    <3>. QED  BY <1>1, <1>2, <3>1, <3>2, <3>3, StoreSane
  <2>2. CASE op[h].call # "start"
    <3>1. /\ mem' = mem /\ disk' = disk /\ op'[h] = Idle
          /\ \A g \in Hosts \ {h} : op'[g] = op[g]
      BY <1>10, <2>2 DEF WriteFails, Goto, TypeOK, AfterFailedWrite
    <3>2. Idle.step = "idle" /\ ~MayKill(Idle)
      BY DEF Idle, At, MayKill
    <3>3. \A g \in Hosts, b \in Agents : InCall(g, b)' => InCall(g, b)
      BY <3>1, <3>2 DEF InCall
    <3>4. \A g \in Hosts : MayKill(op'[g]) => op'[g] = op[g]
      BY <3>1, <3>2
    <3>. QED  BY <3>1, <3>3, <3>4 DEF SaneSlots, SaneSlot, KillsEntry, MayKill
  <2>. QED  BY <2>1, <2>2
<1>. QED  BY <1>5, <1>6, <1>7, <1>8, <1>9, <1>10 DEF CallStep

\* Every step keeps the slots sane.
LEMMA NextSane ==
  ASSUME TypeOK, SaneSlots, KillsEntry, [Next]_vars
  PROVE  SaneSlots' /\ KillsEntry'
<1>1. ASSUME UNCHANGED <<mem, disk, op>>
      PROVE  SaneSlots' /\ KillsEntry'
  BY <1>1 DEF SaneSlots, SaneSlot, KillsEntry, InCall, MayKill
<1>2. CASE ProcessStep \/ UNCHANGED vars
  BY <1>1, <1>2 DEF ProcessStep, ProcFork, ProcSetsGroup, ProcExit, OtherReaps, SpawnSeat, vars
<1>3. ASSUME NEW h \in Hosts, Open(h) \/ Close(h) \/ Crash(h)
      PROVE  SaneSlots' /\ KillsEntry'
  <2>1. /\ disk' = disk /\ \A g \in Hosts \ {h} : op'[g] = op[g] /\ mem'[g] = mem[g]
        /\ op'[h] \in {Idle, Closed}
        /\ \A a \in Agents : mem'[h][a] \in {NoSlot, mem[h][a]}
    BY <1>3 DEF Open, Close, Crash, Forget, Goto, TypeOK
  <2>2. Idle.step = "idle" /\ ~MayKill(Idle) /\ Closed.step = "closed" /\ ~MayKill(Closed)
    BY DEF Idle, Closed, At, MayKill
  <2>3. SaneSlot(NoSlot)
    BY DEF SaneSlot, NoSlot, Stopped, Running
  <2>4. \A g \in Hosts, b \in Agents : SaneSlot(mem[g][b])'
    <3>. SUFFICES ASSUME NEW g \in Hosts, NEW b \in Agents
                  PROVE  SaneSlot(mem'[g][b])
      BY DEF SaneSlot
    <3>. QED  BY <2>1, <2>3 DEF SaneSlots
  <2>5. \A g \in Hosts, b \in Agents : InCall(g, b)' => mem'[g][b].in_use
    BY <2>1, <2>2 DEF SaneSlots, InCall
  <2>6. \A g \in Hosts : MayKill(op'[g]) => op'[g] = op[g] /\ mem'[g] = mem[g]
    BY <2>1, <2>2
  <2>. QED  BY <2>1, <2>4, <2>5, <2>6 DEF SaneSlots, SaneSlot, KillsEntry, MayKill
<1>. QED  BY <1>2, <1>3, CallStepSane, AgentCallSane DEF Next, HostStep

-----------------------------------------------------------------------------
(* No process that start() forked goes out of sight. *)

\* It is enough to look at the agent a step is about.
LEMMA FollowedOne ==
  ASSUME TypeOK, OneHost, Followed, NEW h \in Hosts, NEW a \in Agents,
         \A b \in Agents \ {a} : mem'[h][b] = mem[h][b] /\ disk'[b] = disk[b],
         op[h].step \in {"idle", "closed"} \/ op[h].agent = a,
         \A p \in Pids : (Owed(p)' /\ proc'[p].agent # a) => Owed(p) /\ proc'[p].agent = proc[p].agent,
         \A p \in Pids : (Owed(p)' /\ proc'[p].agent = a) =>
            Names(Entry(h, a), p)' /\ (Names(disk[a], p) \/ Starting(h, a, p))'
  PROVE  Followed'
<1>. SUFFICES ASSUME NEW p \in Pids, Owed(p)'
              PROVE  FollowedBy(p, proc[p].agent)'
  BY DEF Followed
<1>. PICK b : b = proc'[p].agent
  OBVIOUS
<1>0. \A g \in Hosts : g = h
  BY DEF OneHost
<1>1. CASE b = a
  <2>1. Names(Entry(h, a), p)' /\ (Names(disk[a], p) \/ Starting(h, a, p))'
    BY <1>1
  <2>2. (\A g \in Hosts : Names(Entry(g, a), p))'
    BY <1>0, <2>1
  <2>. QED  BY <1>1, <2>1, <2>2 DEF FollowedBy
<1>2. CASE b # a
  <2>1. Owed(p) /\ b = proc[p].agent
    BY <1>2
  <2>2. b \in Agents
    BY <2>1 DEF TypeOK, Process
  <2>3. Names(Entry(h, b), p) /\ (Names(disk[b], p) \/ Starting(h, b, p))
    BY <1>0, <2>1 DEF Followed, FollowedBy
  <2>4. ~Starting(h, b, p)
    BY <1>2 DEF Starting, InCall
  <2>5. mem'[h][b] = mem[h][b] /\ disk'[b] = disk[b]
    BY <1>2, <2>2
  <2>6. Names(Entry(h, b), p)' /\ Names(disk[b], p)'
    BY <2>3, <2>4, <2>5 DEF Entry, Names
  <2>7. FollowedBy(p, b)'
    BY <1>0, <2>6 DEF FollowedBy
  <2>. QED  BY <2>7
<1>. QED  BY <1>1, <1>2

\* What an idle host finds when it loads the slot of a process that is owed.
LEMMA OwedLoaded ==
  ASSUME TypeOK, SaneSlots, Followed, OneHost, NEW h \in Hosts, op[h].step = "idle",
         NEW p \in Pids, Owed(p), NEW a \in Agents, proc[p].agent = a
  PROVE  /\ Current(h, a) = Loaded(h, a) /\ Names(Current(h, a), p)
         /\ Names(disk[a], p)
<1>1. Names(Entry(h, a), p) /\ Names(disk[a], p)
  <2>1. \A g : ~Starting(h, a, g)
    BY DEF Starting, InCall
  <2>. QED  BY <2>1 DEF Followed, FollowedBy, OneHost
<1>2. disk[a] \in Slot /\ mem[h][a] \in Slot
  BY DEF TypeOK
<1>3. Names(Loaded(h, a), p)
  BY <1>1, <1>2 DEF Entry, Loaded, Decode, Names, Slot
<1>4. SaneSlot(Loaded(h, a))
  BY CurrentSane
<1>5. Loaded(h, a).in_use /\ Loaded(h, a).pid \in {p, InitPid}
  BY <1>3, <1>4, PidsAssumption DEF SaneSlot, Names
<1>6. InitPid \notin Pids
  BY PidsAssumption DEF InitPid
<1>7. Exists(Loaded(h, a).pid) /\ Loaded(h, a).pid \notin Waitable(h)
  BY <1>5, <1>6 DEF Exists, Owed, Live, Waitable
<1>8. Reaped(h, Loaded(h, a)) = Loaded(h, a)
  BY <1>7 DEF Reaped
<1>. QED  BY <1>1, <1>3, <1>5, <1>8 DEF Current

\* The first step of a call follows every leader.
LEMMA AgentCallFollows ==
  ASSUME TypeOK, OneHost, SaneSlots, Followed, [Next]_vars,
         NEW h \in Hosts, NEW a \in Agents, AgentCall(h, a)
  PROVE  Followed'
<1>0. op[h].step = "idle" /\ lost \subseteq lost' /\ UNCHANGED disk
  BY DEF AgentCall, Start, StartForkFails, LoadMisses, Refuse, Bind, BindFill, Status,
         StopIdempotent, StopBindOnly, StopKill, WriteNext, Ready
<1>1. \A b \in Agents \ {a} : mem'[h][b] = mem[h][b] /\ disk'[b] = disk[b]
  <2>1. \E s : SetSlot(h, a, s)
    BY DEF AgentCall, Start, StartForkFails, LoadMisses, Refuse, Bind, BindFill, Status,
           StopIdempotent, StopBindOnly, StopKill, WriteNext
  <2>. QED  BY <1>0, <2>1, StoresOne
<1>2. ASSUME NEW p \in Pids, Owed(p)', proc[p].st # "unused"
      PROVE  Owed(p) /\ proc'[p].agent = proc[p].agent
  BY <1>0, <1>2, NextOwed
<1>3. ASSUME NEW ws \in Workspaces \cup {Empty}, NEW q \in Pids, Start(h, a, ws, q)
      PROVE  Followed'
  <2>1. /\ proc'[q] = LeaderOf(h, a, q)
        /\ \A p \in Pids \ {q} : proc'[p] = Reaping(Collected(h, Loaded(h, a)))[p]
    BY <1>3 DEF Start, ReapedProcs, Reaping
  <2>2. proc'[q].agent = a
    BY <2>1 DEF LeaderOf, Spawned
  <2>3. ASSUME NEW p \in Pids \ {q}, Owed(p)'
        PROVE  Owed(p) /\ proc'[p].agent = proc[p].agent
    <3>1. Collected(h, Loaded(h, a)) \in SUBSET Dead
      BY DEF Collected, Waitable, Dead
    <3>2. proc[p].st # "unused"
      BY <2>1, <2>3, <3>1 DEF Reaping, Dead, Owed, Live
    <3>. QED  BY <1>2, <2>3, <3>2
  <2>4. ASSUME NEW p \in Pids \ {q}, Owed(p)', proc'[p].agent = a
        PROVE  FALSE
    BY <1>0, <1>3, <2>3, <2>4, OwedLoaded DEF Start, Names
  <2>5. mem'[h][a] = StartedSlot(q, ws) /\ op'[h] = At("attach", "start", a, q)
    BY <1>3 DEF Start, SetSlot, Goto, TypeOK
  <2>6. Names(Entry(h, a)', q) /\ Starting(h, a, q)'
    BY <2>5 DEF Entry, Names, StartedSlot, FreshSlot, NoSlot, Starting, InCall, At
  <2>7. \A p \in Pids : (Owed(p)' /\ proc'[p].agent # a) => Owed(p) /\ proc'[p].agent = proc[p].agent
    BY <2>2, <2>3
  <2>8. \A p \in Pids : (Owed(p)' /\ proc'[p].agent = a) =>
            Names(Entry(h, a), p)' /\ (Names(disk[a], p) \/ Starting(h, a, p))'
    BY <2>4, <2>6 DEF Names, Entry
  <2>. QED  BY <1>0, <1>1, <2>7, <2>8, FollowedOne
<1>4. CASE ~\E ws \in Workspaces \cup {Empty}, q \in Pids : Start(h, a, ws, q)
  <2>0. op'[h].step # "attach"
    <3>1. op' = op \/ \E o : Goto(h, o) /\ o.step \in {"write", "term"}
      BY <1>4 DEF AgentCall, StartForkFails, LoadMisses, Refuse, Bind, BindFill, Status,
                  StopIdempotent, StopBindOnly, StopKill, WriteNext, At
    <3>. QED  BY <1>0, <3>1 DEF Goto, TypeOK
  <2>1. ASSUME NEW p \in Pids, Owed(p)'
        PROVE  Owed(p) /\ proc'[p].agent = proc[p].agent
    <3>1. CASE proc[p].st = "unused"
      <4>1. PICK i \in Hosts, b \in Agents : \E ws \in Workspaces \cup {Empty}, q \in Pids : Start(i, b, ws, q)
        BY <2>1, <3>1, NewLeaders DEF Owed, Live
      <4>2. i = h /\ op'[i].step = "attach"
        BY <4>1 DEF OneHost, Start, Goto, At, TypeOK
      <4>. QED  BY <2>0, <4>2
    <3>. QED  BY <1>2, <2>1, <3>1
  <2>2. ASSUME NEW p \in Pids, Owed(p)', proc'[p].agent = a
        PROVE  Names(Entry(h, a), p)' /\ (Names(disk[a], p) \/ Starting(h, a, p))'
    <3> DEFINE s == Current(h, a)
    <3>1. s = Loaded(h, a) /\ Names(s, p) /\ Names(disk[a], p)
      BY <1>0, <2>1, <2>2, OwedLoaded
    <3>2. s \in Slot /\ s.in_use
      BY CurrentSane, CurrentType
    <3>3. ASSUME NEW t, SetSlot(h, a, t), Names(t, p), t.in_use
          PROVE  Names(Entry(h, a), p)'
      BY <3>3 DEF SetSlot, Entry, Names, TypeOK
    <3>4. Names(disk[a], p)'
      BY <1>0, <3>1 DEF Names
    <3>5. s.state = Running /\ s.pgid = p /\ p > 1
      BY <3>1, PidsAssumption DEF Names
    <3>6. ~StartForkFails(h, a) /\ ~StopIdempotent(h, a)
      BY <3>5 DEF StartForkFails, StopIdempotent
    <3>7. ~StopBindOnly(h, a)
      BY <3>5, PidsAssumption DEF StopBindOnly, StopTarget
    <3>8. ~LoadMisses(h, a)
      <4>1. FreshSlot.pgid = 0 /\ p # 0
        BY PidsAssumption DEF FreshSlot, NoSlot
      <4>2. Live(p) /\ disk[a].pgid = p /\ p \notin lost'
        BY <2>1, <2>2, <3>1 DEF Owed, Names
      <4>. QED  BY <4>1, <4>2 DEF LoadMisses, Dropped
    <3>9. CASE Refuse(h, a) \/ Status(h, a) \/ StopKill(h, a)
      BY <3>1, <3>2, <3>3, <3>4, <3>9 DEF Refuse, Status, StopKill
    <3>10. ASSUME NEW ws, NEW pid \in BindPids(a), Bind(h, a, ws, pid) \/ BindFill(h, a, ws, pid)
           PROVE  Names(Entry(h, a), p)'
      <4> DEFINE t == FilledSlot(s, ws, pid)
      <4>1. SetSlot(h, a, t) /\ Dropped(s, t) \subseteq lost'
        BY <3>5, <3>10 DEF Bind, BindFill
      <4>2. t.state = Running /\ t.in_use
        BY <3>2, <3>5 DEF FilledSlot, Slot
      <4>3. t.pgid = p
        BY <2>1, <2>2, <3>5, <4>1 DEF Dropped, Owed
      <4>. HIDE DEF t
      <4>. QED  BY <3>3, <4>1, <4>2, <4>3 DEF Names
    <3>. HIDE DEF s
    <3>. QED  BY <1>4, <3>4, <3>6, <3>7, <3>8, <3>9, <3>10 DEF AgentCall
  <2>. QED  BY <1>0, <1>1, <2>1, <2>2, FollowedOne
<1>. QED  BY <1>3, <1>4

\* A step inside a call follows every leader: what kill_tree gives up is dead.
LEMMA CallStepFollows ==
  ASSUME TypeOK, OneHost, SaneSlots, KillsEntry, LeadersLead, KilledStaysDead, Followed,
         [Next]_vars, NEW h \in Hosts, CallStep(h)
  PROVE  Followed'
<1>0. op[h] \in Op
  BY DEF TypeOK
<1>. PICK a \in Agents : a = op[h].agent
  BY <1>0 DEF Op
<1> DEFINE s == mem[h][a]
<1>1. s \in Slot /\ InCall(h, a) /\ s.in_use
  BY DEF CallStep, Attach, Poll, TermEmpty, TermTimeout, KillDone, WriteSlot, WriteFails,
         SaneSlots, InCall, TypeOK
<1>2. lost' = lost
  BY DEF CallStep, Attach, Poll, TermEmpty, TermTimeout, KillDone, KillReturns, WriteNext,
         WriteSlot, WriteFails
<1>3. ASSUME NEW p \in Pids, Owed(p)'
      PROVE  Owed(p) /\ proc'[p].agent = proc[p].agent
  <2>1. CASE proc[p].st = "unused"
    <3>1. PICK i \in Hosts, b \in Agents : \E ws \in Workspaces \cup {Empty}, q \in Pids : Start(i, b, ws, q)
      BY <1>3, <2>1, NewLeaders DEF Owed, Live
    <3>2. i = h /\ op[i].step = "idle"
      BY <3>1 DEF OneHost, Start, Ready
    <3>. QED  BY <1>1, <3>2 DEF InCall
  <2>. QED  BY <1>2, <1>3, <2>1, NextOwed
<1>4. ASSUME NEW p \in Pids, Owed(p), proc[p].agent = a
      PROVE  s.state = Running /\ s.pgid = p /\ (Names(disk[a], p) \/ Starting(h, a, p))
  BY <1>1, <1>4 DEF Followed, FollowedBy, Names, Entry, OneHost
<1>5. \A b \in Agents \ {a} : mem'[h][b] = mem[h][b] /\ disk'[b] = disk[b]
  BY DEF CallStep, Attach, Poll, TermEmpty, TermTimeout, KillDone, KillReturns, WriteNext,
         WriteSlot, WriteFails, SetSlot, TypeOK
<1>6. ASSUME NEW p \in Pids, Owed(p)', proc'[p].agent = a
      PROVE  Names(Entry(h, a), p)' /\ (Names(disk[a], p) \/ Starting(h, a, p))'
  <2>1. /\ Owed(p) /\ s.state = Running /\ s.pgid = p
        /\ Names(disk[a], p) \/ Starting(h, a, p)
    BY <1>3, <1>4, <1>6
  <2>2. /\ proc[p].grp = p /\ proc[p].came = "born"
        /\ proc[p].st = "live" /\ proc[p].kind = "leader" /\ p # 0
    BY <2>1, PidsAssumption DEF Owed, Live, LeadersLead
  <2>3. ASSUME PastKill(op[h]), op[h].pgid = p
        PROVE  FALSE
    BY <2>2, <2>3 DEF KilledStaysDead, GroupDead
  <2>4. MayKill(op[h]) => op[h].pgid = p
    BY <2>1, <2>2 DEF KillsEntry
  <2>5. ASSUME mem'[h][a] = s, UNCHANGED disk, op'[h].step \notin {"idle", "closed"},
               op'[h].agent = a, op'[h].pgid = op[h].pgid,
               op[h].call \in {"start", "undo"} => op'[h].call \in {"start", "undo"}
        PROVE  Names(Entry(h, a), p)' /\ (Names(disk[a], p) \/ Starting(h, a, p))'
    <3>1. Names(Entry(h, a), p)'
      BY <1>1, <2>1, <2>5 DEF Names, Entry
    <3>2. (Names(disk[a], p) \/ Starting(h, a, p))'
      BY <2>1, <2>5 DEF Names, Starting, InCall
    <3>. QED  BY <3>1, <3>2
  <2>6. CASE Attach(h)
    <3>1. /\ op'[h] = At("write", "start", a, op[h].pgid) /\ UNCHANGED disk
          /\ mem'[h][a] \in {s, [s EXCEPT !.cgroup = CgroupOf(a)]}
      BY <2>6 DEF Attach, WriteNext, SetSlot, Goto, TypeOK
    <3>2. /\ mem'[h][a].in_use /\ mem'[h][a].state = Running /\ mem'[h][a].pgid = p
      BY <1>1, <2>1, <3>1 DEF Slot
    <3>3. Names(Entry(h, a), p)'
      BY <3>2 DEF Names, Entry
    <3>4. (Names(disk[a], p) \/ Starting(h, a, p))'
      BY <2>1, <3>1 DEF Names, Starting, InCall, At
    <3>. QED  BY <3>3, <3>4
  <2>7. CASE Poll(h)
    BY <1>1, <2>5, <2>7 DEF Poll, InCall
  <2>8. CASE TermEmpty(h) \/ KillDone(h)
    <3>1. op[h].pgid = p
      BY <2>4, <2>8 DEF TermEmpty, KillDone, MayKill
    <3>2. p \in Group(p)
      BY <2>2 DEF Group
    <3>3. PastKill(op[h])
      BY <2>8, <3>1, <3>2 DEF TermEmpty, KillDone, PastKill
    <3>. QED  BY <2>3, <3>1, <3>3
  <2>9. CASE TermTimeout(h)
    <3>1. op'[h] = [op[h] EXCEPT !.step = "kill"] /\ mem' = mem /\ UNCHANGED disk
      BY <2>9 DEF TermTimeout, Goto, TypeOK
    <3>2. op'[h].step = "kill" /\ op'[h].agent = a /\ op'[h].pgid = op[h].pgid /\ op'[h].call = op[h].call
      BY <1>0, <3>1 DEF Op
    <3>. QED  BY <2>5, <3>1, <3>2
  <2>10. CASE WriteSlot(h)
    <3>1. disk'[a] = Encode(s) /\ mem' = mem
      BY <2>10 DEF WriteSlot, TypeOK
    <3>2. Encode(s).state = Running /\ Encode(s).pgid = p
      BY <1>1, <2>1 DEF Encode, Slot
    <3>3. Names(Entry(h, a), p)'
      BY <1>1, <2>1, <3>1 DEF Names, Entry
    <3>. QED  BY <3>1, <3>2, <3>3 DEF Names
  <2>11. CASE WriteFails(h)
    <3>1. mem' = mem /\ disk' = disk
      BY <2>11 DEF WriteFails
    <3>2. CASE op[h].call = "start"
      <4>1. op'[h] = At("term", "undo", a, op[h].pgid)
        BY <2>11, <3>2 DEF WriteFails, Goto, AfterFailedWrite, TypeOK
      <4>2. /\ op'[h].step = "term" /\ op'[h].agent = a
            /\ op'[h].pgid = op[h].pgid /\ op'[h].call = "undo"
        BY <4>1 DEF At
      <4>. QED  BY <2>5, <3>1, <4>2
    <3>3. CASE op[h].call # "start"
      <4>1. ~Starting(h, a, p)
        BY <2>3, <2>11, <3>3 DEF Starting, PastKill, WriteFails
      <4>2. Names(Entry(h, a), p)' /\ Names(disk[a], p)'
        BY <1>1, <2>1, <3>1, <4>1 DEF Names, Entry
      <4>. QED  BY <4>2
    <3>. QED  BY <3>2, <3>3
  <2>. HIDE DEF s
  <2>. QED  BY <2>6, <2>7, <2>8, <2>9, <2>10, <2>11 DEF CallStep
<1>. QED  BY <1>3, <1>5, <1>6, FollowedOne

\* Every step follows every leader.
LEMMA NextFollows ==
  ASSUME TypeOK, OneHost, SaneSlots, KillsEntry, LeadersLead, KilledStaysDead, Followed,
         [Next]_vars
  PROVE  Followed'
<1>1. ASSUME NEW p \in Pids, Owed(p)', lost \subseteq lost',
             ~\E h \in Hosts, a \in Agents : \E ws \in Workspaces \cup {Empty}, q \in Pids : Start(h, a, ws, q)
      PROVE  Owed(p) /\ proc'[p].agent = proc[p].agent
  <2>1. proc[p].st # "unused"
    BY <1>1, NewLeaders DEF Owed, Live
  <2>. QED  BY <1>1, <2>1, NextOwed
<1>2. CASE ProcessStep \/ UNCHANGED vars
  <2>1. UNCHANGED <<mem, disk, op>> /\ lost \subseteq lost'
    BY <1>2 DEF ProcessStep, ProcFork, ProcSetsGroup, ProcExit, OtherReaps, SpawnSeat, vars
  <2>2. ~\E h \in Hosts, a \in Agents : \E ws \in Workspaces \cup {Empty}, q \in Pids : Start(h, a, ws, q)
    <3>. SUFFICES ASSUME NEW h \in Hosts, NEW a \in Agents, NEW ws, NEW q, Start(h, a, ws, q)
                  PROVE  FALSE
      OBVIOUS
    <3>1. op'[h].step = "attach" /\ op[h].step = "idle"
      BY DEF Start, Ready, Goto, At, TypeOK
    <3>. QED  BY <2>1, <3>1
  <2>. SUFFICES ASSUME NEW p \in Pids, Owed(p)'
                PROVE  FollowedBy(p, proc[p].agent)'
    BY DEF Followed
  <2>3. Owed(p) /\ proc'[p].agent = proc[p].agent
    BY <1>1, <2>1, <2>2
  <2>4. FollowedBy(p, proc[p].agent)
    BY <2>3 DEF Followed
  <2>. QED  BY <2>1, <2>3, <2>4 DEF FollowedBy, Names, Entry, Starting, InCall
<1>3. ASSUME NEW h \in Hosts, Open(h) \/ Close(h) \/ Crash(h)
      PROVE  Followed'
  <2>0. \A g \in Hosts : g = h
    BY DEF OneHost
  <2>1. ~\E g \in Hosts, a \in Agents : \E ws \in Workspaces \cup {Empty}, q \in Pids : Start(g, a, ws, q)
    <3>. SUFFICES ASSUME NEW g \in Hosts, NEW a \in Agents, NEW ws, NEW q, Start(g, a, ws, q)
                  PROVE  FALSE
      OBVIOUS
    <3>1. op'[h].step = "attach"
      BY <2>0 DEF Start, Goto, At, TypeOK
    <3>2. op'[h].step \in {"idle", "closed"}
      BY <1>3 DEF Open, Close, Crash, Forget, Goto, Idle, Closed, At, TypeOK
    <3>. QED  BY <3>1, <3>2
  <2>2. lost \subseteq lost' /\ UNCHANGED disk
    BY <1>3 DEF Open, Close, Crash
  <2>. SUFFICES ASSUME NEW p \in Pids, Owed(p)'
                PROVE  FollowedBy(p, proc[p].agent)'
    BY DEF Followed
  <2>3. Owed(p) /\ proc'[p].agent = proc[p].agent
    BY <1>1, <2>1, <2>2
  <2>. PICK a \in Agents : a = proc[p].agent
    BY DEF TypeOK, Process
  <2>4. Names(Entry(h, a), p) /\ (Names(disk[a], p) \/ Starting(h, a, p))
    BY <2>0, <2>3 DEF Followed, FollowedBy
  <2>5. ~Starting(h, a, p)
    <3>1. CASE op[h].step \in {"idle", "closed"}
      BY <3>1 DEF Starting, InCall
    <3>2. CASE op[h].step \notin {"idle", "closed"}
      <4>1. Crash(h)
        BY <1>3, <3>2 DEF Open, Close, Closed, At
      <4>. QED  BY <2>3, <4>1 DEF Crash, Starting, InCall, Owed
    <3>. QED  BY <3>1, <3>2
  <2>6. mem'[h][a] \in {mem[h][a], NoSlot}
    BY <1>3 DEF Open, Close, Crash, Forget, TypeOK
  <2>7. Names(Entry(h, a), p)' /\ Names(disk[a], p)'
    BY <2>2, <2>4, <2>5, <2>6 DEF Names, Entry, NoSlot
  <2>8. FollowedBy(p, a)'
    BY <2>0, <2>7 DEF FollowedBy
  <2>. QED  BY <2>3, <2>8
<1>. QED  BY <1>2, <1>3, CallStepFollows, AgentCallFollows DEF Next, HostStep

\* Whatever the agents and pids, while one process runs the supervisor: a live
\* process that start() forked is named by the slot file of its agent, or the
\* call that forked it is still under way, through every crash, failed write,
\* failed fork and concurrent exit, except for the losses LeaderTracked names.
THEOREM LeaderTrackedHolds == OneHost => (Spec => []LeaderTracked)
<1>. SUFFICES ASSUME OneHost PROVE Spec => []LeaderTracked
  OBVIOUS
<1> DEFINE Known == LeadersLead /\ KilledStaysDead /\ SaneSlots /\ KillsEntry /\ Followed
<1>1. Init => Known
  <2>1. Init => LeadersLead /\ KilledStaysDead
    BY DEF Init, LeadersLead, KilledStaysDead, PastKill, Unused, Closed, At
  <2>2. Init => SaneSlots /\ KillsEntry
    BY DEF Init, SaneSlots, SaneSlot, KillsEntry, NoSlot, Stopped, Running, InCall, MayKill, Closed, At
  <2>3. Init => Followed
    BY DEF Init, Followed, Owed, Live, Unused
  <2>. QED  BY <2>1, <2>2, <2>3
<1>2. TypeOK /\ Ownership /\ Known /\ [Next]_vars => Known'
  BY GroupFacts, NextKilled, NextSane, NextFollows
<1>3. TypeOK /\ Known => LeaderTracked
  <2>. SUFFICES ASSUME TypeOK, Known, NEW p \in Pids, Owed(p), NEW a, a = proc[p].agent
                PROVE  \/ disk[a].state = Running /\ disk[a].pgid = p
                       \/ \E h \in Hosts :
                            /\ op[h].step \notin {"idle", "closed"}
                            /\ op[h].agent = a
                            /\ mem[h][a].pgid = p
    BY DEF LeaderTracked, Owed
  <2>1. FollowedBy(p, a) /\ a \in Agents
    BY DEF Followed, TypeOK, Process
  <2>2. ASSUME NEW h \in Hosts, Starting(h, a, p)
        PROVE  InCall(h, a) /\ mem[h][a].pgid = p
    BY <2>1, <2>2 DEF FollowedBy, Starting, SaneSlots, Entry, Names
  <2>. QED  BY <2>1, <2>2 DEF FollowedBy, Names, InCall
<1>. QED  BY <1>1, <1>2, <1>3, TypeCorrect, OwnershipHolds, PTL DEF Spec

-----------------------------------------------------------------------------
(* A committed workspace is sticky. *)

\* The inductive form of StickyWorkspace: a call that works on a committed slot
\* and leaves it running has kept its workspace.
StickyCalls ==
  \A h \in Hosts, a \in Agents :
    (InCall(h, a) /\ Committed(a) /\ mem[h][a].state = Running) =>
      Encode(mem[h][a]).ws = disk[a].ws

\* A slot that is committed after a step that does not write it was so before:
\* pids are not used again.
LEMMA CommittedBefore ==
  ASSUME TypeOK, Ownership, [Next]_vars, NEW a \in Agents,
         disk'[a] = disk[a], dirty \subseteq dirty', Committed(a)'
  PROVE  Committed(a)
<1>1. ASSUME disk[a].pid \in Pids, Exists(disk[a].pid)'
      PROVE  Exists(disk[a].pid)
  <2>1. proc[disk[a].pid].st # "unused"
    BY <1>1 DEF Ownership, SlotOwned, OwnedBy
  <2>. QED  BY <1>1, <2>1, NextGroups DEF GroupStep, Exists, Live, Zombie
<1>2. ASSUME disk[a].pid \notin Pids, Exists(disk[a].pid)'
      PROVE  Exists(disk[a].pid)
  BY <1>2 DEF Exists, Live, Zombie
<1>3. disk[a].pid = 0 \/ Exists(disk[a].pid)
  BY <1>1, <1>2 DEF Committed, Exists, Live, Zombie
<1>. QED  BY <1>3 DEF Committed, Decode

\* What an idle host finds when it loads a committed slot.
LEMMA CommittedLoaded ==
  ASSUME TypeOK, FilesEncoded, OnDisk, SaneSlots, NEW h \in Hosts, op[h].step = "idle",
         NEW a \in Agents, Committed(a)
  PROVE  /\ Loaded(h, a).state = Running /\ Loaded(h, a).in_use
         /\ Loaded(h, a).ws # Empty /\ Encode(Loaded(h, a)).ws = disk[a].ws
         /\ Loaded(h, a).pid = disk[a].pid
<1>1. mem[h][a] \in Slot /\ disk[a] \in Slot
  BY DEF TypeOK
<1>2. disk[a].state = Running /\ disk[a].in_use /\ <<h, a>> \notin dirty
  BY DEF Committed, SaneSlots, SaneSlot
<1>3. disk[a].ws \notin {Empty, Dash}
  BY <1>1, <1>2 DEF Committed, Decode, FilesEncoded, Slot
<1>4. CASE mem[h][a].in_use
  <2>1. disk[a] = Encode(mem[h][a])
    BY <1>2, <1>4 DEF OnDisk, InCall
  <2>. QED  BY <1>1, <1>2, <1>3, <1>4, <2>1 DEF Loaded, Encode, Slot
<1>5. CASE ~mem[h][a].in_use
  BY <1>1, <1>2, <1>3, <1>5 DEF Loaded, Decode, Encode, Slot
<1>. QED  BY <1>4, <1>5

\* The first step of a call keeps a committed workspace.
LEMMA AgentCallSticky ==
  ASSUME TypeOK, OneHost, Ownership, FilesEncoded, OnDisk, SaneSlots, [Next]_vars,
         NEW h \in Hosts, NEW a \in Agents, AgentCall(h, a)
  PROVE  StickyCalls'
<1>0. op[h].step = "idle" /\ UNCHANGED disk /\ dirty \subseteq dirty'
  BY DEF AgentCall, Start, StartForkFails, LoadMisses, Refuse, Bind, BindFill, Status,
         StopIdempotent, StopBindOnly, StopKill, WriteNext, Ready
<1>1. \A b \in Agents : InCall(h, b)' => b = a /\ op' # op
  BY <1>0 DEF AgentCall, Start, StartForkFails, LoadMisses, Refuse, Bind, BindFill, Status,
              StopIdempotent, StopBindOnly, StopKill, WriteNext, Goto, At, InCall, TypeOK
<1>. SUFFICES ASSUME InCall(h, a)', Committed(a)', (mem[h][a].state = Running)'
              PROVE  Encode(mem'[h][a]).ws = disk'[a].ws
  <2>1. ASSUME NEW g \in Hosts, NEW b \in Agents,
               (InCall(g, b) /\ Committed(b) /\ mem[g][b].state = Running)'
        PROVE  g = h /\ b = a
    BY <1>1, <2>1 DEF OneHost
  <2>2. ASSUME InCall(h, a)', Committed(a)', (mem[h][a].state = Running)'
        PROVE  (Encode(mem[h][a]).ws = disk[a].ws)'
    BY <1>0, <2>2 DEF Encode
  <2>. QED  BY <2>1, <2>2 DEF StickyCalls
<1> DEFINE s == Loaded(h, a)
<1>2. Committed(a)
  BY <1>0, CommittedBefore
<1>3. /\ s.state = Running /\ s.in_use /\ s.ws # Empty
      /\ Encode(s).ws = disk[a].ws /\ s.pid = disk[a].pid
  BY <1>0, <1>2, CommittedLoaded
<1>4. ASSUME proc' = ReapedProcs(h, a), UNCHANGED disk
      PROVE  Current(h, a).state = Running
  <2>1. s.pid = 0 \/ Exists(s.pid)
    BY <1>2, <1>3 DEF Committed
  <2>2. s.pid = 0 \/ s.pid \notin Waitable(h)
    <3>. SUFFICES ASSUME s.pid \in Waitable(h) PROVE s.pid = 0
      OBVIOUS
    <3>1. s.pid \in Pids /\ s.pid \in Collected(h, s)
      BY <1>3 DEF Collected, Waitable
    <3>2. proc[s.pid] \in Process
      BY <3>1 DEF TypeOK
    <3>3. proc'[s.pid].st = "gone"
      BY <1>4, <3>1, <3>2 DEF ReapedProcs, Reaping, Process
    <3>4. s.pid # InitPid
      BY <3>1, PidsAssumption DEF InitPid
    <3>5. disk'[a].pid = 0 \/ disk'[a].pid = InitPid \/ proc'[disk'[a].pid].st \in {"live", "zombie"}
      BY DEF Committed, Exists, Live, Zombie
    <3>. QED  BY <1>0, <1>3, <3>3, <3>4, <3>5
  <2>. QED  BY <1>3, <2>1, <2>2 DEF Current, Reaped
<1>5. Current(h, a).state = Running => Current(h, a) = s
  BY CurrentSane
<1>6. ASSUME NEW t, SetSlot(h, a, t), t.state # Running
      PROVE  FALSE
  BY <1>6 DEF SetSlot, TypeOK
<1>7. ASSUME SetSlot(h, a, Current(h, a)), Current(h, a) = s
      PROVE  Encode(mem'[h][a]).ws = disk'[a].ws
  <2>1. mem'[h][a] = s
    BY <1>7 DEF SetSlot, TypeOK
  <2>. QED  BY <1>0, <1>3, <2>1
<1>8. ~StartForkFails(h, a) /\ ~LoadMisses(h, a) /\ ~Refuse(h, a)
  BY <1>1 DEF StartForkFails, LoadMisses, Refuse
<1>9. ~StopIdempotent(h, a)
  BY <1>0, <1>4 DEF StopIdempotent
<1>10. ASSUME NEW ws, NEW pid
       PROVE  ~Bind(h, a, ws, pid) /\ ~BindFill(h, a, ws, pid)
  BY <1>0, <1>3, <1>4, <1>5 DEF Bind, BindFill, MayFill
<1>11. ~StopBindOnly(h, a)
  <2>1. Current(h, a) \in Slot
    BY CurrentType
  <2>2. [Current(h, a) EXCEPT !.state = Stopped, !.pid = 0, !.pgid = 0].state # Running
    BY <2>1 DEF Slot, Stopped, Running
  <2>. QED  BY <1>6, <2>2 DEF StopBindOnly
<1>12. ASSUME NEW ws, NEW p \in Pids, Start(h, a, ws, p)
       PROVE  FALSE
  <2>1. /\ Current(h, a).state # Running /\ proc[p].st = "unused"
        /\ proc' = [ReapedProcs(h, a) EXCEPT ![p] = LeaderOf(h, a, p)]
    BY <1>12 DEF Start, NextPid
  <2>2. s.pid = 0 \/ Exists(s.pid)
    BY <1>2, <1>3 DEF Committed
  <2>3. s.pid \in Waitable(h) /\ s.pid # 0
    BY <1>3, <2>1, <2>2 DEF Current, Reaped
  <2>4. s.pid \in Pids /\ s.pid \in Collected(h, s) /\ s.pid # p
    BY <1>3, <2>1, <2>3 DEF Collected, Waitable
  <2>5. proc[s.pid] \in Process
    BY <2>4 DEF TypeOK
  <2>6. proc'[s.pid].st = "gone"
    BY <2>1, <2>4, <2>5 DEF ReapedProcs, Reaping, Process
  <2>7. s.pid # InitPid
    BY <2>4, PidsAssumption DEF InitPid
  <2>8. disk'[a].pid = 0 \/ disk'[a].pid = InitPid \/ proc'[disk'[a].pid].st \in {"live", "zombie"}
    BY DEF Committed, Exists, Live, Zombie
  <2>. QED  BY <1>0, <1>3, <2>3, <2>6, <2>7, <2>8
<1>13. CASE Status(h, a)
  BY <1>0, <1>4, <1>5, <1>7, <1>13 DEF Status
<1>14. CASE StopKill(h, a)
  BY <1>5, <1>7, <1>14 DEF StopKill
<1>. HIDE DEF s
<1>. QED  BY <1>8, <1>9, <1>10, <1>11, <1>12, <1>13, <1>14 DEF AgentCall

\* A step inside a call keeps a committed workspace.
LEMMA CallStepSticky ==
  ASSUME TypeOK, OneHost, Ownership, StickyCalls, [Next]_vars, NEW h \in Hosts, CallStep(h)
  PROVE  StickyCalls'
<1>0. op[h] \in Op
  BY DEF TypeOK
<1>. PICK a \in Agents : a = op[h].agent
  BY <1>0 DEF Op
<1> DEFINE s == mem[h][a]
<1>1. s \in Slot /\ InCall(h, a)
  BY DEF CallStep, Attach, Poll, TermEmpty, TermTimeout, KillDone, WriteSlot, WriteFails,
         InCall, TypeOK
<1>2. \A b \in Agents : InCall(h, b)' => b = a
  BY <1>0, AtFields DEF CallStep, Attach, Poll, TermEmpty, TermTimeout, KillDone, KillReturns, WriteNext,
         WriteSlot, WriteFails, AfterFailedWrite, Goto, Idle, At, InCall, TypeOK, Op
<1>. SUFFICES ASSUME InCall(h, a)', Committed(a)', (mem[h][a].state = Running)'
              PROVE  Encode(mem'[h][a]).ws = disk'[a].ws
  <2>1. ASSUME NEW g \in Hosts, NEW b \in Agents,
               (InCall(g, b) /\ Committed(b) /\ mem[g][b].state = Running)'
        PROVE  g = h /\ b = a
    BY <1>2, <2>1 DEF OneHost
  <2>2. ASSUME InCall(h, a)', Committed(a)', (mem[h][a].state = Running)'
        PROVE  (Encode(mem[h][a]).ws = disk[a].ws)'
    BY <2>2 DEF Encode
  <2>. QED  BY <2>1, <2>2 DEF StickyCalls
<1>3. ASSUME UNCHANGED disk, UNCHANGED dirty, mem'[h][a].state = s.state,
             Encode(mem'[h][a]).ws = Encode(s).ws
      PROVE  Encode(mem'[h][a]).ws = disk'[a].ws
  <2>1. Committed(a)
    BY <1>3, CommittedBefore
  <2>. QED  BY <1>1, <1>3, <2>1 DEF StickyCalls
<1>4. CASE Attach(h)
  <2>1. /\ mem'[h][a] \in {s, [s EXCEPT !.cgroup = CgroupOf(a)]}
        /\ UNCHANGED disk /\ UNCHANGED dirty
    BY <1>4 DEF Attach, WriteNext, SetSlot, TypeOK
  <2>2. mem'[h][a].state = s.state /\ Encode(mem'[h][a]).ws = Encode(s).ws
    BY <1>1, <2>1 DEF Slot, Encode
  <2>. QED  BY <1>3, <2>1, <2>2
<1>5. CASE Poll(h) \/ TermTimeout(h)
  BY <1>3, <1>5 DEF Poll, TermTimeout
<1>6. ASSUME TermEmpty(h) \/ KillDone(h)
      PROVE  FALSE
  <2>1. mem'[h][a] = KilledSlot(s, op[h].call)
    BY <1>6 DEF TermEmpty, KillDone, KillReturns, SetSlot, TypeOK
  <2>2. KilledSlot(s, op[h].call).state # Running
    BY <1>1 DEF KilledSlot, Slot, Stopped, Failed, Running
  <2>. QED  BY <2>1, <2>2
<1>7. ASSUME WriteSlot(h)
      PROVE  FALSE
  BY <1>7 DEF WriteSlot, Goto, Idle, At, InCall, TypeOK
<1>8. ASSUME WriteFails(h)
      PROVE  FALSE
  BY <1>8 DEF WriteFails, Committed
<1>. QED  BY <1>4, <1>5, <1>6, <1>7, <1>8 DEF CallStep

\* Every step keeps a committed workspace.
LEMMA NextSticky ==
  ASSUME TypeOK, OneHost, Ownership, FilesEncoded, OnDisk, SaneSlots, StickyCalls, [Next]_vars
  PROVE  StickyCalls'
<1>1. CASE ProcessStep \/ UNCHANGED vars
  <2>1. UNCHANGED <<mem, disk, op, dirty>>
    BY <1>1 DEF ProcessStep, ProcFork, ProcSetsGroup, ProcExit, OtherReaps, SpawnSeat, vars
  <2>2. \A a \in Agents : Committed(a)' => Committed(a)
    BY <2>1, CommittedBefore
  <2>. QED  BY <2>1, <2>2 DEF StickyCalls, InCall, Encode
<1>2. ASSUME NEW h \in Hosts, Open(h) \/ Close(h) \/ Crash(h)
      PROVE  StickyCalls'
  <2>1. op'[h].step \in {"idle", "closed"}
    BY <1>2 DEF Open, Close, Crash, Forget, Goto, Idle, Closed, At, TypeOK
  <2>. QED  BY <2>1 DEF OneHost, StickyCalls, InCall
<1>. QED  BY <1>1, <1>2, CallStepSticky, AgentCallSticky DEF Next, HostStep

\* Whatever the agents, pids and workspaces, while one process runs the
\* supervisor: no start, bind, status or stop replaces or wipes the workspace
\* in the file of an agent that runs and that no failed call has left behind.
THEOREM StickyWorkspaceHolds == OneHost => (Spec => StickyWorkspace)
<1>. SUFFICES ASSUME OneHost PROVE Spec => StickyWorkspace
  OBVIOUS
<1> DEFINE Known == FilesEncoded /\ OnDisk /\ SaneSlots /\ KillsEntry /\ StickyCalls
<1>1. Init => Known
  <2>1. Init => FilesEncoded /\ OnDisk
    BY DEF Init, FilesEncoded, OnDisk, NoSlot
  <2>2. Init => SaneSlots /\ KillsEntry
    BY DEF Init, SaneSlots, SaneSlot, KillsEntry, NoSlot, Stopped, Running, InCall, MayKill, Closed, At
  <2>3. Init => StickyCalls
    BY DEF Init, StickyCalls, InCall, Closed, At
  <2>. QED  BY <2>1, <2>2, <2>3
<1>2. TypeOK /\ Ownership /\ Known /\ [Next]_vars => Known'
  BY NextOnDisk, NextSane, NextSticky
<1>3. ASSUME TypeOK, StickyCalls, [Next]_vars, NEW a \in Agents, Committed(a),
             disk'[a].state = Running
      PROVE  disk'[a].ws = disk[a].ws
  <2>1. ASSUME NEW h \in Hosts, WriteSlot(h)
        PROVE  disk'[a].ws = disk[a].ws
    <3>1. CASE op[h].agent = a
      <4>1. disk'[a] = Encode(mem[h][a]) /\ InCall(h, a) /\ mem[h][a] \in Slot
        BY <1>3, <2>1, <3>1 DEF WriteSlot, InCall, TypeOK
      <4>2. Encode(mem[h][a]).state = mem[h][a].state
        BY <4>1 DEF Encode, Slot
      <4>. QED  BY <1>3, <4>1, <4>2 DEF StickyCalls
    <3>2. CASE op[h].agent # a
      BY <1>3, <2>1, <3>2 DEF WriteSlot, TypeOK
    <3>. QED  BY <3>1, <3>2
  <2>2. ASSUME NEW h \in Hosts, CallStep(h)
        PROVE  WriteSlot(h) \/ UNCHANGED disk
    BY <2>2 DEF CallStep, Attach, Poll, TermEmpty, TermTimeout, KillDone, KillReturns, WriteNext, WriteFails
  <2>3. ASSUME NEW h \in Hosts, NEW b \in Agents, AgentCall(h, b)
        PROVE  UNCHANGED disk
    BY <2>3 DEF AgentCall, Start, StartForkFails, LoadMisses, Refuse, Bind, BindFill, Status,
                StopIdempotent, StopBindOnly, StopKill, WriteNext
  <2>4. ASSUME NEW h \in Hosts, Open(h) \/ Close(h) \/ Crash(h)
        PROVE  UNCHANGED disk
    BY <2>4 DEF Open, Close, Crash
  <2>5. CASE ProcessStep \/ UNCHANGED vars
    BY <2>5 DEF ProcessStep, ProcFork, ProcSetsGroup, ProcExit, OtherReaps, SpawnSeat, vars
  <2>. QED  BY <1>3, <2>1, <2>2, <2>3, <2>4, <2>5 DEF Next, HostStep
<1>4. TypeOK /\ StickyCalls /\ [Next]_vars =>
        [\A a \in Agents :
           (Committed(a) /\ disk'[a].state = Running) => disk'[a].ws = disk[a].ws]_vars
  BY <1>3
<1>. QED  BY <1>1, <1>2, <1>4, TypeCorrect, OwnershipHolds, PTL DEF Spec, StickyWorkspace
=============================================================================
