# Verification of phronesis

TLA+ models of the agent supervisor, the policy-pack host and the files it
loads, the policy entry points, the path and directory code and the two records
(log and trace) of phronesis, model-checked with TLC on small instances. Every
property that holds, but for the one liveness property, is also proved with
TLAPS as a theorem for every value of the constants.

Line numbers refer to `src/src/*.c` unless a path is given. `PROJECT.json` maps
every definition that models code to the lines it models, and lists the runs,
the hazards, the findings and the theorems.

## 1. The system

phronesis is a C library that a process (a command line, a session daemon, a
Rust program) links. It keeps track of agent processes and decides what they
may do. There is no server: a "handle" is opened per process, and processes
meet only on disk and through the kernel.

| Component | State | Operations | Meets others through |
|---|---|---|---|
| Agent supervisor, `supervisor.c` | a table of 16 slots per handle (state, pid, process group, workspace, exit status, cgroup path) | open, close, start, bind, status, stop; internally load_agent, reap_slot, kill_tree | slot files; signals and `waitpid`; fork |
| Slot file, `supervisor.c` | `<runtime>/agents/<id>.slot`, shared by all handles | write_slot (temporary file, rename), read_slot_file | the directory: any process may write or read at any time |
| Control groups, `cgroup.c` | one directory per agent | create, attach, kill, remove | called by start and stop |
| Pack host, `policy_janet.c` | loaded packs, pack_loaded, pack_failed, the specification, the open root directory | reload, lazy load on the first check, reset, composition of verdicts, loading and writing of pack images | pack files, images beside them and `PHRONESIS_JANET_PACK`; called by checkShell and checkAudio |
| Decision table and path rules, `policy.c` | none | policy_eval, path_under_workspace, resolve_script | called by every entry point; a second copy of the path rule is in `policy_janet.c` |
| Policyd entry points, `capnp_api.c`, and the string bridge in `supervisor.c` | none of their own | checkSeat, checkModel, checkPath, checkShell, checkRisk, checkAudio, admitSeat, admitModel, agentStatus, reloadShellPack, status; phronesis_policy_check | the supervisor (status), the packs, the environment |
| Action log, `action_log.c` | an append-only file | append, last | written by every host, read by nobody who decides |
| Policy trace, `policy_trace.c` | a ring of 64 events and one pending event, in trace builds | clear, begin, span, commit, event, to_json | the host and the packs write it, the playground clears and takes it |
| Directories, opening beneath a root, `paths.c`, `beneath.c` | none in memory; the directories on disk | ensure_dir, paths_resolve; beneath_rel, beneath_open | used by supervisor_open and by every read of the pack host |
| Rust binding, `crates/phronesis-sys/src/lib.rs` | a cache directory with the embedded pack | install_pack_in, name_embedded_pack; wrappers of open, bind, check | processes that use one cache; the pack host loads from it |
| Playground, `playground/wasm/embind_api.c` | none | check, reload, take the trace | a page calls it; it calls the library |
| Command line, Janet packs | see `PROJECT.json` | | callers and content |

What is hard about it:

- several processes hold copies of one slot and write it back;
- agents fork, exit, leave their group and ignore signals while a stop polls;
- a host can die between any two system calls, and nothing rolls back;
- a slot change, its file and the process it describes change one after the
  other, and each of the steps can fail;
- packs are loaded file by file after the old law has been torn down, while
  the files are being edited;
- images and caches are written in place, or file by file, while others load
  them, and a writer can stop halfway;
- names are looked up component by component in a tree that others change;
- decisions pass several gates (environment, message, slot, path, packs), and
  two interfaces hold separate tables of the same rules.

What makes the components correct, in one line each:

- supervisor: no agent that was started is forgotten, a stop kills all of its
  agent's group and nothing else, a committed workspace stays, every call
  returns;
- slot file: an atomic register, whatever writers do at once and wherever they
  fail or die;
- pack host: an allow needs all of the law, and every failure ends in deny;
- pack files: the law loaded is what the sources on disk say, whatever images
  and half-done installations lie beside them;
- log and trace: what is read back is what was recorded, in order, and belongs
  to the call it is shown for;
- directories: an open ends beneath the root, and concurrent opens do not make
  each other fail;
- path rules: a path is under a workspace exactly when it lies inside it
  component by component;
- entry points: no agent is admitted whose process is gone, only paths inside
  its own workspace are allowed, the lockdown wins over everything, both
  interfaces agree but for named cases.

The hazards that follow from this are listed with their lines and the
properties that address them in `PROJECT.json`.

## 2. The modules

```
SlotRegister  <--implements--  SlotFile          Supervisor
                                  |                  |
                               SlotFileProofs     SupervisorProofs

PackHost   PathLex             PackImage
     \      /                      |
      Policyd                  InstallPack

PathLex  Beneath  StateDirs        ActionLog  TraceRing
      \     |     /                      \       /
        MCPaths                          MCRecords

MCSupervisor MCSlotFile MCPackHost MCPolicyd MCInstallPack     instances for TLC

                      NatRecursion
             /             |             \
     PathLexProofs    RecordsProofs    InstallPackProofs
      /        \      (MCRecords)       (InstallPack)
PathProofs  PolicydProofs
(MCPaths)    (Policyd)
```

`Policyd` extends `PackHost` and `PathLex`, with slots reduced to what status
tells. `InstallPack` extends `PackImage`: hosts load from the directory that
installers fill. `MCPaths` and `MCRecords` join components that share no state
in one run; a behaviour moves only one of them, so that the state space is the
sum and not the product.

`SlotFile` is the reason why `Supervisor` may write and read a slot file in one
step: it refines the system calls, and `SlotRegister` is the one-step view.

### Supervisor

`mem[h]` is the table of host `h`, `disk[a]` the slot file of agent `a`,
`proc[p]` the process with pid `p`, `op[h]` the step that the call of host `h`
is at. `dirty` and `lost` are history: the slots whose last change was not
written, and the processes that were lost in one of the four ways that
`LeaderTracked` names. So is the field `came` of a process: whether it was born
into its process group, joined it by setpgid, or joined it when a kill_tree
had already sent its SIGKILL. None of them appears in a guard.

A host is a process with at most one handle. `Start`, `StartForkFails`, `Bind`,
`BindFill`, `Refuse`, `Status`, `StopIdempotent`, `StopBindOnly` and `StopKill`
are the branches of the calls up to the first point where another process can
interfere with something that the call uses later; `Attach`, `Poll`,
`TermEmpty`, `TermTimeout`, `KillDone`, `WriteSlot` and `WriteFails` are the
rest. Loading and reaping belong to the first step of the call, as in the
code. `LoadMisses` is the load that cannot open an existing slot file and
reports it as not found (124-126): the call goes on from a fresh entry, with
`Start` or `Bind`, or ends there when fork fails. `Crash` ends a host at any
step. `ProcFork`, `ProcSetsGroup`,
`ProcExit`, `OtherReaps` and `SpawnSeat` are the processes of the agents and
of a session that starts seats by itself and binds them.

start() makes a process group (setpgid, 337 and 342) and no session, so all
agents stay in the session of their host and the kernel lets a process move
into any group that exists there: into the group of another agent, or back
into a group that has already had its SIGKILL and that a zombie still holds.
`ProcSetsGroup` allows every such move (the constant `Moves` bounds them in a
run), and four properties name what it costs: a process that moved into the
group of another agent is killed with that group (`Ownership`,
`OnlyOwnKilled`), one that comes after the SIGKILL survives, because kill_tree
sends one (`KilledGroupIsDead`), and a leader that leaves its group is no
longer reached by stop (`LeaderTracked`).

The file format is modelled by what it does: `Encode` and `Decode` turn the
empty workspace into `-` and back and drop the cgroup path, which a handle that
is opened later does not know.

The number of polls in kill_tree (50 of 10 ms, twice) is abstracted: the polls
may end at any time, or when the group is empty. SIGTERM has no effect in the
model beyond what members may do anyway, exit or go on.

Assumed of the world: a caller binds to an agent only pids of live processes of
that agent, or 0 or 1; the kernel hands out pids in increasing order and does
not reuse them. Pid reuse would break `Ownership`; the code has no means
against it and it is listed as a hazard.

### SlotFile and SlotRegister

`slot` and `tmp` are the directory, `data` the contents of the inodes, `pc` the
system call each writer is at. Every step can fail, unlink() too, whose result
the code does not look at (`UnlinkTmp`), or be the last of its process. `left`
is history: the writers whose temporary file a death or a failed unlink() has
left behind. An inode is used again when no name
and no descriptor refers to it. fprintf fills a buffer that reaches the file at
once or at fclose. `SlotRegister` has two actions, store and read.

### PackHost

`tree` is what the files hold in each of the directories that follow each
other under the pack root's name, `root` the one that has the name now,
`rootfd` the one that the host has open. `packs`, `loaded`, `failed`, `spec`
and `env` are `packs[]`, `pack_loaded`, `pack_failed`, `pack_spec_buf` and
`PHRONESIS_JANET_PACK`. `Reload`, `Check` and `Reset` are the calls, `Parse`
the second look at the paths (1106; the first is at 1169, and the disk may
change in between), `LoadOne` and `LoadDone` the loop over the files, `Edit` and
`Upgrade` the disk. A pack is
abstracted to what each of its two entry functions answers: one of the three
decisions, a decision outside the schema, a runtime error, a malformed result,
or no such function. `read` (the contents of every file of the accepted
specification), `closed`, `touched` and `before` (what was in force when the
reload was called) are history.

The answer of a call stays until the next step, so that the properties can
speak of it together with the state it was given in.

### PackImage and InstallPack

A pack is an entry file and the helpers in `lib/`. Hashing and compiling are
passes over the sources, one file a step, so that an edit can fall between two
files, between the list of names and a file, and between the two passes of the
image writer. `phronesis_pack_image_write` truncates the image in place and
hands on first whole blocks and then the rest; a writer can give up at any step,
and two writers may write into each other's file, which decodes to anything or
to nothing. The hash is abstracted to what was hashed: two packs that differ
have different hashes. `JanetVersion` gives each process the version of its
build.

Two history variables name what the code has nothing against: `touched` (a
source changed during this load) and `raced` (a source changed, or another build
began to write, while an image was written). In the first case a load sees old
and new files; in the second an image may carry the hash of the new sources and
the functions of the old. `LawIsSources` holds in all other cases,
`ImageNeverFails` in the second as well.

`InstallPack` adds the directory that install_pack_in fills: temporary file,
rename, the next file, the mark `.complete`. The directory is either one of an
author, where `PackImage` runs, or a cache, whose name is the hash of the
embedded pack, so that only its installers write there. A host loads from the
cache when its own install has returned.

### ActionLog

The log is a sequence of characters, each known by its record and its place.
The longest line (two fields of 1024, an id of 128) is below the buffer of
stdio, so that an append is one write() in append mode and lines of different
hosts do not mix; a full disk cuts a line anywhere. The reader goes through the
file with fgets, one piece a step, while others append. A piece that meets the
end of the file sets the end-of-file flag of the stream, and the next fgets
gives up although the file may have grown (`MetEnd`).

### TraceRing

The ring, its head and count, the pending event and whether it is open. A pack
calls trace-begin, trace-span-argv and trace-commit one after the other. Its
functions nest, and may fail or return in between; the host reports whole events
before and after them. History says what the code does not keep: `scopes` is the
stack of the events that running functions have begun, `left` has the events
whose function ended without trace-commit, an event remembers the call it was
begun in, and a span the event that its own function began. A nested function
that commits its event leaves none open, and the later spans and the commit of
the outer one are dropped; one that does not leaves g_pending_open at 1, and the
later spans of the outer one are attached to the nested event.
`SpansOfTheirEvent` names that as its one exception. `PdCheck`, `PdReloadPath`,
`PdReturns` and `PdTake` are the calls of the playground.

### PathLex

is_clean_abs_path, path_under_workspace in both copies,
phronesis_resolve_script, the words of a command whose files are looked into for
the packs (`ProbePath`, 1450-1475 of `policy_janet.c`) and the string part of
`beneath.c` (has_dotdot, is_fs_root, bad_root, phronesis_beneath_rel), over
sequences of characters. The
reference they are compared with (`Walk`, `Resolved`, `Canonical`, `Inside`)
walks along the names in a path and compares the directories it leads to.

### Beneath

phronesis_beneath_open: `Openat2` is the answer of the kernel where it has the
call, `WalkNext` one turn of walk_open. Between two turns somebody may remove an
entry, put a link in its place or put it back (`EditEntry`); a directory that
the walk has open stays where it is, so that `WalkConfined` says that no link is
followed and nothing about directories moved out of the root. Names with `..`
do not get here (`RelIsBeneath`). The walk and the kernel differ in three ways,
which `WalkAgrees` names: the walk opens `file/`, the kernel refuses it; the
walk refuses names of 512 bytes or more (131), while the callers in
`policy_janet.c` pass up to 4095; and the walk needs more descriptors, each of
which may be refused (`WalkStarves`).

### StateDirs

phronesis_supervisor_open up to its directories. Which variable names a
directory (override, `PHRONESIS_*`, XDG, HOME) is reduced to the outcome: a
state directory or none, a runtime directory below it, beside it, or `/tmp`.
`Stat` and `Mkdir` are the two system calls of mkdir_one, for every level of
every directory in the order of the code. Each may fail for a reason of its own,
permission or space (`Faults`); `faulted` records for whom. The header promises nothing to
concurrent opens; that they succeed is what the EEXIST path of mkdir_one is for.

### Policyd

Every entry point is one action up to its answer, except that a command or an
audio question goes on to the packs, which may have to be loaded first
(`AsksPacks`, then the steps of `PackHost`). `PolicyEval` is the decision table
as an ordered list of rules; each `...Verdict` is the decision of one entry
point in the present state. Of a slot only the state, the workspace and what
became of its process are kept: `Supervisor` has the rest. A slot names no
process (a seat bound with pid 0), or one that is alive, a zombie of another
parent, or gone; only the last is noticed by `Reaped`, as in reap_slot. A slot
that load_agent cannot load, because its file is no record or the table is full,
is `unreadable`. `AgentStarts`, `AgentBinds` and `AgentStops` are the calls of
the supervisor reduced to their effect on these slots. The method `status` reports the version and the directories, decides
nothing and is left out.

Facts about the code that the model keeps and a reader may not expect:

- checkPath and checkShell use the workspace of the slot whatever its state;
  only seat and model entries ask for a running agent;
- a checkShell without argv is decided by the path plane alone;
- phronesis_shell_pack_reload, the C function, is not gated by
  `PHRONESIS_DENY_ALL`; the Cap'n method is;
- a seat bound without a pid is admitted until it is stopped, and so is a slot
  whose process is the zombie of another parent (`AdmitsNoGone`);
- with a slot that cannot be loaded the string bridge returns an error without
  a decision (601-602), where the Cap'n entries take the agent for unknown and
  do not allow; `pay` is a risk to prompt for to Cap'n and denied by the bridge;
  a path that does not fit is denied by Cap'n, and the bridge has no limit.
  `BridgesAgree` names the three;
- the copy of path_under_workspace in `policy_janet.c` does not look for `.`
  and `..`, and at 1468 it is given words of a command that have not passed the
  path plane, whose files are then opened. `ProbeInside` states what is left:
  such a file lies inside the workspace unless the word itself has a component
  `..`, and no canonical name inside is refused.

## 3. The runs

All runs are exhaustive over their instance. Three parameters occur in several
of them: `Pids` bounds the number of processes that ever exist, `MaxAgents`
the table, `MaxPacks` the list of packs.

| Run | Instance | Checks | Shows |
|---|---|---|---|
| supervisor_agents | 1 host, 2 agents, 2 pids, pid 1 bound, one may move into the group of the other | `TypeOK`, `Ownership`, `SignalsRealGroup`, `OnlyOwnKilled` | a stop never reaches group 0 or 1, nor a process of another agent that has not moved into the group |
| supervisor_live | 1 host, 1 agent, 2 pids that may move away and back, 2 workspaces, fair | `LeaderTracked`, `WriteThrough`, `KilledGroupIsDead`, `CallReturns`, `StickyWorkspace` | over starts, binds, stops, failures, crashes and reopening, no leader is forgotten but in the four named ways, and file and table agree between calls; what was in the group at the SIGKILL of kill_tree is dead; one host never replaces a committed workspace; every call returns |
| supervisor_stopped | 1 host, 1 agent, 2 pids, fair | `StoppedHasNoLiveProcess` | violated: finding 1 |
| supervisor_sticky | 2 hosts, no processes, 2 workspaces, fair | `StickyWorkspace` | violated: finding 2 |
| slotfile | 2 writers, 1 reader, 2 records, 4 inodes | `Private`, `NoStrayFile`, `IsRegister`, `PublishesOwn` | the system calls implement the register; a stray file is one that a death or a failed unlink() left |
| packs | 2 files, one of them not under the root, 2 directories, 2 packs | `TypeOK`, `FailClosed`, `ClosedAfterFailure`, `ReloadIsWhole` | composition and failures are closed while the disk changes, and a reload is all or nothing |
| packs_unknown | as packs, with an unknown decision | `UnknownIsDeny` | violated: finding 3 |
| packs_upgrade | as packs | `LoadReadsDisk` | violated: finding 4 |
| paths | 3 characters, workspaces up to 4, paths up to 7, buffer of 7; names of up to 3 components in a tree with a directory, files and a link, 1 open; 2 openers | `CleanIsCanonical`, `UnderIsInside`, `ProbeInside`, `ScriptResolves`, `RelIsBeneath`, `WalkConfined`, `WalkAgrees`, `DirsReady` | the character rules mean what the reference says; the files looked into for the packs are those of the workspace; the walk stays beneath the root and agrees with the kernel; concurrent opens do not make each other fail |
| policyd | 1 agent, 3 workspaces, 7 paths, 1 pack file | `AdmitsNoGone`, `Confined`, `BridgesAgree`, `LockdownDenies` | the gates work together while agents, environment and packs change |
| packfiles | 2 sources, 2 texts, 2 edits, 2 writers with different Janet versions, 1 host; 3 installers | `TypeOK`, `LawIsSources`, `ImageNeverFails`, `LoadsEmbedded`, `CompleteIsWhole` | a load gives what the sources say, whatever image lies there; `.complete` means all of the pack |
| records | lines of 2 to 4 characters, buffer of 4, 3 records, 2 readers; ring of 3, 2 spans, 5 events, 2 calls | `TypeOK`, `TornSpoilsOne`, `LastIsLastLine`, `JsonIsTheEnd`, `JsonMatchesCall`, `SpansOfTheirEvent` | what is read back is what was recorded |

Why the bounds are enough to be interesting:

- *pids*: two let a leader have a child, which may outlive it, leave its group
  or be the only one left to kill, a seat be bound beside a leader, or an agent
  be started again while what an earlier start left behind still runs;
- *hosts*: one host that crashes and reopens is what `LeaderTracked`,
  `WriteThrough` and `StickyWorkspace` speak of; two hosts already hold copies
  of different age (finding 2). `KilledGroupIsDead`, `Ownership` and the rest
  are checked with one host and proved for any number;
- *agents*: two are needed for one to be confused with the other, and with
  `MaxAgents` equal to their number both can be in the table;
- *inodes*: the file in place, one per writer and one that a reader still has
  open; one more is not needed before one becomes free;
- *packs*: a list of two shows every pair of verdicts in both orders, and the
  fold over the list treats a third pack as it treats the second. The same
  file twice in a list, with an edit in between, gives two different laws;
- *characters*: the rules tell `/`, `.` and the rest apart and look at most
  three characters ahead; workspace `/a/a` and path `/a/a/..` fit, as do
  prefixes, trailing and doubled slashes and the buffer at its limit;
- *opens*: one open keeps no state for the next, and the tree may change before
  it as well as during it;
- *moves between groups*: process 3 into the group of process 2, which may be of
  another agent or already killed and held by a zombie, and back into its own;
- *the buffer of a path*: as long as the longest path, so that names fit, fill it
  and do not fit;
- *sources*: one helper and the entry are enough for an edit between two files;
  two edits for one in each pass, or for a change that is taken back;
- *installers*: one that has finished and loads, one behind it and one that dies;
- *lines*: shorter than the buffer, just as long with and without the newline,
  and longer; three records put one after a torn one and one after that;
- *ring*: five events for three places pass the limit and wrap twice, and let
  functions nest to any depth that matters;
- *policyd*: an empty workspace, one with a trailing slash and one whose name is
  a prefix of the other; paths in, out, canonical, not canonical, sensitive and
  too long.

`VIEW` leaves history variables out of the fingerprint in runs whose properties
do not mention them; no guard mentions them either. Symmetry is used only in
runs without liveness properties.

Fairness: `FairSpec` asks weak fairness of `CallStep(h)` only, the steps inside
a call of the host. The code justifies it: kill_tree polls a counted number of
times with WNOHANG, write_slot does not wait for anybody, and nothing else
blocks. Nothing is asked of the agents, which may ignore every SIGTERM, of
parents that collect zombies, or of callers.

Deadlock is checked in every run but `records`, where the bounds on records,
events and calls let everything come to an end.

## 4. Findings

1. `StoppedHasNoLiveProcess`: a leader that exits before its children is reaped
   to STOPPED with its group still alive, and the next stop takes the
   idempotent branch (507) and kills nobody. `include/phronesis/supervisor.h:147`
   says of STOPPED "No live process (never started, or reaped stopped)."
2. `StickyWorkspace` with two hosts: load_agent (181) trusts the table, so a
   handle that saw the workspace empty fills it after another process has
   committed one. `supervisor.c:414-415`: "A non-empty workspace is sticky:
   refuse replace." The header (`supervisor.h:272`) says that opens of the same
   directories by several processes are not coordinated; the comment at the
   check does not.
3. `UnknownIsDeny`: decision_rank gives a decision outside the schema the rank
   of a deny, but the message is passed on as the pack made it.
   `policy_janet.c:1547`: "Unknown treated as deny."
4. `LoadReadsDisk`: ensure_pack_root (393) keeps its descriptor while the name
   of the root is the same, so that after the directory has been replaced a
   reload reports success and reads the old files. `policy_janet.c:245`: "Drop
   loaded pack state so the next load re-reads disk."

## 5. The proofs

| Theorem | States | For every |
|---|---|---|
| `SupervisorProofs!TypeCorrect` | `[]TypeOK` | number of hosts, agents, pids, workspaces, exit codes and size of the table |
| `SupervisorProofs!OwnershipHolds` | `[]Ownership` | the same |
| `SupervisorProofs!SignalsRealGroupHolds` | `[]SignalsRealGroup` | the same |
| `SupervisorProofs!KillsOnlyOwn` | `OnlyOwnKilled` | the same |
| `SupervisorProofs!KilledGroupIsDeadHolds` | `[]KilledGroupIsDead` | the same |
| `SupervisorProofs!WriteThroughHolds` | `OneHost => (Spec => []WriteThrough)` | the same, with one host |
| `SupervisorProofs!LeaderTrackedHolds` | `OneHost => (Spec => []LeaderTracked)` | the same, with one host |
| `SupervisorProofs!StickyWorkspaceHolds` | `OneHost => (Spec => StickyWorkspace)` | the same, with one host |
| `SlotFileProofs!PrivateHolds` | `[](TypeOK /\ Private)` | number of writers, readers, records and inodes |
| `SlotFileProofs!Refinement` | `Spec => Register!Spec` | the same |
| `SlotFileProofs!PublishesOwnHolds` | `PublishesOwn` | the same |
| `SlotFileProofs!NoStrayFileHolds` | `[]NoStrayFile` | the same |
| `PolicydProofs!PackTypeCorrect` | `[]TypeOK` of `PackHost` | number of files, set of laws and requests, limit on packs |
| `PolicydProofs!FailClosedHolds` | `[]FailClosed` | the same |
| `PolicydProofs!ClosedAfterFailureHolds` | `[]ClosedAfterFailure` | the same |
| `PolicydProofs!ReloadIsWholeHolds` | `[]ReloadIsWhole` | the same |
| `PolicydProofs!AdmitsNoGoneHolds` | `[]AdmitsNoGone` of `PolicydSpec` | the same, and number of agents, workspaces and paths of every length |
| `PolicydProofs!ConfinedHolds` | `[]Confined` | the same |
| `PolicydProofs!BridgesAgreeHolds` | `[]BridgesAgree` | the same |
| `PolicydProofs!LockdownDeniesHolds` | `LockdownDenies` | the same |
| `InstallPackProofs!CacheIsWhole` | `[]CompleteIsWhole` | number of installers, hosts, writers and files |
| `InstallPackProofs!PackDirTypeCorrect` | `[]TypeOK` | the same, and number of edits |
| `InstallPackProofs!LawIsSourcesHolds` | `[]LawIsSources` | the same |
| `InstallPackProofs!ImageNeverFailsHolds` | `[]ImageNeverFails` | the same |
| `InstallPackProofs!LoadsEmbeddedHolds` | `[]LoadsEmbedded` | the same |
| `RecordsProofs!RecordsTypeCorrect` | `[]TypeOK` | number and length of records, readers, size of buffer and ring, number of spans, events and calls |
| `RecordsProofs!TornSpoilsOneHolds` | `[]TornSpoilsOne` | the same |
| `RecordsProofs!LastIsLastLineHolds` | `LastIsLastLine` | the same |
| `RecordsProofs!JsonIsTheEndHolds` | `[]JsonIsTheEnd` | the same |
| `RecordsProofs!JsonMatchesCallHolds` | `[]JsonMatchesCall` | the same |
| `RecordsProofs!SpansOfTheirEventHolds` | `[]SpansOfTheirEvent` | the same |
| `PathProofs!WalkConfinedHolds` | `[]WalkConfined` | tree, set of names and length of a name |
| `PathProofs!WalkAgreesHolds` | `[]WalkAgrees` | the same |
| `PathProofs!DirsReadyHolds` | `[]DirsReady` | number of processes |
| `PathProofs!CleanIsCanonicalHolds` | `[]CleanIsCanonical` | set of characters, length of workspace and path, size of the buffer |
| `PathProofs!UnderIsInsideHolds` | `[]UnderIsInside` | the same |
| `PathProofs!ProbeInsideHolds` | `[]ProbeInside` | the same |
| `PathProofs!ScriptResolvesHolds` | `[]ScriptResolves` | the same |
| `PathProofs!RelIsBeneathHolds` | `[]RelIsBeneath` | the same |

The theorems of `PolicydProofs` about `PackHost` are stated for its own
specification, and the invariant behind them (`HostInv`) is shown to be kept by
the steps of `Policyd` too. Those of `PathProofs` and `RecordsProofs` are about
the joined specifications of `MCPaths` and `MCRecords`, in which every step is a
step of one of the components.

They rest on the named assumptions of the modules and nothing else, which TLC
evaluates on every run:

- `Supervisor`: pids are numbers above 1, there is at least one agent, the empty
  workspace is no workspace and not the token `-`, 0 is an exit code, only 0 and
  1 are bound without a process;
- `SlotFile`: the marks for "no file" and "half written" are no record and no
  inode;
- `PackHost`: files are numbered, the default pack is one under the root,
  requests are sequences of files and directories, a law gives an outcome for
  both entries, at least one pack fits;
- `PathLex`, `MCPaths`, `Policyd`: the buffer has room for the NUL, strings have
  no NUL in them (`CharsAssumption`, `StringsAssumption`), "no agent" is no agent;
- `Beneath`: the tree maps names to directories, files, links or nothing, and
  what lies outside is not in it;
- `PackImage`, `InstallPack`: sources are numbered and the entry is one of them,
  the mark for "does not compile" is a text, those for "absent" and "cut short"
  are not, the embedded pack compiles, hosts do not write images, and every host
  of the cache is one of the installers;
- `ActionLog`, `TraceRing`: a line is not empty, no character of a record is a
  newline (json_escape), the buffer holds a character and the NUL, the ring has
  at least one place.

`OneHost` is a hypothesis of three theorems and not an assumption: finding 2
shows what a second host does to `StickyWorkspace`, and `LeaderTracked` and
`WriteThrough` promise nothing there either (the header says that concurrent
opens "are not coordinated").

*Recursion and induction.* The loops of the program are recursive functions
over a number: the verdicts composed so far, the names a directory has given so
far, the place a walk along a string has reached. `NatRecursion` proves from the
least element of a set of numbers that a set with 0 that is closed under
successor contains all numbers (`InductionTo`), and that a function that
recurs over `0 .. n` exists (`Recursion`). Each proof about a loop then states
what holds after `k` rounds as a set of numbers and shows it closed. The
induction theorems of the library, which take a predicate, are not needed.

*Killing only one's own.* That a stop ends no process of another agent depends
on the group id in the slot, which another host may have written, on the group
of each process, which it inherited or chose, and on the cgroup. `Ownership`
collects what makes these agree: each pid, group and cgroup that is held for an
agent, in a table, a file, a process or a call under way, leads to a process of
that agent; of the group of a process it says so only as long as the process
has not moved there itself. It is inductive together with `TypeOK`: loading passes it from the
file to the table, writing back, forking along the group, and a call carries it
from the slot into its own step. The proof has a lemma for each of these moves
(`CurrentOwned`, `StoreOwned`, `SpawnOwned`, `ReapingOwned`, `KillingOwned`)
and one step per action. `KillsOnlyOwn` then needs one look at the three steps
that send SIGKILL.

*Signalling a real group.* `SignalsRealGroup` is inductive with `TypeOK`: a call
reaches kill_tree from a stop whose target is above 1, or from a start with the
pid that fork returned.

*A killed group stays dead.* `KilledGroupIsDead` is not inductive: a group that
is still held by a zombie can be joined. The proof describes what any step can
do to groups (`GroupStep`: a process stays in its group or moves to any other; a
new one starts its own or inherits that of a living process, and how that one
came there; `MovesGroup`: who moves into a group after its SIGKILL is marked as
late). A group in which only late comers live therefore stays one over every
step of any host or process, and `KilledStaysDead` carries that from the SIGKILL
to the return. `LeadersLead` (a process that start forked and that has not moved
leads its own group) is what the tracking of leaders takes from it.

*The slot file follows the table.* Inside a call table and file differ, so the
inductive form `OnDisk` speaks of the entries that no call works on, and of
those that no failure has been recorded for; `FilesEncoded` says that what is on
disk was written by write_slot, so that loading and writing it back changes
nothing (`CodecRoundTrip`). It needs one host: finding 2 is what a second one
can do.

*No agent is forgotten.* `LeaderTracked` says that the slot file names a living
leader, or a call is at work on it. That is not enough to survive a step: the
next call goes by the table when it has an entry and by the file when it has
none. `Followed` says therefore that the entry every host would use names the
process, and that the file does or the start that forked it is under way. It
needs that a running slot has a group and a pid that agree (`SaneSlots`), that
kill_tree is after the group of the entry it works on (`KillsEntry`), and that
a group whose kill has returned has nobody left (`KilledStaysDead`), so that
writing STOPPED forgets nobody.

*A workspace stays.* Between calls table and file agree (`OnDisk`); inside one,
`StickyCalls` says that an entry that a call has taken from a committed slot and
will write back as running still has the workspace of the file. A bind checks
for it, a start only begins on a slot that is not running, and a reaped slot is
no longer committed.

*The register.* `Private` says that the file a writer works on has no other
name, no other owner and no reader, and that what is in place or open is whole.
It is needed because a step that writes data must be invisible to everybody
else. With it each system call maps to a stuttering step of `SlotRegister`,
except rename, which maps to a store, and the end of a read. `NoStrayFile`
follows the temporary file by the step its writer is at: it can be there only
between creation and rename, on the way to the cleanup, or after a death or an
unlink() that failed.

*Failing closed.* `HostInv` joins what a load has still to read with what it
has read (`LoadFits`), says that every file that was read is a law and, if it
answers anything, among the packs (`LawRead`), and that a host closed by a
failure is not loaded and stays marked as failed until a reload (`Shut`). What
was in force when a reload was called is still in force while its specification
waits to be parsed, whatever the disk does, which is the first part of
`ReloadIsWhole`; the others compare what was read with the packs. What compose_pack_entry answers is a
fold with an early return; `Carried` states after each round that the best
verdict so far has at least the rank of every pack met, so that an allow at the
end has met nothing else. That every accepted specification fits the table
comes from the bound on the expansion, proved by induction over its segments.

*The entry points.* An answer speaks of the state it was given in, and the
agent can exit, the law change and the lockdown begin right after it has been
returned. `ReplyInv` says of an answer that is not yet returned what holds of
the slot, the law and the environment. A command that has passed the path plane
waits for the packs: `Placed` keeps the verdict of the path plane and
`ShellAsked` what the packs have answered, while the process of the agent may
exit and files may change. `BridgesAgree` compares the ordered
tables rule by rule (`First` names the rule that decides). `Confined` ends in
`UnderIsInside`, for which the lemmas of `PathLexProofs` are used again.

*Pack files.* An installer has every file before the one it is at in place, and
the temporary file it moves is whole; with that in `InstallInv`, an installer
that is behind replaces whole files by the same bytes, and one that dies leaves
a state in which the mark is still missing or all is in place. `ImageInv`
follows the passes over the sources: a process has read what the files it has
passed hold, and the files ahead of it are those of the list it began with
(`Ahead`, `Sees`), unless an edit has come in between. An image that no race has
touched carries a hash and functions of the same sources (`WritersSee`,
`ImageSound`), and writers that are at work together are of one build
(`OneBuild`), so that blocks of one and the rest of the other decode to the same
law.

*The ring.* `RingHolds` says where the last events are: from place 0 until the
ring is full, from the head on afterwards. The step from the one form to the
other, and the remainder that wraps the head, are lemmas. `OfThisCall` and
`OwnSpans` follow events and spans from their begin to the ring. That the next
span of the running function fits too needs the order of the nested functions
(`Ordered`: who stands further in began its event later): when functions end,
the open event is then one that has been left, and later than all that remain
(`ScopeShrinks`).

*The log.* A reader that has passed a part of the file knows its last line
(`Knows`) and stops inside a line only where its buffer was full (`MidLine`); both stay true when others append. The end-of-file flag makes the
last fgets see the end of the file as it is then. `Placed` says of an accepted
record where in the file it begins and ends, which no append changes.

*Opening beneath a root.* The descriptor of the walk is what openat2 would have
reached after as many components, as long as nobody has changed the tree; that
is `WalkInv`. When somebody has, what remains is that it refers to something in
the tree, for an entry is never followed when it is a link.

*Directories.* A process has made every level before the one it is at
(`AtLevel`), directories are not removed, and after EEXIST something is there,
so that the second stat finds a directory or a file in the way, if it does not
fail itself.

*Path rules.* The reference splits a path into names and walks along them; the
code looks at characters. `PathLexProofs` relates the two: where a name ends,
what the walk has reached after so many characters, that a canonical path is
spelled by its names, that a prefix that ends at a slash is a prefix of names,
and that a relative name without `..` never goes up. The lemmas are stated for
strings of every length over every set of characters.

What is only model-checked: `CallReturns`, because liveness under fairness needs
ENABLED, which the prover does not have; and the four properties of the findings,
which are violated.

## 6. Not modelled

- pid reuse, power failures and the page cache (write_slot does not fsync);
- collisions of the 64-bit hashes that stamp an image and name a cache;
- the shell view in detail, the sealing of the Janet environment and the Janet
  code of the packs: 2500 lines of argument parsing without state;
- texts of reasons, log records and trace events, JSON escaping, message
  encoding;
- which environment variable names a directory, and the lookup of cgroup
  controllers;
- the command line, which parses arguments and prints around one call on one
  handle, a host of `Supervisor`; the retry loop of the Rust bind, which repeats
  a call that `Supervisor` has.

Facts met on the way that no run states:

- mkdir_one sets umask(0) for the process and restores it (`paths.c:48-50`); two
  threads that open handles at once could leave it at 0. The models have one
  thread per process (`supervisor.h:545`: the "product path is
  single-threaded");
- `include/phronesis/supervisor.h:269` says that the runtime directory must not
  resolve under `/tmp`; `paths.c:154` refuses only `/tmp` and `/tmp/`
  themselves;
- pack_lib_names stops after PACK_LIB_MAX_FILES helpers without an error
  (`policy_janet.c:654`): which helpers are then left out depends on the order of
  the directory;
- a bind of the Rust binding that failed to write is repeated, meets "exists"
  and reports success, although the slot file has not been written
  (`lib.rs:271-272`).

## 7. Plan

Done, in the order of importance: the supervisor with its processes; the slot
file as a register; the pack host; the path rules; the entry points composed
with packs and slots; pack images and the installation of the embedded pack; the
log and the trace; opening beneath a root and creating directories; the theorems
of section 5, for every property of these models but liveness.

Next, proving:

1. what `LeaderTracked` and `WriteThrough` leave of themselves when there are
   several hosts and each agent is used by one of them only;
2. that `Policyd` reads of a slot what `Supervisor` keeps: a refinement from the
   tables of `Supervisor` to the slots of `Policyd`.

Next, modelling, where it pays: the shell view as a record of the parts that
have limits; statements of the repository still to be compared with the code:
the meaning of PHRONESIS_AGENT_FAILED (`supervisor.h:151`), the echo of the
agent id in a decision of checkShell (`schema/policy.capnp:165`), the truth
values of environment variables (`internal.h:48`), the directory under `/tmp`.

Properties of one instance are grouped in one run, and components that share no
state share a run when their instances are small.
