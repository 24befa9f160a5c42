------------------------------ MODULE Policyd -------------------------------
(***************************************************************************)
(* The Policyd entry points of src/src/capnp_api.c and the string bridge   *)
(* phronesis_policy_check of src/src/supervisor.c, on top of the decision  *)
(* table of src/src/policy.c, the path rules (PathLex), the pack host      *)
(* (PackHost) and the slots of the supervisor.                             *)
(*                                                                         *)
(* One process runs the entry points, one at a time. Between two of them   *)
(* the agents start, stop and exit, and the environment and the pack files *)
(* change. Of the supervisor only what a status call tells is kept: the    *)
(* state and the workspace of a slot, and what became of its process.      *)
(* A message is reduced to its fields. The action log is written and not   *)
(* read, and the trace of a debug build and the text of a reason take part *)
(* in no decision: the three are left out.                                 *)
(***************************************************************************)
EXTENDS PackHost, PathLex

CONSTANTS
  Agents,      \* non-zero agent ids
  Null,        \* the zero agent id
  Workspaces,  \* workspaces that agents are started with
  Paths,       \* paths that a caller asks about
  Sensitive    \* the paths that path_is_sensitive matches

ASSUME NullAssumption == Null \notin Agents

\* Workspaces and paths are strings without a NUL in them.
Characters == UNION {ToSet(p) : p \in Paths \cup Workspaces}

ASSUME StringsAssumption ==
  Paths \cup Workspaces \subseteq Seq(Characters) /\ Nul \notin Characters

VARIABLES
  slots,       \* slots[a]: what the supervisor records of agent a
  lockdown,    \* PHRONESIS_DENY_ALL is truthy
  fixture,     \* PHRONESIS_AUDIO_ALLOW is truthy
  reply        \* what the last entry point has answered, and to what

hostvars == <<slots, lockdown, fixture, reply>>
allvars  == <<vars, hostvars>>

\* "unreadable": load_agent fails, on a slot file that is not a record or with
\* no room in the table. "stopped" stands for a start that failed, too.
SlotStates == {"missing", "stopped", "running", "unreadable"}

\* A slot names no process (its pid is 0), or one that runs, that has exited
\* and is left to another parent to collect, or that is gone.
ProcStates == {"none", "live", "zombie", "gone"}
NoSlot     == [state |-> "missing", ws |-> <<>>, proc |-> "none"]

SeatActions == {"publish_run", "read_run", "list_runs", "list_events"}
PathActions == {"read", "write", "delete"}
RiskActions == {"network", "secret_export", "sudo", "pay"}
Argvs       == {"none", "fits", "unfit"}   \* "unfit": no shell view of it can be built

\* The tool and action pairs a caller of the string bridge may pass.
Bridged ==
  ({"seat"} \X (SeatActions \cup {"other"})) \cup ({"fs"} \X (PathActions \cup {"other"}))
    \cup ({"tool"} \X RiskActions)
    \cup {<<"model", "start">>, <<"model", "other">>, <<"shell", "exec">>, <<"shell", "">>}

\* How the answers of the bridge are told apart.
BridgeEntry ==
  [seat |-> "policy_check_seat", fs |-> "policy_check_fs", tool |-> "policy_check_tool",
   model |-> "policy_check_model", shell |-> "policy_check_shell"]

\* argv is what a command brought for the packs, decision "pack" that they
\* have been asked.
NoReply == [entry |-> "none", agent |-> Null, path |-> <<>>, argv |-> "none",
            decision |-> "none", code |-> "none"]

-----------------------------------------------------------------------------
(* Decisions are taken by the first rule that applies. *)

Rule(when, decision, code) ==
  [when |-> when, is |-> [decision |-> decision, code |-> code]]

FirstMatch(rules) ==
  rules[CHOOSE i \in DOMAIN rules :
          rules[i].when /\ \A j \in DOMAIN rules : j < i => ~rules[j].when].is

Lockdown == Rule(lockdown, "deny", "DENY_ALL")
Otherwise(decision, code) == Rule(TRUE, decision, code)

\* path_is_sensitive: a list of names of credential files and directories.
IsSensitive(p) == p \in Sensitive

\* phronesis_policy_eval; an empty p stands for no path.
PolicyEval(ws, tool, action, p) ==
  LET under == PathUnderWorkspace(ws, p)
  IN  FirstMatch(<<
        Lockdown,
        Rule(tool = "" \/ action = "", "deny", "MISSING_TOOL_ACTION"),
        Rule(tool = "seat" /\ action \in SeatActions, "allow", "SEAT_BOARD_ALLOW"),
        Rule(tool = "seat", "deny", "UNKNOWN_SEAT_ACTION"),
        Rule(tool = "model" /\ action = "start", "allow", "MODEL_START_ALLOW"),
        Rule(action = "secret_export", "deny", "SECRET_EXPORT_DENIED"),
        Rule(IsSensitive(p) /\ action \in PathActions \cup {"exec"}, "deny", "PATH_SENSITIVE_DENY"),
        Rule(action \in {"delete", "network", "sudo"}, "prompt", "HIGH_RISK_PROMPT"),
        Rule(action \in {"read", "write"} /\ under, "allow", "PATH_UNDER_WORKSPACE_ALLOW"),
        Rule(tool = "shell" /\ action = "exec" /\ under, "allow", "SHELL_EXEC_ALLOW"),
        Rule(p # <<>> /\ ~under, "deny", "PATH_OUTSIDE_WORKSPACE"),
        Otherwise("deny", "TOOLS_DEFAULT_DENY") >>)

-----------------------------------------------------------------------------
(* What the entry points read of the supervisor. *)

\* Mutant of Reaped: the process is not looked for.
ReapedNever(s) == s

\* reap_slot notices that the process of a slot is gone. It returns at once when
\* the slot names none, and the zombie of another parent is still a process.
Reaped(s) ==
  IF s.state = "running" /\ s.proc = "gone"
    THEN [s EXCEPT !.state = "stopped", !.proc = "none"] ELSE s

Unreadable(a)   == a # Null /\ slots[a].state = "unreadable"
Status(a)       == IF a = Null THEN NoSlot ELSE Reaped(slots[a])
WorkspaceFor(a) == Status(a).ws

\* admit_running_agent and phronesis_policy_require_running_agent.
NoAgent(a)    == Rule(a = Null, "deny", "INVALID_MESSAGE")
NotRunning(a) == Rule(Status(a).state # "running", "deny", "TOOLS_DEFAULT_DENY")

-----------------------------------------------------------------------------
(* The decision of every entry point in the present state. *)

\* Mutant of SeatVerdict: an action is missing from the second table.
SeatVerdictShort(a, action) ==
  FirstMatch(<<Lockdown, NoAgent(a), NotRunning(a),
               Rule(action \in SeatActions \ {"list_events"}, "allow", "SEAT_BOARD_ALLOW"),
               Otherwise("deny", "UNKNOWN_SEAT_ACTION")>>)

SeatVerdict(a, action) ==
  FirstMatch(<<Lockdown, NoAgent(a), NotRunning(a),
               Rule(action \in SeatActions, "allow", "SEAT_BOARD_ALLOW"),
               Otherwise("deny", "UNKNOWN_SEAT_ACTION")>>)

ModelVerdict(a) ==
  FirstMatch(<<Lockdown, NoAgent(a), NotRunning(a), Otherwise("allow", "MODEL_START_ALLOW")>>)

Overlong(p) == Rule(Len(p) >= PathMax, "deny", "FIELD_TOO_LONG")

PathVerdict(a, action, p) ==
  LET eval == PolicyEval(WorkspaceFor(a), "fs", action, p)
  IN  FirstMatch(<<Lockdown, Overlong(p), Otherwise(eval.decision, eval.code)>>)

\* The path plane of checkShell.
ShellVerdict(a, cwd) ==
  LET eval == PolicyEval(WorkspaceFor(a), "shell", "exec", cwd)
  IN  FirstMatch(<<Lockdown, Overlong(cwd), Otherwise(eval.decision, eval.code)>>)

RiskVerdict(action) ==
  FirstMatch(<<Lockdown,
               Rule(action = "secret_export", "deny", "SECRET_EXPORT_DENIED"),
               Otherwise("prompt", "HIGH_RISK_PROMPT")>>)

\* Mutant of AudioVerdict: the fixture is looked at first.
AudioVerdictFixtureFirst ==
  FirstMatch(<<Rule(fixture, "allow", "AUDIO_FIXTURE_ALLOW"), Lockdown, Otherwise("pack", "PACK")>>)

\* checkAudio, before the packs are asked.
AudioVerdict ==
  FirstMatch(<<Lockdown, Rule(fixture, "allow", "AUDIO_FIXTURE_ALLOW"), Otherwise("pack", "PACK")>>)

\* phronesis_policy_check: seat and model need a running agent, unless the
\* lockdown denies anyway. With a slot that cannot be read it fails, and there
\* is no decision.
BridgeVerdict(a, tool, action, p) ==
  LET eval  == PolicyEval(WorkspaceFor(a), tool, action, p)
      gated == ~lockdown /\ tool \in {"seat", "model"}
  IN  FirstMatch(<<Rule(gated /\ a = Null, "deny", "INVALID_MESSAGE"),
                   Rule(gated /\ Status(a).state # "running", "deny", "TOOLS_DEFAULT_DENY"),
                   Rule(Unreadable(a), "none", "FAILED"),
                   Otherwise(eval.decision, eval.code)>>)

-----------------------------------------------------------------------------
(* The entry points. *)

\* No entry point is at work: the guard of everything that the process does.
Free == op = Idle /\ reply = NoReply

Replies(entry, a, p, argv, v) ==
  reply' = [entry |-> entry, agent |-> a, path |-> p, argv |-> argv,
            decision |-> v.decision, code |-> v.code]

\* An answer that the packs have no part in.
Answers(entry, a, p, argv, v) ==
  /\ Replies(entry, a, p, argv, v)
  /\ Answered(NoAnswer)
  /\ UNCHANGED <<rootfd, before, lockdown, fixture>>

\* phronesis_supervisor_status in passing: the slot is reaped and written.
Visits(a) == slots' = IF a = Null \/ lockdown THEN slots ELSE [slots EXCEPT ![a] = Status(a)]

CheckSeat(entry, a, action) ==
  /\ Answers(entry, a, <<>>, "none", SeatVerdict(a, action))
  /\ Visits(a)

CheckModel(entry, a) ==
  /\ Answers(entry, a, <<>>, "none", ModelVerdict(a))
  /\ Visits(a)

\* A message synthesized from the agent id alone.
AdmitSeat(a)  == CheckSeat("admit_seat", a, "publish_run")
AdmitModel(a) == CheckModel("admit_model", a)

CheckPath(a, action, p) ==
  /\ Answers("check_path", a, p, "none", PathVerdict(a, action, p))
  /\ Visits(a)

CheckRisk(a, action) ==
  /\ Answers("check_risk", a, <<>>, "none", RiskVerdict(action))
  /\ UNCHANGED slots

Asked == [decision |-> "pack", code |-> "none"]

\* The question goes on to the packs, which may have to be loaded first.
AsksPacks(entry, pack, a, p, argv) ==
  /\ Check(pack)
  /\ Replies(entry, a, p, argv, Asked)
  /\ UNCHANGED <<lockdown, fixture>>

\* Mutant of CheckShell: a command without arguments is not the only one that
\* the path plane decides alone.
CheckShellPlaneOnly(a, cwd, argv) ==
  /\ Answers("check_shell", a, cwd, argv, ShellVerdict(a, cwd))
  /\ Visits(a)

CheckShell(a, cwd, argv) ==
  LET v == ShellVerdict(a, cwd)
  IN  /\ \/ /\ v.decision # "allow" \/ argv = "none"
            /\ Answers("check_shell", a, cwd, argv, v)
         \/ /\ v.decision = "allow" /\ argv # "none"
            /\ AsksPacks("check_shell", "shell", a, cwd, argv)
      /\ Visits(a)

CheckAudio(a) ==
  /\ \/ /\ AudioVerdict.decision # "pack"
        /\ Answers("check_audio", a, <<>>, "none", AudioVerdict)
     \/ /\ AudioVerdict.decision = "pack"
        /\ AsksPacks("check_audio", "audio", a, <<>>, "none")
  /\ UNCHANGED slots

\* No decision: the code is the state of the slot.
AgentStatus(a) ==
  /\ Answers("agent_status", a, <<>>, "none",
       [decision |-> "none", code |-> IF Unreadable(a) THEN "missing" ELSE Status(a).state])
  /\ slots' = IF a = Null THEN slots ELSE [slots EXCEPT ![a] = Status(a)]

\* The string bridge visits the slot under lockdown too.
PolicyCheck(a, tool, action, p) ==
  /\ Answers(BridgeEntry[tool], a, p, "none", BridgeVerdict(a, tool, action, p))
  /\ slots' = IF a = Null THEN slots ELSE [slots EXCEPT ![a] = Status(a)]

ReloadShellPack(sp) ==
  \/ /\ sp = <<>> \/ lockdown
     /\ Answers("reload", Null, <<>>, "none",
          FirstMatch(<<Rule(sp = <<>>, "deny", "PACK_PATH_INVALID"), Otherwise("deny", "DENY_ALL")>>))
     /\ UNCHANGED slots
  \/ /\ sp # <<>> /\ ~lockdown
     /\ Reload(sp)
     /\ Replies("reload", Null, <<>>, "none", Asked)
     /\ UNCHANGED <<slots, lockdown, fixture>>

\* A message that open_in refuses; checkShell tells a body over the limit.
BadMessage(entry, code) ==
  /\ Answers(entry, Null, <<>>, "none", [decision |-> "deny", code |-> code])
  /\ UNCHANGED slots

-----------------------------------------------------------------------------
(* The rest of the process, and the world. *)

\* The caller has the answer.
Returned ==
  /\ op = Idle /\ reply # NoReply
  /\ reply' = NoReply
  /\ Answered(NoAnswer)
  /\ UNCHANGED <<rootfd, before, slots, lockdown, fixture>>

\* phronesis_supervisor_start, bind and stop.
AgentStarts(a, ws) ==
  /\ Status(a).state \notin {"running", "unreadable"}
  /\ slots' = [slots EXCEPT ![a] = [state |-> "running", ws |-> ws, proc |-> "live"]]
  /\ UNCHANGED <<vars, lockdown, fixture, reply>>

\* A seat is bound to a process, to a pid that nobody has, or to none. A bind
\* fills the workspace of a running slot that has none, and keeps one if it
\* brings none.
AgentBinds(a, ws, proc) ==
  LET s == Status(a)
  IN  /\ s.state # "unreadable"
      /\ s.state = "running" => s.ws = <<>> /\ ws # <<>>
      /\ slots' = [slots EXCEPT ![a] =
                     [state |-> "running",
                      ws    |-> IF ws = <<>> THEN s.ws ELSE ws,
                      proc  |-> IF s.state = "running" /\ proc = "none" THEN s.proc ELSE proc]]
      /\ UNCHANGED <<vars, lockdown, fixture, reply>>

AgentStops(a) ==
  /\ slots[a].state = "running"
  /\ slots' = [slots EXCEPT ![a].state = "stopped", ![a].proc = "none"]
  /\ UNCHANGED <<vars, lockdown, fixture, reply>>

\* A process exits by itself, is collected, or its pid is given to another, also
\* while packs are loaded. A child of this process goes at once: reap_slot
\* collects it.
ProcTurns == {<<"live", "zombie">>, <<"live", "gone">>, <<"zombie", "gone">>, <<"gone", "live">>}

AgentExits(a, proc) ==
  /\ Free \/ op # Idle
  /\ <<slots[a].proc, proc>> \in ProcTurns
  /\ slots' = [slots EXCEPT ![a].proc = proc]
  /\ UNCHANGED <<vars, lockdown, fixture, reply>>

\* The file of a slot that is not in the table is overwritten with something
\* else, or removed.
SlotFileTurns(a) ==
  /\ Free \/ op # Idle
  /\ \/ slots[a] = NoSlot /\ slots' = [slots EXCEPT ![a].state = "unreadable"]
     \/ slots[a].state = "unreadable" /\ slots' = [slots EXCEPT ![a] = NoSlot]
  /\ UNCHANGED <<vars, lockdown, fixture, reply>>

\* setenv in the process.
SetEnv(deny, allow) ==
  /\ lockdown' = deny /\ fixture' = allow
  /\ UNCHANGED <<vars, slots, reply>>

\* phronesis_shell_pack_reload and phronesis_policy_pack_reset, which do not
\* look at the environment.
Reconfigure ==
  /\ (\E sp \in Requests : Reload(sp)) \/ Reset
  /\ UNCHANGED hostvars

\* A load goes on, or the files change.
PackWorld ==
  /\ \/ LoadStep
     \/ (Free \/ op # Idle) /\ \E f \in Files \ Foreign, c \in Contents : Edit(f, c)
  /\ UNCHANGED hostvars

PolicydInit ==
  /\ Init
  /\ slots = [a \in Agents |-> NoSlot]
  /\ lockdown = FALSE /\ fixture = FALSE
  /\ reply = NoReply

EntryPoint(a) ==
  \/ \E action \in SeatActions \cup {"other"} : CheckSeat("check_seat", a, action)
  \/ CheckModel("check_model", a) \/ AdmitSeat(a) \/ AdmitModel(a)
  \/ \E action \in PathActions, p \in Paths : CheckPath(a, action, p)
  \/ \E argv \in Argvs, p \in Paths : CheckShell(a, p, argv)
  \/ \E action \in RiskActions : CheckRisk(a, action)
  \/ CheckAudio(a) \/ AgentStatus(a)
  \/ \E ta \in Bridged : \E p \in (IF ta[1] \in {"fs", "shell"} THEN Paths ELSE {<<>>}) :
       PolicyCheck(a, ta[1], ta[2], p)

Between ==
  \/ \E a \in Agents, ws \in Workspaces : AgentStarts(a, ws)
  \/ \E a \in Agents, ws \in Workspaces, proc \in {"none", "live", "gone"} : AgentBinds(a, ws, proc)
  \/ \E a \in Agents : AgentStops(a)
  \/ \E deny, allow \in BOOLEAN : SetEnv(deny, allow)
  \/ Reconfigure

PolicydNext ==
  \/ Free /\ \E a \in Agents \cup {Null} : EntryPoint(a)
  \/ Free /\ \E sp \in Requests \cup {<<>>} : ReloadShellPack(sp)
  \/ Free /\ (BadMessage("check_seat", "INVALID_MESSAGE") \/ BadMessage("check_shell", "FIELD_TOO_LONG"))
  \/ Free /\ Between
  \/ \E a \in Agents : SlotFileTurns(a) \/ \E proc \in ProcStates : AgentExits(a, proc)
  \/ PackWorld \/ Returned

PolicydSpec == PolicydInit /\ [][PolicydNext]_allvars

-----------------------------------------------------------------------------
(* Properties. *)

\* What the caller of the last entry point gets: the answer of the packs if
\* they were asked and a view of the command could be built.
Decision ==
  IF reply.decision # "pack" THEN reply.decision
  ELSE IF op # Idle THEN "none"
  ELSE IF reply.argv = "unfit" THEN "deny"
  ELSE answer.decision

AdmitEntries ==
  {"check_seat", "check_model", "admit_seat", "admit_model", "policy_check_seat", "policy_check_model"}

\* A seat action or a model start is allowed only to an agent whose slot says
\* that it runs and whose pid, if it was bound to one, is that of a process,
\* although nobody tells the supervisor when a process exits. (A seat bound
\* without a pid runs until it is stopped, and the zombie of another parent
\* counts as a process. After model, "start" is the one action that can be
\* allowed.)
AdmitsNoGone ==
  (reply.entry \in AdmitEntries /\ Decision = "allow") =>
    /\ reply.agent # Null
    /\ slots[reply.agent].state = "running"
    /\ slots[reply.agent].proc # "gone"

\* A path or a command is allowed only in the directory that the agent was
\* given: the path is written canonically, leads into the workspace of that
\* agent's slot and names no credential file. A command that was given to
\* the packs is allowed only by every pack of the law in force.
Confined ==
  (/\ reply.entry \in {"check_path", "check_shell", "policy_check_fs", "policy_check_shell"}
   /\ Decision = "allow") =>
    /\ reply.agent # Null
    /\ slots[reply.agent].ws # <<>>
    /\ Canonical(reply.path)
    /\ Inside(slots[reply.agent].ws, reply.path)
    /\ reply.path \notin Sensitive
    /\ reply.argv # "none" => loaded /\ \A i \in DOMAIN packs : packs[i].law["shell"] \in {"allow", "none"}

\* PHRONESIS_DENY_ALL "forces deny on the CLI/string eval path and on every
\* Cap'n PolicyDecision entry": no entry allows, prompts or asks the packs,
\* whatever else is set, and no entry changes the law in force. (The string
\* bridge fails without a decision when it cannot read the slot.)
LockdownDenies ==
  [][(lockdown /\ reply'.entry \notin {"none", "agent_status"}) =>
       (reply'.decision = "deny" \/ reply'.code = "FAILED") /\ UNCHANGED InForce]_allvars

\* A Cap'n entry and the string bridge agree about agent a: the same decision
\* for the same reason, except that the bridge fails on a slot that cannot be
\* read, where Cap'n takes the agent for unknown and does not allow.
Agree(a, capnp, bridge) ==
  \/ capnp = bridge
  \/ Unreadable(a) /\ bridge.code = "FAILED" /\ capnp.decision # "allow"

\* The Cap'n entries and the string bridge, which have tables of their own for
\* seats, models and risks and reach the path rules by different ways, agree in
\* every state about every agent, but in two cases: "pay" is a risk to prompt
\* for to Cap'n and unknown to the bridge, and allowed by neither; and a path
\* that does not fit is denied by Cap'n, while the bridge has no limit.
BridgesAgree ==
  Free => \A a \in Agents \cup {Null} :
    /\ \A action \in SeatActions \cup {"other"} :
         Agree(a, SeatVerdict(a, action), BridgeVerdict(a, "seat", action, <<>>))
    /\ Agree(a, ModelVerdict(a), BridgeVerdict(a, "model", "start", <<>>))
    /\ \A action \in RiskActions \ {"pay"} :
         Agree(a, RiskVerdict(action), BridgeVerdict(a, "tool", action, <<>>))
    /\ RiskVerdict("pay").decision # "allow" /\ BridgeVerdict(a, "tool", "pay", <<>>).decision # "allow"
    /\ \A p \in Paths :
         IF Len(p) < PathMax
           THEN /\ \A action \in PathActions :
                     Agree(a, PathVerdict(a, action, p), BridgeVerdict(a, "fs", action, p))
                /\ Agree(a, ShellVerdict(a, p), BridgeVerdict(a, "shell", "exec", p))
           ELSE /\ \A action \in PathActions : PathVerdict(a, action, p).decision = "deny"
                /\ ShellVerdict(a, p).decision = "deny"
=============================================================================
