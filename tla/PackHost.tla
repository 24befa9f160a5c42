------------------------------ MODULE PackHost ------------------------------
(***************************************************************************)
(* The policy-pack host of src/src/policy_janet.c: which Janet packs a     *)
(* process has loaded, how a reload replaces them, and how the verdicts of *)
(* several packs are composed into one.                                    *)
(*                                                                         *)
(* The host is one thread. It looks at a specification, looks again when   *)
(* it parses it, and reads the packs one file after the other; anybody may *)
(* edit the files, or replace the whole pack directory, in between. A      *)
(* check that finds nothing loaded loads the default specification first:  *)
(*                                                                         *)
(*    idle --reload, check--> parse --> load ... load --> idle (answer)    *)
(*                                                                         *)
(* A pack is abstracted to the verdict of each of its entry functions on   *)
(* the request at hand; what the Janet code computes is not modelled.      *)
(***************************************************************************)
EXTENDS Naturals, Sequences

CONSTANTS
  NFiles,     \* number of .janet paths
  Foreign,    \* the files outside the pack root and the trusted prefixes
  Dir,        \* the segment that names the pack directory
  Default,    \* the file that default_pack_spec ends at
  Laws,       \* what the entry functions of a pack may answer
  Missing,    \* no such file
  Broken,     \* a file that does not compile
  Trees,      \* pack directories that follow each other under one path
  NoTree,     \* no directory has been opened yet
  Requests,   \* specifications that a reload may ask for
  MaxPacks,   \* PACK_MAX
  DevPack     \* PHRONESIS_DEV_PACK

Files    == 1 .. NFiles      \* .janet paths, numbered in the order of their names
Verdicts == {"allow", "prompt", "deny"}
Outcomes == Verdicts \cup {"unknown", "error", "bad", "none"}
Entries  == {"shell", "audio"}

ASSUME FilesAssumption == NFiles \in Nat /\ Foreign \subseteq Files /\ Default \in Files \ Foreign
ASSUME SegmentAssumption == Dir \notin Files /\ Requests \subseteq Seq(Files \cup {Dir})
ASSUME LawsAssumption == Laws \subseteq [Entries -> Outcomes] /\ Missing \notin Laws /\ Broken \notin Laws
ASSUME BoundsAssumption == MaxPacks \in Nat \ {0} /\ DevPack \in BOOLEAN

VARIABLES
  tree,       \* tree[t][f]: what file f of pack directory t holds
  root,       \* the directory the pack root path names
  rootfd,     \* pack_rootfd: the directory the host has open
  env,        \* PHRONESIS_JANET_PACK
  packs,      \* packs[0 .. npacks-1]: file and law of every loaded pack
  loaded,     \* pack_loaded
  failed,     \* pack_failed
  spec,       \* pack_spec_buf, empty when pack_spec_set is 0
  op,         \* the load under way
  answer,     \* what the call that has just returned answered
  read,       \* the contents read for every file of the accepted spec
  closed,     \* a reload has failed and neither reload nor reset followed
  touched,    \* the disk has changed since the load began
  before      \* what was in force when the last reload was called

InForce == <<packs, loaded, failed, spec, env>>
vars == <<tree, root, rootfd, InForce, op, answer, read, closed, touched, before>>

Contents == Laws \cup {Missing, Broken}
Segments == Files \cup {Dir}
Pack     == [file : Files, law : Laws]

NoAnswer == [call |-> "none", decision |-> "none", code |-> "none"]
Reply(call, decision, code) == [call |-> call, decision |-> decision, code |-> code]

Idle == [step |-> "idle", call |-> "none", todo |-> <<>>]
Parsing(call, sp)   == [step |-> "parse", call |-> call, todo |-> sp]
Loading(call, todo) == [step |-> "load", call |-> call, todo |-> todo]

TypeOK ==
  /\ tree \in [Trees -> [Files \ Foreign -> Contents]]
  /\ root \in Trees /\ rootfd \in Trees \cup {NoTree}
  /\ env \in Seq(Segments) /\ spec \in Seq(Files)
  /\ packs \in Seq(Pack) /\ Len(packs) <= MaxPacks
  /\ loaded \in BOOLEAN /\ failed \in BOOLEAN
  /\ op \in [step : {"idle", "parse", "load"}, call : Entries \cup {"none", "reload"}, todo : Seq(Segments)]
  /\ read \in Seq(Contents) /\ closed \in BOOLEAN /\ touched \in BOOLEAN

-----------------------------------------------------------------------------
(* Specifications: pack_reload_spec_allowed, default_pack_spec and          *)
(* parse_pack_spec. Paths are looked up by name, under whatever directory   *)
(* has the name now; packs are opened under the directory opened first.     *)

\* ensure_pack_root: the directory stays open while its name stays the same.
RootFd == IF rootfd = NoTree THEN root ELSE rootfd

IsFile(f)   == f \in Files /\ (f \notin Foreign => tree[root][f] # Missing)
Opened(f)   == IF f \in Foreign THEN Missing ELSE tree[RootFd][f]
OnRoot(seg) == seg # Dir => Opened(seg) # Missing

SegmentAllowed(seg) == (seg # Dir => IsFile(seg)) /\ (~DevPack => seg \notin Foreign)
SpecAllowed(sp) == sp # <<>> /\ \A i \in DOMAIN sp : SegmentAllowed(sp[i])

DefaultSpec ==
  IF spec # <<>> THEN spec
  ELSE IF SpecAllowed(env) THEN env
  ELSE <<Default>>

\* expand_dir_packs: the files of the directory in the order of their names.
DirFiles ==
  LET present == {f \in Files \ Foreign : tree[root][f] # Missing}
      dir[f \in 0 .. NFiles] ==
        IF f = 0 THEN <<>>
        ELSE IF f \in present THEN Append(dir[f - 1], f) ELSE dir[f - 1]
  IN  dir[NFiles]

Expand(seg) == IF seg = Dir THEN DirFiles ELSE <<seg>>
Expanded(sp) ==
  LET all[i \in 0 .. Len(sp)] == IF i = 0 THEN <<>> ELSE all[i - 1] \o Expand(sp[i])
  IN  all[Len(sp)]

\* Mutant of Parses: the table of packs has no limit.
ParsesUnbounded(sp, reload) ==
  /\ \A i \in DOMAIN sp : Expand(sp[i]) # <<>> /\ (sp[i] # Dir => IsFile(sp[i]))
  /\ reload => \A i \in DOMAIN Expanded(sp) : OnRoot(Expanded(sp)[i])
  /\ Expanded(sp) # <<>>

\* parse_pack_spec accepts sp; only a reload asks that every path is on the
\* pack root.
Parses(sp, reload) ==
  /\ \A i \in DOMAIN sp : Expand(sp[i]) # <<>> /\ (sp[i] # Dir => IsFile(sp[i]))
  /\ reload => \A i \in DOMAIN sp : OnRoot(sp[i])
  /\ reload => \A i \in DOMAIN Expanded(sp) : OnRoot(Expanded(sp)[i])
  /\ Len(Expanded(sp)) \in 1 .. MaxPacks

-----------------------------------------------------------------------------
(* compose_pack_entry. *)

Rank(o) == CASE o = "deny" -> 3 [] o = "prompt" -> 2 [] o = "allow" -> 1 [] OTHER -> 3

Stop(code) == [stop |-> TRUE, rank |-> 3, decision |-> "deny", code |-> code]
NoVerdict  == [stop |-> FALSE, rank |-> 0, decision |-> "deny", code |-> "PACK_MISSING"]

\* One round of the loop over the packs. A pack without the entry is passed
\* over, a deny or an error ends the loop, a higher rank replaces the best.
Round(best, o) ==
  IF best.stop \/ o = "none" THEN best
  ELSE IF o = "error" THEN Stop("PACK_RUNTIME_ERROR")
  ELSE IF o = "bad" THEN Stop("PACK_BAD_RESULT")
  ELSE IF o = "deny" THEN Stop("PACK")
  ELSE IF Rank(o) > best.rank
    THEN [stop |-> FALSE, rank |-> Rank(o), decision |-> o, code |-> "PACK"]
  ELSE best

\* Mutant of Compose: the last pack with the entry decides.
ComposeLast(ps, entry) ==
  LET best[i \in 0 .. Len(ps)] ==
        IF i = 0 THEN NoVerdict
        ELSE Round([NoVerdict EXCEPT !.stop = best[i - 1].stop], ps[i].law[entry])
  IN  Reply(entry, best[Len(ps)].decision, best[Len(ps)].code)

\* The best verdict after every round.
Best(ps, entry) ==
  LET best[i \in 0 .. Len(ps)] ==
        IF i = 0 THEN NoVerdict ELSE Round(best[i - 1], ps[i].law[entry])
  IN  best

Compose(ps, entry) ==
  LET best == Best(ps, entry)[Len(ps)]
  IN  Reply(entry, best.decision, best.code)

-----------------------------------------------------------------------------
(* Loading: load_packs_from_spec, load_one_pack, unload_packs.              *)

Unload == packs' = <<>> /\ loaded' = FALSE

BeginLoad(call, sp) ==
  /\ Unload
  /\ failed' = FALSE
  /\ op' = Loading(call, Expanded(sp))
  /\ answer' = NoAnswer
  /\ read' = <<>>
  /\ touched' = FALSE
  /\ UNCHANGED <<tree, root, env, spec, closed, before>>

Rejected(call) == Reply(call, "deny", IF call = "reload" THEN "PACK_PATH_INVALID" ELSE "PACK_MISSING")

\* Mutant of Parse: teardown before the specification is accepted.
ParseUnloadsFirst ==
  /\ op.step = "parse"
  /\ rootfd' = IF op.call = "reload" THEN RootFd ELSE rootfd
  /\ \/ /\ Parses(op.todo, op.call = "reload")
        /\ BeginLoad(op.call, op.todo)
     \/ /\ ~Parses(op.todo, op.call = "reload")
        /\ Unload
        /\ op' = Idle
        /\ answer' = Rejected(op.call)
        /\ UNCHANGED <<tree, root, env, failed, spec, read, closed, touched, before>>

\* The paths are looked up again; what is rejected now drops nothing.
Parse ==
  /\ op.step = "parse"
  /\ rootfd' = IF op.call = "reload" THEN RootFd ELSE rootfd
  /\ \/ /\ Parses(op.todo, op.call = "reload")
        /\ BeginLoad(op.call, op.todo)
     \/ /\ ~Parses(op.todo, op.call = "reload")
        /\ op' = Idle
        /\ answer' = Rejected(op.call)
        /\ UNCHANGED <<tree, root, InForce, read, closed, touched, before>>

\* Mutant of LoadFails: the host is left as if it had never loaded.
LoadFailsOpen ==
  /\ Unload
  /\ failed' = FALSE
  /\ spec' = IF op.call = "reload" THEN <<>> ELSE spec
  /\ closed' = (closed \/ op.call = "reload")
  /\ op' = Idle
  /\ answer' = IF op.call = "reload" THEN Reply("reload", "deny", "PACK_LOAD_FAILED")
                                     ELSE Reply(op.call, "deny", "PACK_MISSING")

\* A file that cannot be loaded, or no pack among the files, fails the load.
LoadFails ==
  /\ Unload
  /\ failed' = TRUE
  /\ spec' = IF op.call = "reload" THEN <<>> ELSE spec
  /\ closed' = (closed \/ op.call = "reload")
  /\ op' = Idle
  /\ answer' = IF op.call = "reload" THEN Reply("reload", "deny", "PACK_LOAD_FAILED")
                                     ELSE Reply(op.call, "deny", "PACK_MISSING")

LoadOne ==
  /\ op.step = "load" /\ op.todo # <<>>
  /\ rootfd' = RootFd
  /\ LET f == Head(op.todo)
         c == Opened(f)
     IN  /\ read' = Append(read, c)
         /\ \/ /\ c \in {Missing, Broken}
               /\ LoadFails
            \/ /\ c \in Laws
               /\ packs' = IF \E e \in Entries : c[e] # "none"
                             THEN Append(packs, [file |-> f, law |-> c]) ELSE packs
               /\ op' = [op EXCEPT !.todo = Tail(@)]
               /\ UNCHANGED <<loaded, failed, spec, answer, closed>>
  /\ UNCHANGED <<tree, root, env, touched, before>>

\* The load ends; a check goes on to ask the packs.
LoadDone ==
  /\ op.step = "load" /\ op.todo = <<>>
  /\ \/ /\ packs = <<>>
        /\ LoadFails
        /\ UNCHANGED env
     \/ /\ packs # <<>>
        /\ loaded' = TRUE /\ failed' = FALSE
        /\ spec' = [i \in DOMAIN packs |-> packs[i].file]
        /\ op' = Idle
        /\ \/ /\ op.call = "reload"
              /\ env' = spec'
              /\ closed' = FALSE
              /\ answer' = Reply("reload", "allow", "PACK_RELOADED")
           \/ /\ op.call \in Entries
              /\ answer' = Compose(packs, op.call)
              /\ UNCHANGED <<env, closed>>
        /\ UNCHANGED packs
  /\ UNCHANGED <<tree, root, rootfd, read, touched, before>>

-----------------------------------------------------------------------------
(* The calls. *)

Answered(r) ==
  /\ answer' = r
  /\ UNCHANGED <<tree, root, InForce, op, read, closed, touched>>

\* What is to be loaded is known; it has still to be parsed.
Begins(call, sp) ==
  /\ op' = Parsing(call, sp)
  /\ answer' = NoAnswer
  /\ UNCHANGED <<tree, root, InForce, read, closed, touched>>

\* phronesis_shell_pack_reload_internal, with the answer of its callers.
Reload(sp) ==
  /\ op = Idle
  /\ before' = InForce
  /\ \/ SpecAllowed(sp) /\ Begins("reload", sp)
     \/ ~SpecAllowed(sp) /\ Answered(Rejected("reload"))
  /\ UNCHANGED rootfd

\* phronesis_shell_pack and phronesis_audio_pack: load_pack_once, then ask.
Check(entry) ==
  /\ op = Idle
  /\ \/ /\ failed
        /\ Answered(Rejected(entry))
     \/ /\ loaded
        /\ Answered(Compose(packs, entry))
     \/ /\ ~failed /\ ~loaded
        /\ Begins(entry, DefaultSpec)
  /\ UNCHANGED <<rootfd, before>>

\* phronesis_policy_pack_reset.
Reset ==
  /\ op = Idle
  /\ Unload
  /\ failed' = FALSE
  /\ spec' = <<>>
  /\ closed' = FALSE
  /\ answer' = NoAnswer
  /\ UNCHANGED <<tree, root, rootfd, env, op, read, touched, before>>

-----------------------------------------------------------------------------
(* The disk. *)

\* A pack file is written, broken or removed.
Edit(f, c) ==
  /\ tree[root][f] # c
  /\ tree' = [tree EXCEPT ![root][f] = c]
  /\ touched' = TRUE
  /\ answer' = NoAnswer
  /\ UNCHANGED <<root, rootfd, InForce, op, read, closed, before>>

\* An upgrade moves another directory to the path of the pack root.
Upgrade(t) ==
  /\ t # root
  /\ root' = t
  /\ touched' = TRUE
  /\ answer' = NoAnswer
  /\ UNCHANGED <<tree, rootfd, InForce, op, read, closed, before>>

-----------------------------------------------------------------------------
Init ==
  /\ tree \in [Trees -> [Files \ Foreign -> Contents]]
  /\ root \in Trees
  /\ rootfd = NoTree
  /\ env \in {<<>>} \cup {<<seg>> : seg \in Segments}
  /\ packs = <<>> /\ loaded = FALSE /\ failed = FALSE /\ spec = <<>>
  /\ op = Idle /\ answer = NoAnswer
  /\ read = <<>> /\ closed = FALSE /\ touched = FALSE /\ before = InForce

LoadStep == Parse \/ LoadOne \/ LoadDone

Next ==
  \/ \E sp \in Requests : Reload(sp)
  \/ \E entry \in Entries : Check(entry)
  \/ Reset
  \/ LoadStep
  \/ \E f \in Files \ Foreign, c \in Contents : Edit(f, c)
  \/ \E t \in Trees : Upgrade(t)

Spec == Init /\ [][Next]_vars

-----------------------------------------------------------------------------
(* Properties. *)

\* A check is allowed only by all of the law: every file of the specification
\* that was accepted has been read and loaded, and each that has the entry
\* allows; and a check is left to a prompt only if none of them denies. This
\* holds whatever happens to the files while they are loaded, and whatever
\* loads failed before.
FailClosed ==
  (answer.call \in Entries /\ answer.decision \in {"allow", "prompt"}) =>
    /\ loaded /\ read # <<>>
    /\ \A i \in DOMAIN read :
         /\ read[i] \in Laws
         /\ read[i][answer.call] \in {"none", "allow", "prompt"}
         /\ answer.decision = "allow" => read[i][answer.call] # "prompt"

\* A reload is all or nothing, whatever happens to the disk between the look
\* at the path, the parse and the reads: refused, it leaves in force what was
\* in force when it was called ("Accept the spec before teardown so a rejected
\* path cannot drop law"); failed, it leaves no pack of the old law or the new
\* one, and nothing for a check to load from; done, every file it read is a
\* law, and the packs are exactly those of them that have an entry.
ReloadIsWhole ==
  /\ answer.code = "PACK_PATH_INVALID" => InForce = before
  /\ answer.code = "PACK_LOAD_FAILED" => packs = <<>> /\ ~loaded /\ failed /\ spec = <<>>
  /\ answer.code = "PACK_RELOADED" =>
       /\ loaded /\ ~failed
       /\ \A i \in DOMAIN read :
            /\ read[i] \in Laws
            /\ (\E e \in Entries : read[i][e] # "none") => \E j \in DOMAIN packs : packs[j].law = read[i]
       /\ \A j \in DOMAIN packs : \E i \in DOMAIN read : packs[j].law = read[i]

\* A reload that fails after teardown never falls back to the default law or
\* the law of the environment: until a reload succeeds or the host is reset,
\* every check is denied.
ClosedAfterFailure ==
  (closed /\ answer.call \in Entries) => answer.decision = "deny"

\* policy_janet.c: "deny (0) > prompt (2) > allow (1). Unknown treated as
\* deny": a check never answers anything but the three decisions.
UnknownIsDeny ==
  answer.call \in Entries => answer.decision \in Verdicts

\* policy_janet.c: "Drop loaded pack state so the next load re-reads disk": a
\* load during which the disk did not change loads what is on disk.
LoadReadsDisk ==
  (answer.code = "PACK_RELOADED" /\ ~touched) =>
    \A i \in DOMAIN packs : packs[i].law = tree[root][packs[i].file]
=============================================================================
