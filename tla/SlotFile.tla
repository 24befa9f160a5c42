------------------------------ MODULE SlotFile ------------------------------
(***************************************************************************)
(* write_slot and read_slot_file of src/src/supervisor.c, one system call  *)
(* at a time, on one slot file that several processes write and read:      *)
(*                                                                         *)
(*    create --> fill --> close --> rename --> idle (PHRONESIS_OK)         *)
(*      |  \       \        \         \                                    *)
(*      |   unlink  +--------+---------+--> cleanup --> idle (ERR_IO)      *)
(*      |     |                                                            *)
(*      +-- recreate                                                       *)
(*                                                                         *)
(* A writer that dies, or cannot unlink, leaves its temporary file; the    *)
(* next call with its pid finds the file there. The directory maps names to inodes, and an    *)
(* inode that no name and no open file refers to may be used again.        *)
(***************************************************************************)
EXTENDS Naturals

CONSTANTS
  Writers,   \* pids of the processes that write the slot
  Readers,   \* processes that read it
  Records,   \* contents of a whole slot file
  Inodes,    \* files that can exist at a time
  None,      \* no file
  Torn       \* contents of a file that is not completely written

ASSUME ContentsAssumption == None \notin Records \cup Inodes /\ Torn \notin Records \cup {None}

VARIABLES
  slot,      \* the inode <id>.slot names
  tmp,       \* tmp[n]: the inode <id>.slot.tmp.<n> names
  data,      \* data[i]: the contents of inode i
  pc,        \* pc[w]: the next system call of w's write_slot
  rec,       \* rec[w]: the record w's call stores
  own,       \* own[w]: the inode w created
  fd,        \* fd[r]: the inode r has open
  got,       \* got[r]: what r's last read_slot_file returned
  left       \* names of files left by a writer's death or a failed unlink()

vars == <<slot, tmp, data, pc, rec, own, fd, got, left>>

PCs == {"idle", "create", "unlink", "recreate", "fill", "close", "rename", "cleanup"}

TypeOK ==
  /\ slot \in Inodes \cup {None}
  /\ tmp \in [Writers -> Inodes \cup {None}]
  /\ data \in [Inodes -> Records \cup {Torn}]
  /\ pc \in [Writers -> PCs]
  /\ rec \in [Writers -> Records \cup {None}]
  /\ own \in [Writers -> Inodes \cup {None}]
  /\ fd \in [Readers -> Inodes \cup {None}]
  /\ got \in [Readers -> Records \cup {None, Torn}]
  /\ left \subseteq Writers

\* Mutant of TmpName: one temporary name for all writers.
TmpNameShared(w) == CHOOSE x \in Writers : TRUE

\* The pid is part of the name of the temporary file.
TmpName(w) == w

Unreferenced(i) ==
  /\ i # slot
  /\ \A w \in Writers : tmp[w] # i /\ own[w] # i
  /\ \A r \in Readers : fd[r] # i

Goto(w, step) == pc' = [pc EXCEPT ![w] = step]

Init ==
  /\ slot = None
  /\ tmp = [w \in Writers |-> None]
  /\ data = [i \in Inodes |-> Torn]
  /\ pc = [w \in Writers |-> "idle"]
  /\ rec = [w \in Writers |-> None]
  /\ own = [w \in Writers |-> None]
  /\ fd = [r \in Readers |-> None]
  /\ got = [r \in Readers |-> None]
  /\ left = {}

-----------------------------------------------------------------------------
(* write_slot. *)

Begin(w, v) ==
  /\ pc[w] = "idle"
  /\ rec' = [rec EXCEPT ![w] = v]
  /\ Goto(w, "create")
  /\ UNCHANGED <<slot, tmp, data, own, fd, got, left>>

\* fopen(tmp, "wx") makes a new, empty file, the first time or after unlink.
Create(w, i) ==
  /\ pc[w] \in {"create", "recreate"}
  /\ tmp[TmpName(w)] = None
  /\ Unreferenced(i)
  /\ tmp' = [tmp EXCEPT ![TmpName(w)] = i]
  /\ data' = [data EXCEPT ![i] = Torn]
  /\ own' = [own EXCEPT ![w] = i]
  /\ Goto(w, "fill")
  /\ UNCHANGED <<slot, rec, fd, got, left>>

\* EEXIST: the file of a dead process with the same pid is in the way.
CreateExists(w) ==
  /\ pc[w] = "create"
  /\ tmp[TmpName(w)] # None
  /\ Goto(w, "unlink")
  /\ UNCHANGED <<slot, tmp, data, rec, own, fd, got, left>>

\* unlink() of the temporary file, whose result nobody looks at: in a
\* directory that is not writable the file stays.
UnlinkTmp(w) ==
  \/ tmp' = [tmp EXCEPT ![TmpName(w)] = None] /\ left' = left \ {w}
  \/ UNCHANGED tmp /\ left' = left \cup {w}

Unlink(w) ==
  /\ pc[w] = "unlink"
  /\ UnlinkTmp(w)
  /\ Goto(w, "recreate")
  /\ UNCHANGED <<slot, data, rec, own, fd, got>>

\* Any other error, or EEXIST again.
CreateFails(w) ==
  /\ pc[w] \in {"create", "recreate"}
  /\ Goto(w, "idle")
  /\ UNCHANGED <<slot, tmp, data, rec, own, fd, got, left>>

\* fprintf fills a buffer, which reaches the file now or at fclose.
Fill(w) ==
  /\ pc[w] = "fill"
  /\ \/ data' = [data EXCEPT ![own[w]] = rec[w]]
     \/ UNCHANGED data
  /\ Goto(w, "close")
  /\ UNCHANGED <<slot, tmp, rec, own, fd, got, left>>

\* Mutant of Close: rename follows a fprintf whose buffer is not flushed.
CloseUnflushed(w) ==
  /\ pc[w] = "close"
  /\ Goto(w, "rename")
  /\ UNCHANGED <<slot, tmp, data, rec, own, fd, got, left>>

Close(w) ==
  /\ pc[w] = "close"
  /\ data' = [data EXCEPT ![own[w]] = rec[w]]
  /\ Goto(w, "rename")
  /\ UNCHANGED <<slot, tmp, rec, own, fd, got, left>>

\* Mutant of StepFails: the temporary file stays.
StepFailsLeaves(w) ==
  /\ pc[w] \in {"fill", "close", "rename"}
  /\ own' = [own EXCEPT ![w] = None]
  /\ Goto(w, "idle")
  /\ UNCHANGED <<slot, tmp, data, rec, fd, got, left>>

\* fprintf, fclose or rename fails; a failed fclose has closed the file.
StepFails(w) ==
  /\ pc[w] \in {"fill", "close", "rename"}
  /\ Goto(w, "cleanup")
  /\ UNCHANGED <<slot, tmp, data, rec, own, fd, got, left>>

Cleanup(w) ==
  /\ pc[w] = "cleanup"
  /\ UnlinkTmp(w)
  /\ own' = [own EXCEPT ![w] = None]
  /\ Goto(w, "idle")
  /\ UNCHANGED <<slot, data, rec, fd, got>>

Rename(w) ==
  /\ pc[w] = "rename"
  /\ tmp[TmpName(w)] # None
  /\ slot' = tmp[TmpName(w)]
  /\ tmp' = [tmp EXCEPT ![TmpName(w)] = None]
  /\ own' = [own EXCEPT ![w] = None]
  /\ Goto(w, "idle")
  /\ UNCHANGED <<data, rec, fd, got, left>>

\* The process dies; its files are closed and stay where they are.
Die(w) ==
  /\ pc[w] # "idle"
  /\ own' = [own EXCEPT ![w] = None]
  /\ left' = IF tmp[TmpName(w)] = None THEN left ELSE left \cup {w}
  /\ Goto(w, "idle")
  /\ UNCHANGED <<slot, tmp, data, rec, fd, got>>

-----------------------------------------------------------------------------
(* read_slot_file. *)

ReadOpen(r) ==
  /\ fd[r] = None
  /\ slot # None
  /\ fd' = [fd EXCEPT ![r] = slot]
  /\ UNCHANGED <<slot, tmp, data, pc, rec, own, got, left>>

\* fopen fails, because there is no slot file or for any other reason.
ReadMiss(r) ==
  /\ fd[r] = None
  /\ got' = [got EXCEPT ![r] = None]
  /\ UNCHANGED <<slot, tmp, data, pc, rec, own, fd, left>>

\* fscanf and fclose.
Read(r) ==
  /\ fd[r] # None
  /\ got' = [got EXCEPT ![r] = data[fd[r]]]
  /\ fd' = [fd EXCEPT ![r] = None]
  /\ UNCHANGED <<slot, tmp, data, pc, rec, own, left>>

-----------------------------------------------------------------------------
WriterStep(w) ==
  \/ \E v \in Records : Begin(w, v)
  \/ \E i \in Inodes : Create(w, i)
  \/ CreateExists(w) \/ Unlink(w) \/ CreateFails(w)
  \/ Fill(w) \/ Close(w) \/ StepFails(w) \/ Cleanup(w) \/ Rename(w) \/ Die(w)

ReaderStep(r) == ReadOpen(r) \/ ReadMiss(r) \/ Read(r)

Next ==
  \/ \E w \in Writers : WriterStep(w)
  \/ \E r \in Readers : ReaderStep(r)

Spec == Init /\ [][Next]_vars

-----------------------------------------------------------------------------
(* Properties. *)

\* The system calls implement the register: whatever writers do at once, and
\* wherever they fail or die, the slot file is replaced whole, and a reader
\* that opened it gets the record that was in place then.
InPlace    == IF slot = None THEN None ELSE data[slot]
Seen(r)    == IF fd[r] = None THEN got[r] ELSE data[fd[r]]
Register   == INSTANCE SlotRegister
                WITH reg <- InPlace, view <- [r \in Readers |-> Seen(r)]
IsRegister == Register!Spec

\* write_slot returns PHRONESIS_OK only when it has put its own record in
\* place: nobody "truncates or renames away the file another is writing".
PublishesOwn ==
  [][\A w \in Writers :
       (pc[w] = "rename" /\ pc'[w] = "idle" /\ slot' # slot) => data'[slot'] = rec[w]]_vars

\* A call that returns has unlinked its temporary file on every error path: a
\* file that is there between calls was left by a process that died in its
\* call, or by an unlink() that failed, and no call has removed it since.
NoStrayFile ==
  \A w \in Writers : (pc[w] = "idle" /\ tmp[TmpName(w)] # None) => w \in left

\* The inductive invariant: the file a writer works on is its own, nobody
\* reads it, and what is in place or being read is whole.
Private ==
  /\ slot # None => data[slot] # Torn
  /\ \A r \in Readers : fd[r] # None => data[fd[r]] # Torn
  /\ \A w \in Writers :
       /\ pc[w] # "idle" => rec[w] # None
       /\ pc[w] \in {"fill", "close", "rename"} => own[w] # None /\ own[w] = tmp[w]
       /\ pc[w] = "rename" => data[own[w]] = rec[w]
  /\ \A w \in Writers :
       tmp[w] # None =>
         /\ tmp[w] # slot
         /\ \A r \in Readers : fd[r] # tmp[w]
         /\ \A x \in Writers : x # w => tmp[x] # tmp[w]
=============================================================================
