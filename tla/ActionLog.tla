------------------------------ MODULE ActionLog ------------------------------
(***************************************************************************)
(* The action log of src/src/action_log.c: a file of JSON lines that every *)
(* call on an agent, of every host, appends to, and from which             *)
(* phronesis_supervisor_log_last reads the last line.                      *)
(*                                                                         *)
(* A line is short enough for one write() on a file opened for appending,  *)
(* so lines of different hosts do not mix. A write that runs into a full   *)
(* disk leaves a part of its line. The reader goes through the file with   *)
(* fgets() while others append. A character is the record it belongs to    *)
(* and its place in it; what the records say is left out.                  *)
(***************************************************************************)
EXTENDS Naturals, Sequences, FiniteSets, SequencesExt

CONSTANTS
  Readers,     \* hosts that read the last line
  Lengths,     \* lengths of the lines that are appended, without the newline
  Buf,         \* sizeof(line) in phronesis_action_log_last
  MaxRecords,  \* bound on the appends
  NL           \* the newline

ASSUME LengthsAssumption == Lengths \subseteq Nat \ {0}
ASSUME BufAssumption == Buf \in Nat /\ Buf >= 2 /\ MaxRecords \in Nat

VARIABLES
  file,        \* the characters of the log
  records,     \* the records that calls have tried to append, and their lengths
  accepted,    \* the records whose append returned PHRONESIS_OK
  reader       \* reader[h]: where the reader h is, and what it has returned

logVars == <<file, records, accepted, reader>>

Chars(r, n) == [k \in 1 .. n |-> [rec |-> r, at |-> k]]
Char        == [rec : 1 .. MaxRecords, at : Nat]

\* A record is escaped: it holds no newline.
ASSUME NewlineAssumption == NL \notin Char

NoLine == <<>>
Resting(line) == [step |-> "idle", off |-> 0, last |-> line]

LogTypeOK ==
  /\ file \in Seq(Char \cup {NL})
  /\ records \in Seq(Lengths) /\ Len(records) <= MaxRecords
  /\ accepted \subseteq DOMAIN records
  /\ reader \in [Readers -> [step : {"idle", "read"}, off : 0 .. Len(file), last : Seq(Char)]]

LogInit ==
  /\ file = <<>> /\ records = <<>> /\ accepted = {}
  /\ reader = [h \in Readers |-> Resting(NoLine)]

-----------------------------------------------------------------------------
(* phronesis_action_log_append. A record that does not fit its escape       *)
(* buffer, or a log that cannot be opened, is refused before the write.     *)

\* Mutant of Line: the newline is left out.
LineWithoutEnd(r, n) == Chars(r, n)

Line(r, n) == Append(Chars(r, n), NL)

AppendRecord(n) ==
  /\ Len(records) < MaxRecords
  /\ records' = Append(records, n)
  /\ file' = file \o Line(Len(records) + 1, n)
  /\ accepted' = accepted \cup {Len(records) + 1}
  /\ UNCHANGED reader

\* The disk is full after k characters: fprintf or fclose fails.
AppendTorn(n, k) ==
  /\ Len(records) < MaxRecords
  /\ k < Len(Line(Len(records) + 1, n))
  /\ records' = Append(records, n)
  /\ file' = file \o SubSeq(Line(Len(records) + 1, n), 1, k)
  /\ UNCHANGED <<accepted, reader>>

-----------------------------------------------------------------------------
(* phronesis_action_log_last. *)

BeginLast(h) ==
  /\ reader[h].step = "idle"
  /\ reader' = [reader EXCEPT ![h] = [step |-> "read", off |-> 0, last |-> NoLine]]
  /\ UNCHANGED <<file, records, accepted>>

\* What fgets returns at offset off: up to and including a newline, but no
\* more than the buffer holds.
Ends(off) == {e \in off + 1 .. Len(file) : file[e] = NL \/ e = off + Buf - 1 \/ e = Len(file)}
Piece(off) == SubSeq(file, off + 1, CHOOSE e \in Ends(off) : \A d \in Ends(off) : e <= d)

\* fgets stops at a newline: a piece has at most one to be cut off.
Trimmed(piece) == IF Last(piece) = NL THEN Front(piece) ELSE piece

\* Mutant of Keep: an empty piece replaces the last line.
KeepAny(last, piece) == Trimmed(piece)

Keep(last, piece) == IF Trimmed(piece) # <<>> THEN Trimmed(piece) ELSE last

\* The end of the file was met inside the piece: the stream stays at its end.
MetEnd(off, piece) ==
  /\ off + Len(piece) = Len(file)
  /\ Len(piece) < Buf - 1 /\ Last(piece) # NL

ReadPiece(h) ==
  /\ reader[h].step = "read" /\ reader[h].off < Len(file)
  /\ LET piece == Piece(reader[h].off)
         last == Keep(reader[h].last, piece)
     IN  reader' = [reader EXCEPT ![h] =
           IF MetEnd(reader[h].off, piece) THEN Resting(last)
           ELSE [step |-> "read", off |-> reader[h].off + Len(piece), last |-> last]]
  /\ UNCHANGED <<file, records, accepted>>

\* End of file: the line is returned, or PHRONESIS_ERR_NOTFOUND.
EndLast(h) ==
  /\ reader[h].step = "read" /\ reader[h].off = Len(file)
  /\ reader' = [reader EXCEPT ![h] = Resting(reader[h].last)]
  /\ UNCHANGED <<file, records, accepted>>

LogNext ==
  \/ \E n \in Lengths : AppendRecord(n)
  \/ \E n \in Lengths : \E k \in 0 .. n : AppendTorn(n, k)
  \/ \E h \in Readers : BeginLast(h) \/ ReadPiece(h) \/ EndLast(h)

LogSpec == LogInit /\ [][LogNext]_logVars

-----------------------------------------------------------------------------
(* Properties. *)

\* The lines of the log, for reference: what stands between two newlines and
\* is not empty, as the places of the newlines.
Breaks == {i \in DOMAIN file : file[i] = NL} \cup {0, Len(file) + 1}
Lines  == {l \in Breaks \X Breaks : /\ l[1] + 1 < l[2]
                                    /\ \A k \in Breaks : k <= l[1] \/ l[2] <= k}
Text(l) == SubSeq(file, l[1] + 1, l[2] - 1)

LastLine ==
  IF Lines = {} THEN NoLine ELSE Text(CHOOSE l \in Lines : \A m \in Lines : m[1] <= l[1])

\* "Copy the last action-log line into buf": a reader that returns has the
\* last line of the log as it is then, although others append while it reads,
\* and also when the line fills the buffer to the last character. Excepted are
\* lines longer than the buffer, which a long kind and detail make: their last
\* part is returned.
LastIsLastLine ==
  [][\A h \in Readers :
       (reader[h].step = "read" /\ reader'[h].step = "idle" /\ Len(LastLine) < Buf) =>
         reader'[h].last = LastLine]_logVars

\* Every record that a call was told is in the log is a line of its own. Only
\* the record after a write that ran into a full disk is not: it goes on where
\* the torn line ends, and no record after that is harmed.
TornSpoilsOne ==
  \A r \in accepted :
    \E l \in Lines :
      \/ Text(l) = Chars(r, records[r])
      \/ r - 1 \notin accepted /\ IsSuffix(Chars(r, records[r]), Text(l))
=============================================================================
