------------------------------ MODULE TraceRing ------------------------------
(***************************************************************************)
(* The trace of src/src/policy_trace.c and its use by the playground,      *)
(* src/playground/wasm/embind_api.c: a ring of the last events of a check, *)
(* written by the host and by the packs it runs, taken as JSON afterwards. *)
(*                                                                         *)
(* A pack builds an event in steps (trace-begin, trace-span-argv,          *)
(* trace-commit) in the one pending event there is. Its functions nest: a  *)
(* helper may begin an event of its own before that of its caller is       *)
(* committed, and a function may fail, or return, without committing. The  *)
(* host reports events between the packs, each in one go.                  *)
(***************************************************************************)
EXTENDS Integers, Sequences, SequencesExt

CONSTANTS
  RingSize,    \* PD_TRACE_RING
  SpansMax,    \* PD_TRACE_SPANS_MAX
  MaxSeq,      \* bound on the events begun since the ring was cleared
  MaxCalls     \* bound on the calls of the playground

ASSUME TraceAssumption ==
  RingSize \in Nat \ {0} /\ SpansMax \in Nat /\ MaxSeq \in Nat /\ MaxCalls \in Nat

VARIABLES
  ring, head, count,   \* g_ring, g_head, g_count
  seq,                 \* g_seq
  pending, open,       \* g_pending, g_pending_open
  call,                \* the call under way, or the one that has returned
  scopes,              \* the events that running functions have begun, innermost last
  left,                \* the events whose function has ended without trace-commit
  committed            \* the events committed since the ring was cleared

traceVars == <<ring, head, count, seq, pending, open, call, scopes, left, committed>>

\* An event remembers, besides what the code keeps, the call it was begun in;
\* a span remembers the event that its function has begun, 0 without one.
Event(n, c) == [seq |-> n, call |-> c, spans |-> <<>>]
NoEvent     == Event(0, 0)

Events == [seq : 0 .. MaxSeq, call : 0 .. MaxCalls, spans : Seq(0 .. MaxSeq)]
CallKinds == {"none", "check", "reload"}

TraceTypeOK ==
  /\ ring \in [0 .. RingSize - 1 -> Events]
  /\ head \in 0 .. RingSize - 1 /\ count \in 0 .. RingSize
  /\ seq \in 0 .. MaxSeq
  /\ pending \in Events /\ Len(pending.spans) <= SpansMax /\ open \in BOOLEAN
  /\ call \in [number : 0 .. MaxCalls, kind : CallKinds, inside : BOOLEAN]
  /\ scopes \in Seq(1 .. MaxSeq) /\ left \in SUBSET (1 .. MaxSeq)

\* The event that the running function takes for the open one.
Meant == IF scopes = <<>> THEN 0 ELSE scopes[Len(scopes)]

\* The functions around the innermost one that has begun an event.
Around == SubSeq(scopes, 1, Len(scopes) - 1)

-----------------------------------------------------------------------------
(* policy_trace.c. *)

\* Mutant of PushedHead: the ring is one slot short.
PushedHeadShort == (head + 1) % (RingSize - 1)

PushedHead == (head + 1) % RingSize

\* ring_push.
Push(e) ==
  /\ ring' = [ring EXCEPT ![head] = e]
  /\ head' = PushedHead
  /\ count' = IF count < RingSize THEN count + 1 ELSE count
  /\ committed' = Append(committed, e)

\* pd_trace_clear.
Clear ==
  /\ ring' = [i \in 0 .. RingSize - 1 |-> NoEvent]
  /\ head' = 0 /\ count' = 0 /\ seq' = 0
  /\ pending' = NoEvent /\ open' = FALSE
  /\ scopes' = <<>> /\ left' = {} /\ committed' = <<>>

\* Mutant of Begin: the spans of the event before are kept.
BeginKeepsSpans == [Event(seq + 1, call.number) EXCEPT !.spans = pending.spans]

\* pd_trace_begin resets whatever is pending.
Begin == Event(seq + 1, call.number)

\* pd_trace_event: begin, the fields, commit.
OneShot ==
  /\ seq < MaxSeq
  /\ seq' = seq + 1
  /\ Push(Begin)
  /\ pending' = NoEvent /\ open' = FALSE

\* pd_trace_to_json: oldest first.
ToJson ==
  [i \in 1 .. count |->
     ring[IF count = RingSize THEN (head + i - 1) % RingSize ELSE i - 1]]

-----------------------------------------------------------------------------
(* What runs inside a call: the host, and the packs through their Cfuns.    *)

\* Before, between and after the packs; one of them may have left its event
\* open.
HostEvent ==
  /\ call.inside /\ scopes = <<>>
  /\ OneShot
  /\ UNCHANGED <<call, scopes, left>>

\* trace-event.
PackEvent ==
  /\ call.inside
  /\ OneShot
  /\ UNCHANGED <<call, scopes, left>>

\* trace-begin, also inside a function whose own event is open.
PackBegin ==
  /\ call.inside /\ seq < MaxSeq
  /\ seq' = seq + 1
  /\ pending' = Begin /\ open' = TRUE
  /\ scopes' = Append(scopes, seq')
  /\ UNCHANGED <<ring, head, count, call, left, committed>>

\* Mutant of PackSpan: the bound of the array of spans is not looked at.
PackSpanUnbounded ==
  /\ call.inside
  /\ open
  /\ pending' = [pending EXCEPT !.spans = Append(@, Meant)]
  /\ UNCHANGED <<ring, head, count, seq, open, call, scopes, left, committed>>

\* trace-span-argv: dropped when no event is open or the event is full.
PackSpan ==
  /\ call.inside
  /\ open /\ Len(pending.spans) < SpansMax
  /\ pending' = [pending EXCEPT !.spans = Append(@, Meant)]
  /\ UNCHANGED <<ring, head, count, seq, open, call, scopes, left, committed>>

\* trace-commit of whatever is open.
PackCommit ==
  /\ call.inside
  /\ open
  /\ Push(pending)
  /\ pending' = NoEvent /\ open' = FALSE
  /\ scopes' = Around
  /\ UNCHANGED <<seq, call, left>>

\* trace-commit when no event is open: the fields and the commit are dropped.
PackCommitDropped ==
  /\ call.inside
  /\ ~open /\ scopes # <<>>
  /\ scopes' = Around
  /\ UNCHANGED <<ring, head, count, seq, pending, open, call, left, committed>>

\* Functions end without trace-commit, because of an error that is caught at
\* some level or ends the pack, or because they return: an event stays open.
PackLeaves ==
  /\ call.inside
  /\ \E k \in 0 .. Len(scopes) - 1 :
       /\ scopes' = SubSeq(scopes, 1, k)
       /\ left' = left \cup {scopes[i] : i \in k + 1 .. Len(scopes)}
  /\ UNCHANGED <<ring, head, count, seq, pending, open, call, committed>>

-----------------------------------------------------------------------------
(* embind_api.c. *)

Entered(kind) ==
  /\ ~call.inside /\ call.number < MaxCalls
  /\ call' = [number |-> call.number + 1, kind |-> kind, inside |-> TRUE]

\* Mutant of PdCheck: the ring is not cleared.
PdCheckStale ==
  /\ Entered("check")
  /\ UNCHANGED <<ring, head, count, seq, pending, open, scopes, left, committed>>

\* pd_check_shell, pd_check_common: "Fresh ring per check".
PdCheck ==
  /\ Entered("check")
  /\ Clear

\* pd_reload_pack_path goes on in the ring there is.
PdReloadPath ==
  /\ Entered("reload")
  /\ UNCHANGED <<ring, head, count, seq, pending, open, scopes, left, committed>>

\* The packs have ended and the call returns.
PdReturns ==
  /\ call.inside /\ scopes = <<>>
  /\ call' = [call EXCEPT !.inside = FALSE]
  /\ UNCHANGED <<ring, head, count, seq, pending, open, scopes, left, committed>>

\* pd_take_trace_json exports ToJson and clears; pd_clear_trace clears.
PdTake ==
  /\ ~call.inside /\ call.kind # "none"
  /\ call' = [call EXCEPT !.kind = "none"]
  /\ Clear

TraceInit ==
  /\ ring = [i \in 0 .. RingSize - 1 |-> NoEvent]
  /\ head = 0 /\ count = 0 /\ seq = 0
  /\ pending = NoEvent /\ open = FALSE
  /\ call = [number |-> 0, kind |-> "none", inside |-> FALSE]
  /\ scopes = <<>> /\ left = {} /\ committed = <<>>

TraceNext ==
  \/ HostEvent \/ PackEvent \/ PackBegin \/ PackSpan
  \/ PackCommit \/ PackCommitDropped \/ PackLeaves
  \/ PdCheck \/ PdReloadPath \/ PdReturns \/ PdTake

TraceSpec == TraceInit /\ [][TraceNext]_traceVars

-----------------------------------------------------------------------------
(* Properties. *)

\* The JSON is the end of what was committed since the ring was cleared, in
\* that order and without a gap: as many events as the ring holds, also at the
\* moment it becomes full and after it has wrapped.
JsonIsTheEnd ==
  LET n == Len(committed)
  IN  ToJson = SubSeq(committed, IF n > RingSize THEN n - RingSize + 1 ELSE 1, n)

\* "Fresh ring per check so take_trace_json matches this call": what can be
\* taken after a check are events of that check, whatever earlier calls, and
\* packs that failed in them, left behind.
JsonMatchesCall ==
  call.kind = "check" => \A i \in DOMAIN ToJson : ToJson[i].call = call.number

\* A span is shown with the event that its own function began. When events of
\* the host, or of functions that nest properly, have taken the pending event
\* away, it is dropped. The one exception is an event that a later function
\* began and left without trace-commit: g_pending_open stays 1, and the spans
\* of the functions around it, or of a pack that follows, become its spans.
SpansOfTheirEvent ==
  \A i \in DOMAIN ToJson :
    LET e == ToJson[i]
    IN  \A k \in DOMAIN e.spans :
          e.spans[k] = e.seq \/ (e.spans[k] < e.seq /\ e.seq \in left)
=============================================================================
