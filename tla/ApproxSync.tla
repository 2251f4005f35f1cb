----------------------------- MODULE ApproxSync -----------------------------
(***************************************************************************)
(* The slop-based time synchronizer of                                     *)
(* include/sonar_slam_cpp/approx_sync.hpp: each message of the primary     *)
(* stream is paired with the nearest message within Slop of every          *)
(* secondary stream.  ApproxSync2 is the instance with one secondary       *)
(* stream, ApproxSync3 the one with two.                                   *)
(*                                                                         *)
(* A message is its stamp, in ticks, and the epoch of its stream, which    *)
(* counts the backward jumps of the stream's clock and which the code does *)
(* not see.  The add_ calls serialize on the synchronizer's mutex, so each *)
(* is one step; what varies is the order in which the streams' messages    *)
(* arrive.                                                                 *)
(***************************************************************************)
EXTENDS Integers, Sequences, FiniteSetsExt, SequencesExt

CONSTANTS
  Secondary,      \* the secondary streams
  Slop,           \* slop_
  QueueSize,      \* queue_size_
  MaxSecondary,   \* kMaxSecondary
  LastStamp,      \* bound on stamps
  Lag,            \* the newest secondary is at most Lag ahead of a new primary
  MaxRestarts,    \* bound on backward jumps of a stream's clock
  MaxMessages     \* bound on messages, over all streams

ASSUME SyncAssumption ==
  /\ Slop \in Nat /\ QueueSize \in Nat \ {0} /\ MaxSecondary \in Nat \ {0}
  /\ LastStamp \in Nat /\ Lag \in Nat /\ MaxRestarts \in Nat
  /\ MaxMessages \in Nat

VARIABLES
  qa,          \* qa_: pending primaries
  qs,          \* qb_, qc_: the secondary queues
  paired,      \* what the callback was given: [p, with]
  unmatched,   \* primaries reported by on_nomatch_
  overflowed,  \* primaries reported by on_overflow_
  cleared,     \* primaries discarded by a backward jump
  sent,        \* every primary ever added
  heard        \* every message ever added, by secondary stream

syncVars == <<qa, qs, paired, unmatched, overflowed, cleared, sent, heard>>

Stamps  == 0 .. LastStamp
Message == [t : Stamps, epoch : 0 .. MaxRestarts]

SyncInit ==
  /\ qa = <<>> /\ qs = [s \in Secondary |-> <<>>]
  /\ paired = {} /\ unmatched = {} /\ overflowed = {} /\ cleared = {}
  /\ sent = {} /\ heard = [s \in Secondary |-> {}]

----------------------------------------------------------------------------
(* The queue helpers.                                                      *)

Gap(x, y) == IF x < y THEN y - x ELSE x - y

\* q from its first element at or after which Stop(i) holds; while (..) pop.
PopUntil(q, Stop(_)) ==
  LET stops == {i \in DOMAIN q : Stop(i)}
  IN  IF stops = {} THEN <<>> ELSE SubSeq(q, Min(stops), Len(q))

\* nearest_within: the closest stamp within Slop of t, the last one if tied.
Near(q, t) == {i \in DOMAIN q : Gap(q[i], t) <= Slop}
NearestWithin(q, t) ==
  q[CHOOSE i \in Near(q, t) : \A j \in Near(q, t) :
      Gap(q[i], t) < Gap(q[j], t) \/ (Gap(q[i], t) = Gap(q[j], t) /\ j <= i)]

DropOlder(q, t) == PopUntil(q, LAMBDA i : q[i] > t)

\* Mutant: plain depth eviction, blind to what a pending primary needs.
TrimSecondaryByDepth(q, keepAfter) == PopUntil(q, LAMBDA i : Len(q) - i < QueueSize)

\* trim_secondary: the hard cap, then eviction by time above the floor.
TrimSecondary(q, keepAfter) ==
  LET capped == PopUntil(q, LAMBDA i : Len(q) - i < MaxSecondary)
  IN  PopUntil(capped, LAMBDA i : \/ Len(capped) - i < QueueSize
                                  \/ capped[i] >= keepAfter)

----------------------------------------------------------------------------
(* try_emit: pop primaries while every secondary has passed the head.      *)

\* Mutant: the sign of slop_ swapped, reaching the window passes for leaving it.
PassedEarly(queues, t) ==
  \A s \in Secondary : queues[s] # <<>> /\ Last(queues[s]) >= t - Slop

Passed(queues, t) ==
  \A s \in Secondary : queues[s] # <<>> /\ Last(queues[s]) >= t + Slop

\* One turn of the loop on the head of the queue.
EmitHead(st, head) ==
  LET matched == \A s \in Secondary : Near(st.qs[s], head.t) # {}
      match   == [s \in Secondary |-> NearestWithin(st.qs[s], head.t)]
  IN  IF st.waiting \/ ~Passed(st.qs, head.t)
      THEN [st EXCEPT !.waiting = TRUE]
      ELSE IF matched
           THEN [st EXCEPT
                   !.qa = Tail(@),
                   !.paired = @ \cup {[p |-> head, with |-> match]},
                   !.qs = [s \in Secondary |-> DropOlder(st.qs[s], match[s] - Slop)]]
           ELSE [st EXCEPT !.qa = Tail(@), !.unmatched = @ \cup {head}]

\* Mutant: one turn per arrival.
TryEmitOnce(primaries, queues) ==
  LET start == [qa |-> primaries, qs |-> queues, paired |-> paired,
                unmatched |-> unmatched, waiting |-> FALSE]
      out   == IF primaries = <<>> THEN start ELSE EmitHead(start, primaries[1])
  IN  /\ qa' = out.qa /\ qs' = out.qs
      /\ paired' = out.paired /\ unmatched' = out.unmatched

TryEmit(primaries, queues) ==
  LET out == FoldLeft(EmitHead,
                      [qa |-> primaries, qs |-> queues, paired |-> paired,
                       unmatched |-> unmatched, waiting |-> FALSE],
                      primaries)
  IN  /\ qa' = out.qa /\ qs' = out.qs
      /\ paired' = out.paired /\ unmatched' = out.unmatched

----------------------------------------------------------------------------
(* The two entry points.                                                   *)

\* Mutant: what a full queue drops is not reported.
AddPrimarySilently(m) ==
  LET restart == qa # <<>> /\ m.t < qa[1].t
      pushed  == Append(IF restart THEN <<>> ELSE qa, m)
  IN  /\ cleared' = cleared \cup (IF restart THEN ToSet(qa) ELSE {})
      /\ TryEmit(PopUntil(pushed, LAMBDA i : Len(pushed) - i < QueueSize),
                 IF restart THEN [s \in Secondary |-> <<>>] ELSE qs)
      /\ sent' = sent \cup {m}
      /\ UNCHANGED <<heard, overflowed>>

\* A stamp before the head of the queue is a restart of the clock.
AddPrimary(m) ==
  LET restart == qa # <<>> /\ m.t < qa[1].t
      pushed  == Append(IF restart THEN <<>> ELSE qa, m)
      kept    == PopUntil(pushed, LAMBDA i : Len(pushed) - i < QueueSize)
  IN  /\ overflowed' = overflowed \cup (ToSet(pushed) \ ToSet(kept))
      /\ cleared' = cleared \cup (IF restart THEN ToSet(qa) ELSE {})
      /\ TryEmit(kept, IF restart THEN [s \in Secondary |-> <<>>] ELSE qs)
      /\ sent' = sent \cup {m}
      /\ UNCHANGED heard

\* A stamp before the head of its queue restarts that queue alone.
AddSecondary(s, m) ==
  LET restart == qs[s] # <<>> /\ m.t < qs[s][1]
      pushed  == Append(IF restart THEN <<>> ELSE qs[s], m.t)
      oldest  == IF qa = <<>> THEN m.t ELSE qa[1].t
  IN  /\ TryEmit(qa, [qs EXCEPT ![s] = TrimSecondary(pushed, oldest - Slop)])
      /\ heard' = [heard EXCEPT ![s] = @ \cup {m}]
      /\ UNCHANGED <<overflowed, cleared, sent>>

----------------------------------------------------------------------------
(* The streams: stamps of a stream ascend, but its clock may jump back (a  *)
(* bag loop, a driver restart).  A primary arrives at most Lag after the   *)
(* newest secondary of its epoch.                                          *)

\* The messages a stream may send next, after those it sent.
Fresh(said) ==
  LET now == Max({0} \cup {m.epoch : m \in said})
  IN  {m \in Message :
         \/ m.epoch = now /\ \A p \in said : p.epoch = now => p.t < m.t
         \/ m.epoch = now + 1 /\ \E p \in said : p.epoch = now /\ m.t < p.t}

Primaries ==
  \E m \in Fresh(sent) :
    /\ \A s \in Secondary : \A h \in heard[s] :
         h.epoch = m.epoch => h.t <= m.t + Lag
    /\ AddPrimary(m)

Secondaries == \E s \in Secondary : \E m \in Fresh(heard[s]) : AddSecondary(s, m)

Messages ==
  Cardinality(sent) + MapThenSumSet(LAMBDA s : Cardinality(heard[s]), Secondary)

SyncNext == Messages < MaxMessages /\ (Primaries \/ Secondaries)

SyncSpec == SyncInit /\ [][SyncNext]_syncVars

----------------------------------------------------------------------------
(* Properties.                                                             *)

\* No clock has jumped back yet.
Steady == \A m \in UNION (Range(heard) \cup {sent}) : m.epoch = 0

\* While clocks are steady, the pair the callback gets is final: of all the
\* messages a secondary stream ever delivers, before the pair or after it, none
\* is closer.
NearestIsFinal ==
  Steady => \A e \in paired, s \in Secondary :
    /\ e.with[s] \in {h.t : h \in heard[s]} /\ Gap(e.with[s], e.p.t) <= Slop
    /\ \A h \in heard[s] : Gap(e.with[s], e.p.t) <= Gap(h.t, e.p.t)

\* While clocks are steady, a primary is reported unmatched only if some
\* secondary stream has, and will have, no message within Slop of it.
NoFalseStarvation ==
  Steady => \A p \in unmatched :
    \E s \in Secondary : \A h \in heard[s] : Gap(h.t, p.t) > Slop

\* A primary waits only while some secondary stream has yet to pass it: an
\* arrival, an overflow or a restart never leaves a pair undelivered.
WaitsOnlyWhenBehind ==
  qa # <<>> => \E s \in Secondary :
                 qs[s] = <<>> \/ qs[s][Len(qs[s])] < qa[1].t + Slop

\* Every primary is accounted for once: pending, paired, or reported lost
\* to a stall, to a missing neighbour, or to a restart of the clock.
Accounted ==
  LET fates == <<ToSet(qa), {e.p : e \in paired}, unmatched, overflowed, cleared>>
  IN  /\ UNION Range(fates) = sent
      /\ \A i, j \in DOMAIN fates : i # j => fates[i] \cap fates[j] = {}
      /\ \A e, f \in paired : e.p = f.p => e = f
=============================================================================
