--------------------------- MODULE PassingMatcher ---------------------------
(***************************************************************************)
(* A gate with a light barrier and a transponder loop at one spot: beam    *)
(* edges arrive at once, reads some time after the car, and a pair may be  *)
(* sent only once nothing still on its way could change it.  Time is in    *)
(* whole units; windows and lags are named as in the code.                 *)
(***************************************************************************)
EXTENDS Integers, FiniteSets

CONSTANTS
  Cars,          \* each is read once
  Window,        \* PAIR_WINDOW_MS
  ReadLag,       \* READ_LAG_MS
  AcceptedLag,   \* the lag up to which a read keeps its own timestamp
  Lockout,       \* BEAM_LOCKOUT_MS
  Lag,           \* how late a read really comes, at most
  MaxEdges,      \* bound on accepted beam edges
  MaxTime        \* bound on time

None == "none"   \* a beam no car is known for

ASSUME MatcherAssumption ==
  /\ Window \in Nat /\ ReadLag \in Nat /\ AcceptedLag \in Nat /\ Lag \in Nat
  /\ Lockout \in Nat \ {0} /\ MaxEdges \in Nat /\ MaxTime \in Nat
  /\ None \notin Cars

VARIABLES
  now,
  beams, reads,   \* what the matcher holds: edges, and reads [car, t]
  emitted,        \* those of them that went out
  coming,         \* reads not yet reported
  sent,           \* history: what went out
  edges, passed,  \* history: every accepted edge, every read as it was reported
  running

vars == <<now, beams, reads, emitted, coming, sent, edges, passed, running>>

-----------------------------------------------------------------------------
(* The pairing rule, over the items it is asked about *)

Near(items, t) == {i \in items : i.t - t \in (-Window) .. Window}

\* partner: the one read near a beam that has no other beam near.
Partners(bs, rs, b) ==
  LET near == Near(rs, b.t)
  IN {r \in near : near = {r} /\ Cardinality(Near(bs, r.t)) = 1}

\* What becomes of a beam and of a read, given all there is.
BeamVerdict(bs, rs, b) ==
  [t |-> b.t,
   car |-> IF Partners(bs, rs, b) = {} THEN None
           ELSE (CHOOSE r \in Partners(bs, rs, b) : TRUE).car,
   note |-> IF Partners(bs, rs, b) # {} THEN "pair"
            ELSE IF Near(rs, b.t) # {} THEN "candidates" ELSE "lone"]

\* A read whose beam was sent with it has nothing left to send.
ReadVerdicts(bs, rs, r) ==
  LET near == Near(bs, r.t)
  IN IF \E b \in near : near = {b} /\ Partners(bs, rs, b) = {r} THEN {}
     ELSE {[t |-> r.t, car |-> r.car, note |-> IF near = {} THEN "missed" ELSE "ambiguous"]}

-----------------------------------------------------------------------------
(* The matcher *)

\* Mutant: a beam's own window only, not that of its reads' neighbours.
SettleOneWindow(t) == t + Window + ReadLag <= now

\* Everything that could pair with an item at t, or with its partner, is here.
Settled(t) == t + 2 * Window + ReadLag <= now

\* Mutant: what went out is forgotten once it is settled.
ForgetSettled(t) == FALSE

\* Emitted items still matter to their neighbours until those settle.
StillMatters(t) == t >= now - 2 * (2 * Window + ReadLag)

\* flush, with the beams and reads it takes to be settled.
Emit(bs, rs) ==
  /\ sent' = sent \cup {BeamVerdict(beams, reads, b) : b \in bs}
                  \cup UNION {ReadVerdicts(beams, reads, r) : r \in rs}
  /\ emitted' = emitted \cup bs \cup rs

Flush ==
  /\ running
  /\ Emit({b \in beams : b \notin emitted /\ Settled(b.t)},
          {r \in reads : r \notin emitted /\ Settled(r.t)})
  /\ beams' = {b \in beams : b \notin emitted' \/ StillMatters(b.t)}
  /\ reads' = {r \in reads : r \notin emitted' \/ StillMatters(r.t)}
  /\ UNCHANGED <<now, coming, edges, passed, running>>

\* stop: what still waits goes out as it stands; later reads are lost.
Stop ==
  /\ running /\ running' = FALSE
  /\ Emit(beams \ emitted, reads \ emitted)
  /\ beams' = {} /\ reads' = {}
  /\ UNCHANGED <<now, coming, edges, passed>>

-----------------------------------------------------------------------------
(* What the decoders report *)

\* acceptTrigger: edges within the lockout of an accepted one are the same car.
Edge ==
  /\ running /\ Cardinality(edges) < MaxEdges
  /\ \A e \in edges : now - e.t >= Lockout
  /\ edges' = edges \cup {[t |-> now]}
  /\ beams' = beams \cup {[t |-> now]}
  /\ UNCHANGED <<now, reads, emitted, coming, sent, passed, running>>

\* A car is over the loop; its read is reported later.
OverLoop(c) ==
  /\ \A r \in coming \cup passed : r.car # c
  /\ coming' = coming \cup {[car |-> c, t |-> now]}
  /\ UNCHANGED <<now, beams, reads, emitted, sent, edges, passed, running>>

\* The line is parsed; too old a timestamp gives way to the time of receipt.
Report(r) ==
  /\ running /\ r \in coming
  /\ LET read == [r EXCEPT !.t = IF now - r.t <= AcceptedLag THEN r.t ELSE now]
     IN reads' = reads \cup {read} /\ passed' = passed \cup {read}
  /\ coming' = coming \ {r}
  /\ UNCHANGED <<now, beams, emitted, sent, edges, running>>

\* No read is later than Lag.
TimePasses ==
  /\ now < MaxTime /\ \A r \in coming : now < r.t + Lag
  /\ now' = now + 1
  /\ UNCHANGED <<beams, reads, emitted, coming, sent, edges, passed, running>>

-----------------------------------------------------------------------------
Init ==
  /\ now = 0 /\ beams = {} /\ reads = {} /\ emitted = {} /\ coming = {}
  /\ sent = {} /\ edges = {} /\ passed = {} /\ running = TRUE

Next ==
  \/ TimePasses \/ Flush \/ Stop \/ Edge
  \/ \E c \in Cars : OverLoop(c)
  \/ \E r \in coming : Report(r)

Spec == Init /\ [][Next]_vars

-----------------------------------------------------------------------------
(* Properties *)

\* "A detection goes out once nothing still on its way could change its
\* pairing": what a running gate sent is what the pairing rule says of all the
\* edges and reads there ever were, those that came later included.
SettledVerdictsStand ==
  running => LET all == passed \cup coming IN
    sent \subseteq {BeamVerdict(edges, all, b) : b \in edges}
                     \cup UNION {ReadVerdicts(edges, all, r) : r \in all}

\* Nothing is lost and nothing goes out twice: every edge and every reported
\* read goes out once, or waits, itself or with the beam it is paired with;
\* "every drop is a warning".
EveryItemGoesOutOnce ==
  LET Waiting == (beams \cup reads) \ emitted
      Sent(i) == {v \in sent : IF i \in edges THEN v.t = i.t /\ v.note \in {"pair", "candidates", "lone"}
                                             ELSE v.car = i.car}
  IN \A i \in edges \cup passed :
       /\ Cardinality(Sent(i)) <= 1
       /\ \/ Sent(i) # {} \/ i \in Waiting
          \/ \E b \in Waiting \cap edges : Partners(beams, reads, b) = {i}
=============================================================================
