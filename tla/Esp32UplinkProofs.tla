--------------------------- MODULE Esp32UplinkProofs ---------------------------
(***************************************************************************)
(* What a beep promises, for any number of taps, boots, slots and message  *)
(* ids and any capacity.  Two facts carry it: an id is reused only when no *)
(* message, slot or acknowledgement still has it, so an acknowledgement    *)
(* found in the queue is of the detection whose slot has its id            *)
(* (SlotsInv), and what a buffered detection needs to work out its time    *)
(* never changes within its boot (TimesInv).  A third bounds what the      *)
(* rewrite of a file can cost: only the file of a tap from before the sync *)
(* of its boot is ever written again (SpoiltInv).                          *)
(***************************************************************************)
EXTENDS Esp32Uplink, FiniteSetTheorems, TLAPS

Detection == [whole : BOOLEAN, wall : Int, boot : Int, mono : Int]
Message == [id : Ids, tap : Taps, time : Int, known : BOOLEAN]

Kinds ==
  /\ now \in Int /\ boot \in Int /\ bootedAt \in Int /\ now >= 1
  /\ flash \in [DOMAIN flash -> Detection]
  /\ slots \in [DOMAIN slots -> Ids]
  /\ outbox \subseteq Message
  /\ stored \in [DOMAIN stored -> [time : Int, known : BOOLEAN]]
  /\ tapped \in [DOMAIN tapped -> [time : Int, boot : Int, early : BOOLEAN]]
  /\ DOMAIN tapped \subseteq Taps

SlotsInv ==
  /\ \A m \in outbox : \A d \in DOMAIN slots : slots[d] = m.id => d = m.tap
  /\ \A d \in DOMAIN slots : slots[d] \in acks => d \in DOMAIN stored \cup cleared

TimesInv ==
  /\ \A d \in DOMAIN tapped : tapped[d].time >= 1
  /\ \A d \in DOMAIN flash : flash[d].whole =>
       /\ d \in DOMAIN tapped
       /\ flash[d].wall # NoTime => flash[d].wall = tapped[d].time
       /\ flash[d].boot <= boot
       /\ flash[d].boot = boot => bootedAt + flash[d].mono = tapped[d].time
  /\ \A m \in outbox : m.tap \in DOMAIN tapped /\ (m.known => m.time = tapped[m.tap].time)
  /\ \A d \in DOMAIN stored : d \in DOMAIN tapped
  /\ \A d \in cleared : d \in DOMAIN tapped /\ d \notin DOMAIN flash

SpoiltInv ==
  /\ \A d \in DOMAIN flash :
       (flash[d].whole /\ flash[d].wall = NoTime) => tapped[d].early
  /\ \A d \in spoilt : d \in DOMAIN tapped /\ tapped[d].early

EspInv ==
  /\ Kinds /\ SlotsInv /\ TimesInv /\ SpoiltInv
  /\ BeepedTapIsSafe /\ KnownTimeIsTrue

-----------------------------------------------------------------------------
\* An empty buffer, no slots.
LEMMA NoneIsEmpty ==
  ASSUME NEW S
  PROVE  DOMAIN None = {} /\ None \in [DOMAIN None -> S]
  BY DEF None

LEMMA EspInit == Init => EspInv
<1> SUFFICES ASSUME Init PROVE EspInv
    OBVIOUS
<1>1. Kinds
      BY NoneIsEmpty DEF Init, Kinds
<1> QED BY <1>1, NoneIsEmpty DEF Init, EspInv, SlotsInv, TimesInv, SpoiltInv, BeepedTapIsSafe,
                                 KnownTimeIsTrue

-----------------------------------------------------------------------------
\* A tap enters the buffer, whole and with what its time is worked out from.
LEMMA TapKeeps ==
  ASSUME EspInv, NEW d \in Taps, Tap(d)
  PROVE  EspInv'
<1> DEFINE r == Recorded(TRUE)
           t == [time |-> now, boot |-> boot, early |-> ~synced]
<1>1. r \in Detection /\ t \in [time : Int, boot : Int, early : BOOLEAN]
      BY DEF EspInv, Kinds, Recorded, Detection, Mono, NoTime
<1>2. /\ flash' = With(flash, d, r) /\ tapped' = With(tapped, d, t)
      /\ UNCHANGED <<clock, slots, outbox, acks, stored, cleared, spoilt>>
      /\ d \notin DOMAIN tapped /\ d \notin DOMAIN flash /\ d \notin DOMAIN stored
      BY DEF Tap, New
<1> HIDE DEF r, t
<1>3. /\ flash' \in [DOMAIN flash' -> Detection] /\ DOMAIN flash' = DOMAIN flash \cup {d}
      /\ flash'[d] = r /\ \A e \in DOMAIN flash : flash'[e] = flash[e]
  <2>1. flash \in [DOMAIN flash -> Detection]
        BY DEF EspInv, Kinds
  <2> QED BY <1>1, <1>2, <2>1 DEF With
<1>4. /\ tapped' \in [DOMAIN tapped' -> [time : Int, boot : Int, early : BOOLEAN]]
      /\ DOMAIN tapped' = DOMAIN tapped \cup {d}
      /\ tapped'[d] = t /\ \A e \in DOMAIN tapped : tapped'[e] = tapped[e]
  <2>1. tapped \in [DOMAIN tapped -> [time : Int, boot : Int, early : BOOLEAN]]
        BY DEF EspInv, Kinds
  <2> QED BY <1>1, <1>2, <2>1 DEF With
<1>5. Kinds'
      BY <1>2, <1>3, <1>4 DEF EspInv, Kinds, clock
<1>6. SlotsInv'
      BY <1>2 DEF EspInv, SlotsInv
<1>7. TimesInv'
  <2>1. /\ t.time = now /\ r.boot = boot /\ r.mono = now - bootedAt
        /\ r.wall # NoTime => r.wall = now
        BY DEF r, t, Recorded, Mono
  <2> QED BY <1>2, <1>3, <1>4, <2>1 DEF EspInv, Kinds, TimesInv, clock, Detection
<1>8. SpoiltInv'
  <2>1. now # NoTime
        BY DEF EspInv, Kinds, NoTime
  <2>2. r.wall = NoTime => t.early
        BY <2>1 DEF r, t, Recorded
  <2>3. \A e \in DOMAIN flash : flash[e].whole => e \in DOMAIN tapped
        BY DEF EspInv, TimesInv
  <2> QED BY <1>2, <1>3, <1>4, <2>2, <2>3 DEF EspInv, SpoiltInv
<1>9. BeepedTapIsSafe'
  <2>1. r.whole
        BY DEF r, Recorded
  <2> QED BY <1>2, <1>3, <1>4, <2>1 DEF EspInv, BeepedTapIsSafe, MayBeLost
<1>10. KnownTimeIsTrue'
      BY <1>2, <1>4 DEF EspInv, KnownTimeIsTrue, TimesInv
<1> QED BY <1>5, <1>6, <1>7, <1>8, <1>9, <1>10 DEF EspInv

\* The top of the loop deletes only what the server has: an acknowledged id
\* still belongs to the detection in its slot.
LEMMA HandleAcksKeeps ==
  ASSUME EspInv, NEW timedOut, HandleAcks(timedOut)
  PROVE  EspInv'
<1> DEFINE seen == IF wasConnected /\ ~connected THEN None ELSE slots
           done == Done(seen)
<1>1. /\ flash' = Without(flash, done) /\ slots' = Without(seen, done \cup timedOut)
      /\ acks' = {} /\ UNCHANGED <<clock, outbox, stored, tapped, cleared, spoilt>>
      BY DEF HandleAcks, history
<1>2. /\ seen \in [DOMAIN seen -> Ids] /\ DOMAIN seen \subseteq DOMAIN slots
      /\ \A d \in DOMAIN seen : seen[d] = slots[d]
      BY NoneIsEmpty DEF EspInv, Kinds
<1> HIDE DEF seen
<1>3. \A d \in done : d \in DOMAIN stored \cup cleared
      BY <1>2 DEF Done, EspInv, SlotsInv
<1> HIDE DEF done
<1>4. /\ flash' \in [DOMAIN flash' -> Detection] /\ DOMAIN flash' = DOMAIN flash \ done
      /\ \A e \in DOMAIN flash' : flash'[e] = flash[e]
  <2>1. flash \in [DOMAIN flash -> Detection]
        BY DEF EspInv, Kinds
  <2> QED BY <1>1, <2>1 DEF Without
<1>5. /\ slots' \in [DOMAIN slots' -> Ids] /\ DOMAIN slots' \subseteq DOMAIN slots
      /\ \A e \in DOMAIN slots' : slots'[e] = slots[e]
      BY <1>1, <1>2 DEF Without
<1>6. Kinds'
      BY <1>1, <1>4, <1>5 DEF EspInv, Kinds, clock
<1>7. SlotsInv'
      BY <1>1, <1>5 DEF EspInv, SlotsInv
<1>8. TimesInv'
      BY <1>1, <1>4 DEF EspInv, TimesInv, clock
<1>9. SpoiltInv'
      BY <1>1, <1>4 DEF EspInv, SpoiltInv
<1>10. BeepedTapIsSafe' /\ KnownTimeIsTrue'
      BY <1>1, <1>3, <1>4 DEF EspInv, BeepedTapIsSafe, MayBeLost, KnownTimeIsTrue
<1> QED BY <1>6, <1>7, <1>8, <1>9, <1>10 DEF EspInv

\* The rewrite leaves a file with the same boot and monotonic time, and whole
\* unless it was a rewrite that came short.
LEMMA AfterPinIs ==
  ASSUME NEW f \in Detection, f.whole, Resolve(f).time \in Int, Resolve(f).known \in BOOLEAN,
         NEW pin \in PinOutcomes
  PROVE  LET g == AfterPin(f, pin)
         IN /\ g \in Detection /\ g.boot = f.boot /\ g.mono = f.mono
            /\ g.wall = f.wall \/ (Resolve(f).known /\ g.wall = Resolve(f).time)
            /\ g.wall = NoTime => f.wall = NoTime
            /\ g.whole <=> ~(Pins(f) /\ pin = "short")
<1>1. CASE ~Pins(f) \/ pin = "not opened"
  <2>1. AfterPin(f, pin) = f
        BY <1>1 DEF AfterPin
  <2> QED BY <1>1, <2>1
<1>2. CASE Pins(f) /\ pin # "not opened"
  <2> DEFINE time == Resolve(f).time
             whole == pin = "written"
             g == [f EXCEPT !.wall = time, !.whole = whole]
  <2>1. AfterPin(f, pin) = g
        BY <1>2 DEF AfterPin
  <2>2. Resolve(f).known /\ f.wall = NoTime
        BY <1>2 DEF Pins
  <2>3. whole \in BOOLEAN /\ (whole <=> ~(pin = "short"))
        BY <1>2 DEF PinOutcomes
  <2>4. time \in Int /\ time = Resolve(f).time
        OBVIOUS
  <2> HIDE DEF time, whole
  <2>5. /\ g \in Detection /\ g.boot = f.boot /\ g.mono = f.mono
        /\ g.wall = time /\ g.whole = whole
        BY <2>3, <2>4 DEF Detection
  <2> HIDE DEF g
  <2> QED BY <1>2, <2>1, <2>2, <2>3, <2>4, <2>5
<1> QED BY <1>1, <1>2

\* What is sent is the buffered detection, under an id nothing else has.
LEMMA FlushKeeps ==
  ASSUME EspInv, NEW d \in Taps, NEW pin \in PinOutcomes, Flush(d, pin)
  PROVE  EspInv'
<1> DEFINE f == flash[d]
           g == AfterPin(f, pin)
           t == Resolve(f)
           m == [id |-> FreshId, tap |-> d, time |-> t.time, known |-> t.known]
<1>1. /\ FreshId \in Ids /\ FreshId \notin acks
      /\ \A n \in outbox : n.id # FreshId
      /\ \A e \in DOMAIN slots : slots[e] # FreshId
      BY DEF Flush, FreshId, FreshIds
<1> HIDE DEF FreshId
<1>2. /\ d \in DOMAIN flash /\ d \notin DOMAIN slots /\ f.whole
      /\ \/ outbox' = outbox \cup {m} /\ slots' = With(slots, d, FreshId)
         \/ UNCHANGED <<outbox, slots>>
      /\ flash' = [flash EXCEPT ![d] = g]
      /\ spoilt' = spoilt \cup {e \in {d} : Pins(flash[e]) /\ pin = "short"}
      /\ UNCHANGED <<clock, acks, stored, tapped, cleared>>
      BY DEF Flush, Sendable
<1>3. /\ f \in Detection /\ d \in DOMAIN tapped
      /\ t.known \in BOOLEAN /\ t.time \in Int
      /\ t.known => t.time = tapped[d].time
  <2>1. f \in Detection /\ now \in Int /\ bootedAt \in Int
        BY <1>2 DEF EspInv, Kinds
  <2>2. /\ d \in DOMAIN tapped /\ tapped[d].time \in Int
        /\ f.wall # NoTime => f.wall = tapped[d].time
        /\ f.boot = boot => bootedAt + f.mono = tapped[d].time
        BY <1>2 DEF EspInv, Kinds, TimesInv
  <2> QED BY <2>1, <2>2 DEF Resolve, Mono, Detection
<1>4. /\ g \in Detection /\ g.boot = f.boot /\ g.mono = f.mono
      /\ g.wall = f.wall \/ g.wall = tapped[d].time
      /\ g.wall = NoTime => f.wall = NoTime
      /\ g.whole <=> ~(Pins(f) /\ pin = "short")
      BY <1>2, <1>3, AfterPinIs
<1>5. Pins(f) => tapped[d].early
      BY <1>2 DEF Pins, EspInv, SpoiltInv
<1> HIDE DEF t, g
<1>6. /\ flash' \in [DOMAIN flash' -> Detection] /\ DOMAIN flash' = DOMAIN flash
      /\ flash'[d] = g /\ \A e \in DOMAIN flash : e # d => flash'[e] = flash[e]
  <2>1. flash \in [DOMAIN flash -> Detection]
        BY DEF EspInv, Kinds
  <2> QED BY <1>2, <1>4, <2>1
<1>7. /\ slots' \in [DOMAIN slots' -> Ids]
      /\ DOMAIN slots' \subseteq DOMAIN slots \cup {d}
      /\ \A e \in DOMAIN slots : slots'[e] = slots[e]
      /\ d \in DOMAIN slots' => slots'[d] = FreshId /\ outbox' = outbox \cup {m}
      /\ d \notin DOMAIN slots' => outbox' = outbox
      /\ outbox' \subseteq outbox \cup {m}
  <2>1. slots \in [DOMAIN slots -> Ids]
        BY DEF EspInv, Kinds
  <2> HIDE DEF m
  <2> QED BY <1>1, <1>2, <2>1 DEF With
<1>8. m \in Message /\ m.id = FreshId /\ m.tap = d
      /\ (m.known => m.time = tapped[d].time)
      BY <1>1, <1>3 DEF Message
<1>9. /\ spoilt \subseteq spoilt' /\ spoilt' \subseteq spoilt \cup {d}
      /\ (d \in spoilt' /\ d \notin spoilt) => Pins(f)
      /\ ~g.whole => d \in spoilt' /\ Pins(f)
      BY <1>2, <1>4
<1> HIDE DEF m, f
<1>10. Kinds'
      BY <1>2, <1>6, <1>7, <1>8 DEF EspInv, Kinds, clock
<1>11. SlotsInv'
      BY <1>1, <1>2, <1>7, <1>8 DEF EspInv, SlotsInv
<1>12. TimesInv'
  <2>1. /\ tapped' = tapped /\ boot' = boot /\ bootedAt' = bootedAt
        /\ stored' = stored
        BY <1>2 DEF clock
  <2>2. f = flash[d]
        BY DEF f
  <2> QED BY <1>2, <1>3, <1>4, <1>6, <1>7, <1>8, <2>1, <2>2 DEF EspInv, TimesInv
<1>13. SpoiltInv'
  <2>1. f = flash[d] /\ tapped' = tapped
        BY <1>2 DEF f
  <2> QED BY <1>2, <1>3, <1>4, <1>5, <1>6, <1>9, <2>1 DEF EspInv, SpoiltInv
<1>14. BeepedTapIsSafe'
  <2>1. MayBeLost \subseteq MayBeLost' /\ (~g.whole => d \in MayBeLost')
        BY <1>2, <1>3, <1>5, <1>9 DEF MayBeLost
  <2>2. UNCHANGED <<tapped, stored>>
        BY <1>2
  <2> QED BY <1>2, <1>6, <2>1, <2>2 DEF EspInv, BeepedTapIsSafe
<1>15. KnownTimeIsTrue'
      BY <1>2 DEF EspInv, KnownTimeIsTrue
<1> QED BY <1>10, <1>11, <1>12, <1>13, <1>14, <1>15 DEF EspInv

\* A message arrives: the server keeps the first copy, and only its id comes back.
LEMMA DeliverKeeps ==
  ASSUME EspInv, NEW m \in outbox, Deliver(m) \/ DeliverUnacked(m)
  PROVE  EspInv'
<1> DEFINE v == [time |-> m.time, known |-> m.known]
<1>1. /\ stored' = IF m.tap \in DOMAIN stored THEN stored ELSE With(stored, m.tap, v)
      /\ UNCHANGED <<clock, flash, slots, tapped, cleared, spoilt>>
      /\ outbox' \subseteq outbox /\ acks' \subseteq acks \cup {m.id}
      BY DEF Deliver, DeliverUnacked, history
<1>2. m \in Message /\ v \in [time : Int, known : BOOLEAN]
      BY DEF EspInv, Kinds, Message
<1>3. /\ stored' \in [DOMAIN stored' -> [time : Int, known : BOOLEAN]]
      /\ DOMAIN stored' = DOMAIN stored \cup {m.tap}
      /\ \A e \in DOMAIN stored : stored'[e] = stored[e]
      /\ m.tap \notin DOMAIN stored => stored'[m.tap] = v
  <2>1. stored \in [DOMAIN stored -> [time : Int, known : BOOLEAN]]
        BY DEF EspInv, Kinds
  <2> HIDE DEF v
  <2>2. CASE m.tap \in DOMAIN stored
        BY <1>1, <2>1, <2>2
  <2>3. CASE m.tap \notin DOMAIN stored
        BY <1>1, <1>2, <2>1, <2>3 DEF With
  <2> QED BY <2>2, <2>3
<1>4. Kinds'
      BY <1>1, <1>3 DEF EspInv, Kinds, clock
<1>5. SlotsInv'
      BY <1>1, <1>3 DEF EspInv, SlotsInv
<1>6. TimesInv'
      BY <1>1, <1>3 DEF EspInv, TimesInv, clock
<1>7. SpoiltInv'
      BY <1>1 DEF EspInv, SpoiltInv
<1>8. BeepedTapIsSafe' /\ KnownTimeIsTrue'
      BY <1>1, <1>3 DEF EspInv, BeepedTapIsSafe, MayBeLost, KnownTimeIsTrue, TimesInv
<1> QED BY <1>4, <1>5, <1>6, <1>7, <1>8 DEF EspInv

\* A new boot: RAM is empty, and at most one file is half written, of a tap that
\* was not beeped for or of one whose time was to be pinned.
LEMMA PowerCutKeeps ==
  ASSUME EspInv, NEW torn \in SUBSET Taps, PowerCut(torn)
  PROVE  EspInv'
<1> DEFINE r(d) == IF New(d) THEN Recorded(FALSE) ELSE AfterPin(flash[d], "short")
<1>1. \A d \in torn :
        \/ New(d)
        \/ /\ d \in DOMAIN flash /\ d \in DOMAIN tapped /\ tapped[d].early
           /\ flash[d].whole /\ Pins(flash[d]) /\ ~New(d)
  <2>1. \A d \in DOMAIN flash : flash[d].whole => d \in DOMAIN tapped
        BY DEF EspInv, TimesInv
  <2>2. \A d \in DOMAIN flash : (flash[d].whole /\ Pins(flash[d])) => tapped[d].early
        BY DEF EspInv, SpoiltInv, Pins
  <2> QED BY <2>1, <2>2 DEF PowerCut, Sendable, New
<1>2. \A d \in torn : r(d) \in Detection /\ ~r(d).whole
  <2> SUFFICES ASSUME NEW d \in torn PROVE r(d) \in Detection /\ ~r(d).whole
      OBVIOUS
  <2>1. CASE New(d)
        BY <2>1 DEF EspInv, Kinds, Recorded, Detection, Mono, NoTime
  <2>2. CASE ~New(d)
    <3>1. /\ flash[d] \in Detection /\ flash[d].whole /\ Pins(flash[d])
          /\ now \in Int /\ bootedAt \in Int
          BY <1>1, <2>2 DEF EspInv, Kinds
    <3>2. Resolve(flash[d]).time \in Int /\ Resolve(flash[d]).known \in BOOLEAN
          BY <3>1 DEF Resolve, Mono, Detection
    <3>3. "short" \in PinOutcomes
          BY DEF PinOutcomes
    <3> QED BY <2>2, <3>1, <3>2, <3>3, AfterPinIs
  <2> QED BY <2>1, <2>2
<1>3. /\ flash' = [d \in DOMAIN flash \cup torn |-> IF d \notin torn THEN flash[d] ELSE r(d)]
      /\ spoilt' = spoilt \cup (torn \cap DOMAIN flash)
      /\ slots' = None /\ outbox' = {} /\ acks' = {}
      /\ boot' = boot + 1 /\ bootedAt' = now /\ UNCHANGED <<now, stored, tapped, cleared>>
      BY DEF PowerCut
<1> HIDE DEF r
<1>4. /\ flash' \in [DOMAIN flash' -> Detection] /\ DOMAIN flash' = DOMAIN flash \cup torn
      /\ \A d \in DOMAIN flash \ torn : flash'[d] = flash[d]
      /\ \A d \in torn : ~flash'[d].whole
  <2>1. flash \in [DOMAIN flash -> Detection]
        BY DEF EspInv, Kinds
  <2> QED BY <1>2, <1>3, <2>1
<1>5. Kinds'
      BY <1>3, <1>4, NoneIsEmpty DEF EspInv, Kinds
<1>6. SlotsInv'
      BY <1>3, NoneIsEmpty DEF EspInv, SlotsInv
<1>7. TimesInv'
  <2>1. \A d \in DOMAIN flash : flash[d].boot \in Int
        BY DEF EspInv, Kinds, Detection
  <2>2. \A d \in DOMAIN flash' : flash'[d].whole =>
          d \in DOMAIN flash /\ flash'[d] = flash[d]
        BY <1>4
  <2>3. \A d \in cleared : d \notin torn
        BY <1>1 DEF EspInv, TimesInv, New
  <2> QED BY <1>3, <1>4, <2>1, <2>2, <2>3 DEF EspInv, Kinds, TimesInv
<1>8. SpoiltInv'
  <2>1. \A d \in torn \cap DOMAIN flash : d \in DOMAIN tapped /\ tapped[d].early
        BY <1>1 DEF New
  <2> QED BY <1>3, <1>4, <2>1 DEF EspInv, SpoiltInv
<1>9. BeepedTapIsSafe'
  <2>1. \A d \in torn : d \in DOMAIN tapped => d \in MayBeLost'
        BY <1>1, <1>3 DEF MayBeLost, New
  <2>2. MayBeLost \subseteq MayBeLost'
        BY <1>3 DEF MayBeLost
  <2> QED BY <1>3, <1>4, <2>1, <2>2 DEF EspInv, BeepedTapIsSafe
<1>10. KnownTimeIsTrue'
      BY <1>3 DEF EspInv, KnownTimeIsTrue
<1> QED BY <1>5, <1>6, <1>7, <1>8, <1>9, <1>10 DEF EspInv

LEMMA EspNext == EspInv /\ [Next]_vars => EspInv'
<1> SUFFICES ASSUME EspInv, [Next]_vars PROVE EspInv'
    OBVIOUS
<1> USE DEF EspInv
<1>1. CASE \E d \in Taps : Tap(d)
      BY <1>1, TapKeeps
<1>2. CASE \E timedOut \in SUBSET Taps : HandleAcks(timedOut)
      BY <1>2, HandleAcksKeeps
<1>3. CASE \E d \in Taps : \E pin \in PinOutcomes : Flush(d, pin)
      BY <1>3, FlushKeeps
<1>4. CASE \E m \in outbox : Deliver(m) \/ DeliverUnacked(m)
      BY <1>4, DeliverKeeps
<1>5. CASE \E torn \in SUBSET Taps : PowerCut(torn)
      BY <1>5, PowerCutKeeps
<1>6. CASE \E d \in Taps : DeleteUnreadable(d)
  <2> PICK d \in Taps : DeleteUnreadable(d)
      BY <1>6
  <2>1. /\ flash \in [DOMAIN flash -> Detection] /\ flash' = Without(flash, {d})
        /\ ~flash[d].whole
        /\ UNCHANGED <<clock, slots, outbox, acks, stored, tapped, cleared, spoilt>>
        BY DEF DeleteUnreadable, Kinds, history
  <2>2. /\ flash' \in [DOMAIN flash' -> Detection] /\ DOMAIN flash' = DOMAIN flash \ {d}
        /\ \A e \in DOMAIN flash' : flash'[e] = flash[e]
        BY <2>1 DEF Without
  <2>3. Kinds'
        BY <2>1, <2>2 DEF Kinds, clock
  <2>4. SlotsInv'
        BY <2>1 DEF SlotsInv
  <2>5. /\ UNCHANGED <<boot, bootedAt>>
        /\ DOMAIN flash' \subseteq DOMAIN flash /\ \A e \in DOMAIN flash' : flash'[e] = flash[e]
        BY <2>1, <2>2 DEF clock
  <2>6. TimesInv'
    <3>1. TimesInv
          BY DEF EspInv
    <3>2. /\ \A e \in DOMAIN tapped' : tapped'[e].time >= 1
          /\ \A m \in outbox' : m.tap \in DOMAIN tapped' /\ (m.known => m.time = tapped'[m.tap].time)
          /\ \A e \in DOMAIN stored' : e \in DOMAIN tapped'
          /\ \A e \in cleared' : e \in DOMAIN tapped' /\ e \notin DOMAIN flash'
          BY ONLY <2>1, <2>5, <3>1 DEF TimesInv
    <3>3. \A e \in DOMAIN flash' : flash'[e].whole =>
            /\ e \in DOMAIN tapped'
            /\ flash'[e].wall # NoTime => flash'[e].wall = tapped'[e].time
            /\ flash'[e].boot <= boot'
            /\ flash'[e].boot = boot' => bootedAt' + flash'[e].mono = tapped'[e].time
      <4> TAKE e \in DOMAIN flash'
      <4>1. e \in DOMAIN flash /\ flash'[e] = flash[e]
            BY <2>5
      <4> QED BY ONLY <2>1, <2>5, <3>1, <4>1 DEF TimesInv
    <3> QED BY <3>2, <3>3 DEF TimesInv
  <2>7. SpoiltInv'
        BY <2>1, <2>2 DEF SpoiltInv
  <2>8. BeepedTapIsSafe' /\ KnownTimeIsTrue'
        BY <2>1, <2>2 DEF BeepedTapIsSafe, MayBeLost, KnownTimeIsTrue
  <2> QED BY <2>3, <2>4, <2>6, <2>7, <2>8
<1>7. CASE ClearBuffered
  <2>1. Kinds'
        BY <1>7, NoneIsEmpty DEF ClearBuffered, Kinds, clock
  <2>2. SlotsInv' /\ TimesInv' /\ SpoiltInv'
        BY <1>7, NoneIsEmpty DEF ClearBuffered, SlotsInv, TimesInv, SpoiltInv, clock
  <2>3. BeepedTapIsSafe' /\ KnownTimeIsTrue'
        BY <1>7 DEF ClearBuffered, BeepedTapIsSafe, MayBeLost, KnownTimeIsTrue
  <2> QED BY <2>1, <2>2, <2>3
<1>8. CASE TimePasses \/ Sync \/ MqttUp \/ MqttDown \/ (\E m \in outbox : OutboxExpires(m))
           \/ UNCHANGED vars
  <2>1. /\ UNCHANGED <<boot, bootedAt, flash, slots, acks, stored, tapped, cleared, spoilt>>
        /\ outbox' \subseteq outbox /\ now' \in {now, now + 1}
        BY <1>8 DEF TimePasses, Sync, MqttUp, MqttDown, OutboxExpires, vars, clock, link, history
  <2>2. Kinds'
        BY <2>1 DEF Kinds
  <2>3. SlotsInv' /\ TimesInv' /\ SpoiltInv'
        BY <2>1 DEF SlotsInv, TimesInv, SpoiltInv
  <2>4. BeepedTapIsSafe' /\ KnownTimeIsTrue'
        BY <2>1 DEF BeepedTapIsSafe, MayBeLost, KnownTimeIsTrue
  <2> QED BY <2>2, <2>3, <2>4
<1> QED BY <1>1, <1>2, <1>3, <1>4, <1>5, <1>6, <1>7, <1>8 DEF Next, Loop

\* A beep is a promise: a tap the driver heard one for is in flash until the
\* server has it or a marshal deleted it, whatever is lost, resent or cut off; one
\* from before the sync, also until a rewrite that is to pin its time comes short.
THEOREM BeepIsAPromise == Spec => []BeepedTapIsSafe
<1>1. EspInv => BeepedTapIsSafe
      BY DEF EspInv
<1> QED BY EspInit, EspNext, <1>1, PTL DEF Spec

\* A time sent as known is the time of the tap, at every server it reaches:
\* also when it was worked out after the sync, pinned or resent.
THEOREM KnownTimesAreTrue == Spec => []KnownTimeIsTrue
<1>1. EspInv => KnownTimeIsTrue
      BY DEF EspInv
<1> QED BY EspInit, EspNext, <1>1, PTL DEF Spec
-----------------------------------------------------------------------------
(* The limits: the flash, the slots and the queue of acknowledgements never *)
(* hold more than they have room for, and no two slots share an id.         *)

Within(S, n) == IsFiniteSet(S) /\ Cardinality(S) <= n

LEMMA FewerFit ==
  ASSUME NEW S, NEW n \in Int, Within(S, n), NEW T \in SUBSET S
  PROVE  Within(T, n)
  BY FS_Subset, FS_CardinalityType DEF Within

LEMMA OneMoreFits ==
  ASSUME NEW S, NEW n \in Int, Within(S, n), Cardinality(S) < n, NEW x,
         NEW T, T = S \cup {x}
  PROVE  Within(T, n)
<1>1. IsFiniteSet(S) /\ Cardinality(S) \in Nat
      BY FS_CardinalityType DEF Within
<1>2. IsFiniteSet(T) /\ Cardinality(T) <= Cardinality(S) + 1
      BY <1>1, FS_AddElement
<1> QED BY <1>1, <1>2, FS_CardinalityType DEF Within

LEMMA NothingFits ==
  ASSUME NEW n \in Nat
  PROVE  Within({}, n)
  BY FS_EmptySet DEF Within

Limits ==
  /\ now \in 1 .. MaxTime /\ boot \in 1 .. MaxBoots /\ bootedAt \in 1 .. now
  /\ DOMAIN flash \subseteq Taps /\ Within(DOMAIN flash, Capacity)
  /\ DOMAIN slots \subseteq Taps /\ Within(DOMAIN slots, MaxInFlight)
  /\ \A d, e \in DOMAIN slots : slots[d] = slots[e] => d = e
  /\ acks \subseteq Ids /\ Within(acks, AckQueue)
  /\ DOMAIN stored \subseteq Taps /\ DOMAIN tapped \subseteq Taps
  /\ spoilt \subseteq Taps

LEMMA LimitsInit == Init => Limits
<1> SUFFICES ASSUME Init PROVE Limits
    OBVIOUS
<1>1. /\ Within({}, Capacity) /\ Within({}, MaxInFlight) /\ Within({}, AckQueue)
      BY UplinkAssumption, NothingFits
<1>2. DOMAIN None = {}
      BY DEF None
<1> QED BY <1>1, <1>2, UplinkAssumption DEF Init, Limits

\* A tap that is beeped for had room in flash.
LEMMA TapFits ==
  ASSUME Limits, NEW d \in Taps, Tap(d)
  PROVE  Limits'
<1>1. /\ DOMAIN flash' = DOMAIN flash \cup {d} /\ Cardinality(DOMAIN flash) < Capacity
      /\ DOMAIN tapped' = DOMAIN tapped \cup {d}
      /\ UNCHANGED <<now, boot, bootedAt, slots, acks, stored, spoilt>>
      BY DEF Tap, With, clock
<1>2. Within(DOMAIN flash', Capacity)
      BY <1>1, OneMoreFits, UplinkAssumption DEF Limits
<1> QED BY <1>1, <1>2 DEF Limits

\* What leaves the buffer, the slots or the queue makes room.
LEMMA EmptyingFits ==
  ASSUME Limits, UNCHANGED <<now, boot, bootedAt, stored, tapped, spoilt>>,
         DOMAIN flash' \subseteq DOMAIN flash, DOMAIN slots' \subseteq DOMAIN slots,
         \A d \in DOMAIN slots' : slots'[d] = slots[d],
         acks' \subseteq acks
  PROVE  Limits'
<1>1. /\ Within(DOMAIN flash', Capacity) /\ Within(DOMAIN slots', MaxInFlight)
      /\ Within(acks', AckQueue)
      BY FewerFit, UplinkAssumption DEF Limits
<1> QED BY <1>1 DEF Limits

\* A message is sent only with a slot for it, and under an id of its own.
LEMMA FlushFits ==
  ASSUME Limits, NEW d \in Taps, NEW pin \in PinOutcomes, Flush(d, pin)
  PROVE  Limits'
<1>1. /\ DOMAIN flash' = DOMAIN flash
      /\ d \notin DOMAIN slots /\ Cardinality(DOMAIN slots) < MaxInFlight
      /\ UNCHANGED <<now, boot, bootedAt, acks, stored, tapped>>
      /\ spoilt' \subseteq spoilt \cup {d}
      /\ slots' = With(slots, d, FreshId) \/ slots' = slots
      BY DEF Flush, Sendable, clock
<1>2. CASE slots' = With(slots, d, FreshId)
  <2>1. /\ DOMAIN slots' = DOMAIN slots \cup {d}
        /\ slots'[d] = FreshId /\ \A e \in DOMAIN slots : slots'[e] = slots[e]
        BY <1>1, <1>2 DEF With
  <2>2. \A e \in DOMAIN slots : slots[e] # FreshId
        BY DEF Flush, FreshId, FreshIds
  <2>3. Within(DOMAIN slots', MaxInFlight)
        BY <1>1, <2>1, OneMoreFits, UplinkAssumption DEF Limits
  <2> HIDE DEF FreshId
  <2>4. \A e, f \in DOMAIN slots' : slots'[e] = slots'[f] => e = f
        BY <1>1, <2>1, <2>2 DEF Limits
  <2> QED BY <1>1, <2>1, <2>3, <2>4 DEF Limits
<1>3. CASE slots' = slots
      BY <1>1, <1>3 DEF Limits
<1> QED BY <1>1, <1>2, <1>3

\* An acknowledgement that finds the queue full is dropped.
LEMMA DeliverFits ==
  ASSUME EspInv, Limits, NEW m \in outbox, Deliver(m) \/ DeliverUnacked(m)
  PROVE  Limits'
<1>1. m.id \in Ids /\ m.tap \in Taps
      BY DEF EspInv, Kinds, Message
<1>2. /\ DOMAIN stored' \subseteq DOMAIN stored \cup {m.tap}
      /\ UNCHANGED <<now, boot, bootedAt, flash, slots, tapped, spoilt>>
      BY DEF Deliver, DeliverUnacked, With, clock, history
<1>3. CASE acks' = acks
      BY <1>1, <1>2, <1>3 DEF Limits
<1>4. CASE acks' # acks
  <2>1. acks' = acks \cup {m.id} /\ Cardinality(acks) < AckQueue
        BY <1>4 DEF Deliver, DeliverUnacked
  <2>2. Within(acks, AckQueue) /\ AckQueue \in Int
        BY UplinkAssumption DEF Limits
  <2>3. Within(acks', AckQueue)
        BY <2>1, <2>2, OneMoreFits
  <2> QED BY <1>1, <1>2, <2>1, <2>3 DEF Limits
<1> QED BY <1>3, <1>4

\* The file that was being written when the power went had room as well.
LEMMA PowerCutFits ==
  ASSUME Limits, NEW torn \in SUBSET Taps, PowerCut(torn)
  PROVE  Limits'
<1>1. /\ DOMAIN flash' = DOMAIN flash \cup torn
      /\ \A d \in torn : Cardinality(DOMAIN flash) < Capacity \/ d \in DOMAIN flash
      /\ spoilt' \subseteq spoilt \cup torn
      /\ \A d, e \in torn : d = e
      /\ boot < MaxBoots /\ boot' = boot + 1 /\ bootedAt' = now
      /\ slots' = None /\ acks' = {} /\ UNCHANGED <<now, stored, tapped>>
      BY DEF PowerCut, Sendable
<1>2. Within(DOMAIN flash', Capacity)
  <2>1. CASE torn = {}
        BY <1>1, <2>1 DEF Limits
  <2>2. ASSUME NEW d \in torn
        PROVE  Within(DOMAIN flash', Capacity)
    <3>1. torn = {d}
          BY <1>1
    <3>2. /\ DOMAIN flash' = DOMAIN flash \cup {d}
          /\ Cardinality(DOMAIN flash) < Capacity \/ DOMAIN flash' = DOMAIN flash
          BY <1>1, <3>1
    <3>3. Within(DOMAIN flash, Capacity) /\ Capacity \in Int
          BY UplinkAssumption DEF Limits
    <3> QED BY <3>2, <3>3, OneMoreFits
  <2> QED BY <2>1, <2>2
<1>3. DOMAIN slots' = {} /\ Within(DOMAIN slots', MaxInFlight) /\ Within(acks', AckQueue)
      BY <1>1, NothingFits, UplinkAssumption DEF None
<1> QED BY <1>1, <1>2, <1>3, UplinkAssumption DEF Limits

LEMMA LimitsNext == EspInv /\ Limits /\ [Next]_vars => Limits'
<1> SUFFICES ASSUME EspInv, Limits, [Next]_vars PROVE Limits'
    OBVIOUS
<1>1. CASE \E d \in Taps : Tap(d)
      BY <1>1, TapFits
<1>2. CASE \E timedOut \in SUBSET Taps : HandleAcks(timedOut)
  <2>1. /\ UNCHANGED <<now, boot, bootedAt, stored, tapped, spoilt>> /\ acks' = {}
        /\ DOMAIN flash' \subseteq DOMAIN flash /\ DOMAIN slots' \subseteq DOMAIN slots
        /\ \A d \in DOMAIN slots' : slots'[d] = slots[d]
        BY <1>2, NoneIsEmpty DEF HandleAcks, Without, clock, history
  <2> QED BY <2>1, EmptyingFits
<1>3. CASE \E d \in Taps : \E pin \in PinOutcomes : Flush(d, pin)
      BY <1>3, FlushFits
<1>4. CASE \E m \in outbox : Deliver(m) \/ DeliverUnacked(m)
      BY <1>4, DeliverFits
<1>5. CASE \E torn \in SUBSET Taps : PowerCut(torn)
      BY <1>5, PowerCutFits
<1>6. CASE \E d \in Taps : DeleteUnreadable(d)
      BY <1>6, EmptyingFits DEF DeleteUnreadable, Without, clock, history
<1>7. CASE ClearBuffered
      BY <1>7, NoneIsEmpty, EmptyingFits DEF ClearBuffered, clock
<1>8. CASE TimePasses
      BY <1>8, UplinkAssumption DEF TimePasses, Limits, history
<1>9. CASE Sync \/ MqttUp \/ MqttDown \/ (\E m \in outbox : OutboxExpires(m)) \/ UNCHANGED vars
  <2>1. UNCHANGED <<now, boot, bootedAt, flash, slots, acks, stored, tapped, spoilt>>
        BY <1>9 DEF Sync, MqttUp, MqttDown, OutboxExpires, vars, clock, link, history
  <2> QED BY <2>1 DEF Limits
<1> QED BY <1>1, <1>2, <1>3, <1>4, <1>5, <1>6, <1>7, <1>8, <1>9 DEF Next, Loop

\* Nothing overflows: not the flash, also when the power goes while it is written
\* to, nor the slots, nor the queue between the two tasks, and no two detections
\* in flight have one message id.
THEOREM EspTyped == Spec => []EspTypeOK
<1>1. Limits => EspTypeOK
      BY DEF Limits, Within, EspTypeOK
<1> QED BY EspInit, EspNext, LimitsInit, LimitsNext, <1>1, PTL DEF Spec

-----------------------------------------------------------------------------
(* The gate implements AtLeastOnce: each step is one of its or none.        *)

\* Steps that touch none of what is promised, kept, received or lost.
LEMMA QuietSteps ==
  ASSUME UNCHANGED <<flash, stored, tapped, cleared, spoilt>>
  PROVE  UNCHANGED Gate!ledger
  BY DEF Gate!ledger, MayBeLost

Kept == {d \in DOMAIN flash : flash[d].whole}

LEMMA SameSteps ==
  ASSUME Kept' = Kept, UNCHANGED <<stored, tapped, cleared, spoilt>>
  PROVE  UNCHANGED Gate!ledger
  BY DEF Gate!ledger, Kept, MayBeLost

\* A rewrite that comes short loses a tap from before the sync, unless the server
\* has it.
LEMMA SpoilingSteps ==
  ASSUME EspInv, NEW d \in Kept, tapped[d].early, Kept' = Kept \ {d},
         spoilt' = spoilt \cup {d}, UNCHANGED <<stored, tapped, cleared>>
  PROVE  [Gate!LedgerNext]_(Gate!ledger)
<1>1. d \in DOMAIN tapped /\ {d} \in SUBSET Taps
      BY DEF Kept, EspInv, Kinds, TimesInv
<1>2. MayBeLost' = MayBeLost \cup {d}
      BY <1>1 DEF MayBeLost
<1>3. Gate!Lose({d})
      BY <1>1, <1>2 DEF Gate!Lose, Kept
<1> QED BY <1>1, <1>3 DEF Gate!LedgerNext

\* A copy arrives of a tap the driver was promised.
LEMMA ArrivingSteps ==
  ASSUME EspInv, NEW m \in outbox, Deliver(m) \/ DeliverUnacked(m)
  PROVE  [Gate!LedgerNext]_(Gate!ledger)
<1>1. /\ UNCHANGED <<flash, tapped, cleared, spoilt>>
      /\ \/ UNCHANGED stored
         \/ stored' = With(stored, m.tap, [time |-> m.time, known |-> m.known])
      BY DEF Deliver, DeliverUnacked, history
<1>2. m.tap \in Taps /\ m.tap \in DOMAIN tapped
      BY DEF EspInv, Kinds, TimesInv, Message
<1>3. CASE UNCHANGED stored
      BY <1>1, <1>3, QuietSteps
<1>4. CASE stored' = With(stored, m.tap, [time |-> m.time, known |-> m.known])
  <2>1. DOMAIN stored' = DOMAIN stored \cup {m.tap}
        BY <1>4 DEF With
  <2>2. Gate!Receive(m.tap)
        BY <1>1, <1>2, <2>1 DEF Gate!Receive, MayBeLost
  <2> QED BY <1>2, <2>2 DEF Gate!LedgerNext
<1> QED BY <1>1, <1>3, <1>4

\* An acknowledgement found in the queue releases what the server has: a cleared
\* detection is no longer in the buffer.
LEMMA ReleasingSteps ==
  ASSUME EspInv, NEW timedOut, HandleAcks(timedOut)
  PROVE  [Gate!LedgerNext]_(Gate!ledger)
<1> DEFINE seen == IF wasConnected /\ ~connected THEN None ELSE slots
           done == Done(seen)
<1>1. /\ flash' = Without(flash, done) /\ UNCHANGED <<stored, tapped, cleared, spoilt>>
      BY DEF HandleAcks, history
<1>2. \A d \in done : d \in DOMAIN stored \cup cleared
      BY NoneIsEmpty DEF Done, EspInv, SlotsInv
<1> HIDE DEF done
<1>3. Kept' = Kept \ done
      BY <1>1 DEF Kept, Without
<1>4. Kept \cap done \subseteq DOMAIN stored /\ Kept \cap done \in SUBSET Taps
      BY <1>2 DEF Kept, EspInv, Kinds, TimesInv
<1> PICK gone \in SUBSET Taps : gone = Kept \cap done
      BY <1>4
<1>5. Gate!Release(gone)
      BY <1>1, <1>3, <1>4 DEF Gate!Release, Kept, MayBeLost
<1> QED BY <1>5 DEF Gate!LedgerNext

LEMMA PromiseSteps ==
  EspInv /\ [Next]_vars => [Gate!LedgerNext]_(Gate!ledger)
<1> SUFFICES ASSUME EspInv, [Next]_vars
             PROVE  [Gate!LedgerNext]_(Gate!ledger)
    OBVIOUS
<1>1. CASE \E d \in Taps : Tap(d)
  <2> PICK d \in Taps : Tap(d)
      BY <1>1
  <2>1. /\ flash' = With(flash, d, Recorded(TRUE)) /\ UNCHANGED <<stored, cleared, spoilt>>
        /\ DOMAIN tapped' = DOMAIN tapped \cup {d}
        /\ \A e \in DOMAIN tapped : tapped'[e] = tapped[e]
        /\ d \notin DOMAIN tapped /\ d \notin cleared /\ d \notin spoilt
        BY DEF Tap, New, With, EspInv, TimesInv, SpoiltInv
  <2>2. Kept' = Kept \cup {d}
        BY <2>1 DEF Kept, With, Recorded
  <2>3. MayBeLost' = MayBeLost /\ d \notin MayBeLost
        BY <2>1 DEF MayBeLost, EspInv, SpoiltInv
  <2>4. Gate!Promise(d)
        BY <2>1, <2>2, <2>3 DEF Gate!Promise, Kept
  <2> QED BY <2>4 DEF Gate!LedgerNext
<1>2. CASE \E timedOut \in SUBSET Taps : HandleAcks(timedOut)
      BY <1>2, ReleasingSteps
<1>3. CASE \E d \in Taps : \E pin \in PinOutcomes : Flush(d, pin)
  <2> PICK d \in Taps, pin \in PinOutcomes : Flush(d, pin)
      BY <1>3
  <2> DEFINE g == AfterPin(flash[d], pin)
  <2>1. /\ UNCHANGED <<stored, tapped, cleared>> /\ flash' = [flash EXCEPT ![d] = g]
        /\ spoilt' = spoilt \cup {e \in {d} : Pins(flash[e]) /\ pin = "short"}
        /\ d \in Kept
        BY DEF Flush, Sendable, Kept, history
  <2>2. g.whole <=> ~(Pins(flash[d]) /\ pin = "short")
        BY <2>1 DEF Kept, AfterPin, PinOutcomes, EspInv, Kinds, Detection
  <2> HIDE DEF g
  <2>3. Kept' = IF g.whole THEN Kept ELSE Kept \ {d}
        BY <2>1 DEF Kept
  <2>4. Pins(flash[d]) => tapped[d].early
        BY <2>1 DEF Pins, EspInv, SpoiltInv, Kept
  <2> QED BY <2>1, <2>2, <2>3, <2>4, SameSteps, SpoilingSteps
<1>4. CASE \E m \in outbox : Deliver(m) \/ DeliverUnacked(m)
      BY <1>4, ArrivingSteps
<1>5. CASE \E torn \in SUBSET Taps : PowerCut(torn)
  <2> PICK torn \in SUBSET Taps : PowerCut(torn)
      BY <1>5
  <2>1. /\ flash' = [d \in DOMAIN flash \cup torn |->
                       IF d \notin torn THEN flash[d]
                       ELSE IF New(d) THEN Recorded(FALSE) ELSE AfterPin(flash[d], "short")]
        /\ spoilt' = spoilt \cup (torn \cap DOMAIN flash)
        /\ UNCHANGED <<stored, tapped, cleared>>
        /\ \A d \in torn : New(d) \/ (d \in Kept /\ Pins(flash[d]))
        /\ \A d, e \in torn : d = e
        BY DEF PowerCut, Sendable, Kept
  <2>2. CASE \A d \in torn : New(d)
    <3>1. Kept' = Kept /\ spoilt' = spoilt
          BY <2>1, <2>2 DEF Kept, Recorded, New
    <3> QED BY <2>1, <3>1, SameSteps
  <2>3. ASSUME NEW d \in torn, ~New(d)
        PROVE  [Gate!LedgerNext]_(Gate!ledger)
    <3>1. torn = {d} /\ d \in Kept /\ Pins(flash[d])
          BY <2>1, <2>3
    <3>2. /\ flash[d] \in Detection
          /\ \A e \in DOMAIN flash \ {d} : flash'[e] = flash[e]
          /\ DOMAIN flash' = DOMAIN flash /\ flash'[d] = AfterPin(flash[d], "short")
          BY <2>1, <2>3, <3>1 DEF Kept, EspInv, Kinds
    <3>3. ~flash'[d].whole
          BY <3>1, <3>2 DEF AfterPin, Detection
    <3>4. Kept' = Kept \ {d} /\ spoilt' = spoilt \cup {d}
          BY <2>1, <3>1, <3>2, <3>3 DEF Kept
    <3>5. tapped[d].early
          BY <3>1 DEF Pins, EspInv, SpoiltInv, Kept
    <3> QED BY <2>1, <3>1, <3>4, <3>5, SpoilingSteps
  <2> QED BY <2>2, <2>3
<1>6. CASE \E d \in Taps : DeleteUnreadable(d)
  <2> PICK d \in Taps : DeleteUnreadable(d)
      BY <1>6
  <2>1. /\ flash' = Without(flash, {d}) /\ ~flash[d].whole
        /\ UNCHANGED <<stored, tapped, cleared, spoilt>>
        BY DEF DeleteUnreadable, history
  <2>2. Kept' = Kept
        BY <2>1 DEF Kept, Without
  <2> QED BY <2>1, <2>2, SameSteps
<1>7. CASE ClearBuffered
  <2>1. /\ Kept' = {} /\ cleared' = cleared \cup Kept /\ UNCHANGED <<stored, tapped, spoilt>>
        BY <1>7, NoneIsEmpty DEF ClearBuffered, Kept
  <2>2. Kept \subseteq DOMAIN tapped /\ Kept \in SUBSET Taps
        BY DEF Kept, EspInv, Kinds, TimesInv
  <2> PICK gone \in SUBSET Taps : gone = Kept
      BY <2>2
  <2>3. Gate!Lose(gone)
        BY <2>1, <2>2 DEF Gate!Lose, Kept, MayBeLost
  <2> QED BY <2>3 DEF Gate!LedgerNext
<1>8. CASE TimePasses \/ Sync \/ MqttUp \/ MqttDown \/ (\E m \in outbox : OutboxExpires(m))
           \/ UNCHANGED vars
      BY <1>8, QuietSteps DEF TimePasses, Sync, MqttUp, MqttDown, OutboxExpires, vars, clock, link,
                              history
<1> QED BY <1>1, <1>2, <1>3, <1>4, <1>5, <1>6, <1>7, <1>8 DEF Next, Loop

\* The buffer in flash, the slots, the outbox and the acknowledgements together
\* implement AtLeastOnce, through power cuts and for any capacities: what beeped
\* stays until the server has it or a marshal clears it, but for a tap from before
\* the sync that the rewrite of its file spoils, and only what beeped is ever sent.
THEOREM KeepsItsPromiseHolds == Spec => KeepsItsPromise
<1>1. Init => Gate!LedgerInit
      BY NoneIsEmpty DEF Init, Gate!LedgerInit, MayBeLost
<1> QED BY EspInit, EspNext, <1>1, PromiseSteps, PTL DEF Spec, KeepsItsPromise, Gate!LedgerSpec
=============================================================================
