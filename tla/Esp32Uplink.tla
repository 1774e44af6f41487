---------------------------- MODULE Esp32Uplink ----------------------------
(***************************************************************************)
(* The ESP32 gate between a tap and the server: the flash buffer, the      *)
(* in-flight slots, esp-mqtt's outbox, the acknowledgements that come back *)
(* on another task, and a clock that knows the time of day only after the  *)
(* first sync of each boot.  Times are whole ticks of the true time.       *)
(***************************************************************************)
EXTENDS Integers, FiniteSets

CONSTANTS
  Taps,          \* each is one detection
  Capacity,      \* detections the flash takes above MIN_FREE_BYTES
  MaxInFlight,   \* MAX_IN_FLIGHT
  AckQueue,      \* length of the queue between esp-mqtt's task and the loop
  Ids,           \* message ids, as many as are ever in use at once
  MaxTime,       \* bound on the true time
  MaxBoots,      \* bound on boots
  MaxIncidents   \* bound on lost connections, late answers, refused publishes
                 \* and cleared buffers

ASSUME UplinkAssumption ==
  /\ Capacity \in Nat /\ MaxInFlight \in Nat \ {0} /\ AckQueue \in Nat \ {0}
  /\ MaxTime \in Nat \ {0} /\ MaxBoots \in Nat \ {0}
  /\ MaxIncidents \in Nat

VARIABLES
  now,           \* true time
  boot, bootedAt,
  synced,        \* everSet, of this boot
  flash,         \* detections in /q: tap -> [whole, wall, boot, mono]
  slots,         \* in flight: tap -> message id
  outbox,        \* esp-mqtt's messages without an acknowledgement
  acks,          \* message ids acknowledged and not handled yet
  connected, wasConnected,
  stored,        \* at the server, the first copy: tap -> [time, known]
  tapped,        \* history: true time and boot of every tap that was beeped for,
                 \* and whether it came before the sync of its boot
  cleared,       \* history: taps deleted by a marshal
  spoilt,        \* history: taps whose file was left short by the rewrite that
                 \* was to pin their time
  syncedBoots,   \* history: boots that synced
  incidents

clock == <<now, boot, bootedAt, synced, syncedBoots>>
link == <<connected, incidents>>
history == <<tapped, cleared, spoilt>>
vars == <<clock, link, flash, slots, outbox, acks, wasConnected, stored, history>>

NoTime == 0
None == [d \in {} |-> d]
Without(f, gone) == [d \in DOMAIN f \ gone |-> f[d]]
With(f, d, value) == [e \in DOMAIN f \cup {d} |-> IF e = d THEN value ELSE f[e]]
Mono == now - bootedAt   \* esp_timer_get_time

EspTypeOK ==
  /\ now \in 1 .. MaxTime /\ boot \in 1 .. MaxBoots /\ bootedAt \in 1 .. now
  /\ DOMAIN slots \subseteq Taps /\ Cardinality(DOMAIN slots) <= MaxInFlight
  /\ DOMAIN flash \subseteq Taps /\ Cardinality(DOMAIN flash) <= Capacity
  /\ \A d, e \in DOMAIN slots : slots[d] = slots[e] => d = e
  /\ acks \subseteq Ids /\ Cardinality(acks) <= AckQueue
  /\ DOMAIN stored \subseteq Taps /\ DOMAIN tapped \subseteq Taps
  /\ spoilt \subseteq Taps

-----------------------------------------------------------------------------
(* A tap, and the time it is sent with *)

\* Mutant: the monotonic clock of another boot is taken for this one's.
ResolveAnyBoot(f) ==
  [time |-> IF f.wall # NoTime THEN f.wall ELSE now - (Mono - f.mono), known |-> TRUE]

\* resolveDetectionTime of a detection that need not wait.
Resolve(f) ==
  IF f.wall # NoTime THEN [time |-> f.wall, known |-> TRUE]
  ELSE IF f.boot = boot THEN [time |-> now - (Mono - f.mono), known |-> TRUE]
  ELSE [time |-> now, known |-> FALSE]

NotYetSynced(f) == f.wall = NoTime /\ ~synced

Recorded(whole) ==
  [whole |-> whole, wall |-> IF synced THEN now ELSE NoTime, boot |-> boot, mono |-> Mono]

New(d) == d \notin DOMAIN tapped \cup DOMAIN flash \cup DOMAIN stored

\* readerTick and bufferDetection: the beep comes once the detection is in
\* flash; a full flash stores and promises nothing.
Tap(d) ==
  /\ New(d) /\ Cardinality(DOMAIN flash) < Capacity
  /\ flash' = With(flash, d, Recorded(TRUE))
  /\ tapped' = With(tapped, d, [time |-> now, boot |-> boot, early |-> ~synced])
  /\ UNCHANGED <<clock, link, slots, outbox, acks, wasConnected, stored, cleared, spoilt>>

-----------------------------------------------------------------------------
(* uplinkTick *)

\* The detections a round of handleAcks deletes.
Done(seen) == {d \in DOMAIN seen : seen[d] \in acks}

\* Mutant: without ACK_TIMEOUT_MS.
HandleAcksOnly(timedOut) ==
  LET seen == IF wasConnected /\ ~connected THEN None ELSE slots
      done == Done(seen)
  IN /\ timedOut = {}
     /\ flash' = Without(flash, done) /\ slots' = Without(seen, done)
     /\ acks' = {} /\ wasConnected' = connected
     /\ UNCHANGED <<clock, link, outbox, stored, history>>

\* The top of uplinkTick and handleAcks: a lost connection empties the slots,
\* an acknowledgement deletes the detection, ACK_TIMEOUT_MS frees the slot: of
\* an acknowledgement that was lost, or that comes late.
HandleAcks(timedOut) ==
  LET seen == IF wasConnected /\ ~connected THEN None ELSE slots
      done == Done(seen)
      late == {d \in timedOut : \E m \in outbox : m.id = slots[d]}
  IN /\ timedOut \subseteq DOMAIN seen \ {d \in DOMAIN seen : seen[d] \in acks}
     /\ incidents + Cardinality(late) <= MaxIncidents
     /\ incidents' = incidents + Cardinality(late)
     /\ flash' = Without(flash, done)
     /\ slots' = Without(seen, done \cup timedOut)
     /\ acks' = {} /\ wasConnected' = connected
     /\ UNCHANGED <<clock, connected, outbox, stored, history>>

\* An id no message, slot or acknowledgement still has.
FreshIds == Ids \ (acks \cup {m.id : m \in outbox} \cup {slots[d] : d \in DOMAIN slots})
FreshId == CHOOSE i \in FreshIds : TRUE

\* The loop has d in its hands: there is a slot for it, its file is whole, and
\* its time is known or never will be.
Sendable(d) ==
  /\ wasConnected
  /\ d \in DOMAIN flash \ DOMAIN slots /\ Cardinality(DOMAIN slots) < MaxInFlight
  /\ flash[d].whole /\ ~NotYetSynced(flash[d])

\* Mutant: also a time that is in the file already is written again.
PinsEachTime(f) == Resolve(f).known

\* A time worked out just now is written to the file before it is sent.
Pins(f) == Resolve(f).known /\ f.wall = NoTime

PinOutcomes == {"written", "not opened", "short"}

\* The one copy of the detection after that rewrite: opening it with "w" empties
\* it, and neither the write nor the close is checked.
AfterPin(f, pin) ==
  IF ~Pins(f) \/ pin = "not opened" THEN f
  ELSE [f EXCEPT !.wall = Resolve(f).time, !.whole = pin = "written"]

\* Mutant: more at once than there are slots.
FlushAnyway(d, pin) ==
  /\ wasConnected /\ FreshIds # {} /\ d \in DOMAIN flash \ DOMAIN slots
  /\ flash[d].whole
  /\ slots' = With(slots, d, FreshId)
  /\ UNCHANGED <<clock, link, flash, outbox, acks, wasConnected, stored, history>>

\* A round of flush's loop.  What is sent is the copy in RAM, whatever became of
\* the file; publish puts it into the outbox, connected or not, or refuses it.
Flush(d, pin) ==
  /\ Sendable(d) /\ FreshIds # {}
  /\ flash' = [flash EXCEPT ![d] = AfterPin(@, pin)]
  /\ spoilt' = spoilt \cup {e \in {d} : Pins(flash[e]) /\ pin = "short"}
  /\ \/ LET t == Resolve(flash[d])
        IN /\ outbox' = outbox \cup
                {[id |-> FreshId, tap |-> d, time |-> t.time, known |-> t.known]}
           /\ slots' = With(slots, d, FreshId)
           /\ UNCHANGED incidents
     \/ /\ incidents < MaxIncidents /\ incidents' = incidents + 1
        /\ UNCHANGED <<outbox, slots>>
  /\ UNCHANGED <<clock, connected, acks, wasConnected, stored, tapped, cleared>>

\* checkBuffered: a file that is too short is deleted, whoever left it so.
DeleteUnreadable(d) ==
  /\ wasConnected /\ Cardinality(DOMAIN slots) < MaxInFlight
  /\ d \in DOMAIN flash \ DOMAIN slots /\ ~flash[d].whole
  /\ flash' = Without(flash, {d})
  /\ UNCHANGED <<clock, link, slots, outbox, acks, wasConnected, stored, history>>

\* clearBuffered, of the web page or before a new Gate ID is saved.
ClearBuffered ==
  /\ incidents < MaxIncidents /\ incidents' = incidents + 1
  /\ flash' = None /\ slots' = None
  /\ cleared' = cleared \cup {d \in DOMAIN flash : flash[d].whole}
  /\ UNCHANGED <<clock, connected, outbox, acks, wasConnected, stored, tapped, spoilt>>

-----------------------------------------------------------------------------
(* esp-mqtt's task, the broker and the server *)

\* The client is started with the first sync and reconnects by itself; that
\* the server accepts the login is GatePairing.
MqttUp ==
  /\ synced /\ ~connected /\ connected' = TRUE
  /\ UNCHANGED <<clock, incidents, flash, slots, outbox, acks, wasConnected, stored, history>>

\* A lost network, or the broker that drops a connection it cannot store for.
MqttDown ==
  /\ connected /\ connected' = FALSE
  /\ incidents < MaxIncidents /\ incidents' = incidents + 1
  /\ UNCHANGED <<clock, flash, slots, outbox, acks, wasConnected, stored, history>>

\* Stored once (eventId), acknowledged each time; an acknowledgement that finds
\* the queue full is lost.
Deliver(m) ==
  /\ connected /\ m \in outbox
  /\ stored' = IF m.tap \in DOMAIN stored THEN stored
               ELSE With(stored, m.tap, [time |-> m.time, known |-> m.known])
  /\ outbox' = outbox \ {m}
  /\ acks' = IF Cardinality(acks) < AckQueue THEN acks \cup {m.id} ELSE acks
  /\ UNCHANGED <<clock, link, flash, slots, wasConnected, history>>

\* Stored, and the connection lost before the acknowledgement.
DeliverUnacked(m) ==
  /\ connected /\ m \in outbox
  /\ incidents < MaxIncidents /\ incidents' = incidents + 1 /\ connected' = FALSE
  /\ stored' = IF m.tap \in DOMAIN stored THEN stored
               ELSE With(stored, m.tap, [time |-> m.time, known |-> m.known])
  /\ UNCHANGED <<clock, flash, slots, outbox, acks, wasConnected, history>>

\* The outbox forgets a message after a while.
OutboxExpires(m) ==
  /\ m \in outbox /\ outbox' = outbox \ {m}
  /\ UNCHANGED <<clock, link, flash, slots, acks, wasConnected, stored, history>>

-----------------------------------------------------------------------------
(* Time, syncs and power *)

TimePasses ==
  /\ now < MaxTime /\ now' = now + 1
  /\ UNCHANGED <<boot, bootedAt, synced, syncedBoots, link, flash, slots, outbox, acks,
                 wasConnected, stored, history>>

Sync ==
  /\ ~synced /\ synced' = TRUE /\ syncedBoots' = syncedBoots \cup {boot}
  /\ UNCHANGED <<now, boot, bootedAt, link, flash, slots, outbox, acks, wasConnected,
                 stored, history>>

\* The power goes: RAM is lost, and with it the file that is being written, of a
\* new tap or of one whose time is being pinned.
PowerCut(torn) ==
  /\ boot < MaxBoots /\ boot' = boot + 1 /\ bootedAt' = now
  /\ \A d, e \in torn : d = e
  /\ \A d \in torn : \/ New(d) /\ Cardinality(DOMAIN flash) < Capacity
                     \/ Sendable(d) /\ Pins(flash[d])
  /\ flash' = [d \in DOMAIN flash \cup torn |->
                 IF d \notin torn THEN flash[d]
                 ELSE IF New(d) THEN Recorded(FALSE) ELSE AfterPin(flash[d], "short")]
  /\ spoilt' = spoilt \cup (torn \cap DOMAIN flash)
  /\ synced' = FALSE /\ connected' = FALSE /\ wasConnected' = FALSE
  /\ slots' = None /\ outbox' = {} /\ acks' = {}
  /\ UNCHANGED <<now, syncedBoots, incidents, stored, tapped, cleared>>

-----------------------------------------------------------------------------
Init ==
  /\ now = 1 /\ boot = 1 /\ bootedAt = 1 /\ synced = FALSE /\ syncedBoots = {}
  /\ flash = None /\ slots = None /\ outbox = {} /\ acks = {}
  /\ connected = FALSE /\ wasConnected = FALSE
  /\ stored = None /\ tapped = None /\ cleared = {} /\ spoilt = {} /\ incidents = 0

Loop(d) == DeleteUnreadable(d) \/ \E pin \in PinOutcomes : Flush(d, pin)

Next ==
  \/ TimePasses \/ Sync \/ MqttUp \/ MqttDown \/ ClearBuffered
  \/ \E d \in Taps : Tap(d) \/ Loop(d)
  \/ \E timedOut \in SUBSET Taps : HandleAcks(timedOut)
  \/ \E torn \in SUBSET Taps : PowerCut(torn)
  \/ \E m \in outbox : Deliver(m) \/ DeliverUnacked(m) \/ OutboxExpires(m)

\* The loop runs, the clock syncs and the client reconnects for ever; a slot
\* held longer than ACK_TIMEOUT_MS times out; and a connection that lasts
\* delivers what it is given.
Fairness ==
  /\ WF_vars(Sync) /\ WF_vars(MqttUp) /\ WF_vars(HandleAcks({}))
  /\ \A d \in Taps : /\ SF_vars(Loop(d))
                     /\ WF_vars(HandleAcks({d}))
                     /\ SF_vars(\E m \in outbox : m.tap = d /\ Deliver(m))

Spec == Init /\ [][Next]_vars /\ Fairness

-----------------------------------------------------------------------------
(* Properties *)

\* Taps the gate may lose: what a marshal cleared, and a tap from before the sync
\* whose file the rewrite that was to pin its time left short.
MayBeLost == cleared \cup {d \in spoilt \cap DOMAIN tapped : tapped[d].early}

\* A tap the driver heard a beep for is in flash until the server has it,
\* whatever is lost, resent, timed out or cut off; only a marshal deletes it,
\* or the rewrite that pins its time spoils it.
BeepedTapIsSafe ==
  \A d \in DOMAIN tapped :
    \/ d \in DOMAIN flash /\ flash[d].whole
    \/ d \in DOMAIN stored \cup MayBeLost

\* The buffer, the slots, the outbox and the acknowledgements implement the
\* promise of AtLeastOnce.  A tap taken with the clock set leaves the buffer
\* only when the server has it or a marshal clears it, through every power cut
\* and every short write; a tap from before the sync may also be lost, while
\* its time is pinned, once.  A file that was never beeped for is never sent.
Gate == INSTANCE AtLeastOnce WITH
  Items <- Taps, promised <- DOMAIN tapped,
  kept <- {d \in DOMAIN flash : flash[d].whole}, received <- DOMAIN stored,
  lost <- (MayBeLost \cap DOMAIN tapped) \ DOMAIN stored
KeepsItsPromise == Gate!LedgerSpec

\* A time the server is not told to be unknown is the time of the tap, also
\* when it was worked out after the tap.
KnownTimeIsTrue ==
  \A d \in DOMAIN stored : stored[d].known => stored[d].time = tapped[d].time

\* Nothing stays in the buffer: not what was delivered without its
\* acknowledgement, nor what a power cut left half written.
BufferDrains == \A d \in Taps : d \in DOMAIN flash ~> d \notin DOMAIN flash

-----------------------------------------------------------------------------
(* What docs/esp32-gate.md and main.cpp say, and a cut or short rewrite, or a *)
(* power cut after the sync, breaks                                           *)

\* "The beep promises the tap counted, so it comes only once the detection is
\* in flash": deleted "only on PUBACK", or cleared on the status page.
BeepCounts ==
  \A d \in DOMAIN tapped :
    \/ d \in DOMAIN flash /\ flash[d].whole
    \/ d \in DOMAIN stored \cup cleared

\* "The only lost time is a gate rebooting before it ever synced".
TimeLostOnlyUnsynced ==
  \A d \in DOMAIN stored : ~stored[d].known => tapped[d].boot \notin syncedBoots
=============================================================================
