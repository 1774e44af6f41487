---------------------------- MODULE AtLeastOnce ----------------------------
(***************************************************************************)
(* What every gate promises of its detections: one it has announced (the   *)
(* reader's beep, a published passing) is kept until the server has it.    *)
(* It may be sent any number of times; the server has it once.  Only an    *)
(* open loss (a marshal who clears the buffer, a gate that keeps its queue *)
(* in memory and restarts) ends the promise otherwise.                     *)
(*                                                                         *)
(* Esp32Uplink implements this with its flash buffer, Detections with the  *)
(* Pi's outgoing queue and the broker that acknowledges what is stored.    *)
(***************************************************************************)
CONSTANT Items

VARIABLES promised, kept, received, lost

ledger == <<promised, kept, received, lost>>

LedgerInit == promised = {} /\ kept = {} /\ received = {} /\ lost = {}

Promise(i) ==
  /\ i \in Items \ promised
  /\ promised' = promised \cup {i} /\ kept' = kept \cup {i}
  /\ UNCHANGED <<received, lost>>

\* A copy arrives: the gate still keeps the item, or its copy outlived that.
Receive(i) ==
  /\ i \in promised
  /\ received' = received \cup {i} /\ lost' = lost \ {i}
  /\ UNCHANGED <<promised, kept>>

Release(done) ==
  /\ done \subseteq kept \cap received
  /\ kept' = kept \ done
  /\ UNCHANGED <<promised, received, lost>>

Lose(gone) ==
  /\ gone \subseteq kept
  /\ kept' = kept \ gone /\ lost' = lost \cup (gone \ received)
  /\ UNCHANGED <<promised, received>>

LedgerNext ==
  \/ \E i \in Items : Promise(i) \/ Receive(i)
  \/ \E some \in SUBSET Items : Release(some) \/ Lose(some)

LedgerSpec == LedgerInit /\ [][LedgerNext]_ledger
=============================================================================
