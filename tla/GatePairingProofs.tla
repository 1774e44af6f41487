--------------------------- MODULE GatePairingProofs ---------------------------
(***************************************************************************)
(* Who gets into the broker, for any set of gates, any length of the list, *)
(* any number of identities and restarts.  PairingInv adds to the checked  *)
(* invariant that nobody is both rejected and waiting: login refuses the   *)
(* list to a rejected gate, and reject takes it off.                       *)
(***************************************************************************)
EXTENDS GatePairing, TLAPS

PairingInv ==
  /\ PairingTypeOK
  /\ OnlyApprovedConnect
  /\ \A g \in rejected : waiting[g] = NoKey

LEMMA PairingInit == Init => PairingInv
<1> SUFFICES ASSUME Init PROVE PairingInv
    OBVIOUS
<1>1. 1 \in Keys
      BY PairingAssumption DEF Keys
<1>2. PairingTypeOK
      BY <1>1 DEF Init, PairingTypeOK, NoKey
<1> QED BY <1>2 DEF Init, PairingInv, OnlyApprovedConnect

LEMMA PairingNext == PairingInv /\ [Next]_vars => PairingInv'
<1> SUFFICES ASSUME PairingInv, [Next]_vars PROVE PairingInv'
    OBVIOUS
<1> USE PairingAssumption DEF PairingInv, PairingTypeOK, OnlyApprovedConnect, Keys, NoKey
<1>1. CASE UNCHANGED vars
      BY <1>1 DEF vars
<1>2. CASE \E g \in Gates : Connect(g)
      BY <1>2 DEF Connect, server, IsAccepted
<1>3. CASE \E g \in Gates : RefusedToken(g)
      BY <1>3 DEF RefusedToken, server, IsAsked, IsOpen, IsWaiting
<1>4. CASE \E g \in Gates : RefusedKey(g)
  <2> PICK g \in Gates : RefusedKey(g)
      BY <1>4
  <2>1. waiting' = waiting \/ (g \notin rejected /\ waiting' = [waiting EXCEPT ![g] = key[g]])
      BY DEF RefusedKey, MayWait
  <2> QED BY <2>1 DEF RefusedKey
<1>5. CASE \E g \in Gates : Drop(g)
      BY <1>5 DEF Drop, server
<1>6. CASE \E g \in Gates : Restart(g)
      BY <1>6 DEF Restart, server
<1>7. CASE OpenPairing \/ WindowEnds
      BY <1>7 DEF OpenPairing, WindowEnds
<1>8. CASE ServerRestart
  <2>0. waiting' \in [Gates -> {NoKey}] /\ login' \in [Gates -> {NoKey}]
        BY <1>8 DEF ServerRestart
  <2>1. PairingTypeOK'
    <3>1. waiting' \in [Gates -> Keys \cup {NoKey}] /\ login' \in [Gates -> Keys \cup {NoKey}]
          BY <2>0
    <3>2. rejected' = {} /\ window' = FALSE /\ restarts' \in Nat
          BY <1>8 DEF ServerRestart
    <3> QED BY <1>8, <3>1, <3>2 DEF ServerRestart
  <2>2. \A g \in Gates : login'[g] = NoKey /\ keys'[g] = keys[g]
        BY <1>8 DEF ServerRestart
  <2> QED BY <1>8, <2>1, <2>2 DEF ServerRestart
<1>9. CASE \E g \in Gates : Accept(g)
  <2> PICK g \in Gates : Accept(g)
      BY <1>9
  <2>1. PairingTypeOK'
        BY DEF Accept, IsWaiting
  <2>2. OnlyApprovedConnect'
        BY DEF Accept
  <2>3. \A h \in rejected' : waiting'[h] = NoKey
        BY DEF Accept
  <2> QED BY <2>1, <2>2, <2>3
<1>10. CASE \E g \in Gates : Reject(g)
  <2> PICK g \in Gates : Reject(g)
      BY <1>10
  <2>1. PairingTypeOK'
        BY DEF Reject
  <2>2. OnlyApprovedConnect'
        BY DEF Reject
  <2>3. \A h \in rejected' : waiting'[h] = NoKey
        BY DEF Reject
  <2> QED BY <2>1, <2>2, <2>3
<1> QED BY <1>1, <1>2, <1>3, <1>4, <1>5, <1>6, <1>7, <1>8, <1>9, <1>10 DEF Next, Attempt

\* The types, for every set of gates and every bound.
THEOREM PairingTyped == Spec => []PairingTypeOK
<1>1. PairingInv => PairingTypeOK
      BY DEF PairingInv
<1> QED BY PairingInit, PairingNext, <1>1, PTL DEF Spec

\* No gate is ever connected with a key the organiser did not accept for it.
THEOREM OnlyApprovedGetIn == Spec => []OnlyApprovedConnect
<1>1. PairingInv => OnlyApprovedConnect
      BY DEF PairingInv
<1> QED BY PairingInit, PairingNext, <1>1, PTL DEF Spec

\* A rejected gate stays off the list and gets no new key and no connection
\* that an earlier approval does not give it, until pairing is opened again.
THEOREM RejectedIsFinal == Spec => RejectedStaysOut
<1> DEFINE StaysOut(g) ==
      /\ waiting'[g] = NoKey /\ keys'[g] = keys[g]
      /\ login'[g] # NoKey => login'[g] = login[g] \/ keys[g] = key[g]
<1>1. ASSUME PairingInv, PairingInv', [Next]_vars
      PROVE  [\A g \in rejected \cap rejected' : StaysOut(g)]_vars
  <2> SUFFICES ASSUME Next, NEW g \in rejected, g \in rejected' PROVE StaysOut(g)
      BY <1>1
  <2>1. waiting[g] = NoKey /\ waiting'[g] = NoKey /\ g \in Gates
        BY <1>1 DEF PairingInv, PairingTypeOK
  <2>2. keys'[g] = keys[g]
    <3>1. CASE \E h \in Gates : Accept(h)
          BY <3>1, <2>1, <1>1 DEF Accept, IsWaiting, PairingInv, PairingTypeOK
    <3>2. CASE UNCHANGED keys
          BY <3>2
    <3> QED BY <3>1, <3>2 DEF Next, Attempt, Connect, RefusedToken, RefusedKey, Drop,
               Restart, Reject, OpenPairing, WindowEnds, ServerRestart, server
  <2>3. login'[g] # NoKey => login'[g] = login[g] \/ keys[g] = key[g]
    <3>1. CASE \E h \in Gates : Connect(h)
          BY <3>1, <2>1, <1>1 DEF Connect, IsAccepted, PairingInv, PairingTypeOK
    <3>2. CASE \E h \in Gates : Drop(h) \/ Restart(h)
          BY <3>2, <2>1, <1>1 DEF Drop, Restart, PairingInv, PairingTypeOK
    <3>3. CASE ServerRestart
          BY <3>3, <2>1 DEF ServerRestart
    <3>4. CASE UNCHANGED login
          BY <3>4
    <3> QED BY <3>1, <3>2, <3>3, <3>4 DEF Next, Attempt, RefusedToken, RefusedKey,
               Accept, Reject, OpenPairing, WindowEnds, server
  <2> QED BY <2>1, <2>2, <2>3
<1> QED BY PairingInit, PairingNext, <1>1, PTL DEF Spec, RejectedStaysOut
=============================================================================
