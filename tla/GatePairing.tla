---------------------------- MODULE GatePairing ----------------------------
(***************************************************************************)
(* How a gate gets into the broker: the server's keys and pairing window   *)
(* (GatePairingService), the broker's answer to a CONNECT, and what the    *)
(* gate makes of the answer.  A key is the number of the gate's identity:  *)
(* erasing its flash makes a new one.  Tokens are abstracted to the key    *)
(* they were made with; a gate makes a fresh one for every attempt.        *)
(***************************************************************************)
EXTENDS Naturals, FiniteSets

CONSTANTS
  Gates,
  MaxWaiting,     \* MAX_WAITING
  MaxIdentities,  \* bound on the keys a gate ever has
  MaxRestarts     \* bound on server restarts

ASSUME PairingAssumption ==
  /\ MaxWaiting \in Nat \ {0} /\ MaxIdentities \in Nat \ {0} /\ MaxRestarts \in Nat

VARIABLES
  keys,      \* gate-keys.json: the approved key of each gate, or NoKey
  waiting,   \* the key each gate waits with, or NoKey
  rejected,  \* in this pairing window
  window,    \* now < closesAt
  key,       \* of the gate itself
  sendKey,   \* the gate was answered CONNACK 4
  login,     \* the key of the gate's connection, or NoKey while it has none
  approved,  \* history: <<gate, key>> the organiser accepted
  restarts

server == <<keys, waiting, rejected, window, approved, restarts>>
vars == <<keys, waiting, rejected, window, key, sendKey, login, approved, restarts>>

NoKey == 0
Keys == 1 .. MaxIdentities

PairingTypeOK ==
  /\ keys \in [Gates -> Keys \cup {NoKey}]
  /\ waiting \in [Gates -> Keys \cup {NoKey}]
  /\ rejected \subseteq Gates
  /\ window \in BOOLEAN
  /\ key \in [Gates -> Keys]
  /\ sendKey \in [Gates -> BOOLEAN]
  /\ login \in [Gates -> Keys \cup {NoKey}]
  /\ approved \subseteq Gates \X Keys
  /\ restarts \in Nat

-----------------------------------------------------------------------------
(* What the server answers *)

IsWaiting(g) == waiting[g] # NoKey
Waiting == {g \in Gates : IsWaiting(g)}

\* isOpen: with no gate paired at all, pairing is open without a window.
IsOpen == window \/ \A g \in Gates : keys[g] = NoKey

\* login with a key: whether it goes on the list, in place of an earlier key.
MayWait(g) ==
  /\ IsOpen /\ g \notin rejected
  /\ IsWaiting(g) \/ Cardinality(Waiting) < MaxWaiting

\* login with a token: CONNACK 4, unless the gate waits already.
IsAsked(g) ==
  /\ ~IsWaiting(g) /\ IsOpen /\ g \notin rejected
  /\ Cardinality(Waiting) < MaxWaiting

\* Mutant: any key of a known gate will do.
AcceptedAsKnown(g) == keys[g] # NoKey

\* The key itself, or a token made with it.
IsAccepted(g) == keys[g] = key[g]

-----------------------------------------------------------------------------
(* The gate: every attempt to connect, and losing the connection *)

Connect(g) ==
  /\ login[g] = NoKey /\ IsAccepted(g)
  /\ login' = [login EXCEPT ![g] = key[g]]
  /\ sendKey' = [sendKey EXCEPT ![g] = FALSE]
  /\ UNCHANGED <<key, server>>

\* CONNACK 4 or 5 to a token.
RefusedToken(g) ==
  /\ login[g] = NoKey /\ ~IsAccepted(g) /\ ~sendKey[g]
  /\ sendKey' = [sendKey EXCEPT ![g] = IsAsked(g)]
  /\ UNCHANGED <<key, login, server>>

\* CONNACK 5 to a key, which may be on the list now.
RefusedKey(g) ==
  /\ login[g] = NoKey /\ ~IsAccepted(g) /\ sendKey[g]
  /\ sendKey' = [sendKey EXCEPT ![g] = FALSE]
  /\ waiting' = IF MayWait(g) THEN [waiting EXCEPT ![g] = key[g]] ELSE waiting
  /\ UNCHANGED <<key, login, keys, rejected, window, approved, restarts>>

Attempt(g) == Connect(g) \/ RefusedToken(g) \/ RefusedKey(g)

Drop(g) ==
  /\ login[g] # NoKey
  /\ login' = [login EXCEPT ![g] = NoKey]
  /\ UNCHANGED <<key, sendKey, server>>

\* loadSettings / loadGateKey: a key is made once and survives restarts; only
\* a new SD card or an erased flash makes another.
Restart(g) ==
  /\ login' = [login EXCEPT ![g] = NoKey]
  /\ sendKey' = [sendKey EXCEPT ![g] = FALSE]
  /\ \/ key' = key
     \/ key[g] < MaxIdentities /\ key' = [key EXCEPT ![g] = @ + 1]
  /\ UNCHANGED server

-----------------------------------------------------------------------------
(* The organiser and the server *)

OpenPairing ==
  /\ window' = TRUE /\ rejected' = {}
  /\ UNCHANGED <<keys, waiting, key, sendKey, login, approved, restarts>>

\* Ten minutes later; who waits stays on the list.
WindowEnds ==
  /\ window /\ window' = FALSE
  /\ UNCHANGED <<keys, waiting, rejected, key, sendKey, login, approved, restarts>>

\* Mutants: without waitingOrFail; the entry stays.
AcceptAnyone(g) ==
  /\ keys' = [keys EXCEPT ![g] = waiting[g]]
  /\ waiting' = [waiting EXCEPT ![g] = NoKey]
  /\ approved' = approved \cup {<<g, waiting[g]>>}
  /\ UNCHANGED <<rejected, window, key, sendKey, login, restarts>>
AcceptKeepsWaiting(g) ==
  /\ IsWaiting(g)
  /\ keys' = [keys EXCEPT ![g] = waiting[g]]
  /\ approved' = approved \cup {<<g, waiting[g]>>}
  /\ UNCHANGED <<waiting, rejected, window, key, sendKey, login, restarts>>

\* accept saves the key the gate waits with, whether pairing is still open or not.
Accept(g) ==
  /\ IsWaiting(g)
  /\ keys' = [keys EXCEPT ![g] = waiting[g]]
  /\ waiting' = [waiting EXCEPT ![g] = NoKey]
  /\ approved' = approved \cup {<<g, waiting[g]>>}
  /\ UNCHANGED <<rejected, window, key, sendKey, login, restarts>>

\* Mutant: the gate stays on the list.
RejectKeepsWaiting(g) ==
  /\ IsWaiting(g)
  /\ rejected' = rejected \cup {g}
  /\ UNCHANGED <<keys, waiting, window, key, sendKey, login, approved, restarts>>

Reject(g) ==
  /\ IsWaiting(g)
  /\ waiting' = [waiting EXCEPT ![g] = NoKey]
  /\ rejected' = rejected \cup {g}
  /\ UNCHANGED <<keys, window, key, sendKey, login, approved, restarts>>

\* Only the keys are on disk (onModuleInit).
ServerRestart ==
  /\ restarts < MaxRestarts /\ restarts' = restarts + 1
  /\ waiting' = [g \in Gates |-> NoKey] /\ rejected' = {} /\ window' = FALSE
  /\ login' = [g \in Gates |-> NoKey]
  /\ UNCHANGED <<keys, key, sendKey, approved>>

-----------------------------------------------------------------------------
Init ==
  /\ keys = [g \in Gates |-> NoKey] /\ waiting = [g \in Gates |-> NoKey]
  /\ rejected = {} /\ window = FALSE /\ approved = {} /\ restarts = 0
  /\ key = [g \in Gates |-> 1] /\ sendKey = [g \in Gates |-> FALSE]
  /\ login = [g \in Gates |-> NoKey]

Next ==
  \/ OpenPairing \/ WindowEnds \/ ServerRestart
  \/ \E g \in Gates : \/ Attempt(g) \/ Drop(g) \/ Restart(g)
                      \/ Accept(g) \/ Reject(g)

\* A refused or lost gate tries again for ever (reconnectOnConnackError,
\* reconnectPeriod; esp-mqtt reconnects by itself).
Fairness == \A g \in Gates : WF_vars(Attempt(g))

Spec == Init /\ [][Next]_vars /\ Fairness

-----------------------------------------------------------------------------
(* Properties *)

\* A gate is connected only with a key the organiser accepted for it, however
\* often pairing opened, keys changed and the server restarted in between.
OnlyApprovedConnect ==
  \A g \in Gates : /\ login[g] # NoKey => <<g, login[g]>> \in approved
                   /\ keys[g] # NoKey => <<g, keys[g]>> \in approved

\* "A rejected one stays refused until pairing is opened again": it is not on
\* the list, so it cannot be accepted by a second click, and stays without a
\* connection unless an earlier key of it is still the approved one.
RejectedStaysOut ==
  [][\A g \in rejected \cap rejected' :
       /\ waiting'[g] = NoKey /\ keys'[g] = keys[g]
       /\ login'[g] # NoKey => login'[g] = login[g] \/ keys[g] = key[g]]_vars

\* Once pairing stays open, nobody else is rejected and the organiser accepts
\* whoever is listed, every gate that is left running and was not rejected gets
\* in, and again after each drop, whatever stale keys and full lists it met.
OrganiserAccepts == \A g \in Gates : WF_vars(Accept(g))
PairingLetsIn ==
  \A g \in Gates :
    (/\ OrganiserAccepts /\ <>[](window /\ g \notin rejected)
     /\ <>[][UNCHANGED rejected /\ ~Restart(g)]_vars) => []<>(login[g] # NoKey)
=============================================================================
