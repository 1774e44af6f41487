--------------------------- MODULE EventFilesProofs ---------------------------
(***************************************************************************)
(* The open event is never touched, for any folder, any number of requests *)
(* and any number of writes.  The two checks against currentFile() and the *)
(* existence check of create are made before an await, and hold after it   *)
(* because nothing but a restart changes the open event, and a restart     *)
(* ends every request: that is what FilesInv adds to the types.            *)
(***************************************************************************)
EXTENDS EventFiles, TLAPS

FilesInv ==
  /\ EventFilesTypeOK
  /\ \A r \in Requests : request[r] # Idle => request[r].file # open

LEMMA FilesInit == Init => FilesInv
<1> SUFFICES ASSUME Init PROVE FilesInv
    OBVIOUS
<1>1. disk \in [Files -> Content] /\ writes \in Content
      BY EventFilesAssumption DEF Init, Content
<1>2. request \in [Requests -> InProgress \cup {Idle}]
      BY DEF Init
<1>3. \A r \in Requests : request[r] = Idle
      BY DEF Init
<1> QED BY <1>1, <1>2, <1>3 DEF Init, FilesInv, EventFilesTypeOK

LEMMA FilesNext == FilesInv /\ [Next]_vars => FilesInv'
<1> SUFFICES ASSUME FilesInv, [Next]_vars PROVE FilesInv'
    OBVIOUS
<1> USE EventFilesAssumption DEF FilesInv, EventFilesTypeOK, InProgress, Content, Idle, Up
<1>1. CASE UNCHANGED vars
      BY <1>1 DEF vars, Exists
<1>2. CASE \E r \in Requests : \E f \in Files : CreateBegin(r, f)
      BY <1>2 DEF CreateBegin, Exists
<1>3. CASE \E r \in Requests : \E f \in Files : \E replace \in BOOLEAN :
             ImportBegin(r, f, replace)
      BY <1>3 DEF ImportBegin, IsNotOpen, Exists
<1>4. CASE \E r \in Requests : CreateBuild(r)
      BY <1>4 DEF CreateBuild, Written, Exists
<1>5. CASE \E r \in Requests : CreateFinish(r)
      BY <1>5 DEF CreateFinish, SwitchTo, Answered, Exists
<1>6. CASE \E r \in Requests : CreateFail(r)
      BY <1>6 DEF CreateFail, Answered, Exists
<1>7. CASE \E r \in Requests : ImportPlace(r)
      BY <1>7 DEF ImportPlace, Written, Answered, Exists
<1>8. CASE \E r \in Requests : ImportFail(r)
      BY <1>8 DEF ImportFail, Answered, Exists
<1>9. CASE \E f \in Files : Open(f)
      BY <1>9 DEF Open, SwitchTo, Exists
<1>10. CASE \E f \in Files : Delete(f)
      BY <1>10 DEF Delete, IsNotOpen, Exists
<1>11. CASE Activate \/ Close
      BY <1>11 DEF Activate, Close, Exists
<1>12. CASE Restart
      BY <1>12 DEF Restart, Resolved, Present, Boot, Exists
<1>13. CASE Crash \/ Launch
      BY <1>13 DEF Crash, Launch, Boot, Exists
<1> QED BY <1>1, <1>2, <1>3, <1>4, <1>5, <1>6, <1>7, <1>8, <1>9, <1>10,
           <1>11, <1>12, <1>13 DEF Next

\* Every state is well typed: whatever the order of requests, restarts and
\* crashes, a running server has a file of its own that is listed.
THEOREM EventFilesTyped == Spec => []EventFilesTypeOK
<1>1. FilesInv => EventFilesTypeOK
      BY DEF FilesInv
<1> QED BY FilesInit, FilesNext, <1>1, PTL DEF Spec

\* No step writes, replaces or deletes the event the server has open.
THEOREM OpenEventIsSafe == Spec => OpenEventStands
<1>1. ASSUME FilesInv, [Next]_vars
      PROVE  [server = "event" => disk'[open] = disk[open]]_vars
  <2> SUFFICES ASSUME Next, server = "event" PROVE disk'[open] = disk[open]
      BY <1>1
  <2> USE <1>1 DEF FilesInv, EventFilesTypeOK, Idle
  <2>1. CASE \E r \in Requests : CreateBuild(r)
        BY <2>1 DEF CreateBuild, Written, Exists
  <2>2. CASE \E r \in Requests : CreateFail(r)
        BY <2>2 DEF CreateFail
  <2>3. CASE \E r \in Requests : ImportPlace(r)
        BY <2>3 DEF ImportPlace, Written
  <2>4. CASE \E f \in Files : Delete(f)
        BY <2>4 DEF Delete, IsNotOpen
  <2>5. CASE UNCHANGED disk
        BY <2>5
  <2> QED BY <2>1, <2>2, <2>3, <2>4, <2>5
          DEF Next, CreateBegin, ImportBegin, CreateFinish, ImportFail, Open,
              Activate, Close, Restart, Crash, Launch
<1> QED BY FilesInit, FilesNext, <1>1, PTL DEF Spec, OpenEventStands
=============================================================================
