------------------------------ MODULE EventFiles ------------------------------
(***************************************************************************)
(* The folder of event files and the server that runs one of them: what    *)
(* the organiser may do to the folder while the server runs, the switch to *)
(* another event (a restart), and the stage that may be live meanwhile.    *)
(* A file is its name and the number of the write that made its content.   *)
(* Requests that await (create builds a database, import receives an       *)
(* upload) are in progress until their last step; the process going down   *)
(* ends them.  With no usable pointer the server opens the most recently   *)
(* changed file: here, any.                                                *)
(***************************************************************************)
EXTENDS Naturals

CONSTANTS
  Files,      \* the names a file may have
  NoFile,
  Requests,   \* the requests that may be in progress at once
  MaxWrites   \* bound on the contents ever written

ASSUME EventFilesAssumption == NoFile \notin Files /\ MaxWrites \in Nat

VARIABLES
  disk,      \* the content of each file, 0 while there is none
  writes,    \* the number of the last content
  pointer,   \* current.json
  server,    \* "down", "lobby" or "event"
  open,      \* currentFile(): the DataSource's file
  switching, \* app.restart was emitted; the process exits 200 ms later
  live,      \* the files whose database has an ACTIVE stage
  request    \* what each request in progress has checked

vars == <<disk, writes, pointer, server, open, switching, live, request>>

Idle == [op |-> "idle", file |-> NoFile]
InProgress == [op : {"create", "built", "import"}, file : Files]
Content == 0 .. MaxWrites

Exists(f) == disk[f] # 0

\* Types, and the running server's file is there.
EventFilesTypeOK ==
  /\ disk \in [Files -> Content]
  /\ writes \in Content
  /\ pointer \in Files \cup {NoFile}
  /\ server \in {"down", "lobby", "event"}
  /\ open \in Files \cup {NoFile}
  /\ open # NoFile <=> server = "event"
  /\ open # NoFile => Exists(open)
  /\ switching \in BOOLEAN
  /\ live \subseteq Files
  /\ request \in [Requests -> InProgress \cup {Idle}]

Present == {f \in Files : Exists(f)}

\* resolveEventFile
Resolved ==
  IF pointer \in Present THEN {pointer}
  ELSE IF Present # {} THEN Present ELSE {NoFile}

\* switchableDir: no stage of the open event is live.
Switchable == open \notin live

\* Mutant: the pointer's file is taken for the open one.
IsNotNamed(f) == f # pointer

\* currentFile() is not this one.
IsNotOpen(f) == f # open

Written(f) ==
  /\ writes < MaxWrites /\ writes' = writes + 1
  /\ disk' = [disk EXCEPT ![f] = writes + 1]

\* switchTo; `once`: a second app.restart changes nothing more.
SwitchTo(f) == pointer' = f /\ switching' = TRUE

Answered(r) == request' = [request EXCEPT ![r] = Idle]

-----------------------------------------------------------------------------
(* The organiser's requests *)

Up == server # "down"

\* create: the checks, then `await target.initialize()`.
CreateBegin(r, f) ==
  /\ Up /\ request[r] = Idle
  /\ Switchable /\ ~Exists(f)
  /\ request' = [request EXCEPT ![r] = [op |-> "create", file |-> f]]
  /\ UNCHANGED <<disk, writes, pointer, server, open, switching, live>>

\* The database file appears, or is opened if another request made it first.
CreateBuild(r) ==
  /\ request[r].op = "create"
  /\ LET f == request[r].file IN
     /\ IF Exists(f) THEN UNCHANGED <<disk, writes>> ELSE Written(f)
     /\ request' = [request EXCEPT ![r].op = "built"]
  /\ UNCHANGED <<pointer, server, open, switching, live>>

CreateFinish(r) ==
  /\ request[r].op = "built"
  /\ SwitchTo(request[r].file)
  /\ Answered(r)
  /\ UNCHANGED <<disk, writes, server, open, live>>

\* rmSync of what was begun.
CreateFail(r) ==
  /\ request[r].op \in {"create", "built"}
  /\ disk' = [disk EXCEPT ![request[r].file] = 0]
  /\ live' = live \ {request[r].file}
  /\ Answered(r)
  /\ UNCHANGED <<writes, pointer, server, open, switching>>

Open(f) ==
  /\ Up /\ Switchable /\ Exists(f)
  /\ f # open
  /\ SwitchTo(f)
  /\ UNCHANGED <<disk, writes, server, open, live, request>>

Delete(f) ==
  /\ Up /\ Exists(f) /\ IsNotOpen(f)
  /\ disk' = [disk EXCEPT ![f] = 0]
  /\ live' = live \ {f}
  /\ UNCHANGED <<writes, pointer, server, open, switching, request>>

\* importEvent: the checks, then `await receive(...)`.
ImportBegin(r, f, replace) ==
  /\ Up /\ request[r] = Idle
  /\ IsNotOpen(f)
  /\ replace \/ ~Exists(f)
  /\ request' = [request EXCEPT ![r] = [op |-> "import", file |-> f]]
  /\ UNCHANGED <<disk, writes, pointer, server, open, switching, live>>

\* deleteEventFile and copyFileSync; an event saved mid-stage comes in live.
ImportPlace(r) ==
  /\ request[r].op = "import"
  /\ LET f == request[r].file IN
     /\ Written(f)
     /\ live' \in {live \ {f}, live \cup {f}}
  /\ Answered(r)
  /\ UNCHANGED <<pointer, server, open, switching>>

ImportFail(r) ==
  /\ request[r].op = "import"
  /\ Answered(r)
  /\ UNCHANGED <<disk, writes, pointer, server, open, switching, live>>

-----------------------------------------------------------------------------
(* The stages of the open event, and the process *)

Activate ==
  /\ server = "event" /\ live' = live \cup {open}
  /\ UNCHANGED <<disk, writes, pointer, server, open, switching, request>>

Close ==
  /\ server = "event" /\ live' = live \ {open}
  /\ UNCHANGED <<disk, writes, pointer, server, open, switching, request>>

Boot(f) ==
  /\ server' = IF f = NoFile THEN "lobby" ELSE "event"
  /\ open' = f
  /\ switching' = FALSE

\* Exit 75 ends what is in progress, and start.js starts the server without LOBBY.
Restart ==
  /\ switching
  /\ \E f \in Resolved : Boot(f)
  /\ request' = [r \in Requests |-> Idle]
  /\ UNCHANGED <<disk, writes, pointer, live>>

\* Any other end of the process, also half way through a request.
Crash ==
  /\ Up
  /\ server' = "down" /\ open' = NoFile /\ switching' = FALSE
  /\ request' = [r \in Requests |-> Idle]
  /\ UNCHANGED <<disk, writes, pointer, live>>

\* start.js: the first start asks for the lobby.
Launch ==
  /\ server = "down"
  /\ Boot(NoFile)
  /\ UNCHANGED <<disk, writes, pointer, live, request>>

Init ==
  /\ disk = [f \in Files |-> 0] /\ writes = 0
  /\ pointer = NoFile
  /\ server = "down" /\ open = NoFile /\ switching = FALSE
  /\ live = {}
  /\ request = [r \in Requests |-> Idle]

Next ==
  \/ \E r \in Requests :
       \/ \E f \in Files :
            CreateBegin(r, f) \/ \E replace \in BOOLEAN : ImportBegin(r, f, replace)
       \/ CreateBuild(r) \/ CreateFinish(r) \/ CreateFail(r)
       \/ ImportPlace(r) \/ ImportFail(r)
  \/ \E f \in Files : Open(f) \/ Delete(f)
  \/ Activate \/ Close
  \/ Restart \/ Crash \/ Launch

Spec == Init /\ [][Next]_vars

-----------------------------------------------------------------------------
(* Properties *)

\* Whatever else happens to the folder - deletions, uploads that were accepted
\* before, new events being built or failing - the file the running server has
\* open keeps its content (event-files.service.ts: "Never the open event",
\* "The open event is never replaced").
OpenEventStands ==
  [][server = "event" => disk'[open] = disk[open]]_vars

\* A switch never leaves the event of a live stage (the comment on
\* switchableDir: "Refused while a stage is live").  It may: the stage is
\* looked for before the new event is built and 200 ms before the restart.
NoLiveStageLeft ==
  [][Restart /\ server = "event" => open \notin live \/ open' = open]_vars
=============================================================================
