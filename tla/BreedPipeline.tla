---------------------------- MODULE BreedPipeline ----------------------------
(***************************************************************************)
(* From a request for advice to the breed: the client on the Jetson        *)
(* (Client_in_Jetson/iot_client.c), which turns RECO into START for the     *)
(* camera program and passes breeds on to the server, and the classifier   *)
(* (Classification/infer_tflite.py), which takes pictures from one file,   *)
(* decides on count_threshold of them, stops the camera, sends the breed    *)
(* and removes the file.  The camera program is not in the repository: of  *)
(* it there is what the two rely on, a port for START and STOP and a file  *)
(* that it overwrites.                                                     *)
(*                                                                         *)
(* A picture is the session it was taken in: one more for every START.     *)
(* What the network makes of a window of pictures is left out.             *)
(***************************************************************************)
EXTENDS Naturals, Sequences

CONSTANTS
    COUNT_THRESHOLD,  \* predictions of a decision
    BACKLOG,          \* connections that may wait at port 5000, and at port 7000
    MaxRequests,      \* bound: RECO messages
    MaxFailures       \* bound: connections to a port that fail

ASSUME PipelineConstants ==
    /\ COUNT_THRESHOLD \in Nat \ {0}
    /\ BACKLOG \in Nat \ {0}
    /\ MaxRequests \in Nat /\ MaxFailures \in Nat

Session == Nat

VARIABLES
    serverUp,   \* the server has not closed its end
    requests,   \* RECO messages so far (bound)
    inbox,      \* how many of them the client has not read
    alive,      \* the client has not ended
    sock,       \* its *sock is the descriptor; FALSE: it was set to -1
    rcvPc,      \* recv_msg: in "read", about to "trigger", "ended"
    held,       \* the message in receive_breed: empty, or one window of pictures
    port5000,   \* commands the camera has not taken
    port7000,   \* messages receive_breed has not taken, each the pictures it is from
    camera,     \* it takes pictures
    session,    \* how often it was started
    image,      \* the file: "none"; "new", or "old" when the classifier has loaded it
    taken,      \* the session of the picture in the file
    pc,         \* the classifier: "poll", "infer", "stop", "breed", "remove"
    frame,      \* the session of the picture it loaded
    window,     \* prediction_history[0 .. prediction_count-1]
    failures,   \* connections that failed so far (bound)
    owed,       \* a START since the last breed that reached the server (history)
    failed,     \* a breed was lost, or the server or the client ended (history)
    disturbed   \* pictures of two sessions may meet in a window (history)

client == <<alive, sock, rcvPc, held>>
ports  == <<port5000, port7000, failures>>
shots  == <<camera, session, image, taken>>
infer  == <<pc, frame, window>>
ghosts == <<owed, failed, disturbed>>
vars == <<serverUp, requests, inbox, client, ports, shots, infer, ghosts>>

Init ==
    /\ serverUp = TRUE /\ requests = 0 /\ inbox = 0
    /\ alive = TRUE /\ sock = TRUE /\ rcvPc = "read" /\ held = <<>>
    /\ port5000 = <<>> /\ port7000 = <<>> /\ failures = 0
    /\ camera = FALSE /\ session = 0 /\ image = "none" /\ taken = 0
    /\ pc = "poll" /\ frame = 0 /\ window = <<>>
    /\ owed = FALSE /\ failed = FALSE /\ disturbed = FALSE

(* A connection to a port is refused, and only printed. *)
Refused == failures < MaxFailures /\ failures' = failures + 1

-----------------------------------------------------------------------------
(* The panel and the server *)

Request ==
    /\ serverUp /\ requests < MaxRequests
    /\ requests' = requests + 1 /\ inbox' = inbox + 1
    /\ UNCHANGED <<serverUp, client, ports, shots, infer, ghosts>>

ServerEnd ==
    /\ serverUp
    /\ serverUp' = FALSE /\ failed' = TRUE
    /\ UNCHANGED <<requests, inbox, client, ports, shots, infer, owed, disturbed>>

-----------------------------------------------------------------------------
(* The client on the Jetson *)

(* recv_msg: any number of RECO in what one read returns are one. *)
Receive ==
    /\ alive /\ rcvPc = "read" /\ inbox > 0
    /\ inbox' \in 0 .. inbox - 1
    /\ rcvPc' = "trigger"
    /\ UNCHANGED <<serverUp, requests, alive, sock, held, ports, shots, infer, ghosts>>

ReceiveEnd ==
    /\ alive /\ rcvPc = "read"
    /\ ~sock \/ (inbox = 0 /\ ~serverUp)
    /\ sock' = FALSE /\ rcvPc' = "ended"
    /\ UNCHANGED <<serverUp, requests, inbox, alive, held, ports, shots, infer, ghosts>>

trigger_python_detection ==
    /\ alive /\ rcvPc = "trigger"
    /\ rcvPc' = "read"
    /\ \/ /\ Len(port5000) < BACKLOG
          /\ port5000' = Append(port5000, "START")
          /\ owed' = TRUE
          /\ UNCHANGED failures
       \/ Refused /\ UNCHANGED <<port5000, owed>>
    /\ UNCHANGED <<serverUp, requests, inbox, alive, sock, held, port7000, shots, infer, failed, disturbed>>

(* receive_breed: accept and read, then write.  The message ends where the    *)
(* stack happens to hold a 0 after the appended "\n"; the panel's model has   *)
(* the breed it does not know for what then arrives.                          *)
BreedRead ==
    /\ alive /\ held = <<>> /\ port7000 # <<>>
    /\ held' = <<Head(port7000)>>
    /\ port7000' = Tail(port7000)
    /\ UNCHANGED <<serverUp, requests, inbox, alive, sock, rcvPc, port5000, failures, shots, infer, ghosts>>

BreedWrite ==
    /\ alive /\ held # <<>> /\ sock /\ serverUp
    /\ held' = <<>>
    /\ owed' = FALSE
    /\ UNCHANGED <<serverUp, requests, inbox, alive, sock, rcvPc, ports, shots, infer, failed, disturbed>>

(* Descriptor -1, or a connection that the server closed: SIGPIPE perhaps. *)
BreedWriteFails ==
    /\ alive /\ held # <<>> /\ ~(sock /\ serverUp)
    /\ held' = <<>>
    /\ alive' \in {TRUE, ~sock}
    /\ UNCHANGED <<serverUp, requests, inbox, sock, rcvPc, ports, shots, infer, ghosts>>

(* send_msg: "quit", or a line that cannot be written.  main joins this thread *)
(* and returns, which ends the others.                                         *)
Quit ==
    /\ alive
    /\ alive' = FALSE /\ sock' = FALSE /\ failed' = TRUE
    /\ UNCHANGED <<serverUp, requests, inbox, rcvPc, held, ports, shots, infer, owed, disturbed>>

Client == Receive \/ ReceiveEnd \/ trigger_python_detection
Breed  == BreedRead \/ BreedWrite \/ BreedWriteFails

-----------------------------------------------------------------------------
(* The camera program, external *)

(* A session begins with every START.  One that comes while pictures of       *)
(* another session are about lets the two meet in a window.                   *)
CameraCommand ==
    /\ port5000 # <<>>
    /\ port5000' = Tail(port5000)
    /\ camera' = (Head(port5000) = "START")
    /\ session' = IF Head(port5000) = "START" THEN session + 1 ELSE session
    /\ disturbed' = (disturbed \/ (camera /\ Head(port5000) = "START"))
    /\ UNCHANGED <<serverUp, requests, inbox, client, port7000, failures, image, taken, infer, owed, failed>>

(* A picture after the STOP was sent is one too late. *)
Stopping == \E j \in DOMAIN port5000 : port5000[j] = "STOP"
Shoot ==
    /\ camera
    /\ image' = "new" /\ taken' = session
    /\ disturbed' = (disturbed \/ Stopping)
    /\ UNCHANGED <<serverUp, requests, inbox, client, ports, camera, session, infer, owed, failed>>

-----------------------------------------------------------------------------
(* The classifier *)

Load ==
    /\ pc = "poll" /\ image # "none"
    /\ pc' = "infer"
    /\ frame' = taken /\ image' = "old"
    /\ UNCHANGED <<serverUp, requests, inbox, client, ports, camera, session, taken, window, ghosts>>

Infer ==
    /\ pc = "infer"
    /\ window' = Append(window, frame)
    /\ pc' = IF Len(window') >= COUNT_THRESHOLD THEN "stop" ELSE "remove"
    /\ UNCHANGED <<serverUp, requests, inbox, client, ports, shots, frame, ghosts>>

(* A camera that was not told to stop takes pictures for the next session.    *)
send_stop_detection_command ==
    /\ pc = "stop"
    /\ pc' = "breed"
    /\ \/ /\ Len(port5000) < BACKLOG
          /\ port5000' = Append(port5000, "STOP")
          /\ UNCHANGED <<failures, disturbed>>
       \/ Refused /\ disturbed' = TRUE /\ UNCHANGED port5000
    /\ UNCHANGED <<serverUp, requests, inbox, client, port7000, shots, frame, window, owed, failed>>

(* With the window emptied behind it, whether or not the breed was sent. *)
BreedIfAllOfOne ==                                                  \* mutant
    /\ pc = "breed"
    /\ pc' = "remove"
    /\ window' = <<>>
    /\ \/ /\ alive /\ Len(port7000) < BACKLOG
          /\ port7000' = IF window[1] = frame THEN Append(port7000, window) ELSE port7000
          /\ UNCHANGED <<failures, failed>>
       \/ ~alive /\ UNCHANGED <<port7000, failures, failed>>
       \/ Refused /\ failed' = TRUE /\ UNCHANGED port7000
    /\ UNCHANGED <<serverUp, requests, inbox, client, port5000, shots, frame, owed, disturbed>>
send_confirmed_breed ==
    /\ pc = "breed"
    /\ pc' = "remove"
    /\ window' = <<>>
    /\ \/ /\ alive /\ Len(port7000) < BACKLOG
          /\ port7000' = Append(port7000, window)
          /\ UNCHANGED <<failures, failed>>
       \/ ~alive /\ UNCHANGED <<port7000, failures, failed>>
       \/ Refused /\ failed' = TRUE /\ UNCHANGED port7000
    /\ UNCHANGED <<serverUp, requests, inbox, client, port5000, shots, frame, owed, disturbed>>

(* Whatever picture the file holds by now. *)
RemoveOnlyOld ==                                                    \* mutant
    /\ pc = "remove"
    /\ pc' = "poll"
    /\ image' = IF image = "old" THEN "none" ELSE image
    /\ UNCHANGED <<serverUp, requests, inbox, client, ports, camera, session, taken, frame, window, ghosts>>
Remove ==
    /\ pc = "remove"
    /\ pc' = "poll"
    /\ image' = "none"
    /\ UNCHANGED <<serverUp, requests, inbox, client, ports, camera, session, taken, frame, window, ghosts>>

Classifier == \/ Load \/ Infer \/ send_stop_detection_command
              \/ send_confirmed_breed \/ Remove

-----------------------------------------------------------------------------
Next ==
    \/ Request \/ ServerEnd
    \/ Client \/ Breed \/ Quit
    \/ CameraCommand \/ Shoot
    \/ Classifier

Spec == Init /\ [][Next]_vars

(* The threads and the classifier run.  The camera takes the commands it gets, *)
(* and pictures of a dog as long as it is on.                                  *)
FairSpec ==
    /\ Spec
    /\ WF_vars(Client) /\ WF_vars(Breed) /\ WF_vars(Classifier)
    /\ WF_vars(CameraCommand) /\ WF_vars(Shoot)

-----------------------------------------------------------------------------
(* Properties *)

TypeOK ==
    /\ serverUp \in BOOLEAN /\ alive \in BOOLEAN /\ sock \in BOOLEAN /\ camera \in BOOLEAN
    /\ owed \in BOOLEAN /\ failed \in BOOLEAN /\ disturbed \in BOOLEAN
    /\ requests \in 0 .. MaxRequests /\ inbox \in 0 .. requests
    /\ rcvPc \in {"read", "trigger", "ended"}
    /\ port5000 \in Seq({"START", "STOP"}) /\ Len(port5000) <= BACKLOG
    /\ held \in Seq(Seq(Session)) /\ Len(held) <= 1
    /\ port7000 \in Seq(Seq(Session)) /\ Len(port7000) <= BACKLOG
    /\ session \in Session /\ taken \in Session /\ frame \in Session
    /\ image \in {"none", "new", "old"}
    /\ pc \in {"poll", "infer", "stop", "breed", "remove"}
    /\ window \in Seq(Session) /\ Len(window) <= COUNT_THRESHOLD
    /\ failures \in 0 .. MaxFailures

(* No picture counts twice: when the classifier looks for the next one, the     *)
(* file does not hold the one it has dealt with.                               *)
NoPictureTwice == pc = "poll" => image # "old"

(* Advice is about one dog: as long as no START came while the camera was on,  *)
(* every STOP got through and the camera took no picture behind it, the        *)
(* pictures of a decision are of one session.  It is the removal of the file   *)
(* after the STOP, of whatever picture, that keeps the last one of a session   *)
(* out of the next.                                                            *)
OneSession(w) == \A j \in DOMAIN w : w[j] = w[1]
OneDogPerBreed ==
    ~disturbed => \A j \in DOMAIN port7000 : OneSession(port7000[j])

(* A breed is sent for every START, as a START or after one that was under way *)
(* already: however START and STOP cross, the customer gets an answer, unless  *)
(* the breed was lost or one of the two connections ended.                     *)
EveryStartAnswered == owed ~> (~owed \/ failed)

(* What is owed is under way: the last command of the camera is a START, or a  *)
(* breed is on its way to the server.  No STOP that overtakes a START, or is   *)
(* overtaken by one, leaves the camera off with no breed to come.              *)
CameraWillRun == IF port5000 = <<>> THEN camera ELSE port5000[Len(port5000)] = "START"
OwedIsUnderWay ==
    owed /\ ~failed => \/ CameraWillRun
                       \/ pc = "breed" \/ port7000 # <<>> \/ held # <<>>
=============================================================================
