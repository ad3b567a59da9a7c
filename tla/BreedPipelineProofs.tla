------------------------ MODULE BreedPipelineProofs ------------------------
(***************************************************************************)
(* What BreedPipeline promises about pictures, for every threshold, every   *)
(* backlog and any number of requests.                                     *)
(***************************************************************************)
EXTENDS BreedPipeline, TLAPS

USE DEF Session

(* Types.  A window is full only when it is being decided on. *)
Filling == pc \in {"poll", "infer", "remove"} => Len(window) < COUNT_THRESHOLD
Shape == TypeOK /\ Filling

LEMMA ShapeInit == Init => Shape
<1> SUFFICES ASSUME Init PROVE Shape  OBVIOUS
<1>1. TypeOK
  <2>1. /\ serverUp \in BOOLEAN /\ alive \in BOOLEAN /\ sock \in BOOLEAN /\ camera \in BOOLEAN
        /\ owed \in BOOLEAN /\ failed \in BOOLEAN /\ disturbed \in BOOLEAN
    BY DEF Init
  <2>2. /\ requests \in 0 .. MaxRequests /\ inbox \in 0 .. requests /\ failures \in 0 .. MaxFailures
        /\ rcvPc = "read" /\ image = "none" /\ pc = "poll" /\ session = 0 /\ taken = 0 /\ frame = 0
    BY PipelineConstants DEF Init
  <2>3. held = <<>> /\ port5000 = <<>> /\ port7000 = <<>> /\ window = <<>>  BY DEF Init
  <2> QED  BY <2>1, <2>2, <2>3, PipelineConstants DEF TypeOK
<1>2. Filling  BY PipelineConstants DEF Init, Filling
<1> QED  BY <1>1, <1>2 DEF Shape

LEMMA RefusedType ==
  ASSUME Shape, Refused PROVE failures' \in 0 .. MaxFailures
BY PipelineConstants DEF Refused, Shape, TypeOK

LEMMA ShapeClient == Shape /\ (Client \/ Breed \/ Quit) => Shape'
<1> SUFFICES ASSUME Shape, Client \/ Breed \/ Quit PROVE Shape'  OBVIOUS
<1> USE DEF Shape, Filling
<1>1. CASE Receive  BY <1>1 DEF Receive, ports, shots, infer, ghosts, TypeOK
<1>2. CASE ReceiveEnd  BY <1>2 DEF ReceiveEnd, ports, shots, infer, ghosts, TypeOK
<1>3. CASE trigger_python_detection
  <2>1. /\ failures' \in 0 .. MaxFailures /\ port5000' \in Seq({"START", "STOP"})
        /\ Len(port5000') <= BACKLOG /\ owed' \in BOOLEAN
    <3>1. CASE Refused /\ UNCHANGED <<port5000, owed>>  BY <3>1, RefusedType DEF TypeOK
    <3>2. CASE Len(port5000) < BACKLOG /\ port5000' = Append(port5000, "START")
               /\ owed' = TRUE /\ UNCHANGED failures
      BY <3>2, PipelineConstants DEF TypeOK
    <3> QED  BY <1>3, <3>1, <3>2 DEF trigger_python_detection
  <2> QED  BY <1>3, <2>1 DEF trigger_python_detection, shots, infer, TypeOK
<1>4. CASE BreedRead
  <2>1. /\ held' \in Seq(Seq(Session)) /\ Len(held') = 1
        /\ port7000' \in Seq(Seq(Session)) /\ Len(port7000') <= BACKLOG
    <3> DEFINE Window == Seq(Session)
    <3>1. port7000 \in Seq(Window) /\ port7000 # <<>>  BY <1>4 DEF BreedRead, TypeOK
    <3> HIDE DEF Window
    <3>2. Head(port7000) \in Window /\ Tail(port7000) \in Seq(Window)
          /\ Len(Tail(port7000)) = Len(port7000) - 1
      BY <3>1
    <3>3. held' = <<Head(port7000)>> /\ port7000' = Tail(port7000)  BY <1>4 DEF BreedRead
    <3>4. <<Head(port7000)>> \in Seq(Window) /\ Len(<<Head(port7000)>>) = 1  BY <3>2
    <3>5. Len(port7000') <= BACKLOG
      BY <3>1, <3>2, <3>3, PipelineConstants DEF TypeOK
    <3> QED  BY <3>2, <3>3, <3>4, <3>5 DEF Window
  <2> QED  BY <1>4, <2>1 DEF BreedRead, shots, infer, ghosts, TypeOK
<1>5. CASE BreedWrite
  <2>1. /\ held' = <<>> /\ owed' \in BOOLEAN
        /\ UNCHANGED <<serverUp, requests, inbox, alive, sock, rcvPc, ports, shots, infer, failed, disturbed>>
    BY <1>5 DEF BreedWrite
  <2>2. held' \in Seq(Seq(Session)) /\ Len(held') <= 1  BY <2>1
  <2>3. TypeOK'  BY <2>1, <2>2 DEF ports, shots, infer, TypeOK
  <2> QED  BY <2>1, <2>3 DEF infer
<1>6. CASE BreedWriteFails
  <2>1. alive' \in BOOLEAN  BY <1>6 DEF BreedWriteFails, TypeOK
  <2>2. held' = <<>> /\ UNCHANGED <<serverUp, requests, inbox, sock, rcvPc, ports, shots, infer, ghosts>>
    BY <1>6 DEF BreedWriteFails
  <2>3. held' \in Seq(Seq(Session)) /\ Len(held') <= 1  BY <2>2
  <2>4. TypeOK'  BY <2>1, <2>2, <2>3 DEF ports, shots, infer, ghosts, TypeOK
  <2> QED  BY <2>2, <2>4 DEF infer
<1>7. CASE Quit
  <2>1. /\ alive' \in BOOLEAN /\ sock' \in BOOLEAN /\ failed' \in BOOLEAN
        /\ UNCHANGED <<serverUp, requests, inbox, rcvPc, held, ports, shots, infer, owed, disturbed>>
    BY <1>7 DEF Quit
  <2> QED  BY <2>1 DEF ports, shots, infer, TypeOK
<1> QED  BY <1>1, <1>2, <1>3, <1>4, <1>5, <1>6, <1>7 DEF Client, Breed

LEMMA ShapeCamera == Shape /\ (Request \/ ServerEnd \/ CameraCommand \/ Shoot) => Shape'
<1> SUFFICES ASSUME Shape, Request \/ ServerEnd \/ CameraCommand \/ Shoot PROVE Shape'  OBVIOUS
<1> USE DEF Shape, Filling
<1>1. CASE Request
  BY <1>1, PipelineConstants DEF Request, client, ports, shots, infer, ghosts, TypeOK
<1>2. CASE ServerEnd
  <2>1. /\ serverUp' \in BOOLEAN /\ failed' \in BOOLEAN
        /\ UNCHANGED <<requests, inbox, client, ports, shots, infer, owed, disturbed>>
    BY <1>2 DEF ServerEnd
  <2> QED  BY <2>1 DEF client, ports, shots, infer, TypeOK
<1>3. CASE CameraCommand
  <2>1. port5000' \in Seq({"START", "STOP"}) /\ Len(port5000') <= BACKLOG
    BY <1>3, PipelineConstants DEF CameraCommand, TypeOK
  <2>2. session' \in Nat /\ camera' \in BOOLEAN /\ disturbed' \in BOOLEAN
    BY <1>3 DEF CameraCommand, TypeOK
  <2> QED  BY <1>3, <2>1, <2>2 DEF CameraCommand, client, infer, TypeOK
<1>4. CASE Shoot
  <2>1. disturbed' \in BOOLEAN  BY <1>4 DEF Shoot, TypeOK, Stopping
  <2> QED  BY <1>4, <2>1 DEF Shoot, client, ports, infer, TypeOK
<1> QED  BY <1>1, <1>2, <1>3, <1>4

LEMMA ShapeClassifier == Shape /\ Classifier => Shape'
<1> SUFFICES ASSUME Shape, Classifier PROVE Shape'  OBVIOUS
<1> USE DEF Shape, Filling
<1>1. CASE Load  BY <1>1 DEF Load, client, ports, ghosts, TypeOK
<1>2. CASE Infer
  <2>1. window' \in Seq(Session) /\ Len(window') = Len(window) + 1 /\ Len(window) \in Nat
    BY <1>2 DEF Infer, TypeOK
  <2>2. Len(window') <= COUNT_THRESHOLD
        /\ (pc' \in {"poll", "infer", "remove"} => Len(window') < COUNT_THRESHOLD)
    BY <1>2, <2>1, PipelineConstants DEF Infer
  <2>3. pc' \in {"stop", "remove"}  BY <1>2 DEF Infer
  <2> QED  BY <1>2, <2>1, <2>2, <2>3 DEF Infer, client, ports, shots, ghosts, TypeOK
<1>3. CASE send_stop_detection_command
  <2>1. /\ failures' \in 0 .. MaxFailures /\ port5000' \in Seq({"START", "STOP"})
        /\ Len(port5000') <= BACKLOG /\ disturbed' \in BOOLEAN
    <3>1. CASE Refused /\ disturbed' = TRUE /\ UNCHANGED port5000
      BY <3>1, RefusedType DEF TypeOK
    <3>2. CASE Len(port5000) < BACKLOG /\ port5000' = Append(port5000, "STOP")
               /\ UNCHANGED <<failures, disturbed>>
      BY <3>2, PipelineConstants DEF TypeOK
    <3> QED  BY <1>3, <3>1, <3>2 DEF send_stop_detection_command
  <2> QED  BY <1>3, <2>1 DEF send_stop_detection_command, client, shots, TypeOK
<1>4. CASE send_confirmed_breed
  <2>1. /\ failures' \in 0 .. MaxFailures /\ port7000' \in Seq(Seq(Session))
        /\ Len(port7000') <= BACKLOG /\ failed' \in BOOLEAN
    <3>1. CASE Refused /\ failed' = TRUE /\ UNCHANGED port7000
      BY <3>1, RefusedType DEF TypeOK
    <3>2. CASE alive /\ Len(port7000) < BACKLOG /\ port7000' = Append(port7000, window)
               /\ UNCHANGED <<failures, failed>>
      <4> DEFINE Window == Seq(Session)
      <4>1. port7000 \in Seq(Window) /\ window \in Window  BY DEF TypeOK
      <4> HIDE DEF Window
      <4>2. port7000' \in Seq(Window) /\ Len(port7000') <= BACKLOG
        BY <3>2, <4>1, PipelineConstants
      <4> QED  BY <3>2, <4>2 DEF TypeOK, Window
    <3>3. CASE ~alive /\ UNCHANGED <<port7000, failures, failed>>  BY <3>3 DEF TypeOK
    <3> QED  BY <1>4, <3>1, <3>2, <3>3 DEF send_confirmed_breed
  <2>2. window' \in Seq(Session) /\ Len(window') = 0  BY <1>4 DEF send_confirmed_breed
  <2> QED  BY <1>4, <2>1, <2>2, PipelineConstants
           DEF send_confirmed_breed, client, shots, TypeOK
<1>5. CASE Remove  BY <1>5 DEF Remove, client, ports, ghosts, TypeOK
<1> QED  BY <1>1, <1>2, <1>3, <1>4, <1>5 DEF Classifier

LEMMA ShapeStep == Shape /\ [Next]_vars => Shape'
<1> SUFFICES ASSUME Shape, [Next]_vars PROVE Shape'  OBVIOUS
<1>1. CASE UNCHANGED vars
  BY <1>1 DEF vars, client, ports, shots, infer, ghosts, Shape, TypeOK, Filling
<1> QED  BY <1>1, ShapeClient, ShapeCamera, ShapeClassifier DEF Next

(* Every variable has its type in every reachable state; no window holds more  *)
(* predictions than the classifier decides on.                                *)
THEOREM PipelineTypes == Spec => []TypeOK
<1>1. Shape => TypeOK  BY DEF Shape
<1> QED  BY <1>1, ShapeInit, ShapeStep, PTL DEF Spec

-----------------------------------------------------------------------------
(* The next picture is never the one dealt with: os.remove comes between       *)
(* (l. 149), of whatever the file holds.                                      *)
THEOREM PicturesCountOnce == Spec => []NoPictureTwice
<1>1. Init => NoPictureTwice  BY DEF Init, NoPictureTwice
<1>2. NoPictureTwice /\ [Next]_vars => NoPictureTwice'
  <2> SUFFICES ASSUME NoPictureTwice, [Next]_vars PROVE NoPictureTwice'  OBVIOUS
  <2> USE DEF NoPictureTwice
  <2>1. CASE Client \/ Breed \/ Quit
    BY <2>1 DEF Client, Breed, Receive, ReceiveEnd, trigger_python_detection, BreedRead, BreedWrite,
                BreedWriteFails, Quit, shots, infer
  <2>2. CASE Request \/ ServerEnd \/ CameraCommand \/ Shoot
    BY <2>2 DEF Request, ServerEnd, CameraCommand, Shoot, shots, infer
  <2>3. CASE Load \/ Infer \/ Remove
    BY <2>3 DEF Load, Infer, Remove
  <2>4. CASE send_stop_detection_command \/ send_confirmed_breed
    BY <2>4 DEF send_stop_detection_command, send_confirmed_breed
  <2>5. CASE UNCHANGED vars  BY <2>5 DEF vars, shots, infer
  <2> QED  BY <2>1, <2>2, <2>3, <2>4, <2>5 DEF Next, Classifier
<1> QED  BY <1>1, <1>2, PTL DEF Spec

-----------------------------------------------------------------------------
(* As long as nothing disturbed a session, the camera is on and no STOP is on  *)
(* its way while pictures of it are collected, and all of them are of it.      *)
Live == camera /\ ~Stopping
Collecting == pc = "stop" \/ (pc \in {"poll", "infer", "remove"} /\ window # <<>>)
SessionInv ==
    /\ \A j \in DOMAIN port7000 : OneSession(port7000[j])
    /\ pc = "poll" /\ image # "none" => Live /\ taken = session
    /\ pc = "infer" => Live /\ frame = session
    /\ Collecting => Live
    /\ pc # "breed" => \A j \in DOMAIN window : window[j] = session
    /\ pc = "breed" => OneSession(window)
Undisturbed == ~disturbed => SessionInv

LEMMA SessionInit == Init => Undisturbed
BY DEF Init, Undisturbed, SessionInv, Collecting

(* Nothing but the camera and the classifier bears on it; a START that waits  *)
(* is no STOP.                                                               *)
LEMMA SessionKept ==
  ASSUME Undisturbed, UNCHANGED <<camera, session, image, taken, infer, disturbed>>,
         Stopping' => Stopping,
         \A j \in DOMAIN port7000' : \E k \in DOMAIN port7000 : port7000'[j] = port7000[k]
  PROVE  Undisturbed'
BY DEF infer, Undisturbed, SessionInv, Collecting, Live, OneSession

LEMMA SessionClient ==
  ASSUME Shape, Undisturbed, Client \/ Breed \/ Quit \/ Request \/ ServerEnd
  PROVE  Undisturbed'
<1>1. UNCHANGED <<camera, session, image, taken, infer, disturbed>>
  BY DEF Client, Breed, Receive, ReceiveEnd, trigger_python_detection, BreedRead, BreedWrite,
         BreedWriteFails, Quit, Request, ServerEnd, shots, ghosts
<1>2. Stopping' => Stopping
  <2>1. CASE UNCHANGED port5000  BY <2>1 DEF Stopping
  <2>2. CASE port5000' = Append(port5000, "START")
    <3>1. /\ Len(port5000) \in Nat /\ DOMAIN port5000 = 1 .. Len(port5000)
          /\ DOMAIN port5000' = 1 .. Len(port5000) + 1 /\ port5000'[Len(port5000) + 1] = "START"
          /\ \A j \in 1 .. Len(port5000) : port5000'[j] = port5000[j]
      BY <2>2 DEF Shape, TypeOK
    <3>2. \A j \in DOMAIN port5000' : j \in DOMAIN port5000 \/ j = Len(port5000) + 1  BY <3>1
    <3> QED  BY <3>1, <3>2 DEF Stopping
  <2> QED
    BY <2>1, <2>2 DEF Client, Breed, Receive, ReceiveEnd, trigger_python_detection, BreedRead,
                      BreedWrite, BreedWriteFails, Quit, Request, ServerEnd, ports
<1>3. \A j \in DOMAIN port7000' : \E k \in DOMAIN port7000 : port7000'[j] = port7000[k]
  <2>1. CASE UNCHANGED port7000  BY <2>1
  <2>2. CASE port7000' = Tail(port7000) /\ port7000 # <<>>
    <3>1. /\ Len(port7000) \in Nat /\ DOMAIN port7000 = 1 .. Len(port7000)
          /\ DOMAIN port7000' = 1 .. Len(port7000) - 1
          /\ \A j \in 1 .. Len(port7000) - 1 : port7000'[j] = port7000[j + 1]
      <4> DEFINE Window == Seq(Session)
      <4>1. port7000 \in Seq(Window)  BY DEF Shape, TypeOK
      <4> HIDE DEF Window
      <4> QED  BY <2>2, <4>1
    <3>2. \A j \in 1 .. Len(port7000) - 1 : j + 1 \in 1 .. Len(port7000)  BY <3>1
    <3> QED  BY <3>1, <3>2
  <2> QED
    BY <2>1, <2>2 DEF Client, Breed, Receive, ReceiveEnd, trigger_python_detection, BreedRead,
                      BreedWrite, BreedWriteFails, Quit, Request, ServerEnd, ports
<1> QED  BY <1>1, <1>2, <1>3, SessionKept

LEMMA SessionCamera ==
  ASSUME Shape, Undisturbed, CameraCommand \/ Shoot PROVE Undisturbed'
<1> SUFFICES ASSUME ~disturbed' PROVE SessionInv'  BY DEF Undisturbed
<1>1. CASE CameraCommand
  <2>1. /\ ~disturbed /\ SessionInv /\ UNCHANGED <<port7000, image, taken, infer>>
        /\ ~(camera /\ Head(port5000) = "START")
    BY <1>1 DEF CameraCommand, Undisturbed
  <2>2. port5000 # <<>> /\ port5000 \in Seq({"START", "STOP"})
    BY <1>1 DEF CameraCommand, Shape, TypeOK
  <2>3. ~Live
    <3>1. Head(port5000) = port5000[1] /\ 1 \in DOMAIN port5000 /\ port5000[1] \in {"START", "STOP"}
      BY <2>2
    <3> QED  BY <2>1, <3>1 DEF Live, Stopping
  <2>4. /\ ~(pc = "poll" /\ image # "none") /\ pc # "infer" /\ ~Collecting
    BY <2>1, <2>3 DEF SessionInv
  <2>5. pc' = pc /\ window' = window /\ image' = image /\ port7000' = port7000  BY <2>1 DEF infer
  <2>6. pc' # "breed" => window' = <<>>  BY <2>4, <2>5 DEF Collecting, Shape, TypeOK
  <2>7. pc' # "breed" => \A j \in DOMAIN window' : window'[j] = session'  BY <2>6
  <2>8. ~Collecting'  BY <2>4, <2>5 DEF Collecting
  <2> QED  BY <2>1, <2>4, <2>5, <2>7, <2>8 DEF SessionInv, OneSession
<1>2. CASE Shoot
  <2>1. /\ ~disturbed /\ SessionInv /\ camera /\ ~Stopping /\ taken' = session
        /\ UNCHANGED <<port5000, port7000, camera, session, infer>>
    BY <1>2 DEF Shoot, Undisturbed, ports
  <2>2. pc' = pc /\ window' = window /\ frame' = frame /\ Live'
    BY <2>1 DEF infer, Live, Stopping
  <2> QED  BY <2>1, <2>2 DEF SessionInv, Collecting, OneSession
<1> QED  BY <1>1, <1>2

LEMMA SessionClassifier ==
  ASSUME Shape, Undisturbed, Classifier PROVE Undisturbed'
<1> SUFFICES ASSUME ~disturbed' PROVE SessionInv'  BY DEF Undisturbed
<1>0. ~disturbed /\ SessionInv
  BY DEF Classifier, Load, Infer, send_stop_detection_command, send_confirmed_breed, Remove, ghosts,
         Undisturbed
<1>1. CASE Load
  <2>1. /\ pc = "poll" /\ image # "none" /\ pc' = "infer" /\ frame' = taken
        /\ UNCHANGED <<port5000, port7000, camera, session, window>>
    BY <1>1 DEF Load, ports
  <2>2. Live' /\ frame' = session'  BY <1>0, <2>1 DEF SessionInv, Live, Stopping
  <2> QED  BY <1>0, <2>1, <2>2 DEF SessionInv, Collecting, OneSession
<1>2. CASE Infer
  <2>1. /\ pc = "infer" /\ pc' \in {"stop", "remove"} /\ window' = Append(window, frame)
        /\ UNCHANGED <<port5000, port7000, camera, session>>
    BY <1>2 DEF Infer, ports, shots
  <2>2. Live' /\ frame = session  BY <1>0, <2>1 DEF SessionInv, Live, Stopping
  <2>3. \A j \in DOMAIN window' : window'[j] = session'
    <3>1. /\ Len(window) \in Nat /\ DOMAIN window = 1 .. Len(window)
          /\ DOMAIN window' = 1 .. Len(window) + 1 /\ window'[Len(window) + 1] = frame
          /\ \A j \in 1 .. Len(window) : window'[j] = window[j]
      BY <2>1 DEF Shape, TypeOK
    <3>2. \A j \in DOMAIN window' : j \in DOMAIN window \/ j = Len(window) + 1  BY <3>1
    <3> QED  BY <1>0, <2>1, <2>2, <3>1, <3>2 DEF SessionInv
  <2> QED  BY <1>0, <2>1, <2>2, <2>3 DEF SessionInv, Collecting, OneSession
<1>3. CASE send_stop_detection_command
  <2>1. /\ pc = "stop" /\ pc' = "breed" /\ UNCHANGED <<port7000, window>>
    BY <1>3 DEF send_stop_detection_command
  <2>2. OneSession(window)
    <3>1. \A j \in DOMAIN window : window[j] = session  BY <1>0, <2>1 DEF SessionInv
    <3>2. \A j \in DOMAIN window : 1 \in DOMAIN window
      <4>1. DOMAIN window = 1 .. Len(window) /\ Len(window) \in Nat  BY DEF Shape, TypeOK
      <4> QED  BY <4>1
    <3> QED  BY <3>1, <3>2 DEF OneSession
  <2> QED  BY <1>0, <2>1, <2>2 DEF SessionInv, Collecting, OneSession
<1>4. CASE send_confirmed_breed
  <2>1. pc = "breed" /\ pc' = "remove" /\ window' = <<>>  BY <1>4 DEF send_confirmed_breed
  <2>2. ASSUME NEW j \in DOMAIN port7000' PROVE OneSession(port7000'[j])
    <3>1. CASE UNCHANGED port7000  BY <1>0, <3>1 DEF SessionInv
    <3>2. CASE port7000' = Append(port7000, window)
      <4> DEFINE Window == Seq(Session)
      <4>1. port7000 \in Seq(Window) /\ window \in Window  BY DEF Shape, TypeOK
      <4> HIDE DEF Window
      <4>2. /\ Len(port7000) \in Nat /\ DOMAIN port7000 = 1 .. Len(port7000)
            /\ DOMAIN port7000' = 1 .. Len(port7000) + 1 /\ port7000'[Len(port7000) + 1] = window
            /\ \A k \in 1 .. Len(port7000) : port7000'[k] = port7000[k]
        BY <3>2, <4>1
      <4>3. j \in DOMAIN port7000 \/ j = Len(port7000) + 1  BY <4>2
      <4>4. OneSession(window) /\ \A k \in DOMAIN port7000 : OneSession(port7000[k])
        BY <1>0, <2>1 DEF SessionInv
      <4>5. CASE j \in DOMAIN port7000
        <5>1. port7000'[j] = port7000[j]  BY <4>2, <4>5
        <5> QED  BY <4>4, <4>5, <5>1
      <4>6. CASE j = Len(port7000) + 1
        <5>1. port7000'[j] = window  BY <4>2, <4>6
        <5> QED  BY <4>4, <5>1
      <4> QED  BY <4>3, <4>5, <4>6
    <3> QED  BY <1>4, <3>1, <3>2 DEF send_confirmed_breed
  <2>3. \A j \in DOMAIN window' : window'[j] = session'  BY <2>1
  <2>4. pc' # "breed" /\ pc' # "poll" /\ pc' # "infer" /\ ~Collecting'  BY <2>1 DEF Collecting
  <2> QED  BY <2>2, <2>3, <2>4 DEF SessionInv
<1>5. CASE Remove
  <2>1. /\ pc = "remove" /\ pc' = "poll" /\ image' = "none"
        /\ UNCHANGED <<port5000, port7000, camera, session, window>>
    BY <1>5 DEF Remove, ports
  <2> QED  BY <1>0, <2>1 DEF SessionInv, Collecting, Live, Stopping, OneSession
<1> QED  BY <1>1, <1>2, <1>3, <1>4, <1>5 DEF Classifier

(* The pictures of a decision are of one session, as long as no START came     *)
(* while the camera was on and every STOP got through before the next picture  *)
(* (l. 44-53, 139-149), for every threshold.                                  *)
THEOREM BreedsOfOneDog == Spec => []OneDogPerBreed
<1>1. Shape /\ Undisturbed /\ [Next]_vars => Undisturbed'
  <2> SUFFICES ASSUME Shape, Undisturbed, [Next]_vars PROVE Undisturbed'  OBVIOUS
  <2>1. CASE UNCHANGED vars
    BY <2>1 DEF vars, ports, shots, infer, ghosts, Undisturbed, SessionInv, Collecting, Live,
                Stopping, OneSession
  <2> QED  BY <2>1, SessionClient, SessionCamera, SessionClassifier DEF Next
<1>2. Undisturbed => OneDogPerBreed  BY DEF Undisturbed, SessionInv, OneDogPerBreed
<1> QED  BY <1>1, <1>2, ShapeInit, ShapeStep, SessionInit, PTL DEF Spec

-----------------------------------------------------------------------------
(* The answer that is owed.  Whatever ends one of the two connections, or the  *)
(* client, is an excuse.                                                      *)
Connected == ~failed => alive /\ sock /\ serverUp
OwedInv == Connected /\ OwedIsUnderWay

(* What a step on a port does to the camera's last command. *)
LEMMA CommandSent ==
  ASSUME Shape, NEW x \in {"START", "STOP"}, port5000' = Append(port5000, x)
  PROVE  CameraWillRun' <=> x = "START"
<1>1. Len(port5000') = Len(port5000) + 1 /\ port5000'[Len(port5000) + 1] = x
      /\ Len(port5000) \in Nat
  BY DEF Shape, TypeOK
<1>2. port5000' # <<>>  BY <1>1
<1> QED  BY <1>1, <1>2 DEF CameraWillRun

LEMMA CommandTaken ==
  ASSUME Shape, CameraCommand
  PROVE  CameraWillRun' <=> CameraWillRun
<1>1. /\ port5000 # <<>> /\ port5000' = Tail(port5000)
      /\ camera' = (Head(port5000) = "START")
  BY DEF CameraCommand
<1>2. /\ port5000 \in Seq({"START", "STOP"}) /\ Len(port5000) \in Nat /\ Len(port5000) >= 1
      /\ Len(port5000') = Len(port5000) - 1
      /\ \A k \in 1 .. Len(port5000') : port5000'[k] = port5000[k + 1]
      /\ Head(port5000) = port5000[1]
  BY <1>1 DEF Shape, TypeOK
<1>3. CASE Len(port5000) = 1
  <2>1. port5000' = <<>>  BY <1>1, <1>2, <1>3
  <2> QED  BY <1>1, <1>2, <1>3, <2>1 DEF CameraWillRun
<1>4. CASE Len(port5000) > 1
  <2>1. port5000'[Len(port5000')] = port5000[Len(port5000)]  BY <1>2, <1>4
  <2>2. port5000' # <<>>  BY <1>2, <1>4
  <2> QED  BY <1>1, <2>1, <2>2 DEF CameraWillRun
<1> QED  BY <1>2, <1>3, <1>4

LEMMA OwedClient == Shape /\ OwedInv /\ (Client \/ Breed \/ Quit) => OwedInv'
<1> SUFFICES ASSUME Shape, OwedInv, Client \/ Breed \/ Quit PROVE OwedInv'  OBVIOUS
<1> USE DEF OwedInv, Connected, OwedIsUnderWay
<1>1. CASE Receive
  BY <1>1 DEF Receive, ports, shots, infer, ghosts, CameraWillRun
<1>2. CASE ReceiveEnd
  BY <1>2 DEF ReceiveEnd, ports, shots, infer, ghosts, CameraWillRun
<1>3. CASE trigger_python_detection
  <2>1. UNCHANGED <<serverUp, alive, sock, failed, held, port7000, pc, camera>>
    BY <1>3 DEF trigger_python_detection, shots, infer
  <2>2. CASE port5000' = Append(port5000, "START")
    BY <2>1, <2>2, CommandSent
  <2>3. CASE UNCHANGED <<port5000, owed>>
    BY <2>1, <2>3 DEF CameraWillRun
  <2> QED  BY <1>3, <2>2, <2>3 DEF trigger_python_detection
<1>4. CASE BreedRead
  <2>1. held' # <<>>  BY <1>4 DEF BreedRead
  <2> QED  BY <1>4, <2>1 DEF BreedRead, ghosts
<1>5. CASE BreedWrite  BY <1>5 DEF BreedWrite
<1>6. CASE BreedWriteFails  BY <1>6 DEF BreedWriteFails, ghosts
<1>7. CASE Quit  BY <1>7 DEF Quit
<1> QED  BY <1>1, <1>2, <1>3, <1>4, <1>5, <1>6, <1>7 DEF Client, Breed

LEMMA OwedCamera == Shape /\ OwedInv /\ (Request \/ ServerEnd \/ CameraCommand \/ Shoot) => OwedInv'
<1> SUFFICES ASSUME Shape, OwedInv, Request \/ ServerEnd \/ CameraCommand \/ Shoot PROVE OwedInv'
  OBVIOUS
<1> USE DEF OwedInv, Connected, OwedIsUnderWay
<1>1. CASE Request  BY <1>1 DEF Request, client, ports, shots, infer, ghosts, CameraWillRun
<1>2. CASE ServerEnd  BY <1>2 DEF ServerEnd
<1>3. CASE CameraCommand  BY <1>3, CommandTaken DEF CameraCommand, client, infer
<1>4. CASE Shoot  BY <1>4 DEF Shoot, client, ports, infer, CameraWillRun
<1> QED  BY <1>1, <1>2, <1>3, <1>4

LEMMA OwedClassifier == Shape /\ OwedInv /\ Classifier => OwedInv'
<1> SUFFICES ASSUME Shape, OwedInv, Classifier PROVE OwedInv'  OBVIOUS
<1> USE DEF OwedInv, Connected, OwedIsUnderWay
<1>1. CASE Load  BY <1>1 DEF Load, client, ports, ghosts, CameraWillRun
<1>2. CASE Infer  BY <1>2 DEF Infer, client, ports, shots, ghosts, CameraWillRun
<1>3. CASE send_stop_detection_command
  BY <1>3 DEF send_stop_detection_command, client
<1>4. CASE send_confirmed_breed
  <2>1. /\ pc = "breed" /\ UNCHANGED <<serverUp, client, owed>>
        /\ \/ alive /\ port7000' = Append(port7000, window) /\ UNCHANGED failed
           \/ ~alive /\ UNCHANGED failed
           \/ failed' = TRUE
    BY <1>4 DEF send_confirmed_breed
  <2>2. CASE port7000' = Append(port7000, window) /\ UNCHANGED failed
    <3> DEFINE Window == Seq(Session)
    <3>1. port7000 \in Seq(Window) /\ window \in Window  BY DEF Shape, TypeOK
    <3> HIDE DEF Window
    <3>2. port7000' # <<>>  BY <2>2, <3>1
    <3> QED  BY <2>1, <2>2, <3>2 DEF client
  <2> QED  BY <2>1, <2>2 DEF client
<1>5. CASE Remove  BY <1>5 DEF Remove, client, ports, ghosts, CameraWillRun
<1> QED  BY <1>1, <1>2, <1>3, <1>4, <1>5 DEF Classifier

(* The safety half of EveryStartAnswered: as long as a breed is owed and       *)
(* nothing failed, the camera is on or will be, or a breed is on its way.  A    *)
(* STOP is followed by the breed of the same decision (infer_tflite.py l.       *)
(* 139-142), so the one that turns the camera off has the answer behind it.     *)
THEOREM NoStartForgotten == Spec => []OwedIsUnderWay
<1>1. Init => OwedInv
  BY DEF Init, OwedInv, Connected, OwedIsUnderWay
<1>2. Shape /\ OwedInv /\ [Next]_vars => OwedInv'
  <2> SUFFICES ASSUME Shape, OwedInv, [Next]_vars PROVE OwedInv'  OBVIOUS
  <2>1. CASE UNCHANGED vars
    BY <2>1 DEF vars, client, ports, shots, infer, ghosts, OwedInv, Connected, OwedIsUnderWay,
                CameraWillRun
  <2> QED  BY <2>1, OwedClient, OwedCamera, OwedClassifier DEF Next
<1>3. OwedInv => OwedIsUnderWay  BY DEF OwedInv
<1> QED  BY <1>1, <1>2, <1>3, ShapeInit, ShapeStep, PTL DEF Spec
=============================================================================
