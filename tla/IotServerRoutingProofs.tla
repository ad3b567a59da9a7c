----------------------- MODULE IotServerRoutingProofs -----------------------
(* Theorems about what IotServer delivers, to whom and in which order, for  *)
(* every set of connections, table, range of descriptors and of char, and   *)
(* every choice of messages.                                                *)
EXTENDS IotServerProofs

(* What main told a client says how far the connection got: nothing before   *)
(* its login is read, "accepted" from then on if it has a session, and a     *)
(* connection that was answered has the number of its descriptor.            *)
AnswerInv ==
    /\ \A c \in Conn : c \in Live => answer[c] = "accepted"
    /\ \A c \in Conn : answer[c] = "accepted" => slot[c] \in Slot
    /\ \A c \in Conn : answer[c] # "none" => fdNum[c] \in Fd
    /\ \A c \in Conn : peer[c] = "idle" => answer[c] = "none" /\ fdNum[c] = NONE
    /\ \A k \in 1 .. Len(backlog) :
         answer[backlog[k]] = "none" /\ fdNum[backlog[k]] = NONE
    /\ mainPc # "accept" => fdNum[cur] \in Fd
    /\ mainPc \in {"check", "enter", "login"} => answer[cur] = "none"
    /\ mainPc = "kick" => answer[cur] = "busy"
    /\ mainPc = "spawn" => answer[cur] = "accepted"

(* A descriptor that is open is the one its connection was accepted at. *)
DescriptorInv ==
    \A f \in Fd : fdConn[f] # NoConn => fdNum[fdConn[f]] = f

(* The descriptor in a slot was registered by a login for that slot. *)
HolderInv ==
    \A i \in Slot : slotFd[i] # NONE =>
      \E u \in Conn : answer[u] = "accepted" /\ slot[u] = i /\ fdNum[u] = slotFd[i]

(* A slot refused as busy is free from then on until a login takes it, but   *)
(* for the moment between the answer and the write of NONE.                  *)
RefusedInv ==
    \A i \in refused : slotFd[i] = NONE \/ (mainPc = "kick" /\ slot[cur] = i)

(* What the loop of send_msg knows of the message it routes. *)
RequestInv ==
    \A t \in Conn :
      /\ pc[t] \in {"route", "write"} => req[t].msg.cmd # "GETTIME"
      /\ pc[t] \in {"route", "write"} /\ req[t].msg.cmd # "IDLIST" => req[t].ids = {}
      /\ pc[t] = "parse" => req[t].ids = {}
      /\ pc[t] = "write" => req[t].msg.cmd # "IDLIST" /\ Wants(req[t].msg, req[t].next)
      /\ pc[t] = "reply" => req[t].msg.cmd \in {"GETTIME", "IDLIST"}

(* What waits in a socket was written by its client, in the order of its     *)
(* numbers, and is not the login once that was accepted.                     *)
PendingInv ==
    \A c \in Conn :
      /\ \A k \in 1 .. Len(pending[c]) :
           /\ pending[c][k].src = c /\ pending[c][k].n < sent[c]
           /\ pending[c][k].n = 0 <=> pending[c][k].cmd \in {"LOGIN", "BADPW"}
           /\ answer[c] = "accepted" => pending[c][k].n # 0
      /\ \A j, k \in 1 .. Len(pending[c]) : j < k => pending[c][j].n < pending[c][k].n
      /\ answer[c] = "accepted" => sent[c] # 0

(* The connection a session reads, or whose message it serves, has the       *)
(* number that a login for the session's ID got.                             *)
SenderInv ==
    \A t \in Conn :
      /\ pc[t] = "blocked" => on[t] \in Conn /\ HadNumber(slot[t], on[t])
      /\ pc[t] \in {"parse", "route", "write", "reply"} =>
           req[t].msg.src \in Conn /\ HadNumber(slot[t], req[t].msg.src)

(* The descriptor a session answers at was in its slot, if it fits a char. *)
ReplyInv ==
    LastFd < CHAR \div 2 =>
      \A t \in Conn : pc[t] \in {"route", "write", "reply"} /\ req[t].fd \in Fd =>
        \E u \in Conn : answer[u] = "accepted" /\ slot[u] = slot[t] /\ fdNum[u] = req[t].fd

(* The slot of an ID that nobody logged in twice as: it has the descriptor    *)
(* of the one session of the ID, and is free when there is none.             *)
SlotInv ==
    \A i \in Slot : ~Doubled(i) =>
      /\ \A t \in Live : slot[t] = i => slotFd[i] = fdNum[t]
      /\ \A t, u \in Live : slot[t] = i /\ slot[u] = i => t = u
      /\ slotFd[i] # NONE => \E t \in Live : slot[t] = i

BaseInv == /\ AnswerInv /\ DescriptorInv /\ HolderInv /\ RefusedInv
           /\ RequestInv /\ PendingInv /\ SenderInv /\ ReplyInv /\ SlotInv
           /\ MisdeliveryOnlyByReuse /\ ImpersonationOnlyByReuse

(* The connections whose descriptor nobody has closed. *)
Owner(c) == \/ c \in Live /\ pc[c] # "exit"
            \/ answer[c] \in {"full", "auth", "eof"}
            \/ mainPc \in {"check", "enter", "login"} /\ c = cur

(* The descriptor table, while nobody logged in twice. *)
OwnerInv ==
    /\ \A c \in Conn : Owner(c) => fdConn[fdNum[c]] = c
    /\ \A f \in Fd : \A c \in Conn : fdConn[f] = c => Owner(c)

(* The registration table, while nobody logged in twice. *)
TableInv ==
    /\ \A t \in Live : slotFd[slot[t]] = fdNum[t]
    /\ \A t, u \in Live : slot[t] = slot[u] => t = u
    /\ \A i \in Slot : slotFd[i] # NONE => \E t \in Live : slot[t] = i

(* Client c wrote message n, and everything that still waits came later. *)
Passed(c, n) ==
    n < sent[c] /\ \A k \in 1 .. Len(pending[c]) : n < pending[c][k].n

(* What a session is serving, while nobody logged in twice: a message of its  *)
(* own client, before all that still wait, with the descriptor to answer at. *)
Serving(t) ==
    /\ pc[t] = "blocked" => on[t] = t
    /\ pc[t] \in {"parse", "route", "write", "reply"} =>
         /\ req[t].msg.src = t /\ req[t].msg.cmd \in Route
         /\ Passed(t, req[t].msg.n)
    /\ pc[t] \in {"route", "write", "reply"} => req[t].fd = AsChar(fdNum[t])

ServingInv == \A t \in Conn : Serving(t)

(* Message m, sent by its client c, was delivered before what c's session is  *)
(* to read and, but for the message being routed, before what it serves.     *)
Before(m) ==
    LET t == m.src IN
      /\ Passed(t, m.n)
      /\ pc[t] \in {"parse", "route", "write", "reply"} =>
           \/ m.n < req[t].msg.n
           \/ m = Routed(t) /\ (m.cmd = "ALLMSG" \/ (m.cmd = "DIRECT" /\ m.to < req[t].next))

DeliveryInv ==
    \A c \in Conn : \A m \in Received(c) :
      m.cmd \in Route => m.src \in Conn /\ Before(m)

QuietInv == /\ OwnerInv /\ TableInv /\ ServingInv /\ DeliveryInv
            /\ AuthenticSender /\ ReplyToAsker /\ PerSenderOrder

RInv == BaseInv /\ (NoDuplicate => QuietInv)

USE DEF vars, clients, output, kernel, main, table, sessions

-----------------------------------------------------------------------------
(* What the steps leave alone *)

LEMMA ClientFrame ==
  ASSUME Shape, NEW c \in Conn, Client(c)
  PROVE  /\ UNCHANGED <<output, fdConn, fdNum, main, table, sessions>>
         /\ Live' = Live
<1>1. UNCHANGED <<output, fdConn, fdNum, main, table, sessions>>
  BY DEF Client, Connect, SendLogin, Send, Put, Close, Reset
<1>2. Live' = Live  BY <1>1 DEF Live
<1> QED  BY <1>1, <1>2

(* A step of session t moves the thread, which is a live one. *)
LEMMA SessionFrame ==
  ASSUME Shape, NEW t \in Conn, Session(t)
  PROVE  /\ UNCHANGED <<peer, sent, backlog, fdNum, main>>
         /\ alive /\ t \in Live /\ pc[t] \notin {"none", "done"} /\ slot[t] \in Slot
         /\ pc' \in [Conn -> Point] /\ pc'[t] # "none"
         /\ \A u \in Conn \ {t} : pc'[u] = pc[u] /\ on'[u] = on[u] /\ req'[u] = req[u]
<1> USE DEF Shape, Point
<1>1. \E there \in Point \ {"none"} : Goto(t, there)
  BY DEF Session, SessionRead, SessionReceive, SessionEof, Fetch, Scan, WriteSlot,
     ScanEnd, Reply, SessionClose, SessionExit
<1>2. alive /\ pc[t] \notin {"none", "done"}
  BY DEF Session, SessionRead, SessionReceive, SessionEof, Fetch, Scan, WriteSlot,
     ScanEnd, Reply, SessionClose, SessionExit, At
<1>3. \A u \in Conn \ {t} : on'[u] = on[u]
  BY DEF Session, SessionRead, SessionReceive, SessionEof, Fetch, Scan, WriteSlot,
     ScanEnd, Reply, SessionClose, SessionExit, TypeOK
<1>4. \A u \in Conn \ {t} : req'[u] = req[u]
  BY DEF Session, SessionRead, SessionReceive, SessionEof, Fetch, Scan, WriteSlot,
     ScanEnd, Reply, SessionClose, SessionExit, Advance, TypeOK
<1>5. UNCHANGED <<peer, sent, backlog, fdNum, main>>  BY <1>1 DEF Goto
<1>6. /\ pc' \in [Conn -> Point] /\ pc'[t] # "none"
      /\ \A u \in Conn \ {t} : pc'[u] = pc[u]
  BY <1>1 DEF Goto, TypeOK
<1>7. t \in Live /\ slot[t] \in Slot  BY <1>2 DEF Live, SessionInv
<1> QED  BY <1>2, <1>3, <1>4, <1>5, <1>6, <1>7

(* Only the end of its thread takes a session out of the live ones. *)
LEMMA SessionLive ==
  ASSUME Shape, NEW t \in Conn, Session(t)
  PROVE  /\ SessionExit(t) => Live' = Live \ {t}
         /\ ~SessionExit(t) => Live' = Live
<1> USE DEF Shape
<1>0. mainPc = "spawn" => t # cur  BY SessionFrame DEF MainInv
<1>1. ASSUME SessionExit(t) PROVE Live' = Live \ {t}
  <2>1. pc'[t] = "done"  BY <1>1 DEF SessionExit, Goto, TypeOK
  <2> QED  BY <1>0, <2>1, SessionFrame DEF Live
<1>2. ASSUME ~SessionExit(t) PROVE Live' = Live
  <2>1. pc'[t] \notin {"none", "done"}
    BY <1>2 DEF Session, SessionRead, SessionReceive, SessionEof, Fetch, Scan, WriteSlot,
       ScanEnd, Reply, SessionClose, Goto, TypeOK
  <2> QED  BY <2>1, SessionFrame DEF Live
<1> QED  BY <1>1, <1>2

(* Only Register adds a session. *)
LEMMA MainLive ==
  ASSUME Shape, Main
  PROVE  \/ Register /\ cur \in Conn /\ cur \notin Live /\ Live' = Live \cup {cur}
         \/ Live' = Live
<1> USE DEF Shape
<1>1. CASE UNCHANGED pc /\ mainPc # "spawn" /\ mainPc' # "spawn"
  BY <1>1 DEF Live
<1>2. CASE \E c \in Conn : Accept(c)
  BY <1>1, <1>2 DEF Accept, TakeConnection
<1>3. CASE AcceptFull \/ Admit \/ EnterLogin \/ LoginEof \/ LoginAuthError \/ LoginBusy \/ Kick
  BY <1>1, <1>3 DEF AcceptFull, Admit, EnterLogin, LoginEof, LoginAuthError, LoginBusy, Kick, Evict,
     ReadLogin, Finish
<1>4. CASE Register
  <2>1. cur \in Conn /\ cur \notin Live  BY <1>4 DEF Register, ReadLogin, MainInv, Live
  <2>2. Live' = Live \cup {cur}          BY <1>4, <2>1 DEF Register, ReadLogin, Live
  <2> QED  BY <1>4, <2>1, <2>2
<1>5. CASE Spawn
  <2>1. cur \in Conn /\ pc[cur] = "none"  BY <1>5 DEF Spawn, MainInv
  <2>2. pc'[cur] = "read" /\ \A c \in Conn : c # cur => pc'[c] = pc[c]
    BY <1>5, <2>1 DEF Spawn, TypeOK
  <2> QED  BY <1>5, <2>1, <2>2 DEF Spawn, Finish, Live
<1> QED  BY <1>2, <1>3, <1>4, <1>5 DEF Main

-----------------------------------------------------------------------------
(* The answers of main *)

LEMMA FdFacts == NONE \notin Fd /\ Fd \subseteq Int
  BY ServerConstants DEF Fd, NONE

LEMMA AnswerInit == Init => AnswerInv
<1> SUFFICES ASSUME Init PROVE AnswerInv  OBVIOUS
<1>1. Live = {} /\ Len(backlog) = 0  BY DEF Init, Live
<1> QED  BY <1>1 DEF Init, AnswerInv

(* The connection main takes from the backlog has had nothing yet. *)
LEMMA TakeFresh ==
  ASSUME Shape, AnswerInv, NEW c \in Conn, TakeConnection(c)
  PROVE  /\ answer[c] = "none" /\ fdNum[c] = NONE /\ peer[c] # "idle"
         /\ \E f \in Fd : /\ fdConn[f] = NoConn
                          /\ fdConn' = [fdConn EXCEPT ![f] = c]
                          /\ fdNum' = [fdNum EXCEPT ![c] = f]
         /\ \A k \in 1 .. Len(backlog') :
              k + 1 \in 1 .. Len(backlog) /\ backlog'[k] = backlog[k + 1]
<1>1. backlog \in Seq(Conn) /\ backlog # <<>> /\ c = Head(backlog) /\ backlog' = Tail(backlog)
  BY DEF TakeConnection, TypeOK, Shape
<1>2. 1 \in 1 .. Len(backlog) /\ c = backlog[1]  BY <1>1
<1>3. answer[c] = "none" /\ fdNum[c] = NONE /\ peer[c] # "idle"
  BY <1>1, <1>2 DEF AnswerInv, BacklogInv, Shape
<1>4. \E f \in Fd : /\ fdConn[f] = NoConn
                    /\ fdConn' = [fdConn EXCEPT ![f] = c]
                    /\ fdNum' = [fdNum EXCEPT ![c] = f]
  BY DEF TakeConnection, FreeFd
<1>5. \A k \in 1 .. Len(backlog') :
        k + 1 \in 1 .. Len(backlog) /\ backlog'[k] = backlog[k + 1]
  BY <1>1
<1> QED  BY <1>3, <1>4, <1>5

LEMMA AnswerMain ==
  ASSUME IInv, AnswerInv, Main PROVE AnswerInv'
<1> USE DEF IInv, Shape
<1>1. ASSUME NEW c \in Conn, Accept(c) PROVE AnswerInv'
  <2>1. TakeConnection(c)  BY <1>1 DEF Accept
  <2>2. answer[c] = "none" /\ fdNum[c] = NONE /\ peer[c] # "idle"
    BY <2>1, TakeFresh
  <2>3. PICK f \in Fd : fdNum' = [fdNum EXCEPT ![c] = f]
    BY <2>1, TakeFresh
  <2>4. \A k \in 1 .. Len(backlog') :
          /\ k + 1 \in 1 .. Len(backlog) /\ backlog'[k] = backlog[k + 1]
          /\ backlog'[k] \in Conn /\ backlog'[k] # c
    <3>1. backlog' \in Seq(Conn) /\ \A k \in 1 .. Len(backlog') : backlog'[k] # c
      BY <2>1, TakeFacts
    <3> QED  BY <2>1, <3>1, TakeFresh
  <2>5. Live' = Live /\ c \notin Live
    BY <1>1, <2>2, MainLive DEF Main, AnswerInv, Accept, TakeConnection, Register, ReadLogin
  <2>6. /\ UNCHANGED <<slot, peer, answer>> /\ mainPc = "accept"
        /\ mainPc' = "check" /\ cur' = c
    BY <1>1 DEF Accept, TakeConnection
  <2>9. \A k \in 1 .. Len(backlog') :
          /\ backlog'[k] \in Conn /\ backlog'[k] # c
          /\ answer[backlog'[k]] = "none" /\ fdNum[backlog'[k]] = NONE
    BY <2>4 DEF AnswerInv
  <2>10. \A d \in Conn \ {c} : fdNum'[d] = fdNum[d]
    BY <2>3 DEF TypeOK
  <2>11. \A k \in 1 .. Len(backlog') :
           answer'[backlog'[k]] = "none" /\ fdNum'[backlog'[k]] = NONE
    BY <2>6, <2>9, <2>10
  <2> QED  BY <2>2, <2>3, <2>5, <2>6, <2>11 DEF AnswerInv, TypeOK
<1>2. ASSUME mainPc # "accept", ~(\E c \in Conn : Accept(c)) PROVE
      /\ UNCHANGED <<fdNum, peer, backlog>>
      /\ cur \in Conn /\ peer[cur] # "idle" /\ fdNum[cur] \in Fd
      /\ \A k \in 1 .. Len(backlog) : backlog[k] \in Conn /\ backlog[k] # cur
  <2>1. UNCHANGED <<fdNum, peer, backlog>>
    BY <1>2 DEF Main, AcceptFull, Admit, EnterLogin, LoginEof, LoginAuthError, LoginBusy, Kick,
       Register, Spawn, ReadLogin
  <2> QED  BY <1>2, <2>1 DEF MainInv, BacklogInv, AnswerInv, TypeOK
<1>3. CASE mainPc # "accept" /\ ~(\E c \in Conn : Accept(c))
  <2>1. CASE AcceptFull \/ Admit \/ EnterLogin \/ LoginEof \/ LoginAuthError
    <3>1. UNCHANGED slot /\ mainPc \in {"check", "enter", "login"}
      BY <2>1 DEF AcceptFull, Admit, EnterLogin, LoginEof, LoginAuthError, ReadLogin
    <3>2. \/ UNCHANGED <<answer, cur>> /\ mainPc' \in {"enter", "login"}
          \/ \E kind \in {"full", "auth", "eof"} :
               answer' = [answer EXCEPT ![cur] = kind] /\ mainPc' = "accept"
      BY <2>1 DEF AcceptFull, Admit, EnterLogin, LoginEof, LoginAuthError, Finish
    <3>3. Live' = Live /\ cur \notin Live
      BY <2>1, <3>1, MainLive DEF AnswerInv, Live, MainInv, AcceptFull, Admit, EnterLogin,
         LoginEof, LoginAuthError, Register, Finish, ReadLogin
    <3>4. \A c \in Conn :
            /\ c # cur => answer'[c] = answer[c]
            /\ answer'[c] = "accepted" => answer[c] = "accepted" /\ c # cur
      BY <1>2, <1>3, <3>1, <3>2 DEF AnswerInv, TypeOK
    <3>5. /\ \A c \in Conn : c \in Live' => answer'[c] = "accepted"
          /\ \A c \in Conn : answer'[c] = "accepted" => slot'[c] \in Slot
      BY <3>1, <3>3, <3>4 DEF AnswerInv
    <3>6. /\ \A c \in Conn : answer'[c] # "none" => fdNum'[c] \in Fd
          /\ \A c \in Conn : peer'[c] = "idle" => answer'[c] = "none" /\ fdNum'[c] = NONE
          /\ \A k \in 1 .. Len(backlog') :
               answer'[backlog'[k]] = "none" /\ fdNum'[backlog'[k]] = NONE
      BY <1>2, <1>3, <3>4 DEF AnswerInv
    <3>7. /\ mainPc' # "accept" => fdNum'[cur'] \in Fd
          /\ mainPc' \in {"check", "enter", "login"} => answer'[cur'] = "none"
          /\ mainPc' \in {"accept", "enter", "login"}
      BY <1>2, <1>3, <3>1, <3>2 DEF AnswerInv
    <3> QED  BY <3>5, <3>6, <3>7 DEF AnswerInv
  <2>2. CASE LoginBusy
    <3>1. /\ answer' = [answer EXCEPT ![cur] = "busy"] /\ answer[cur] = "none"
          /\ slot' = [slot EXCEPT ![cur] = Login.to]
          /\ mainPc' = "kick" /\ UNCHANGED cur
      BY <2>2 DEF LoginBusy, ReadLogin, AnswerInv
    <3>2. Live' = Live
      BY <2>2, MainLive DEF LoginBusy, Register, ReadLogin, NamesSlot
    <3>3. /\ answer'[cur] = "busy" /\ \A c \in Conn \ {cur} : answer'[c] = answer[c]
          /\ \A c \in Conn \ {cur} : slot'[c] = slot[c]
      BY <1>2, <1>3, <3>1 DEF TypeOK
    <3>4. /\ \A c \in Conn : c \in Live' => answer'[c] = "accepted"
          /\ \A c \in Conn : answer'[c] = "accepted" => slot'[c] \in Slot
      BY <1>2, <1>3, <3>1, <3>2, <3>3 DEF AnswerInv
    <3>5. /\ \A c \in Conn : answer'[c] # "none" => fdNum'[c] \in Fd
          /\ \A c \in Conn : peer'[c] = "idle" => answer'[c] = "none" /\ fdNum'[c] = NONE
          /\ \A k \in 1 .. Len(backlog') :
               answer'[backlog'[k]] = "none" /\ fdNum'[backlog'[k]] = NONE
      BY <1>2, <1>3, <3>3 DEF AnswerInv
    <3> QED  BY <1>2, <1>3, <3>1, <3>3, <3>4, <3>5 DEF AnswerInv
  <2>3. CASE Kick
    <3>1. /\ answer' = [answer EXCEPT ![cur] = "busy"] /\ answer[cur] = "busy"
          /\ UNCHANGED slot /\ mainPc' = "accept"
      BY <2>3 DEF Kick, Finish, AnswerInv
    <3>2. Live' = Live  BY <2>3, MainLive DEF Kick, Register, ReadLogin
    <3> QED  BY <1>2, <1>3, <3>1, <3>2 DEF AnswerInv, TypeOK
  <2>4. CASE Register
    <3>1. /\ answer' = [answer EXCEPT ![cur] = "accepted"] /\ answer[cur] = "none"
          /\ slot' = [slot EXCEPT ![cur] = Login.to] /\ Login.to \in Slot
          /\ mainPc' = "spawn" /\ UNCHANGED cur
      BY <2>4 DEF Register, ReadLogin, NamesSlot, AnswerInv
    <3>2. Live' \subseteq Live \cup {cur}  BY <2>4, MainLive
    <3> QED  BY <1>2, <1>3, <3>1, <3>2 DEF AnswerInv, TypeOK
  <2>5. CASE Spawn
    <3>1. /\ answer' = [answer EXCEPT ![cur] = "accepted"] /\ answer[cur] = "accepted"
          /\ UNCHANGED slot /\ mainPc' = "accept"
      BY <2>5 DEF Spawn, Finish, AnswerInv
    <3>2. Live' = Live  BY <2>5, MainLive DEF Spawn, Register, ReadLogin
    <3> QED  BY <1>2, <1>3, <3>1, <3>2 DEF AnswerInv, TypeOK
  <2> QED  BY <1>3, <2>1, <2>2, <2>3, <2>4, <2>5 DEF Main
<1>4. CASE mainPc = "accept"
  BY <1>1, <1>4 DEF Main, AcceptFull, Admit, EnterLogin, LoginEof, LoginAuthError, LoginBusy,
     Kick, Register, Spawn, ReadLogin
<1> QED  BY <1>1, <1>3, <1>4

LEMMA AnswerStep == IInv /\ AnswerInv /\ [Next]_vars => AnswerInv'
<1> SUFFICES ASSUME IInv, AnswerInv, [Next]_vars PROVE AnswerInv'  OBVIOUS
<1> USE DEF IInv, Shape
<1>1. CASE Main  BY <1>1, AnswerMain
<1>2. ASSUME NEW t \in Conn, Session(t) PROVE AnswerInv'
  <2>1. UNCHANGED <<peer, backlog, fdNum, main>> /\ Live' \subseteq Live
    BY <1>2, SessionFrame, SessionLive
  <2> QED  BY <2>1 DEF AnswerInv
<1>3. ASSUME NEW c \in Conn, Client(c) PROVE AnswerInv'
  <2>1. UNCHANGED <<fdNum, main>> /\ Live' = Live  BY <1>3, ClientFrame
  <2>2. CASE Connect(c)
    <3>1. /\ peer[c] = "idle" /\ answer[c] = "none" /\ fdNum[c] = NONE
          /\ backlog' = Append(backlog, c) /\ backlog \in Seq(Conn)
          /\ \A d \in Conn : peer'[d] = "idle" => peer[d] = "idle"
      BY <2>2 DEF Connect, AnswerInv, TypeOK
    <3>2. \A k \in 1 .. Len(backlog') :
            (k \in 1 .. Len(backlog) /\ backlog'[k] = backlog[k]) \/ backlog'[k] = c
      BY <3>1
    <3> QED  BY <2>1, <3>1, <3>2 DEF AnswerInv
  <2>3. CASE ~Connect(c)
    <3>1. UNCHANGED backlog /\ \A d \in Conn : peer'[d] = "idle" => peer[d] = "idle"
      BY <1>3, <2>3 DEF Client, SendLogin, Send, Put, Close, Reset, TypeOK
    <3> QED  BY <2>1, <3>1 DEF AnswerInv
  <2> QED  BY <2>2, <2>3
<1>4. CASE UNCHANGED vars
  <2>1. Live' = Live  BY <1>4 DEF Live
  <2> QED  BY <1>4, <2>1 DEF AnswerInv
<1> QED  BY <1>1, <1>2, <1>3, <1>4 DEF Next

(* What main told a client it never takes back: the answer, the descriptor *)
(* and the slot stand from then on.                                        *)
LEMMA AnswerStands ==
  ASSUME IInv, AnswerInv, [Next]_vars, NEW c \in Conn, answer[c] # "none"
  PROVE  answer'[c] = answer[c] /\ fdNum'[c] = fdNum[c] /\ slot'[c] = slot[c]
<1> USE DEF IInv, Shape
<1>1. CASE Main
  <2>1. ASSUME NEW d \in Conn, Accept(d)
        PROVE  answer'[c] = answer[c] /\ fdNum'[c] = fdNum[c] /\ slot'[c] = slot[c]
    <3>1. TakeConnection(d)  BY <2>1 DEF Accept
    <3>2. c # d  BY <3>1, TakeFresh
    <3>3. \E f \in Fd : fdNum' = [fdNum EXCEPT ![d] = f]
      BY <3>1, TakeFresh
    <3> QED  BY <2>1, <3>2, <3>3 DEF Accept, TypeOK
  <2>2. CASE \/ AcceptFull \/ Admit \/ EnterLogin \/ LoginEof \/ LoginAuthError
             \/ LoginBusy \/ Register
    <3>1. c # cur
      BY <2>2 DEF AnswerInv, AcceptFull, Admit, EnterLogin, LoginEof, LoginAuthError, LoginBusy,
         Register, ReadLogin
    <3> QED  BY <2>2, <3>1 DEF AcceptFull, Admit, EnterLogin, LoginEof, LoginAuthError, LoginBusy,
       Register, ReadLogin, Finish, TypeOK
  <2>3. CASE Kick \/ Spawn
    BY <2>3 DEF Kick, Spawn, Finish, AnswerInv, TypeOK
  <2> QED  BY <1>1, <2>1, <2>2, <2>3 DEF Main
<1>2. CASE \E t \in Conn : Session(t)  BY <1>2, SessionFrame
<1>3. CASE \E d \in Conn : Client(d)   BY <1>3, ClientFrame
<1>4. CASE UNCHANGED vars              BY <1>4
<1> QED  BY <1>1, <1>2, <1>3, <1>4 DEF Next
-----------------------------------------------------------------------------
(* Descriptors and slots *)

(* Only accept opens a descriptor and only the end of a session closes one. *)
LEMMA FdSteps ==
  ASSUME IInv, AnswerInv, [Next]_vars
  PROVE  \/ UNCHANGED <<fdConn, fdNum>>
         \/ UNCHANGED slotFd /\ \E c \in Conn : Accept(c) /\ TakeConnection(c)
         \/ UNCHANGED slotFd /\ \E t \in Conn : SessionClose(t) /\ UNCHANGED fdNum
<1>1. CASE \E c \in Conn : Accept(c)
  BY <1>1 DEF Accept
<1>2. CASE \/ AcceptFull \/ Admit \/ EnterLogin \/ LoginEof \/ LoginAuthError \/ LoginBusy
           \/ Kick \/ Register \/ Spawn
  BY <1>2 DEF AcceptFull, Admit, EnterLogin, LoginEof, LoginAuthError, LoginBusy, Kick, Register,
     Spawn, ReadLogin
<1>3. ASSUME NEW t \in Conn, Session(t), ~SessionClose(t) PROVE UNCHANGED <<fdConn, fdNum>>
  BY <1>3 DEF Session, SessionRead, SessionReceive, SessionEof, Fetch, Scan, WriteSlot, ScanEnd,
     Reply, SessionExit, Goto
<1>4. ASSUME NEW t \in Conn, SessionClose(t) PROVE UNCHANGED <<fdNum, slotFd>>
  BY <1>4 DEF SessionClose, Goto
<1>5. CASE \E c \in Conn : Client(c)  BY <1>5, ClientFrame DEF IInv
<1>6. CASE UNCHANGED vars  BY <1>6
<1> QED  BY <1>1, <1>2, <1>3, <1>4, <1>5, <1>6 DEF Next, Main

(* A slot is taken by Register and freed by Kick and SessionExit. *)
LEMMA SlotSteps ==
  ASSUME IInv, [Next]_vars
  PROVE  \/ UNCHANGED slotFd
         \/ Register
         \/ Kick
         \/ \E t \in Conn : SessionExit(t) /\ UNCHANGED <<main, fdNum>>
<1>1. CASE Main
  BY <1>1 DEF Main, Accept, AcceptFull, Admit, EnterLogin, LoginEof, LoginAuthError, LoginBusy,
     Spawn
<1>2. ASSUME NEW t \in Conn, Session(t), ~SessionExit(t) PROVE UNCHANGED slotFd
  BY <1>2 DEF Session, SessionRead, SessionReceive, SessionEof, Fetch, Scan, WriteSlot, ScanEnd,
     Reply, SessionClose
<1>3. ASSUME NEW t \in Conn, SessionExit(t) PROVE UNCHANGED <<main, fdNum>>
  BY <1>3 DEF SessionExit, Goto
<1>4. CASE \E c \in Conn : Client(c)  BY <1>4, ClientFrame DEF IInv
<1>5. CASE UNCHANGED vars  BY <1>5
<1> QED  BY <1>1, <1>2, <1>3, <1>4, <1>5 DEF Next

LEMMA DescriptorStep ==
  ASSUME IInv, AnswerInv, DescriptorInv, [Next]_vars PROVE DescriptorInv'
<1> USE DEF IInv, Shape
<1>1. CASE UNCHANGED <<fdConn, fdNum>>  BY <1>1 DEF DescriptorInv
<1>2. ASSUME NEW c \in Conn, TakeConnection(c) PROVE DescriptorInv'
  <2>1. PICK f \in Fd : /\ fdConn' = [fdConn EXCEPT ![f] = c]
                        /\ fdNum' = [fdNum EXCEPT ![c] = f]
    BY <1>2, TakeFresh
  <2>2. \A g \in Fd : fdConn[g] # c
    BY <1>2, TakeFresh, FdFacts, ServerConstants DEF DescriptorInv
  <2>3. \A g \in Fd : fdConn[g] # NoConn => fdConn[g] \in Conn  BY DEF TypeOK
  <2> QED  BY <2>1, <2>2, <2>3 DEF DescriptorInv, TypeOK
<1>3. ASSUME NEW t \in Conn, SessionClose(t), UNCHANGED fdNum PROVE DescriptorInv'
  BY <1>3 DEF SessionClose, CloseFd, DescriptorInv
<1> QED  BY <1>1, <1>2, <1>3, FdSteps

LEMMA HolderStep ==
  ASSUME IInv, AnswerInv, HolderInv, [Next]_vars PROVE HolderInv'
<1> USE DEF IInv, Shape
<1>1. ASSUME NEW i \in Slot, slotFd'[i] = slotFd[i], slotFd'[i] # NONE
      PROVE  \E u \in Conn : answer'[u] = "accepted" /\ slot'[u] = i /\ fdNum'[u] = slotFd'[i]
  <2>1. PICK u \in Conn : answer[u] = "accepted" /\ slot[u] = i /\ fdNum[u] = slotFd[i]
    BY <1>1 DEF HolderInv
  <2>2. answer'[u] = "accepted" /\ fdNum'[u] = fdNum[u] /\ slot'[u] = slot[u]
    BY <2>1, AnswerStands
  <2> QED  BY <1>1, <2>1, <2>2
<1>2. CASE UNCHANGED slotFd  BY <1>1, <1>2 DEF HolderInv
<1>3. CASE Register
  <2>1. /\ cur \in Conn /\ Login.to \in Slot
        /\ slotFd' = [slotFd EXCEPT ![Login.to] = fdNum[cur]]
        /\ answer'[cur] = "accepted" /\ slot'[cur] = Login.to /\ fdNum'[cur] = fdNum[cur]
    BY <1>3 DEF Register, ReadLogin, NamesSlot, MainInv, TypeOK
  <2> QED  BY <1>1, <2>1 DEF HolderInv, TypeOK
<1>4. CASE Kick
  <2>1. slotFd' = [slotFd EXCEPT ![slot[cur]] = NONE]  BY <1>4 DEF Kick, Evict
  <2> QED  BY <1>1, <2>1 DEF HolderInv, TypeOK
<1>5. ASSUME NEW t \in Conn, SessionExit(t) PROVE HolderInv'
  <2>1. slotFd' = [slotFd EXCEPT ![slot[t]] = NONE]  BY <1>5 DEF SessionExit, Leave
  <2> QED  BY <1>1, <2>1 DEF HolderInv, TypeOK
<1> QED  BY <1>2, <1>3, <1>4, <1>5, SlotSteps

(* Only LoginBusy refuses a slot, and only Register takes one. *)
LEMMA RefusedStep ==
  ASSUME IInv, RefusedInv, [Next]_vars PROVE RefusedInv'
<1> USE DEF IInv, Shape
<1>1. CASE LoginBusy
  BY <1>1 DEF LoginBusy, ReadLogin, MainInv, RefusedInv, TypeOK
<1>2. CASE Register
  BY <1>2 DEF Register, ReadLogin, RefusedInv, TypeOK
<1>3. CASE Kick
  BY <1>3 DEF Kick, Evict, Finish, MainInv, RefusedInv, TypeOK
<1>4. CASE Main /\ ~LoginBusy /\ ~Register /\ ~Kick
  <2>1. UNCHANGED <<slotFd, refused>> /\ mainPc # "kick"
    BY <1>4 DEF Main, Accept, AcceptFull, Admit, TakeConnection, EnterLogin, LoginEof,
       LoginAuthError, ReadLogin, Spawn
  <2> QED  BY <2>1 DEF RefusedInv
<1>5. ASSUME NEW t \in Conn, Session(t) PROVE RefusedInv'
  <2>1. UNCHANGED main  BY <1>5, SessionFrame
  <2>2. CASE SessionExit(t)
    BY <2>1, <2>2, SessionFrame DEF SessionExit, Leave, RefusedInv, TypeOK
  <2>3. CASE ~SessionExit(t)
    <3>1. UNCHANGED slotFd
      BY <1>5, <2>3 DEF Session, SessionRead, SessionReceive, SessionEof, Fetch, Scan, WriteSlot,
         ScanEnd, Reply, SessionClose
    <3> QED  BY <2>1, <3>1 DEF RefusedInv
  <2> QED  BY <2>2, <2>3
<1>6. CASE \E c \in Conn : Client(c)  BY <1>6, ClientFrame DEF RefusedInv
<1>7. CASE UNCHANGED vars  BY <1>7 DEF RefusedInv
<1> QED  BY <1>1, <1>2, <1>3, <1>4, <1>5, <1>6, <1>7 DEF Next

-----------------------------------------------------------------------------
(* Messages on their way through the server *)

LEMMA RequestStep ==
  ASSUME IInv, RequestInv, [Next]_vars PROVE RequestInv'
<1> USE DEF IInv, Shape
<1>1. CASE Main
  <2>1. UNCHANGED req /\ \A t \in Conn : pc'[t] = pc[t] \/ pc'[t] = "read"
    BY <1>1 DEF Main, Accept, AcceptFull, Admit, EnterLogin, LoginEof, LoginAuthError, LoginBusy,
       Kick, Register, Spawn, ReadLogin, TypeOK
  <2> QED  BY <2>1 DEF RequestInv
<1>2. ASSUME NEW t \in Conn, Session(t) PROVE RequestInv'
  <2> DEFINE Known == 
        /\ pc'[t] \in {"route", "write"} => req'[t].msg.cmd # "GETTIME"
        /\ pc'[t] \in {"route", "write"} /\ req'[t].msg.cmd # "IDLIST" => req'[t].ids = {}
        /\ pc'[t] = "parse" => req'[t].ids = {}
        /\ pc'[t] = "write" => req'[t].msg.cmd # "IDLIST" /\ Wants(req'[t].msg, req'[t].next)
        /\ pc'[t] = "reply" => req'[t].msg.cmd \in {"GETTIME", "IDLIST"}
  <2>0. Known => RequestInv'  BY <1>2, SessionFrame DEF RequestInv, Wants
  <2>1. CASE SessionRead(t) \/ SessionEof(t) \/ Reply(t) \/ SessionClose(t) \/ SessionExit(t)
    <3>1. pc'[t] \notin {"parse", "route", "write", "reply"}
      BY <2>1 DEF SessionRead, SessionEof, Reply, SessionClose, SessionExit, Goto, TypeOK
    <3> QED  BY <2>0, <3>1
  <2>2. CASE SessionReceive(t)
    <3>1. req'[t].ids = {} /\ pc'[t] = "parse"
      BY <2>2 DEF SessionReceive, NoRequest, Goto, TypeOK
    <3> QED  BY <2>0, <3>1
  <2>7. CASE Fetch(t)
    <3>1. /\ req'[t].msg = req[t].msg /\ req'[t].ids = req[t].ids
          /\ pc[t] = "parse"
          /\ pc'[t] = IF req[t].msg.cmd = "GETTIME" THEN "reply" ELSE "route"
      BY <2>7 DEF Fetch, At, Goto, Request, TypeOK
    <3> QED  BY <2>0, <3>1 DEF RequestInv
  <2>3. ASSUME NEW found, Advance(t, found)
        PROVE  /\ req'[t].msg = req[t].msg /\ req'[t].ids = req[t].ids \cup found
    BY <2>3 DEF Advance, TypeOK, Request
  <2>4. CASE Scan(t)
    <3>1. CASE Goto(t, "route") /\ Advance(t, {})
      <4>1. pc[t] = "route"  BY <2>4 DEF Scan, At
      <4>2. pc'[t] = "route"  BY <3>1 DEF Goto, TypeOK
      <4>3. req'[t].msg = req[t].msg /\ req'[t].ids = req[t].ids \cup {}
        BY <2>3, <3>1
      <4>4. req'[t].ids = req[t].ids  BY <4>3
      <4> QED  BY <2>0, <4>1, <4>2, <4>3, <4>4 DEF RequestInv
    <3>2. CASE req[t].msg.cmd = "IDLIST" /\ Goto(t, "route") /\ Advance(t, {req[t].next})
      BY <2>0, <2>3, <2>4, <3>2 DEF Scan, At, Goto, RequestInv, TypeOK
    <3>3. CASE /\ Wants(req[t].msg, req[t].next) /\ req[t].msg.cmd # "IDLIST"
               /\ Goto(t, "write") /\ UNCHANGED req
      BY <2>0, <2>4, <3>3 DEF Scan, At, Goto, RequestInv, TypeOK
    <3> QED  BY <2>4, <3>1, <3>2, <3>3 DEF Scan
  <2>5. CASE WriteSlot(t)
    <3>1. pc[t] = "write" /\ Advance(t, {})  BY <2>5 DEF WriteSlot, At
    <3>2. pc'[t] = "route"  BY <2>5 DEF WriteSlot, Goto, TypeOK
    <3>3. req'[t].msg = req[t].msg /\ req'[t].ids = req[t].ids \cup {}
      BY <2>3, <3>1
    <3>4. req'[t].ids = req[t].ids  BY <3>3
    <3> QED  BY <2>0, <3>1, <3>2, <3>3, <3>4 DEF RequestInv
  <2>6. CASE ScanEnd(t)
    BY <2>0, <2>6 DEF ScanEnd, At, Goto, RequestInv, TypeOK
  <2> QED  BY <1>2, <2>1, <2>2, <2>4, <2>5, <2>6, <2>7 DEF Session
<1>3. CASE \E c \in Conn : Client(c)  BY <1>3, ClientFrame DEF RequestInv
<1>4. CASE UNCHANGED vars  BY <1>4 DEF RequestInv
<1> QED  BY <1>1, <1>2, <1>3, <1>4 DEF Next

(* A read takes the first k messages of a socket. *)
Taken(c, k) ==
    /\ k \in 1 .. Len(pending[c])
    /\ Len(pending'[c]) = Len(pending[c]) - k
    /\ \A j \in 1 .. Len(pending'[c]) :
         j + k \in 1 .. Len(pending[c]) /\ pending'[c][j] = pending[c][j + k]
    /\ \A d \in Conn \ {c} : pending'[d] = pending[d]
    /\ UNCHANGED sent

LEMMA ReadTakes ==
  ASSUME Shape, ReadLogin
  PROVE  Taken(cur, 1) /\ cur \in Conn /\ Login = pending[cur][1] /\ Login \in Message
<1>1. cur \in Conn /\ pending[cur] \in Seq(Message) /\ pending[cur] # <<>>
  BY DEF ReadLogin, Shape, MainInv, TypeOK
<1>2. /\ Len(Tail(pending[cur])) = Len(pending[cur]) - 1 /\ 1 \in 1 .. Len(pending[cur])
      /\ \A j \in 1 .. Len(Tail(pending[cur])) :
           j + 1 \in 1 .. Len(pending[cur]) /\ Tail(pending[cur])[j] = pending[cur][j + 1]
      /\ Head(pending[cur]) = pending[cur][1] /\ pending[cur][1] \in Message
  BY <1>1
<1> QED  BY <1>1, <1>2 DEF ReadLogin, Taken, Login, Shape, TypeOK

LEMMA ReceiveTakes ==
  ASSUME Shape, NEW t \in Conn, SessionReceive(t)
  PROVE  /\ on[t] \in Conn /\ Head(pending[on[t]]) = pending[on[t]][1]
         /\ pending[on[t]][1] \in Message
         /\ \E k \in 1 .. Len(pending[on[t]]) : Taken(on[t], k)
<1>1. on[t] \in Conn /\ pending[on[t]] \in Seq(Message)
  BY DEF SessionReceive, At, Shape, SessionInv, TypeOK
<1>2. PICK k \in 1 .. Len(pending[on[t]]) :
        pending' = [pending EXCEPT ![on[t]] = SubSeq(@, k + 1, Len(@))]
  BY DEF SessionReceive, Consume
<1>3. /\ Len(SubSeq(pending[on[t]], k + 1, Len(pending[on[t]]))) = Len(pending[on[t]]) - k
      /\ \A j \in 1 .. Len(pending[on[t]]) - k :
           /\ j + k \in 1 .. Len(pending[on[t]])
           /\ SubSeq(pending[on[t]], k + 1, Len(pending[on[t]]))[j] = pending[on[t]][j + k]
  BY <1>1, <1>2
<1>4. Head(pending[on[t]]) = pending[on[t]][1] /\ pending[on[t]][1] \in Message
  BY <1>1, <1>2
<1>5. UNCHANGED sent  BY DEF SessionReceive, Goto
<1> QED  BY <1>1, <1>2, <1>3, <1>4, <1>5 DEF Taken, Shape, TypeOK

(* What a client writes goes behind what waits, under the next number. *)
LEMMA PutFacts ==
  ASSUME Shape, NEW c \in Conn, NEW cmd, NEW to, Put(c, cmd, to)
  PROVE  /\ pending'[c] = Append(pending[c], [cmd |-> cmd, to |-> to, src |-> c, n |-> sent[c]])
         /\ Len(pending'[c]) = Len(pending[c]) + 1
         /\ \A k \in 1 .. Len(pending'[c]) :
              \/ k \in 1 .. Len(pending[c]) /\ pending'[c][k] = pending[c][k]
              \/ /\ k = Len(pending[c]) + 1
                 /\ pending'[c][k] = [cmd |-> cmd, to |-> to, src |-> c, n |-> sent[c]]
         /\ sent'[c] = sent[c] + 1 /\ sent[c] \in Nat /\ Len(pending[c]) \in Nat
         /\ \A d \in Conn \ {c} : pending'[d] = pending[d] /\ sent'[d] = sent[d]
<1>1. pending[c] \in Seq(Message) /\ sent[c] \in Nat  BY DEF Shape, TypeOK
<1>2. pending'[c] = Append(pending[c], [cmd |-> cmd, to |-> to, src |-> c, n |-> sent[c]])
  BY DEF Put, Shape, TypeOK
<1> QED  BY <1>1, <1>2 DEF Put, Shape, TypeOK

LEMMA PendingStep ==
  ASSUME IInv, AnswerInv, PendingInv, [Next]_vars PROVE PendingInv'
<1> USE DEF IInv, Shape
<1>0. \A c \in Conn : sent[c] \in Nat /\ pending[c] \in Seq(Message)  BY DEF TypeOK
<1>1. \A c \in Conn : \A k \in 1 .. Len(pending[c]) : pending[c][k] \in Message /\ pending[c][k].n \in Nat
  <2>1. \A m \in Message : m.n \in Nat  BY DEF Message
  <2> QED  BY <1>0, <2>1
<1>2. ASSUME NEW c \in Conn, NEW k, Taken(c, k),
             \A d \in Conn \ {c} : answer'[d] = "accepted" => answer[d] = "accepted",
             answer'[c] = "accepted" => answer[c] = "accepted" \/ pending[c][1].n \in Nat
      PROVE  PendingInv'
  <2>1. \A j \in 1 .. Len(pending'[c]) : pending[c][j + k].n > pending[c][1].n
    <3>1. \A j \in 1 .. Len(pending'[c]) : 1 < j + k /\ j + k \in 1 .. Len(pending[c])
                                           /\ 1 \in 1 .. Len(pending[c])
      BY <1>2 DEF Taken
    <3> QED  BY <3>1, <1>1 DEF PendingInv
  <2>2. \A i, j \in 1 .. Len(pending'[c]) : i < j => pending'[c][i].n < pending'[c][j].n
    <3> SUFFICES ASSUME NEW i \in 1 .. Len(pending'[c]), NEW j \in 1 .. Len(pending'[c]), i < j
                 PROVE  pending'[c][i].n < pending'[c][j].n
      OBVIOUS
    <3>1. i + k \in 1 .. Len(pending[c]) /\ j + k \in 1 .. Len(pending[c]) /\ i + k < j + k
      BY <1>2 DEF Taken
    <3>2. pending'[c][i] = pending[c][i + k] /\ pending'[c][j] = pending[c][j + k]
      BY <1>2 DEF Taken
    <3> QED  BY <3>1, <3>2 DEF PendingInv
  <2>3. answer'[c] = "accepted" => sent[c] # 0
    <3>1. 1 \in 1 .. Len(pending[c])  BY <1>2 DEF Taken
    <3>2. pending[c][1].n < sent[c]  BY <3>1 DEF PendingInv
    <3> QED  BY <1>0, <1>1, <3>1, <3>2
  <2>4. \A j \in 1 .. Len(pending'[c]) :
          /\ pending'[c][j].src = c /\ pending'[c][j].n < sent'[c]
          /\ pending'[c][j].n = 0 <=> pending'[c][j].cmd \in {"LOGIN", "BADPW"}
          /\ pending'[c][j].n # 0
    <3> TAKE j \in 1 .. Len(pending'[c])
    <3>1. /\ j + k \in 1 .. Len(pending[c]) /\ pending'[c][j] = pending[c][j + k]
          /\ 1 \in 1 .. Len(pending[c]) /\ UNCHANGED sent
      BY <1>2 DEF Taken
    <3>2. pending[c][j + k].n # 0  BY <1>1, <2>1, <3>1
    <3> QED  BY <3>1, <3>2 DEF PendingInv
  <2>5. UNCHANGED sent /\ \A d \in Conn \ {c} : pending'[d] = pending[d]  BY <1>2 DEF Taken
  <2> QED  BY <1>2, <2>2, <2>3, <2>4, <2>5 DEF PendingInv
<1>3. ASSUME ReadLogin, \A d \in Conn \ {cur} : answer'[d] = answer[d] PROVE PendingInv'
  <2>1. /\ Taken(cur, 1) /\ cur \in Conn /\ Login = pending[cur][1] /\ Login \in Message
    BY <1>3, ReadTakes
  <2>2. pending[cur][1].n \in Nat  BY <2>1 DEF Message
  <2> QED  BY <1>2, <1>3, <2>1, <2>2
<1>4. CASE Main
  <2>1. CASE LoginAuthError \/ LoginBusy \/ Register
    <3>1. ReadLogin /\ \A d \in Conn \ {cur} : answer'[d] = answer[d]
      BY <2>1 DEF LoginAuthError, LoginBusy, Register, Finish, TypeOK
    <3> QED  BY <1>3, <3>1
  <2>2. CASE ~(LoginAuthError \/ LoginBusy \/ Register)
    <3>1. UNCHANGED <<pending, sent>>
      BY <1>4, <2>2 DEF Main, Accept, AcceptFull, Admit, EnterLogin, LoginEof, Kick, Spawn
    <3>2. \A c \in Conn : answer'[c] = "accepted" => answer[c] = "accepted"
      BY <1>4, <2>2 DEF Main, Accept, AcceptFull, Admit, EnterLogin, LoginEof, Kick, Spawn, Finish,
         AnswerInv, TypeOK
    <3> QED  BY <3>1, <3>2 DEF PendingInv
  <2> QED  BY <2>1, <2>2
<1>5. ASSUME NEW t \in Conn, Session(t) PROVE PendingInv'
  <2>1. UNCHANGED <<answer, sent>>  BY <1>5, SessionFrame
  <2>2. CASE SessionReceive(t)
    BY <1>2, <2>1, <2>2, ReceiveTakes
  <2>3. CASE ~SessionReceive(t)
    <3>1. UNCHANGED pending
      BY <1>5, <2>3 DEF Session, SessionRead, SessionEof, Fetch, Scan, WriteSlot, ScanEnd, Reply,
         SessionClose, SessionExit
    <3> QED  BY <2>1, <3>1 DEF PendingInv
  <2> QED  BY <2>2, <2>3
<1>6. ASSUME NEW c \in Conn, NEW cmd, NEW to, Put(c, cmd, to), UNCHANGED answer,
             sent[c] = 0 <=> cmd \in {"LOGIN", "BADPW"}
      PROVE  PendingInv'
  <2> DEFINE m == [cmd |-> cmd, to |-> to, src |-> c, n |-> sent[c]]
  <2>0. /\ Len(pending'[c]) = Len(pending[c]) + 1 /\ Len(pending[c]) \in Nat
        /\ \A k \in 1 .. Len(pending'[c]) :
             \/ k \in 1 .. Len(pending[c]) /\ pending'[c][k] = pending[c][k]
             \/ k = Len(pending[c]) + 1 /\ pending'[c][k] = m
        /\ sent'[c] = sent[c] + 1 /\ sent[c] \in Nat
        /\ \A d \in Conn \ {c} : pending'[d] = pending[d] /\ sent'[d] = sent[d]
    BY <1>6, PutFacts
  <2>m. m.src = c /\ m.n = sent[c] /\ m.cmd = cmd  OBVIOUS
  <2> HIDE DEF m
  <2>1. ASSUME NEW k \in 1 .. Len(pending'[c])
        PROVE  /\ pending'[c][k].src = c /\ pending'[c][k].n < sent'[c]
               /\ pending'[c][k].n = 0 <=> pending'[c][k].cmd \in {"LOGIN", "BADPW"}
               /\ answer'[c] = "accepted" => pending'[c][k].n # 0
    <3>1. CASE k \in 1 .. Len(pending[c]) /\ pending'[c][k] = pending[c][k]
      <4>1. pending[c][k].n < sent[c] /\ pending[c][k].n \in Nat
        BY <1>1, <3>1 DEF PendingInv
      <4>2. pending'[c][k].n < sent'[c]  BY <2>0, <3>1, <4>1
      <4> QED  BY <1>6, <3>1, <4>2 DEF PendingInv
    <3>2. CASE k = Len(pending[c]) + 1 /\ pending'[c][k] = m
      BY <1>6, <2>0, <2>m, <3>2 DEF PendingInv
    <3> QED  BY <2>0, <2>1, <3>1, <3>2
  <2>2. ASSUME NEW j \in 1 .. Len(pending'[c]), NEW k \in 1 .. Len(pending'[c]), j < k
        PROVE  pending'[c][j].n < pending'[c][k].n
    <3>1. j \in 1 .. Len(pending[c]) /\ pending'[c][j] = pending[c][j]
      BY <2>0, <2>2
    <3>2. pending[c][j].n < sent[c]  BY <3>1 DEF PendingInv
    <3> QED  BY <2>0, <2>m, <2>2, <3>1, <3>2 DEF PendingInv
  <2>3. answer'[c] = "accepted" => sent'[c] # 0  BY <2>0
  <2>4. ASSUME NEW d \in Conn
        PROVE  /\ answer'[d] = "accepted" => sent'[d] # 0
               /\ \A k \in 1 .. Len(pending'[d]) :
                    /\ pending'[d][k].src = d /\ pending'[d][k].n < sent'[d]
                    /\ pending'[d][k].n = 0 <=> pending'[d][k].cmd \in {"LOGIN", "BADPW"}
                    /\ answer'[d] = "accepted" => pending'[d][k].n # 0
               /\ \A j, k \in 1 .. Len(pending'[d]) :
                    j < k => pending'[d][j].n < pending'[d][k].n
    <3>1. CASE d = c  BY <2>1, <2>2, <2>3, <3>1
    <3>2. CASE d # c  BY <1>6, <2>0, <3>2 DEF PendingInv
    <3> QED  BY <3>1, <3>2
  <2> QED  BY <2>4 DEF PendingInv
<1>7. ASSUME NEW c \in Conn, Client(c) PROVE PendingInv'
  <2>1. UNCHANGED answer  BY <1>7, ClientFrame
  <2>2. CASE SendLogin(c)
    <3>1. PICK l \in Logins : Put(c, IF l.pw THEN "LOGIN" ELSE "BADPW", l.id) /\ sent[c] = 0
      BY <2>2 DEF SendLogin
    <3> QED  BY <1>6, <2>1, <3>1
  <2>3. CASE Send(c)
    <3>1. PICK s \in Sends : Put(c, s.cmd, s.to)  BY <2>3 DEF Send
    <3>2. s.cmd \in Route  BY ServerConstants
    <3>3. sent[c] # 0 /\ s.cmd \notin {"LOGIN", "BADPW"}
      BY <2>3, <3>2 DEF Send, PendingInv, Route
    <3> QED  BY <1>6, <2>1, <3>1, <3>3
  <2>4. CASE Reset(c)
    <3>1. pending'[c] = <<>> /\ UNCHANGED sent /\ \A d \in Conn \ {c} : pending'[d] = pending[d]
      BY <2>4 DEF Reset, TypeOK
    <3>2. ASSUME NEW d \in Conn, d # c PROVE pending'[d] = pending[d] /\ sent'[d] = sent[d]
      BY <3>1, <3>2
    <3>3. Len(pending'[c]) = 0  BY <3>1
    <3>4. answer'[c] = "accepted" => sent'[c] # 0  BY <2>1, <3>1 DEF PendingInv
    <3>5. \A k \in 1 .. Len(pending'[c]) : FALSE  BY <3>3
    <3> QED  BY <2>1, <3>1, <3>2, <3>4, <3>5 DEF PendingInv
  <2>5. CASE Connect(c) \/ Close(c)
    BY <2>1, <2>5 DEF Connect, Close, PendingInv
  <2> QED  BY <1>7, <2>2, <2>3, <2>4, <2>5 DEF Client
<1>8. CASE UNCHANGED vars  BY <1>8 DEF PendingInv
<1> QED  BY <1>4, <1>5, <1>7, <1>8 DEF Next

-----------------------------------------------------------------------------
(* The slots of the IDs that nobody logs in twice as *)

(* The slots of the IDs that nobody logged in twice as, after a step. *)
SlotRight(i) ==
    /\ \A t \in Live' : slot'[t] = i => slotFd'[i] = fdNum'[t]
    /\ \A t, u \in Live' : slot'[t] = i /\ slot'[u] = i => t = u
    /\ slotFd'[i] # NONE => \E t \in Live' : slot'[t] = i

LEMMA SlotStep ==
  ASSUME IInv, AnswerInv, SlotInv, [Next]_vars PROVE SlotInv'
<1> USE DEF IInv, Shape
<1> DEFINE Twice(i) == \E c \in Conn : answer'[c] = "busy" /\ slot'[c] = i
<1>1. \A t \in Live : /\ t \in Conn /\ slot[t] \in Slot /\ fdNum[t] \in Fd
                      /\ slot'[t] = slot[t] /\ fdNum'[t] = fdNum[t]
  <2> SUFFICES ASSUME NEW t \in Live
               PROVE  /\ t \in Conn /\ slot[t] \in Slot /\ fdNum[t] \in Fd
                      /\ slot'[t] = slot[t] /\ fdNum'[t] = fdNum[t]
    OBVIOUS
  <2>1. t \in Conn  BY DEF Live
  <2>2. answer[t] = "accepted"  BY <2>1 DEF AnswerInv
  <2> QED  BY <2>1, <2>2, AnswerStands DEF AnswerInv
<1>2. ASSUME NEW i \in Slot, ~Twice(i)
      PROVE  /\ \A t \in Live : slot[t] = i => slotFd[i] = fdNum[t]
             /\ \A t, u \in Live : slot[t] = i /\ slot[u] = i => t = u
             /\ slotFd[i] # NONE => \E t \in Live : slot[t] = i
  <2>1. ASSUME NEW c \in Conn, answer[c] = "busy", slot[c] = i PROVE FALSE
    BY <1>2, <2>1, AnswerStands
  <2>2. ~Doubled(i)  BY <2>1 DEF Doubled, Answered
  <2> QED  BY <2>2 DEF SlotInv
<1>3. SUFFICES ASSUME NEW i \in Slot, ~Twice(i) PROVE SlotRight(i)
  BY DEF SlotInv, SlotRight, Doubled, Answered
<1>4. CASE slotFd'[i] = slotFd[i] /\ Live' = Live
  BY <1>1, <1>2, <1>3, <1>4 DEF SlotRight
<1>5. CASE Register
  <2>1. /\ cur \in Conn /\ Login.to \in Slot /\ slotFd[Login.to] = NONE
        /\ slotFd' = [slotFd EXCEPT ![Login.to] = fdNum[cur]]
        /\ slot'[cur] = Login.to /\ fdNum'[cur] = fdNum[cur]
        /\ Live' = Live \cup {cur}
    <3>1. cur \in Conn /\ pc[cur] = "none" /\ mainPc = "login"
      BY <1>5 DEF Register, ReadLogin, MainInv
    <3>2. Live' = Live \cup {cur}  BY <1>5, <3>1 DEF Register, ReadLogin, Live
    <3> QED  BY <1>5, <3>1, <3>2 DEF Register, ReadLogin, NamesSlot, TypeOK
  <2>2. CASE i = Login.to
    <3>1. \A t \in Live : slot[t] # i  BY <1>1, <1>2, <1>3, <2>1, <2>2, FdFacts
    <3>2. slotFd'[i] = fdNum'[cur]     BY <2>1, <2>2 DEF TypeOK
    <3> QED  BY <1>1, <2>1, <2>2, <3>1, <3>2 DEF SlotRight
  <2>3. CASE i # Login.to
    <3>1. slotFd'[i] = slotFd[i]  BY <2>1, <2>3 DEF TypeOK
    <3> QED  BY <1>1, <1>2, <1>3, <2>1, <2>3, <3>1 DEF SlotRight
  <2> QED  BY <2>2, <2>3
<1>6. CASE Kick
  <2>1. answer'[cur] = "busy" /\ cur \in Conn /\ slot'[cur] = slot[cur] /\ slot[cur] \in Slot
    BY <1>6, AnswerStands DEF Kick, Finish, MainInv, AnswerInv, TypeOK
  <2>2. i # slot[cur]  BY <1>3, <2>1
  <2>3. slotFd'[i] = slotFd[i]  BY <1>6, <2>1, <2>2 DEF Kick, Evict, TypeOK
  <2>4. Live' = Live  BY <1>6, MainLive DEF Main, Kick, Register, ReadLogin
  <2> QED  BY <1>4, <2>3, <2>4
<1>7. ASSUME NEW t \in Conn, SessionExit(t) PROVE SlotRight(i)
  <2>1. /\ t \in Live /\ Live' = Live \ {t} /\ slot[t] \in Slot
        /\ slotFd' = [slotFd EXCEPT ![slot[t]] = NONE]
    BY <1>7, SessionFrame, SessionLive DEF Session, SessionExit, Leave
  <2>2. CASE i = slot[t]
    <3>1. \A u \in Live' : slot[u] # i  BY <1>2, <1>3, <2>1, <2>2
    <3>2. slotFd'[i] = NONE  BY <2>1, <2>2 DEF TypeOK
    <3> QED  BY <1>1, <2>1, <3>1, <3>2 DEF SlotRight
  <2>3. CASE i # slot[t]
    <3>1. slotFd'[i] = slotFd[i]  BY <2>1, <2>3 DEF TypeOK
    <3> QED  BY <1>1, <1>2, <1>3, <2>1, <2>3, <3>1 DEF SlotRight
  <2> QED  BY <2>2, <2>3
<1>8. CASE Main /\ ~Register /\ ~Kick
  <2>1. UNCHANGED slotFd
    BY <1>8 DEF Main, Accept, AcceptFull, Admit, EnterLogin, LoginEof, LoginAuthError, LoginBusy,
       Spawn
  <2> QED  BY <1>4, <1>8, <2>1, MainLive
<1>9. ASSUME NEW t \in Conn, Session(t), ~SessionExit(t) PROVE SlotRight(i)
  <2>1. UNCHANGED slotFd
    BY <1>9 DEF Session, SessionRead, SessionReceive, SessionEof, Fetch, Scan, WriteSlot, ScanEnd,
       Reply, SessionClose
  <2> QED  BY <1>4, <1>9, <2>1, SessionLive
<1>10. CASE \E c \in Conn : Client(c)  BY <1>4, <1>10, ClientFrame
<1>11. CASE UNCHANGED vars
  <2>1. Live' = Live  BY <1>11 DEF Live
  <2> QED  BY <1>4, <1>11, <2>1
<1> QED  BY <1>5, <1>6, <1>7, <1>8, <1>9, <1>10, <1>11 DEF Next

-----------------------------------------------------------------------------
(* Deliveries *)

(* A number accept gave to a connection stays its number. *)
LEMMA FdStands ==
  ASSUME IInv, AnswerInv, [Next]_vars, NEW c \in Conn, fdNum[c] # NONE
  PROVE  fdNum'[c] = fdNum[c]
<1> USE DEF IInv, Shape
<1>1. ASSUME NEW d \in Conn, TakeConnection(d) PROVE fdNum'[c] = fdNum[c]
  <2>1. d # c /\ \E f \in Fd : fdNum' = [fdNum EXCEPT ![d] = f]
    BY <1>1, TakeFresh
  <2> QED  BY <2>1 DEF TypeOK
<1> QED  BY <1>1, FdSteps

LEMMA WriteToInbox ==
  ASSUME TypeOK, NEW c, NEW m, WriteTo(c, m), NEW d \in Conn, inbox'[d] # inbox[d]
  PROVE  c = d /\ inbox'[d] = Append(inbox[d], m)
BY DEF WriteTo, TypeOK

(* What the server can write to a client: a notice of main, a message a      *)
(* session routes to a slot, or the answer of a session.                     *)
LEMMA Deliveries ==
  ASSUME IInv, [Next]_vars, NEW d \in Conn, inbox'[d] # inbox[d]
  PROVE  \E m \in Delivery :
           /\ inbox'[d] = Append(inbox[d], m)
           /\ \/ m.cmd \in {"GREETING", "BUSY", "AUTH"}
              \/ \E t \in Conn : /\ WriteSlot(t) /\ m = Routed(t)
                                 /\ d = ConnAt(slotFd[req[t].next])
              \/ \E t \in Conn : Reply(t) /\ m = Routed(t) /\ d = ConnAt(req[t].fd)
<1> USE DEF IInv, Shape
<1>1. ASSUME NEW kind \in {"GREETING", "BUSY", "AUTH"}, NEW i \in Id, cur \in Conn,
             NEW c, WriteTo(c, Notice(kind, i))
      PROVE  \E m \in Delivery : m.cmd \in {"GREETING", "BUSY", "AUTH"}
                                 /\ inbox'[d] = Append(inbox[d], m)
  <2>1. Notice(kind, i) \in Delivery /\ Notice(kind, i).cmd = kind
    BY <1>1 DEF Notice, Delivery
  <2> QED  BY <1>1, <2>1, WriteToInbox
<1>2. CASE LoginAuthError
  <2>1. cur \in Conn  BY <1>2, ReadTakes DEF LoginAuthError
  <2> QED  BY <1>1, <1>2, <2>1, SlotFact DEF LoginAuthError
<1>3. CASE LoginBusy
  <2>1. cur \in Conn  BY <1>3, ReadTakes DEF LoginBusy
  <2> QED  BY <1>1, <1>3, <2>1, SlotFact DEF LoginBusy, NamesSlot
<1>4. CASE Spawn
  <2>1. cur \in Conn /\ slot[cur] \in Slot  BY <1>4 DEF Spawn, MainInv
  <2> QED  BY <1>1, <1>4, <2>1, SlotFact DEF Spawn
<1>5. CASE Main /\ ~LoginAuthError /\ ~LoginBusy /\ ~Spawn
  BY <1>5 DEF Main, Accept, AcceptFull, Admit, TakeConnection, EnterLogin, LoginEof, Kick, Register
<1>6. ASSUME NEW t \in Conn, pc[t] \in {"write", "reply"} PROVE Routed(t) \in Delivery
  <2>1. req[t].msg \in Message /\ req[t].ids \in SUBSET Slot
    BY <1>6 DEF SessionInv, TypeOK, Request
  <2>2. slot[t] \in Id  BY <1>6, SlotFact DEF SessionInv
  <2> QED  BY <2>1, <2>2 DEF Routed, Delivery, Message
<1>7. ASSUME NEW t \in Conn, Session(t)
      PROVE  \E m \in Delivery :
               /\ inbox'[d] = Append(inbox[d], m)
               /\ \/ /\ WriteSlot(t) /\ m = Routed(t)
                     /\ d = ConnAt(slotFd[req[t].next])
                  \/ Reply(t) /\ m = Routed(t) /\ d = ConnAt(req[t].fd)
  <2>1. CASE WriteSlot(t)
    <3>1. WriteTo(ConnAt(slotFd[req[t].next]), Routed(t)) /\ pc[t] = "write"
      BY <2>1 DEF WriteSlot, At
    <3> QED  BY <1>6, <2>1, <3>1, WriteToInbox
  <2>2. CASE Reply(t)
    <3>1. WriteTo(ConnAt(req[t].fd), Routed(t)) /\ pc[t] = "reply"
      BY <2>2 DEF Reply, ReplyFd, At
    <3> QED  BY <1>6, <2>2, <3>1, WriteToInbox
  <2>3. CASE ~WriteSlot(t) /\ ~Reply(t)
    BY <1>7, <2>3 DEF Session, SessionRead, SessionReceive, SessionEof, Fetch, Scan, ScanEnd,
       SessionClose, SessionExit
  <2> QED  BY <2>1, <2>2, <2>3
<1>8. CASE \E c \in Conn : Client(c)  BY <1>8, ClientFrame
<1>9. CASE UNCHANGED vars  BY <1>9
<1> QED  BY <1>2, <1>3, <1>4, <1>5, <1>7, <1>8, <1>9 DEF Next

(* The inbox of a client only grows, by one message at a time. *)
LEMMA ReceivedGrows ==
  ASSUME TypeOK, NEW d \in Conn, NEW m \in Delivery, inbox'[d] = Append(inbox[d], m)
  PROVE  /\ Received(d)' = Received(d) \cup {m}
         /\ DOMAIN inbox[d] = 1 .. Len(inbox[d]) /\ Len(inbox[d]) \in Nat
         /\ DOMAIN inbox'[d] = 1 .. Len(inbox[d]) + 1
         /\ \A k \in DOMAIN inbox[d] : inbox'[d][k] = inbox[d][k] /\ inbox[d][k] \in Received(d)
         /\ inbox'[d][Len(inbox[d]) + 1] = m
<1>1. inbox[d] \in Seq(Delivery)  BY DEF TypeOK
<1>2. /\ DOMAIN inbox[d] = 1 .. Len(inbox[d]) /\ Len(inbox[d]) \in Nat
      /\ DOMAIN inbox'[d] = 1 .. Len(inbox[d]) + 1
      /\ \A k \in 1 .. Len(inbox[d]) : inbox'[d][k] = inbox[d][k]
      /\ inbox'[d][Len(inbox[d]) + 1] = m
  BY <1>1
<1>3. Received(d)' = Received(d) \cup {m}
  <2>1. Received(d)' = {inbox'[d][k] : k \in 1 .. Len(inbox[d]) + 1}
    BY <1>2 DEF Received
  <2>2. Received(d) = {inbox[d][k] : k \in 1 .. Len(inbox[d])}
    BY <1>2 DEF Received
  <2>3. \A k \in 1 .. Len(inbox[d]) + 1 : k \in 1 .. Len(inbox[d]) \/ k = Len(inbox[d]) + 1
    BY <1>2
  <2>4. Received(d)' \subseteq Received(d) \cup {m}  BY <1>2, <2>1, <2>2, <2>3
  <2>5. \A k \in 1 .. Len(inbox[d]) : k \in 1 .. Len(inbox[d]) + 1  BY <1>2
  <2>6. Received(d) \subseteq Received(d)'  BY <1>2, <2>1, <2>2, <2>5
  <2>7. m \in Received(d)'  BY <1>2, <2>1
  <2> QED  BY <2>4, <2>6, <2>7
<1>4. \A k \in DOMAIN inbox[d] : inbox[d][k] \in Received(d)  BY DEF Received
<1> QED  BY <1>2, <1>3, <1>4

(* While a session serves a message, the message, the descriptor to answer   *)
(* at once it is fetched and, but for the names of IDLIST, what it writes     *)
(* stay the same.                                                            *)
LEMMA RequestStays ==
  ASSUME IInv, RequestInv, NEW t \in Conn, Session(t), ~SessionReceive(t),
         pc'[t] \in {"parse", "route", "write", "reply"}
  PROVE  /\ pc[t] \in {"parse", "route", "write"}
         /\ ~Fetch(t) => pc[t] # "parse" /\ req'[t].fd = req[t].fd
         /\ req'[t].msg = req[t].msg
         /\ req[t].next \in Nat /\ req'[t].next \in {req[t].next, req[t].next + 1}
         /\ WriteSlot(t) => req'[t].next = req[t].next + 1
         /\ req[t].msg.cmd # "IDLIST" => Routed(t)' = Routed(t)
<1> USE DEF IInv, Shape
<1>1. Fetch(t) \/ Scan(t) \/ WriteSlot(t) \/ (ScanEnd(t) /\ UNCHANGED req)
  BY DEF Session, SessionRead, SessionEof, Fetch, ScanEnd, Reply, SessionClose, SessionExit, Goto,
     TypeOK
<1>2. pc[t] \in {"parse", "route", "write"} /\ (~Fetch(t) => pc[t] # "parse")
  BY <1>1 DEF Fetch, Scan, WriteSlot, ScanEnd, At
<1>3. \/ Advance(t, {})
      \/ Advance(t, {req[t].next}) /\ req[t].msg.cmd = "IDLIST"
      \/ UNCHANGED req /\ ~WriteSlot(t)
      \/ Fetch(t) /\ ~WriteSlot(t)
  BY <1>1 DEF Fetch, Scan, WriteSlot, ScanEnd, At
<1>4. ASSUME NEW found, Advance(t, found)
      PROVE  /\ req'[t].msg = req[t].msg /\ req'[t].fd = req[t].fd
             /\ req'[t].next = req[t].next + 1 /\ req'[t].ids = req[t].ids \cup found
  BY <1>4 DEF Advance, TypeOK, Request
<1>5. req[t].next \in Nat  BY ServerConstants DEF TypeOK, Request
<1>6. UNCHANGED slot  BY SessionFrame
<1>7. /\ req'[t].msg = req[t].msg /\ (~Fetch(t) => req'[t].fd = req[t].fd)
      /\ req'[t].next \in {req[t].next, req[t].next + 1}
      /\ WriteSlot(t) => req'[t].next = req[t].next + 1
      /\ req[t].msg.cmd # "IDLIST" => req'[t].ids = req[t].ids
  <2>1. CASE Advance(t, {})
    <3>1. req'[t].ids = req[t].ids \cup {}  BY <1>4, <2>1
    <3>2. req'[t].ids = req[t].ids  BY <3>1
    <3> QED  BY <1>4, <2>1, <3>2
  <2>2. CASE Advance(t, {req[t].next}) /\ req[t].msg.cmd = "IDLIST"  BY <1>4, <2>2
  <2>3. CASE UNCHANGED req /\ ~WriteSlot(t)  BY <2>3
  <2>4. CASE Fetch(t) /\ ~WriteSlot(t)
    <3>1. /\ req'[t].msg = req[t].msg /\ req'[t].next = req[t].next
          /\ req'[t].ids = req[t].ids
      BY <2>4 DEF Fetch, Request, TypeOK
    <3> QED  BY <2>4, <3>1
  <2> QED  BY <1>3, <2>1, <2>2, <2>3, <2>4
<1> QED  BY <1>2, <1>5, <1>6, <1>7 DEF Routed

-----------------------------------------------------------------------------
(* Whose number a slot has, whatever logins there are *)

(* HadNumber for the tables a step leaves. *)
StillHas(i, c) ==
    \E u \in Conn : answer'[u] = "accepted" /\ slot'[u] = i /\ fdNum'[u] = fdNum'[c]

(* A number that a login got stays the number of the connection that has it. *)
LEMMA NumberStands ==
  ASSUME IInv, AnswerInv, [Next]_vars
  PROVE  \A i : \A c \in Conn : HadNumber(i, c) => StillHas(i, c)
<1> SUFFICES ASSUME NEW i, NEW c \in Conn, HadNumber(i, c) PROVE StillHas(i, c)
  OBVIOUS
<1>1. PICK u \in Conn : answer[u] = "accepted" /\ slot[u] = i /\ fdNum[u] = fdNum[c]
  BY DEF HadNumber
<1>2. answer'[u] = "accepted" /\ fdNum'[u] = fdNum[u] /\ slot'[u] = slot[u]
  BY <1>1, AnswerStands
<1>3. fdNum[c] # NONE  BY <1>1, FdFacts DEF AnswerInv
<1>4. fdNum'[c] = fdNum[c]  BY <1>3, FdStands
<1> QED  BY <1>1, <1>2, <1>4 DEF StillHas

(* What is open at the descriptor in a slot has a number a login for it got. *)
LEMMA NumberOfSlot ==
  ASSUME DescriptorInv, HolderInv
  PROVE  \A i \in Slot : ConnAt(slotFd[i]) # NoConn => HadNumber(i, ConnAt(slotFd[i]))
<1> SUFFICES ASSUME NEW i \in Slot, ConnAt(slotFd[i]) # NoConn
             PROVE  HadNumber(i, ConnAt(slotFd[i]))
  OBVIOUS
<1>1. slotFd[i] \in Fd /\ ConnAt(slotFd[i]) = fdConn[slotFd[i]]  BY DEF ConnAt
<1>2. fdNum[ConnAt(slotFd[i])] = slotFd[i]  BY <1>1 DEF DescriptorInv
<1>3. \E u \in Conn : answer[u] = "accepted" /\ slot[u] = i /\ fdNum[u] = slotFd[i]
  BY <1>1, FdFacts DEF HolderInv
<1> QED  BY <1>2, <1>3 DEF HadNumber

LEMMA SenderStep ==
  ASSUME IInv, AnswerInv, DescriptorInv, HolderInv, RequestInv, PendingInv, SenderInv,
         [Next]_vars
  PROVE  SenderInv'
<1> USE DEF IInv, Shape
<1> DEFINE Knows(t) ==
             /\ pc'[t] = "blocked" => on'[t] \in Conn /\ StillHas(slot'[t], on'[t])
             /\ pc'[t] \in {"parse", "route", "write", "reply"} =>
                  req'[t].msg.src \in Conn /\ StillHas(slot'[t], req'[t].msg.src)
<1>1. ASSUME NEW t \in Conn, pc[t] \notin {"none", "done"} PROVE slot'[t] = slot[t]
  <2>1. answer[t] = "accepted"  BY <1>1 DEF Live, AnswerInv
  <2> QED  BY <2>1, AnswerStands
<1>2. ASSUME NEW t \in Conn, pc'[t] = pc[t], on'[t] = on[t], req'[t] = req[t]
      PROVE  Knows(t)
  <2>1. CASE pc[t] = "blocked"
    BY <1>1, <1>2, <2>1, NumberStands DEF SenderInv
  <2>2. CASE pc[t] \in {"parse", "route", "write", "reply"}
    BY <1>1, <1>2, <2>2, NumberStands DEF SenderInv
  <2> QED  BY <1>2, <2>1, <2>2
<1>3. CASE Main
  <2>1. UNCHANGED <<on, req>> /\ \A t \in Conn : pc'[t] = pc[t] \/ pc'[t] = "read"
    BY <1>3 DEF Main, Accept, AcceptFull, Admit, EnterLogin, LoginEof, LoginAuthError, LoginBusy,
       Kick, Register, Spawn, ReadLogin, TypeOK
  <2>2. ASSUME NEW t \in Conn PROVE Knows(t)  BY <1>2, <2>1
  <2> QED  BY <2>2 DEF SenderInv, HadNumber, StillHas
<1>4. ASSUME NEW t \in Conn, Session(t) PROVE Knows(t)
  <2>0. slot'[t] = slot[t] /\ slot[t] \in Slot  BY <1>1, <1>4, SessionFrame
  <2>1. CASE SessionRead(t)
    <3>1. \/ pc'[t] = "close"
          \/ /\ pc'[t] = "blocked" /\ on'[t] = ConnAt(slotFd[slot[t]])
             /\ ConnAt(slotFd[slot[t]]) # NoConn
      BY <2>1 DEF SessionRead, Goto, TypeOK
    <3>2. CASE pc'[t] = "close"  BY <3>2
    <3>3. CASE pc'[t] # "close"
      <4>1. on'[t] \in Conn  BY <3>1, <3>3 DEF ConnAt, TypeOK
      <4>2. HadNumber(slot[t], on'[t])  BY <2>0, <3>1, <3>3, NumberOfSlot
      <4>3. StillHas(slot[t], on'[t])   BY <4>1, <4>2, NumberStands
      <4> QED  BY <2>0, <3>1, <3>3, <4>1, <4>3
    <3> QED  BY <3>2, <3>3
  <2>2. CASE SessionReceive(t)
    <3>1. on[t] \in Conn /\ HadNumber(slot[t], on[t])
      BY <2>2 DEF SessionReceive, At, SenderInv
    <3>2. pending[on[t]][1].src = on[t] /\ Head(pending[on[t]]) = pending[on[t]][1]
      <4>1. Len(pending[on[t]]) \in Nat  BY <3>1 DEF TypeOK
      <4>2. 1 \in 1 .. Len(pending[on[t]])  BY <2>2, <4>1, ReceiveTakes
      <4> QED  BY <2>2, <3>1, <4>2, ReceiveTakes DEF PendingInv
    <3>3. req'[t].msg = Head(pending[on[t]]) /\ pc'[t] = "parse"
      BY <2>2 DEF SessionReceive, NoRequest, Goto, TypeOK
    <3>4. StillHas(slot[t], on[t])  BY <3>1, NumberStands
    <3>5. req'[t].msg.src = on[t]   BY <3>2, <3>3
    <3> QED  BY <2>0, <3>1, <3>3, <3>4, <3>5
  <2>3. CASE ~SessionReceive(t) /\ pc'[t] \in {"parse", "route", "write", "reply"}
    <3>1. pc[t] \in {"parse", "route", "write"} /\ req'[t].msg = req[t].msg
      BY <1>4, <2>3, RequestStays
    <3>2. req[t].msg.src \in Conn /\ HadNumber(slot[t], req[t].msg.src)
      BY <3>1 DEF SenderInv
    <3>3. StillHas(slot[t], req[t].msg.src)  BY <3>2, NumberStands
    <3> QED  BY <2>0, <2>3, <3>1, <3>2, <3>3
  <2>4. CASE /\ ~SessionRead(t) /\ ~SessionReceive(t)
             /\ pc'[t] \notin {"parse", "route", "write", "reply"}
    <3>1. pc'[t] # "blocked"
      BY <1>4, <2>4 DEF Session, SessionEof, Fetch, Scan, WriteSlot, ScanEnd, Reply, SessionClose,
         SessionExit, Goto, TypeOK
    <3> QED  BY <2>4, <3>1
  <2> QED  BY <2>1, <2>2, <2>3, <2>4
<1>5. CASE \E t \in Conn : Session(t)
  <2>1. PICK t \in Conn : Session(t)  BY <1>5
  <2>2. \A u \in Conn \ {t} : pc'[u] = pc[u] /\ on'[u] = on[u] /\ req'[u] = req[u]
    BY <2>1, SessionFrame
  <2>3. ASSUME NEW u \in Conn PROVE Knows(u)  BY <1>2, <1>4, <2>1, <2>2
  <2> QED  BY <2>3 DEF SenderInv, HadNumber, StillHas
<1>6. CASE (\E c \in Conn : Client(c)) \/ UNCHANGED vars
  <2>1. UNCHANGED <<pc, on, req>>  BY <1>6, ClientFrame
  <2>2. ASSUME NEW t \in Conn PROVE Knows(t)  BY <1>2, <2>1
  <2> QED  BY <2>2 DEF SenderInv, HadNumber, StillHas
<1> QED  BY <1>3, <1>5, <1>6 DEF Next

(* A descriptor that fits a signed char is stored as it is. *)
LEMMA AsCharFits == \A f \in Nat : f < CHAR \div 2 => AsChar(f) = f
<1> SUFFICES ASSUME NEW f \in Nat, f < CHAR \div 2 PROVE AsChar(f) = f  OBVIOUS
<1> DEFINE h == CHAR \div 2
<1>1. CHAR \in Nat /\ CHAR > 0 /\ h \in Nat /\ h + h <= CHAR  BY ServerConstants
<1>2. f + h \in Nat /\ f + h < CHAR  BY <1>1
<1>3. \A x \in Nat : x < CHAR => x % CHAR = x  BY <1>1
<1>4. (f + h) % CHAR = f + h  BY <1>2, <1>3
<1> QED  BY <1>1, <1>4 DEF AsChar

(* The -1 of a free slot is no descriptor as a char either. *)
LEMMA AsCharNone == LastFd < CHAR \div 2 => AsChar(NONE) \notin Fd
<1> SUFFICES ASSUME LastFd < CHAR \div 2 PROVE AsChar(NONE) \notin Fd  OBVIOUS
<1> DEFINE h == CHAR \div 2
<1>1. CHAR \in Nat /\ CHAR > 0 /\ h \in Nat /\ h + h <= CHAR /\ h > 0
  BY ServerConstants
<1>2. \A x \in Nat : x < CHAR => x % CHAR = x  BY <1>1
<1>3. (NONE + h) % CHAR = h - 1  BY <1>1, <1>2 DEF NONE
<1>4. AsChar(NONE) = -1  BY <1>1, <1>3 DEF AsChar
<1> QED  BY <1>4, ServerConstants DEF Fd

LEMMA ReplyFdStep ==
  ASSUME IInv, AnswerInv, HolderInv, RequestInv, ReplyInv, [Next]_vars PROVE ReplyInv'
<1> USE DEF IInv, Shape
<1> SUFFICES ASSUME LastFd < CHAR \div 2, NEW t \in Conn,
                    pc'[t] \in {"route", "write", "reply"}, req'[t].fd \in Fd
             PROVE  \E u \in Conn : /\ answer'[u] = "accepted" /\ slot'[u] = slot'[t]
                                    /\ fdNum'[u] = req'[t].fd
  BY DEF ReplyInv
<1>1. ASSUME pc[t] \notin {"none", "done"} PROVE slot'[t] = slot[t] /\ slot[t] \in Slot
  <2>1. answer[t] = "accepted"  BY <1>1 DEF Live, AnswerInv
  <2> QED  BY <2>1, AnswerStands DEF AnswerInv
<1>2. CASE pc[t] \in {"route", "write", "reply"} /\ req'[t].fd = req[t].fd
  <2>1. PICK u \in Conn : answer[u] = "accepted" /\ slot[u] = slot[t] /\ fdNum[u] = req[t].fd
    BY <1>2 DEF ReplyInv
  <2>2. answer'[u] = answer[u] /\ fdNum'[u] = fdNum[u] /\ slot'[u] = slot[u]
    BY <2>1, AnswerStands
  <2> QED  BY <1>1, <1>2, <2>1, <2>2
<1>3. CASE Fetch(t)
  <2>1. pc[t] = "parse" /\ req'[t].fd = AsChar(slotFd[slot[t]])
    BY <1>3 DEF Fetch, At, Request, TypeOK
  <2>2. slotFd[slot[t]] # NONE  BY <2>1, AsCharNone
  <2>3. slotFd[slot[t]] \in Fd  BY <1>1, <2>1, <2>2 DEF TypeOK
  <2>4. slotFd[slot[t]] \in Nat /\ slotFd[slot[t]] < CHAR \div 2
    BY <2>3, ServerConstants DEF Fd
  <2>5. req'[t].fd = slotFd[slot[t]]  BY <2>1, <2>4, AsCharFits
  <2>6. PICK u \in Conn : /\ answer[u] = "accepted" /\ slot[u] = slot[t]
                          /\ fdNum[u] = slotFd[slot[t]]
    BY <1>1, <2>1, <2>2 DEF HolderInv
  <2>7. answer'[u] = answer[u] /\ fdNum'[u] = fdNum[u] /\ slot'[u] = slot[u]
    BY <2>6, AnswerStands
  <2> QED  BY <1>1, <2>1, <2>5, <2>6, <2>7
<1>4. CASE Main
  <2>1. UNCHANGED req /\ (pc'[t] = pc[t] \/ pc'[t] = "read")
    BY <1>4 DEF Main, Accept, AcceptFull, Admit, EnterLogin, LoginEof, LoginAuthError, LoginBusy,
       Kick, Register, Spawn, ReadLogin, TypeOK
  <2> QED  BY <1>2, <2>1
<1>5. ASSUME NEW v \in Conn, Session(v), ~Fetch(t)
      PROVE  pc[t] \in {"route", "write", "reply"} /\ req'[t].fd = req[t].fd
  <2>1. CASE v = t
    <3>1. ~SessionReceive(t)  BY DEF SessionReceive, Goto, TypeOK
    <3> QED  BY <1>5, <2>1, <3>1, RequestStays
  <2>2. CASE v # t   BY <1>5, <2>2, SessionFrame
  <2> QED  BY <2>1, <2>2
<1>6. CASE (\E c \in Conn : Client(c)) \/ UNCHANGED vars
  <2>1. UNCHANGED <<pc, req>>  BY <1>6, ClientFrame
  <2> QED  BY <1>2, <2>1
<1> QED  BY <1>2, <1>3, <1>4, <1>5, <1>6 DEF Next

LEMMA MisdeliveryStep ==
  ASSUME IInv, AnswerInv, DescriptorInv, HolderInv, RequestInv, ReplyInv,
         MisdeliveryOnlyByReuse, [Next]_vars
  PROVE  MisdeliveryOnlyByReuse'
<1> USE DEF IInv, Shape
<1> DEFINE Explained(m, c) ==
             /\ m.cmd = "DIRECT" => StillHas(m.to, c)
             /\ m.cmd \in {"GETTIME", "IDLIST"} /\ LastFd < CHAR \div 2 => StillHas(m.from, c)
<1>1. ASSUME NEW c \in Conn, NEW m \in Received(c) PROVE Explained(m, c)
  BY <1>1, NumberStands DEF MisdeliveryOnlyByReuse
<1>2. ASSUME NEW c \in Conn, NEW t \in Conn, WriteSlot(t), c = ConnAt(slotFd[req[t].next])
      PROVE  Explained(Routed(t), c)
  <2>0. Routed(t).cmd \notin {"GETTIME", "IDLIST"}
    BY <1>2 DEF WriteSlot, At, RequestInv, Routed
  <2> SUFFICES ASSUME Routed(t).cmd = "DIRECT" PROVE StillHas(Routed(t).to, c)  BY <2>0
  <2>1. /\ req[t].next \in Slot /\ req[t].msg.cmd = "DIRECT"
        /\ Routed(t).to = req[t].msg.to /\ Wants(req[t].msg, req[t].next)
    BY <1>2 DEF WriteSlot, At, SessionInv, RequestInv, Routed
  <2>2. Routed(t).to = req[t].next  BY <2>1 DEF Wants
  <2>3. HadNumber(req[t].next, c)   BY <1>2, <2>1, NumberOfSlot, ServerConstants
  <2> QED  BY <2>2, <2>3, NumberStands
<1>3. ASSUME NEW c \in Conn, NEW t \in Conn, Reply(t), c = ConnAt(req[t].fd)
      PROVE  Explained(Routed(t), c)
  <2>1. Routed(t).cmd # "DIRECT" /\ Routed(t).from = slot[t] /\ pc[t] = "reply"
    BY <1>3 DEF Reply, At, RequestInv, Routed
  <2> SUFFICES ASSUME LastFd < CHAR \div 2 PROVE StillHas(slot[t], c)  BY <2>1
  <2>2. req[t].fd \in Fd /\ fdConn[req[t].fd] = c  BY <1>3, ServerConstants DEF ConnAt
  <2>3. fdNum[c] = req[t].fd  BY <2>2, ServerConstants DEF DescriptorInv
  <2>4. \E u \in Conn : answer[u] = "accepted" /\ slot[u] = slot[t] /\ fdNum[u] = req[t].fd
    BY <2>1, <2>2 DEF ReplyInv
  <2>5. HadNumber(slot[t], c)  BY <2>3, <2>4 DEF HadNumber
  <2> QED  BY <2>5, NumberStands
<1>4. ASSUME NEW c \in Conn, NEW m \in Received(c)' PROVE Explained(m, c)
  <2>1. CASE inbox'[c] = inbox[c]
    <3>1. m \in Received(c)  BY <1>4, <2>1 DEF Received
    <3> QED  BY <1>1, <1>4, <3>1
  <2>2. CASE inbox'[c] # inbox[c]
    <3>1. PICK b \in Delivery :
            /\ inbox'[c] = Append(inbox[c], b)
            /\ \/ b.cmd \in {"GREETING", "BUSY", "AUTH"}
               \/ \E t \in Conn : /\ WriteSlot(t) /\ b = Routed(t)
                                  /\ c = ConnAt(slotFd[req[t].next])
               \/ \E t \in Conn : Reply(t) /\ b = Routed(t) /\ c = ConnAt(req[t].fd)
      BY <2>2, Deliveries
    <3>2. m \in Received(c) \/ m = b  BY <1>4, <3>1, ReceivedGrows
    <3>3. Explained(b, c)
      <4>1. CASE b.cmd \in {"GREETING", "BUSY", "AUTH"}  BY <4>1
      <4>2. CASE b.cmd \notin {"GREETING", "BUSY", "AUTH"}  BY <1>2, <1>3, <3>1, <4>2
      <4> QED  BY <4>1, <4>2
    <3> QED  BY <1>1, <3>2, <3>3
  <2> QED  BY <2>1, <2>2
<1> QED  BY <1>4 DEF MisdeliveryOnlyByReuse, HadNumber, StillHas

LEMMA ImpersonationStep ==
  ASSUME IInv, AnswerInv, SenderInv, ImpersonationOnlyByReuse, [Next]_vars
  PROVE  ImpersonationOnlyByReuse'
<1> USE DEF IInv, Shape
<1>1. ASSUME NEW c \in Conn, NEW m \in Received(c), m.cmd \notin {"GREETING", "BUSY", "AUTH"}
      PROVE  StillHas(m.from, m.src)
  <2>1. m.src \in Conn
    <3>1. inbox[c] \in Seq(Delivery) /\ \E k \in DOMAIN inbox[c] : m = inbox[c][k]
      BY DEF Received, TypeOK
    <3>2. m \in Delivery  BY <3>1
    <3> QED  BY <3>2 DEF Delivery
  <2> QED  BY <1>1, <2>1, NumberStands DEF ImpersonationOnlyByReuse
<1>2. ASSUME NEW t \in Conn, WriteSlot(t) \/ Reply(t)
      PROVE  StillHas(Routed(t).from, Routed(t).src)
  <2>1. req[t].msg.src \in Conn /\ HadNumber(slot[t], req[t].msg.src)
    BY <1>2 DEF WriteSlot, Reply, At, SenderInv
  <2> QED  BY <2>1, NumberStands DEF Routed
<1>3. ASSUME NEW c \in Conn, NEW m \in Received(c)', m.cmd \notin {"GREETING", "BUSY", "AUTH"}
      PROVE  StillHas(m.from, m.src)
  <2>1. CASE inbox'[c] = inbox[c]
    <3>1. m \in Received(c)  BY <1>3, <2>1 DEF Received
    <3> QED  BY <1>1, <1>3, <3>1
  <2>2. CASE inbox'[c] # inbox[c]
    <3>1. PICK b \in Delivery :
            /\ inbox'[c] = Append(inbox[c], b)
            /\ \/ b.cmd \in {"GREETING", "BUSY", "AUTH"}
               \/ \E t \in Conn : (WriteSlot(t) \/ Reply(t)) /\ b = Routed(t)
      BY <2>2, Deliveries
    <3>2. m \in Received(c) \/ m = b  BY <1>3, <3>1, ReceivedGrows
    <3> QED  BY <1>1, <1>2, <1>3, <3>1, <3>2
  <2> QED  BY <2>1, <2>2
<1> QED  BY <1>3 DEF ImpersonationOnlyByReuse, HadNumber, StillHas

-----------------------------------------------------------------------------
(* The part of the invariant that holds whatever logins there are *)

LEMMA BaseInit == Init => BaseInv
<1> SUFFICES ASSUME Init PROVE BaseInv  OBVIOUS
<1>1. HolderInv /\ DescriptorInv /\ RefusedInv /\ RequestInv
  BY DEF Init, HolderInv, DescriptorInv, RefusedInv, RequestInv
<1>2. PendingInv  BY DEF Init, PendingInv
<1>3. MisdeliveryOnlyByReuse /\ ImpersonationOnlyByReuse
  BY DEF Init, MisdeliveryOnlyByReuse, ImpersonationOnlyByReuse, Received
<1>4. SenderInv /\ ReplyInv  BY DEF Init, SenderInv, ReplyInv
<1>5. SlotInv
  <2>1. Live = {}  BY DEF Init, Live
  <2> QED  BY <2>1 DEF Init, SlotInv
<1> QED  BY <1>1, <1>2, <1>3, <1>4, <1>5, AnswerInit DEF BaseInv

LEMMA BaseStep == IInv /\ BaseInv /\ [Next]_vars => BaseInv'
  BY AnswerStep, DescriptorStep, HolderStep, RefusedStep, RequestStep, PendingStep,
     SenderStep, ReplyFdStep, SlotStep, MisdeliveryStep, ImpersonationStep DEF BaseInv

THEOREM BaseInvariance == Spec => [](IInv /\ BaseInv)
<1>1. Init => IInv /\ BaseInv  BY ShapeInit, CountInit, BaseInit DEF IInv
<1>2. IInv /\ BaseInv /\ [Next]_vars => (IInv /\ BaseInv)'
  <2>1. IInv /\ [Next]_vars => IInv'  BY ShapeStep, CountStep DEF IInv
  <2> QED  BY <2>1, BaseStep
<1> QED  BY <1>1, <1>2, PTL DEF Spec

(* The retry of a client refused as "Already logged!" is not refused for the *)
(* same reason: main frees the slot after every refusal (l. 138-147).        *)
THEOREM RetryNeverBusy == Spec => RetryAccepted
<1>1. IInv /\ BaseInv /\ [Next]_vars => [LoginBusy => Login.to \notin refused]_vars
  <2> SUFFICES ASSUME BaseInv, LoginBusy PROVE Login.to \notin refused  OBVIOUS
  <2>1. slotFd[Login.to] # NONE /\ mainPc = "login"
    BY DEF LoginBusy, ReadLogin
  <2> QED  BY <2>1 DEF BaseInv, RefusedInv
<1> QED  BY <1>1, BaseInvariance, PTL DEF Spec, RetryAccepted

(* A message for one ID reaches another client only when a session of that   *)
(* ID had the client's descriptor before (l. 229-237, 276-279).              *)
THEOREM MisdeliveryExplained == Spec => []MisdeliveryOnlyByReuse
<1>1. BaseInv => MisdeliveryOnlyByReuse  BY DEF BaseInv
<1> QED  BY <1>1, BaseInvariance, PTL

(* What a client is passed on or answered carries the ID of another than its *)
(* sender only when a session of that ID had the sender's descriptor before, *)
(* whoever logs in twice (l. 202-226, 229-237).                              *)
THEOREM ImpersonationExplained == Spec => []ImpersonationOnlyByReuse
<1>1. BaseInv => ImpersonationOnlyByReuse  BY DEF BaseInv
<1> QED  BY <1>1, BaseInvariance, PTL
-----------------------------------------------------------------------------
(* While nobody logs in twice *)

(* Once main found an ID busy, that is so for ever; and while it did not, it *)
(* takes no slot from anybody.                                               *)
LEMMA QuietBack ==
  ASSUME IInv, AnswerInv, [Next]_vars, NoDuplicate'
  PROVE  NoDuplicate /\ ~LoginBusy /\ ~Kick
<1> USE DEF IInv, Shape
<1>1. \A c \in Conn : answer'[c] # "busy"  BY DEF NoDuplicate, Answered
<1>2. \A c \in Conn : answer[c] # "busy"   BY <1>1, AnswerStands
<1>3. NoDuplicate  BY <1>2 DEF NoDuplicate, Answered
<1>4. ASSUME LoginBusy PROVE FALSE
  <2>1. cur \in Conn /\ answer'[cur] = "busy"
    BY <1>4, ReadTakes DEF LoginBusy, TypeOK
  <2> QED  BY <1>1, <2>1
<1>5. ASSUME Kick PROVE FALSE
  BY <1>2, <1>5 DEF Kick, MainInv, AnswerInv
<1> QED  BY <1>3, <1>4, <1>5

LEMMA TableOfSlots ==
  ASSUME AnswerInv', SlotInv', NoDuplicate' PROVE TableInv'
<1>1. \A i : ~Doubled(i)'  BY DEF NoDuplicate, Doubled
<1>2. \A t \in Live' : t \in Conn /\ slot'[t] \in Slot
  BY DEF Live, AnswerInv
<1> QED  BY <1>1, <1>2 DEF SlotInv, TableInv

(* A session, or main, busy with a connection holds its descriptor. *)
LEMMA OwnerFacts ==
  ASSUME IInv, AnswerInv, OwnerInv, NEW c \in Conn, Owner(c)
  PROVE  fdNum[c] \in Fd /\ ConnAt(fdNum[c]) = c
BY DEF AnswerInv, Owner, OwnerInv, ConnAt

LEMMA OwnerSame ==
  ASSUME IInv, AnswerInv, OwnerInv, UNCHANGED <<fdConn, fdNum>>,
         \A c \in Conn : Owner(c)' <=> Owner(c)
  PROVE  OwnerInv'
BY DEF OwnerInv

LEMMA OwnerStep ==
  ASSUME IInv, AnswerInv, DescriptorInv, OwnerInv, TableInv, [Next]_vars, NoDuplicate'
  PROVE  OwnerInv'
<1> USE DEF IInv, Shape
<1>0. ~LoginBusy /\ ~Kick  BY QuietBack
<1>2. ASSUME NEW c \in Conn, Accept(c) PROVE OwnerInv'
  <2>1. TakeConnection(c)  BY <1>2 DEF Accept
  <2>2. PICK f \in Fd : /\ fdConn[f] = NoConn
                        /\ fdConn' = [fdConn EXCEPT ![f] = c]
                        /\ fdNum' = [fdNum EXCEPT ![c] = f]
    BY <2>1, TakeFresh
  <2>3. Live' = Live /\ UNCHANGED pc /\ mainPc = "accept"
    BY <1>2, MainLive DEF Main, Accept, TakeConnection, Register, ReadLogin
  <2>4. \A d \in Conn : Owner(d)' <=> Owner(d) \/ d = c
    BY <1>2, <2>3 DEF Accept, Owner
  <2>5. \A d \in Conn \ {c} : Owner(d) => /\ fdNum[d] \in Fd \ {f} /\ fdNum'[d] = fdNum[d]
                                          /\ fdConn[fdNum[d]] = d
    <3> SUFFICES ASSUME NEW d \in Conn \ {c}, Owner(d)
                 PROVE  /\ fdNum[d] \in Fd \ {f} /\ fdNum'[d] = fdNum[d]
                        /\ fdConn[fdNum[d]] = d
      OBVIOUS
    <3>1. fdNum[d] \in Fd /\ fdConn[fdNum[d]] = d  BY OwnerFacts DEF OwnerInv
    <3>2. fdNum[d] # f  BY <2>2, <3>1, ServerConstants
    <3> QED  BY <2>2, <3>1, <3>2 DEF TypeOK
  <2>6. \A d \in Conn : Owner(d)' => fdConn'[fdNum'[d]] = d
    BY <2>2, <2>4, <2>5 DEF TypeOK
  <2>7. \A g \in Fd : \A d \in Conn : fdConn'[g] = d => Owner(d)'
    BY <2>2, <2>4 DEF OwnerInv, TypeOK
  <2> QED  BY <2>6, <2>7 DEF OwnerInv
<1>3. CASE AcceptFull \/ Admit \/ EnterLogin \/ LoginEof \/ LoginAuthError
  <2>1. cur \in Conn /\ answer[cur] = "none" /\ mainPc \in {"check", "enter", "login"}
    BY <1>3 DEF AcceptFull, Admit, EnterLogin, LoginEof, LoginAuthError, ReadLogin, MainInv,
       AnswerInv
  <2>2. Owner(cur)  BY <2>1 DEF Owner
  <2>3. \/ UNCHANGED <<answer, cur>> /\ mainPc' \in {"enter", "login"}
        \/ \E kind \in {"full", "auth", "eof"} :
             answer' = [answer EXCEPT ![cur] = kind] /\ mainPc' = "accept"
    BY <1>3 DEF AcceptFull, Admit, EnterLogin, LoginEof, LoginAuthError, Finish
  <2>4. UNCHANGED <<fdConn, fdNum, pc>> /\ Live' = Live
    BY <1>3, <2>1, <2>3 DEF AcceptFull, Admit, EnterLogin, LoginEof, LoginAuthError, ReadLogin,
       Live
  <2>5. \A c \in Conn : Owner(c)' <=> Owner(c)
    BY <2>1, <2>2, <2>3, <2>4 DEF Owner, TypeOK
  <2> QED  BY <2>4, <2>5, OwnerSame
<1>4. CASE Register
  <2>1. /\ UNCHANGED <<fdConn, fdNum, pc, cur>> /\ cur \in Conn /\ pc[cur] = "none"
        /\ answer' = [answer EXCEPT ![cur] = "accepted"] /\ answer[cur] = "none"
        /\ mainPc = "login" /\ mainPc' = "spawn"
    BY <1>4 DEF Register, ReadLogin, MainInv, AnswerInv
  <2>2. Live' = Live \cup {cur}  BY <1>4, <2>1 DEF Live
  <2>3. \A c \in Conn : Owner(c)' <=> Owner(c)
    BY <2>1, <2>2 DEF Owner, TypeOK
  <2> QED  BY <2>1, <2>3, OwnerSame
<1>5. CASE Spawn
  <2>1. /\ UNCHANGED <<fdConn, fdNum>> /\ cur \in Conn /\ pc[cur] = "none"
        /\ answer' = [answer EXCEPT ![cur] = "accepted"] /\ answer[cur] = "accepted"
        /\ mainPc = "spawn" /\ mainPc' = "accept" /\ pc' = [pc EXCEPT ![cur] = "read"]
    BY <1>5 DEF Spawn, Finish, MainInv, AnswerInv
  <2>2. Live' = Live  BY <1>5, MainLive DEF Main, Register, ReadLogin, Spawn
  <2>3. \A c \in Conn : Owner(c)' <=> Owner(c)
    BY <2>1, <2>2 DEF Owner, TypeOK
  <2> QED  BY <2>1, <2>3, OwnerSame
<1>6. ASSUME NEW t \in Conn, Session(t) PROVE OwnerInv'
  <2>0. /\ UNCHANGED <<fdNum, mainPc, cur, answer>> /\ t \in Live
        /\ answer[t] = "accepted" /\ slot[t] \in Slot
        /\ \A u \in Conn \ {t} : pc'[u] = pc[u]
        /\ mainPc \in {"check", "enter", "login"} => t # cur
    BY <1>6, SessionFrame DEF AnswerInv, MainInv
  <2>1. CASE SessionClose(t)
    <3>1. /\ pc[t] = "close" /\ pc'[t] = "exit" /\ Live' = Live
          /\ fdConn' = [f \in Fd |-> IF f = slotFd[slot[t]] THEN NoConn ELSE fdConn[f]]
      BY <1>6, <2>1, SessionLive DEF SessionClose, At, Goto, CloseFd, SessionExit, TypeOK
    <3>2. slotFd[slot[t]] = fdNum[t] /\ Owner(t)  BY <2>0, <3>1 DEF TableInv, Owner
    <3>3. \A c \in Conn : Owner(c)' <=> Owner(c) /\ c # t
      BY <2>0, <3>1 DEF Owner
    <3>4. \A c \in Conn \ {t} : Owner(c) => fdNum[c] \in Fd /\ fdNum[c] # fdNum[t]
      BY <3>2, OwnerFacts DEF OwnerInv
    <3>5. \A c \in Conn : Owner(c)' => fdConn'[fdNum'[c]] = c
      BY <2>0, <3>1, <3>2, <3>3, <3>4 DEF OwnerInv
    <3>6. \A f \in Fd : \A c \in Conn : fdConn'[f] = c => Owner(c)'
      <4> SUFFICES ASSUME NEW f \in Fd, NEW c \in Conn, fdConn'[f] = c PROVE Owner(c)'
        OBVIOUS
      <4>1. f # fdNum[t] /\ fdConn[f] = c  BY <3>1, <3>2, ServerConstants
      <4>2. Owner(c)  BY <4>1 DEF OwnerInv
      <4>3. c # t     BY <4>1, ServerConstants DEF DescriptorInv
      <4> QED  BY <3>3, <4>2, <4>3
    <3> QED  BY <3>5, <3>6 DEF OwnerInv
  <2>2. CASE ~SessionClose(t)
    <3>1. UNCHANGED fdConn
      BY <1>6, <2>2 DEF Session, SessionRead, SessionReceive, SessionEof, Fetch, Scan, WriteSlot,
         ScanEnd, Reply, SessionExit
    <3>2. t \in Live' /\ pc'[t] # "exit" <=> t \in Live /\ pc[t] # "exit"
      <4>1. CASE SessionExit(t)
        BY <1>6, <4>1, SessionLive DEF SessionExit, At
      <4>2. CASE ~SessionExit(t)
        <5>1. pc[t] # "exit" /\ pc'[t] # "exit"
          BY <1>6, <2>2, <4>2 DEF Session, SessionRead, SessionReceive, SessionEof, Fetch, Scan,
             WriteSlot, ScanEnd, Reply, At, Goto, TypeOK
        <5> QED  BY <1>6, <4>2, <5>1, SessionLive
      <4> QED  BY <4>1, <4>2
    <3>3. \A u \in Conn \ {t} : u \in Live' <=> u \in Live
      BY <1>6, SessionLive
    <3>4. \A c \in Conn : Owner(c)' <=> Owner(c)
      BY <2>0, <3>2, <3>3 DEF Owner
    <3> QED  BY <2>0, <3>1, <3>4, OwnerSame
  <2> QED  BY <2>1, <2>2
<1>7. ASSUME NEW c \in Conn, Client(c) PROVE OwnerInv'
  <2>1. UNCHANGED <<fdConn, fdNum, pc, answer, mainPc, cur>> /\ Live' = Live
    BY <1>7, ClientFrame
  <2>2. \A d \in Conn : Owner(d)' <=> Owner(d)  BY <2>1 DEF Owner
  <2> QED  BY <2>1, <2>2, OwnerSame
<1>8. CASE UNCHANGED vars
  <2>1. \A d \in Conn : Owner(d)' <=> Owner(d)  BY <1>8 DEF Owner, Live
  <2> QED  BY <1>8, <2>1, OwnerSame
<1> QED  BY <1>0, <1>2, <1>3, <1>4, <1>5, <1>6, <1>7, <1>8 DEF Next, Main

-----------------------------------------------------------------------------
(* The messages of one client, while nobody logs in twice *)

(* What waits in a socket after a step waited there before, or was just *)
(* written under the next number.                                       *)
LEMMA PendingComes ==
  ASSUME IInv, [Next]_vars, NEW c \in Conn
  PROVE  /\ sent[c] \in Nat /\ sent'[c] \in Nat /\ sent[c] <= sent'[c]
         /\ \A k \in 1 .. Len(pending'[c]) :
              \/ \E j \in 1 .. Len(pending[c]) : pending'[c][k] = pending[c][j]
              \/ pending'[c][k].n = sent[c] /\ sent[c] < sent'[c]
<1> USE DEF IInv, Shape
<1>0. sent[c] \in Nat  BY DEF TypeOK
<1>1. CASE pending'[c] = pending[c] /\ sent'[c] = sent[c]
  BY <1>0, <1>1
<1>2. ASSUME NEW d \in Conn, NEW k, Taken(d, k)
      PROVE  /\ sent'[c] = sent[c]
             /\ \A i \in 1 .. Len(pending'[c]) :
                  \E j \in 1 .. Len(pending[c]) : pending'[c][i] = pending[c][j]
  BY <1>2 DEF Taken
<1>3. CASE ReadLogin  BY <1>0, <1>2, <1>3, ReadTakes
<1>4. ASSUME NEW t \in Conn, SessionReceive(t)
      PROVE  /\ sent'[c] = sent[c]
             /\ \A i \in 1 .. Len(pending'[c]) :
                  \E j \in 1 .. Len(pending[c]) : pending'[c][i] = pending[c][j]
  BY <1>2, <1>4, ReceiveTakes
<1>5. CASE Main /\ ~ReadLogin
  BY <1>1, <1>5 DEF Main, Accept, AcceptFull, Admit, EnterLogin, LoginEof, LoginAuthError,
     LoginBusy, Kick, Register, Spawn
<1>6. ASSUME NEW t \in Conn, Session(t), ~SessionReceive(t)
      PROVE  pending'[c] = pending[c] /\ sent'[c] = sent[c]
  BY <1>6 DEF Session, SessionRead, SessionEof, Fetch, Scan, WriteSlot, ScanEnd, Reply,
     SessionClose, SessionExit, Goto
<1>7. ASSUME NEW d \in Conn, NEW cmd, NEW to, Put(d, cmd, to)
      PROVE  /\ sent'[c] \in Nat /\ sent[c] <= sent'[c]
             /\ \A k \in 1 .. Len(pending'[c]) :
                  \/ \E j \in 1 .. Len(pending[c]) : pending'[c][k] = pending[c][j]
                  \/ pending'[c][k].n = sent[c] /\ sent[c] < sent'[c]
  <2>1. CASE d # c
    <3>1. pending'[c] = pending[c] /\ sent'[c] = sent[c]  BY <1>7, <2>1, PutFacts
    <3> QED  BY <1>0, <3>1
  <2>2. CASE d = c
    <3> DEFINE m == [cmd |-> cmd, to |-> to, src |-> c, n |-> sent[c]]
    <3>1. /\ \A k \in 1 .. Len(pending'[c]) :
               \/ k \in 1 .. Len(pending[c]) /\ pending'[c][k] = pending[c][k]
               \/ k = Len(pending[c]) + 1 /\ pending'[c][k] = m
          /\ sent'[c] = sent[c] + 1
      BY <1>7, <2>2, PutFacts
    <3>2. m.n = sent[c]  OBVIOUS
    <3> HIDE DEF m
    <3> QED  BY <1>0, <3>1, <3>2
  <2> QED  BY <2>1, <2>2
<1>8. ASSUME NEW d \in Conn, Client(d)
      PROVE  /\ sent'[c] \in Nat /\ sent[c] <= sent'[c]
             /\ \A k \in 1 .. Len(pending'[c]) :
                  \/ \E j \in 1 .. Len(pending[c]) : pending'[c][k] = pending[c][j]
                  \/ pending'[c][k].n = sent[c] /\ sent[c] < sent'[c]
  <2>1. CASE SendLogin(d)  BY <1>7, <2>1 DEF SendLogin
  <2>2. CASE Send(d)       BY <1>7, <2>2 DEF Send
  <2>3. CASE Connect(d) \/ Close(d)
    <3>1. UNCHANGED <<pending, sent>>  BY <2>3 DEF Connect, Close
    <3> QED  BY <1>0, <3>1
  <2>4. CASE Reset(d)
    <3>1. UNCHANGED sent /\ (pending'[c] = pending[c] \/ pending'[c] = <<>>)
      BY <2>4 DEF Reset, TypeOK
    <3> QED  BY <1>0, <3>1
  <2> QED  BY <1>8, <2>1, <2>2, <2>3, <2>4 DEF Client
<1>9. CASE UNCHANGED vars  BY <1>1, <1>9
<1> QED  BY <1>0, <1>1, <1>3, <1>4, <1>5, <1>6, <1>8, <1>9 DEF Next

(* Passed for the sockets a step leaves. *)
StillPassed(c, n) ==
    n < sent'[c] /\ \A k \in 1 .. Len(pending'[c]) : n < pending'[c][k].n

(* What is behind stays behind. *)
LEMMA PassedStays ==
  ASSUME IInv, [Next]_vars, NEW c \in Conn, NEW n \in Nat, Passed(c, n)
  PROVE  StillPassed(c, n)
<1>1. n < sent'[c]  BY PendingComes DEF Passed
<1>2. ASSUME NEW k \in 1 .. Len(pending'[c]) PROVE n < pending'[c][k].n
  <2>1. CASE \E j \in 1 .. Len(pending[c]) : pending'[c][k] = pending[c][j]
    BY <2>1 DEF Passed
  <2>2. CASE pending'[c][k].n = sent[c]  BY <2>2 DEF Passed
  <2> QED  BY <2>1, <2>2, PendingComes
<1> QED  BY <1>1, <1>2 DEF StillPassed

LEMMA ServingStep ==
  ASSUME IInv, BaseInv, OwnerInv, TableInv, ServingInv, [Next]_vars
  PROVE  ServingInv'
<1> USE DEF IInv, Shape, BaseInv
<1>1. ASSUME NEW t \in Conn, pc[t] \in {"parse", "route", "write", "reply"}
      PROVE  StillPassed(t, req[t].msg.n) /\ fdNum'[t] = fdNum[t]
  <2>1. req[t].msg \in Message  BY <1>1 DEF SessionInv
  <2>2. req[t].msg.n \in Nat  BY <2>1 DEF Message
  <2>3. Passed(t, req[t].msg.n)  BY <1>1 DEF ServingInv, Serving
  <2>4. answer[t] = "accepted"  BY <1>1 DEF Live, AnswerInv
  <2>5. StillPassed(t, req[t].msg.n)  BY <2>2, <2>3, PassedStays
  <2> QED  BY <2>4, <2>5, AnswerStands
<1>2. ASSUME NEW t \in Conn, pc'[t] = pc[t], on'[t] = on[t], req'[t] = req[t]
      PROVE  Serving(t)'
  <2>1. CASE pc[t] \in {"parse", "route", "write", "reply"}
    <3>1. StillPassed(t, req'[t].msg.n)  BY <1>1, <1>2, <2>1
    <3> QED  BY <1>1, <1>2, <2>1, <3>1 DEF ServingInv, Serving, AsChar, Passed, StillPassed
  <2>2. CASE pc[t] \notin {"parse", "route", "write", "reply"}
    BY <1>2, <2>2 DEF ServingInv, Serving
  <2> QED  BY <2>1, <2>2
<1>3. ASSUME NEW t \in Conn, pc'[t] \notin {"blocked", "parse", "route", "write", "reply"}
      PROVE  Serving(t)'
  BY <1>3 DEF Serving
<1>4. CASE Main
  <2>1. UNCHANGED <<on, req>> /\ \A t \in Conn : pc'[t] = pc[t] \/ pc'[t] = "read"
    BY <1>4 DEF Main, Accept, AcceptFull, Admit, EnterLogin, LoginEof, LoginAuthError, LoginBusy,
       Kick, Register, Spawn, ReadLogin, TypeOK
  <2> QED  BY <1>2, <1>3, <2>1 DEF ServingInv
<1>5. ASSUME NEW t \in Conn, Session(t) PROVE Serving(t)'
  <2>0. t \in Live /\ UNCHANGED fdNum /\ slotFd[slot[t]] = fdNum[t]
    BY <1>5, SessionFrame DEF TableInv
  <2>1. CASE SessionRead(t)
    <3>1. Owner(t)  BY <2>0, <2>1 DEF SessionRead, At, Owner
    <3>2. ConnAt(slotFd[slot[t]]) = t  BY <2>0, <3>1, OwnerFacts
    <3>3. pc'[t] = "blocked" /\ on'[t] = t
      BY <2>1, <3>2, ServerConstants DEF SessionRead, Goto, TypeOK
    <3> QED  BY <3>3 DEF Serving
  <2>2. CASE SessionReceive(t)
    <3> DEFINE m == pending[t][1]
    <3>1. on[t] = t  BY <2>2 DEF SessionReceive, At, ServingInv, Serving
    <3>2. /\ m \in Message /\ 1 \in 1 .. Len(pending[t]) /\ Len(pending[t]) \in Nat
          /\ req'[t].msg = m /\ pc'[t] = "parse"
      <4>1. m \in Message /\ Head(pending[t]) = m /\ pending[t] \in Seq(Message)
            /\ pending[t] # <<>>
        BY <2>2, <3>1, ReceiveTakes DEF SessionReceive, Consume, TypeOK
      <4> QED  BY <2>0, <2>2, <3>1, <4>1 DEF SessionReceive, NoRequest, Goto, TypeOK
    <3>3. answer[t] = "accepted"  BY <2>0 DEF AnswerInv
    <3>4. m.src = t /\ m.n < sent[t] /\ m.cmd \notin {"LOGIN", "BADPW"}
      BY <3>2, <3>3 DEF PendingInv
    <3>5. m.cmd \in Route  BY <3>2, <3>4 DEF Message
    <3>6. StillPassed(t, m.n)
      <4>1. PICK k \in 1 .. Len(pending[t]) : Taken(t, k)
        BY <2>2, <3>1, ReceiveTakes
      <4>2. ASSUME NEW j \in 1 .. Len(pending'[t]) PROVE m.n < pending'[t][j].n
        <5>1. /\ j + k \in 1 .. Len(pending[t]) /\ pending'[t][j] = pending[t][j + k]
              /\ 1 < j + k
          BY <4>1 DEF Taken
        <5> QED  BY <3>2, <5>1 DEF PendingInv
      <4>3. m.n < sent'[t]  BY <3>4, <4>1 DEF Taken
      <4> QED  BY <4>2, <4>3 DEF StillPassed
    <3>7. StillPassed(t, req'[t].msg.n)  BY <3>2, <3>6
    <3>8. req'[t].msg.src = t /\ req'[t].msg.cmd \in Route  BY <3>2, <3>4, <3>5
    <3> QED  BY <3>2, <3>7, <3>8 DEF Serving, Passed, StillPassed
  <2>3. CASE ~SessionReceive(t) /\ pc'[t] \in {"parse", "route", "write", "reply"}
    <3>1. pc[t] \in {"parse", "route", "write"} /\ req'[t].msg = req[t].msg
      BY <1>5, <2>3, RequestStays
    <3>2. StillPassed(t, req'[t].msg.n)  BY <1>1, <3>1
    <3>3. req'[t].fd = AsChar(fdNum[t])
      <4>1. CASE Fetch(t)
        BY <2>0, <4>1 DEF Fetch, Request, TypeOK
      <4>2. CASE ~Fetch(t)
        <5>1. pc[t] \in {"route", "write"} /\ req'[t].fd = req[t].fd
          BY <1>5, <2>3, <4>2, RequestStays
        <5> QED  BY <5>1 DEF ServingInv, Serving
      <4> QED  BY <4>1, <4>2
    <3>4. req'[t].msg.src = t /\ req'[t].msg.cmd \in Route
      BY <3>1 DEF ServingInv, Serving
    <3> QED  BY <2>0, <2>3, <3>2, <3>3, <3>4 DEF Serving, AsChar, Passed, StillPassed
  <2>4. CASE /\ ~SessionRead(t) /\ ~SessionReceive(t)
             /\ pc'[t] \notin {"parse", "route", "write", "reply"}
    <3>1. pc'[t] # "blocked"
      BY <1>5, <2>4 DEF Session, SessionEof, Fetch, Scan, WriteSlot, ScanEnd, Reply, SessionClose,
         SessionExit, Goto, TypeOK
    <3> QED  BY <1>3, <2>4, <3>1
  <2> QED  BY <2>1, <2>2, <2>3, <2>4
<1>6. ASSUME NEW t \in Conn, Session(t) PROVE ServingInv'
  <2>1. \A u \in Conn \ {t} : pc'[u] = pc[u] /\ on'[u] = on[u] /\ req'[u] = req[u]
    BY <1>6, SessionFrame
  <2> QED  BY <1>2, <1>5, <1>6, <2>1 DEF ServingInv
<1>7. CASE \E c \in Conn : Client(c)
  <2>1. UNCHANGED <<pc, on, req>>  BY <1>7, ClientFrame
  <2> QED  BY <1>2, <2>1 DEF ServingInv
<1>8. CASE UNCHANGED vars  BY <1>2, <1>8 DEF ServingInv
<1> QED  BY <1>4, <1>6, <1>7, <1>8 DEF Next

(* A message that was delivered keeps its place before all the others of its *)
(* client.                                                                   *)
LEMMA BeforeStays ==
  ASSUME IInv, BaseInv, ServingInv, [Next]_vars, NEW m \in Delivery, m.src \in Conn, Before(m)
  PROVE  Before(m)'
<1> USE DEF IInv, Shape, BaseInv
<1> DEFINE t == m.src
<1>1. m.n \in Nat  BY DEF Delivery
<1>2. Passed(t, m.n)'  BY <1>1, PassedStays DEF Before, Passed, StillPassed
<1>3. CASE pc'[t] \notin {"parse", "route", "write", "reply"}
  BY <1>2, <1>3 DEF Before
<1>4. CASE /\ pc'[t] = pc[t] /\ req'[t] = req[t] /\ slot'[t] = slot[t]
  <2>1. Routed(t)' = Routed(t)  BY <1>4 DEF Routed
  <2> QED  BY <1>2, <1>4, <2>1 DEF Before
<1>5. CASE pc'[t] \in {"parse", "route", "write", "reply"} /\ Main
  <2>1. UNCHANGED req /\ pc'[t] = pc[t]
    BY <1>5 DEF Main, Accept, AcceptFull, Admit, EnterLogin, LoginEof, LoginAuthError, LoginBusy,
       Kick, Register, Spawn, ReadLogin, TypeOK
  <2>2. slot'[t] = slot[t]
    <3>1. answer[t] = "accepted"  BY <1>5, <2>1 DEF Live, AnswerInv
    <3> QED  BY <3>1, AnswerStands
  <2> QED  BY <1>4, <2>1, <2>2
<1>6. ASSUME pc'[t] \in {"parse", "route", "write", "reply"}, NEW u \in Conn, Session(u)
      PROVE  Before(m)'
  <2>1. CASE u # t
    BY <1>4, <1>6, <2>1, SessionFrame
  <2>2. CASE u = t /\ SessionReceive(t)
    <3>1. on[t] = t  BY <2>2 DEF SessionReceive, At, ServingInv, Serving
    <3>2. Head(pending[t]) = pending[t][1] /\ 1 \in 1 .. Len(pending[t])
      BY <2>2, <3>1, ReceiveTakes DEF Taken
    <3>3. req'[t].msg = pending[t][1]
      BY <2>2, <3>1, <3>2 DEF SessionReceive, NoRequest, TypeOK
    <3>4. m.n < req'[t].msg.n  BY <3>2, <3>3 DEF Before, Passed
    <3> QED  BY <1>2, <3>4 DEF Before
  <2>3. CASE u = t /\ ~SessionReceive(t)
    <3>1. /\ pc[t] \in {"parse", "route", "write"}
          /\ req'[t].msg = req[t].msg
          /\ req[t].next \in Nat /\ req'[t].next \in {req[t].next, req[t].next + 1}
          /\ req[t].msg.cmd # "IDLIST" => Routed(t)' = Routed(t)
      BY <1>6, <2>3, RequestStays
    <3>2. CASE m.n < req[t].msg.n  BY <1>2, <3>1, <3>2 DEF Before
    <3>3. CASE m = Routed(t) /\ m.cmd = "ALLMSG"
      <4>1. req[t].msg.cmd # "IDLIST"  BY <3>3 DEF Routed
      <4>2. m = Routed(t)'  BY <3>1, <3>3, <4>1
      <4> QED  BY <1>2, <3>3, <4>2 DEF Before
    <3>4. CASE m = Routed(t) /\ m.cmd = "DIRECT" /\ m.to < req[t].next
      <4>1. req[t].msg.cmd # "IDLIST"  BY <3>4 DEF Routed
      <4>2. m = Routed(t)'  BY <3>1, <3>4, <4>1
      <4>3. m.to \in Nat  BY ServerConstants DEF Delivery, Id
      <4>4. m.to < req'[t].next  BY <3>1, <3>4, <4>3
      <4> QED  BY <1>2, <3>4, <4>2, <4>4 DEF Before
    <3> QED  BY <3>1, <3>2, <3>3, <3>4 DEF Before
  <2> QED  BY <1>6, <2>1, <2>2, <2>3
<1>7. CASE \E c \in Conn : Client(c)  BY <1>4, <1>7, ClientFrame
<1>8. CASE UNCHANGED vars  BY <1>4, <1>8
<1> QED  BY <1>3, <1>5, <1>6, <1>7, <1>8 DEF Next
(* What session t writes carries its client's name and keeps its order: a    *)
(* message to a slot (DIRECT or ALLMSG), or the answer to the asker.         *)
LEMMA WrittenByOwner ==
  ASSUME IInv, BaseInv, ServingInv, OwnerInv, TableInv, NEW t \in Conn,
         WriteSlot(t) \/ Reply(t)
  PROVE  /\ Routed(t).src = t /\ Routed(t).n = req[t].msg.n /\ Routed(t).cmd = req[t].msg.cmd
         /\ Routed(t).to = req[t].msg.to /\ Routed(t).from = slot[t]
         /\ Routed(t).cmd \in Route /\ answer[t] = "accepted" /\ req[t].msg.n \in Nat
         /\ Session(t) /\ pc[t] \in {"write", "reply"} /\ UNCHANGED <<slot, answer, fdNum>>
         /\ WriteSlot(t) => /\ Routed(t).cmd \in {"DIRECT", "ALLMSG"}
                            /\ Routed(t).cmd = "DIRECT" => Routed(t).to = req[t].next
                            /\ req[t].next \in Nat
         /\ Reply(t) => /\ Routed(t).cmd \in {"GETTIME", "IDLIST"}
                        /\ \A d \in Conn : d = ConnAt(req[t].fd) /\ fdNum[t] < CHAR \div 2 => d = t
<1> USE DEF IInv, Shape, BaseInv
<1>1. Session(t) /\ pc[t] \in {"write", "reply"}
  BY DEF Session, WriteSlot, Reply, At
<1>2. /\ Routed(t).src = req[t].msg.src /\ Routed(t).n = req[t].msg.n
      /\ Routed(t).cmd = req[t].msg.cmd /\ Routed(t).to = req[t].msg.to
      /\ Routed(t).from = slot[t]
  BY DEF Routed
<1>3. req[t].msg.src = t /\ req[t].msg.cmd \in Route /\ req[t].fd = AsChar(fdNum[t])
  BY <1>1 DEF ServingInv, Serving
<1>4. req[t].msg.n \in Nat
  <2>1. req[t].msg \in Message  BY <1>1 DEF SessionInv
  <2> QED  BY <2>1 DEF Message
<1>5. t \in Live /\ answer[t] = "accepted" /\ UNCHANGED <<slot, answer, fdNum>>
  BY <1>1, SessionFrame DEF AnswerInv
<1>6. ASSUME WriteSlot(t)
      PROVE  /\ Routed(t).cmd \in {"DIRECT", "ALLMSG"}
             /\ Routed(t).cmd = "DIRECT" => Routed(t).to = req[t].next
             /\ req[t].next \in Nat
  <2>1. pc[t] = "write"  BY <1>6 DEF WriteSlot, At
  <2>2. /\ req[t].msg.cmd \notin {"GETTIME", "IDLIST"} /\ Wants(req[t].msg, req[t].next)
    BY <2>1 DEF RequestInv
  <2>3. req[t].next \in Nat  BY <2>1, ServerConstants DEF SessionInv, Slot
  <2> QED  BY <1>2, <1>3, <2>2, <2>3 DEF Wants, Route
<1>7. ASSUME Reply(t)
      PROVE  /\ Routed(t).cmd \in {"GETTIME", "IDLIST"}
             /\ \A d \in Conn : d = ConnAt(req[t].fd) /\ fdNum[t] < CHAR \div 2 => d = t
  <2>1. pc[t] = "reply"  BY <1>7 DEF Reply, At
  <2>2. Owner(t)  BY <1>5, <2>1 DEF Owner
  <2>3. fdNum[t] \in Fd /\ ConnAt(fdNum[t]) = t  BY <2>2, OwnerFacts
  <2>4. fdNum[t] \in Nat  BY <2>3, ServerConstants DEF Fd
  <2>5. fdNum[t] < CHAR \div 2 => req[t].fd = fdNum[t]  BY <1>3, <2>4, AsCharFits
  <2> QED  BY <1>2, <2>1, <2>3, <2>5 DEF RequestInv
<1> QED  BY <1>1, <1>2, <1>3, <1>4, <1>5, <1>6, <1>7

(* A client's inbox after a step: what was there, and at most one message *)
(* that a session of its own asker or sender wrote, or a notice of main.  *)
LEMMA Arrivals ==
  ASSUME IInv, [Next]_vars, NEW d \in Conn, NEW m \in Received(d)'
  PROVE  /\ m \in Delivery
         /\ \/ m \in Received(d)
            \/ m.cmd \in {"GREETING", "BUSY", "AUTH"}
            \/ \E t \in Conn : WriteSlot(t) /\ m = Routed(t)
            \/ \E t \in Conn : Reply(t) /\ m = Routed(t) /\ d = ConnAt(req[t].fd)
<1> USE DEF IInv, Shape
<1>1. \A k \in Received(d) : k \in Delivery
  <2>1. inbox[d] \in Seq(Delivery)  BY DEF TypeOK
  <2> QED  BY <2>1 DEF Received
<1>2. CASE inbox'[d] = inbox[d]
  <2>1. m \in Received(d)  BY <1>2 DEF Received
  <2> QED  BY <1>1, <2>1
<1>3. CASE inbox'[d] # inbox[d]
  <2>1. PICK b \in Delivery :
          /\ inbox'[d] = Append(inbox[d], b)
          /\ \/ b.cmd \in {"GREETING", "BUSY", "AUTH"}
             \/ \E t \in Conn : /\ WriteSlot(t) /\ b = Routed(t)
                                /\ d = ConnAt(slotFd[req[t].next])
             \/ \E t \in Conn : Reply(t) /\ b = Routed(t) /\ d = ConnAt(req[t].fd)
    BY <1>3, Deliveries
  <2>2. m \in Received(d) \/ m = b  BY <2>1, ReceivedGrows
  <2> QED  BY <1>1, <2>1, <2>2
<1> QED  BY <1>2, <1>3

LEMMA DeliveryStep ==
  ASSUME IInv, BaseInv, ServingInv, OwnerInv, TableInv, DeliveryInv, [Next]_vars
  PROVE  DeliveryInv'
<1> USE DEF IInv, Shape
<1> SUFFICES ASSUME NEW d \in Conn, NEW m \in Received(d)', m.cmd \in Route
             PROVE  m.src \in Conn /\ Before(m)'
  BY DEF DeliveryInv
<1>0. m \in Delivery  BY Arrivals
<1>1. CASE m \in Received(d)
  BY <1>0, <1>1, BeforeStays DEF DeliveryInv
<1>2. ASSUME NEW t \in Conn, WriteSlot(t), m = Routed(t) PROVE m.src \in Conn /\ Before(m)'
  <2>1. /\ m.src = t /\ m.n = req[t].msg.n /\ m.n \in Nat
        /\ m.cmd \in {"DIRECT", "ALLMSG"} /\ m.cmd = req[t].msg.cmd
        /\ m.cmd = "DIRECT" => m.to = req[t].next
        /\ Session(t) /\ pc[t] \in {"write", "reply"} /\ req[t].next \in Nat
    BY <1>2, WrittenByOwner
  <2>2. pc'[t] = "route" /\ ~SessionReceive(t)
    BY <1>2 DEF WriteSlot, At, Goto, SessionReceive, TypeOK
  <2>3. Routed(t)' = Routed(t) /\ req'[t].next = req[t].next + 1
    BY <1>2, <2>1, <2>2, RequestStays DEF BaseInv
  <2>4. Passed(t, m.n)  BY <2>1 DEF ServingInv, Serving
  <2>5. StillPassed(t, m.n)  BY <2>1, <2>4, PassedStays
  <2>6. m = Routed(t)'  BY <1>2, <2>3
  <2>7. m.cmd = "DIRECT" => m.to < req'[t].next  BY <2>1, <2>3
  <2> QED  BY <2>1, <2>5, <2>6, <2>7 DEF Before, Passed, StillPassed
<1>3. ASSUME NEW t \in Conn, Reply(t), m = Routed(t) PROVE m.src \in Conn /\ Before(m)'
  <2>1. /\ m.src = t /\ m.n = req[t].msg.n /\ m.n \in Nat /\ pc[t] \in {"write", "reply"}
    BY <1>3, WrittenByOwner
  <2>2. pc'[t] = "read"  BY <1>3 DEF Reply, Goto, TypeOK
  <2>3. Passed(t, m.n)  BY <2>1 DEF ServingInv, Serving
  <2>4. StillPassed(t, m.n)  BY <2>1, <2>3, PassedStays
  <2> QED  BY <2>1, <2>2, <2>4 DEF Before, Passed, StillPassed
<1> QED  BY <1>1, <1>2, <1>3, Arrivals DEF Route

LEMMA AuthenticStep ==
  ASSUME IInv, BaseInv, ServingInv, OwnerInv, TableInv, DeliveryInv, NoDuplicate,
         AuthenticSender, [Next]_vars
  PROVE  AuthenticSender'
<1> SUFFICES ASSUME NEW d \in Conn, NEW m \in Received(d)'
             PROVE  /\ m.cmd \notin {"LOGIN", "BADPW"}
                    /\ m.cmd \in Route => answer'[m.src] = "accepted" /\ slot'[m.src] = m.from
  BY DEF AuthenticSender
<1>1. CASE m \in Received(d)
  <2>1. m.cmd \notin {"LOGIN", "BADPW"}  BY <1>1 DEF AuthenticSender
  <2>2. ASSUME m.cmd \in Route PROVE answer'[m.src] = "accepted" /\ slot'[m.src] = m.from
    <3>1. m.src \in Conn /\ answer[m.src] = "accepted" /\ slot[m.src] = m.from
      BY <1>1, <2>2 DEF AuthenticSender, DeliveryInv
    <3> QED  BY <3>1, AnswerStands DEF BaseInv
  <2> QED  BY <2>1, <2>2
<1>2. ASSUME NEW t \in Conn, WriteSlot(t) \/ Reply(t), m = Routed(t)
      PROVE  m.cmd \in Route /\ answer'[m.src] = "accepted" /\ slot'[m.src] = m.from
  BY <1>2, WrittenByOwner
<1> QED  BY <1>1, <1>2, Arrivals DEF Route

LEMMA ReplyStep ==
  ASSUME IInv, BaseInv, ServingInv, OwnerInv, TableInv, DeliveryInv, NoDuplicate,
         AuthenticSender, ReplyToAsker, [Next]_vars
  PROVE  ReplyToAsker'
<1> SUFFICES ASSUME NEW d \in Conn, NEW m \in Received(d)', m.cmd \in {"GETTIME", "IDLIST"},
                    fdNum'[m.src] < CHAR \div 2
             PROVE  m.src = d
  BY DEF ReplyToAsker
<1>1. CASE m \in Received(d)
  <2>1. m.src \in Conn /\ answer[m.src] = "accepted"
    BY <1>1 DEF AuthenticSender, DeliveryInv, Route
  <2>2. fdNum'[m.src] = fdNum[m.src]  BY <2>1, AnswerStands DEF BaseInv
  <2> QED  BY <1>1, <2>2 DEF ReplyToAsker
<1>2. ASSUME NEW t \in Conn, WriteSlot(t), m = Routed(t) PROVE FALSE
  BY <1>2, WrittenByOwner
<1>3. ASSUME NEW t \in Conn, Reply(t), m = Routed(t), d = ConnAt(req[t].fd) PROVE m.src = d
  BY <1>3, WrittenByOwner
<1> QED  BY <1>1, <1>2, <1>3, Arrivals

(* What a session writes comes after everything its client sent that was *)
(* delivered already, or repeats the ALLMSG it is routing.               *)
LEMMA WrittenInOrder ==
  ASSUME IInv, BaseInv, ServingInv, OwnerInv, TableInv, DeliveryInv,
         NEW t \in Conn, WriteSlot(t) \/ Reply(t),
         NEW d \in Conn, NEW a \in Received(d), a.cmd \in Route, a.src = t
  PROVE  a.n < Routed(t).n \/ (a = Routed(t) /\ a.cmd = "ALLMSG")
<1>1. /\ Routed(t).n = req[t].msg.n /\ Routed(t).cmd \in Route /\ pc[t] \in {"write", "reply"}
      /\ WriteSlot(t) => /\ Routed(t).cmd = "DIRECT" => Routed(t).to = req[t].next
                         /\ req[t].next \in Nat
      /\ Reply(t) => Routed(t).cmd \in {"GETTIME", "IDLIST"}
  BY WrittenByOwner
<1>2. Before(a)  BY DEF DeliveryInv
<1>3. \/ a.n < req[t].msg.n
      \/ a = Routed(t) /\ (a.cmd = "ALLMSG" \/ (a.cmd = "DIRECT" /\ a.to < req[t].next))
  BY <1>1, <1>2 DEF Before
<1> QED  BY <1>1, <1>3

LEMMA OrderStep ==
  ASSUME IInv, BaseInv, ServingInv, OwnerInv, TableInv, DeliveryInv, NoDuplicate,
         PerSenderOrder, [Next]_vars
  PROVE  PerSenderOrder'
<1> USE DEF IInv, Shape
<1> SUFFICES ASSUME NEW d \in Conn,
                    NEW j \in DOMAIN inbox'[d], NEW k \in DOMAIN inbox'[d], j < k,
                    {inbox'[d][j].cmd, inbox'[d][k].cmd} \subseteq Route,
                    inbox'[d][j].src = inbox'[d][k].src
             PROVE  \/ inbox'[d][j].n < inbox'[d][k].n
                    \/ inbox'[d][j] = inbox'[d][k] /\ inbox'[d][j].cmd = "ALLMSG"
  BY DEF PerSenderOrder
<1>1. CASE inbox'[d] = inbox[d]
  BY <1>1 DEF PerSenderOrder
<1>2. CASE inbox'[d] # inbox[d]
  <2>1. PICK b \in Delivery :
          /\ inbox'[d] = Append(inbox[d], b)
          /\ \/ b.cmd \in {"GREETING", "BUSY", "AUTH"}
             \/ \E t \in Conn : /\ WriteSlot(t) /\ b = Routed(t)
                                /\ d = ConnAt(slotFd[req[t].next])
             \/ \E t \in Conn : Reply(t) /\ b = Routed(t) /\ d = ConnAt(req[t].fd)
    BY <1>2, Deliveries
  <2>2. /\ DOMAIN inbox[d] = 1 .. Len(inbox[d]) /\ Len(inbox[d]) \in Nat
        /\ DOMAIN inbox'[d] = 1 .. Len(inbox[d]) + 1
        /\ \A i \in DOMAIN inbox[d] : inbox'[d][i] = inbox[d][i] /\ inbox[d][i] \in Received(d)
        /\ inbox'[d][Len(inbox[d]) + 1] = b
    BY <2>1, ReceivedGrows
  <2>3. j \in DOMAIN inbox[d] /\ (k \in DOMAIN inbox[d] \/ k = Len(inbox[d]) + 1)
    BY <2>2
  <2>4. CASE k \in DOMAIN inbox[d]
    <3>1. inbox'[d][j] = inbox[d][j] /\ inbox'[d][k] = inbox[d][k]  BY <2>2, <2>3, <2>4
    <3> QED  BY <2>3, <2>4, <3>1 DEF PerSenderOrder
  <2>5. CASE k = Len(inbox[d]) + 1
    <3>1. inbox'[d][j] \in Received(d) /\ inbox'[d][k] = b  BY <2>2, <2>3, <2>5
    <3>2. PICK t \in Conn : (WriteSlot(t) \/ Reply(t)) /\ b = Routed(t)
      BY <2>1, <3>1 DEF Route
    <3>3. b.src = t  BY <3>2, WrittenByOwner
    <3> QED  BY <3>1, <3>2, <3>3, WrittenInOrder
  <2> QED  BY <2>3, <2>4, <2>5
<1> QED  BY <1>1, <1>2

-----------------------------------------------------------------------------
(* The whole invariant *)

LEMMA RoutingInit == Init => RInv
<1> SUFFICES ASSUME Init PROVE RInv  OBVIOUS
<1>1. Live = {}  BY DEF Init, Live
<1>2. OwnerInv
  <2>1. \A c \in Conn : ~Owner(c)  BY <1>1 DEF Init, Owner
  <2>2. \A f \in Fd : \A c \in Conn : fdConn[f] # c  BY ServerConstants DEF Init
  <2> QED  BY <2>1, <2>2 DEF OwnerInv
<1>3. TableInv  BY <1>1 DEF Init, TableInv
<1>4. ServingInv  BY DEF Init, ServingInv, Serving
<1>5. \A c \in Conn : Received(c) = {} /\ DOMAIN inbox[c] = {}  BY DEF Init, Received
<1>6. DeliveryInv /\ AuthenticSender /\ ReplyToAsker /\ PerSenderOrder
  BY <1>5 DEF DeliveryInv, AuthenticSender, ReplyToAsker, PerSenderOrder
<1> QED  BY <1>2, <1>3, <1>4, <1>6, BaseInit DEF RInv, QuietInv

LEMMA RoutingStep == IInv /\ RInv /\ [Next]_vars => RInv'
<1> SUFFICES ASSUME IInv, RInv, [Next]_vars PROVE RInv'  OBVIOUS
<1>1. BaseInv /\ BaseInv'  BY BaseStep DEF RInv
<1>2. ASSUME NoDuplicate' PROVE QuietInv'
  <2>1. NoDuplicate  BY <1>1, <1>2, QuietBack DEF BaseInv
  <2>2. QuietInv  BY <2>1 DEF RInv
  <2>3. OwnerInv' /\ TableInv'
    <3>1. AnswerInv' /\ SlotInv'  BY <1>1 DEF BaseInv
    <3>2. TableInv'  BY <1>2, <3>1, TableOfSlots
    <3> QED  BY <1>1, <1>2, <2>2, <3>2, OwnerStep DEF BaseInv, QuietInv
  <2>4. ServingInv' /\ DeliveryInv'
    BY <1>1, <2>2, ServingStep, DeliveryStep DEF QuietInv
  <2>5. AuthenticSender' /\ ReplyToAsker' /\ PerSenderOrder'
    BY <1>1, <2>1, <2>2, AuthenticStep, ReplyStep, OrderStep DEF QuietInv
  <2> QED  BY <2>3, <2>4, <2>5 DEF QuietInv
<1> QED  BY <1>1, <1>2 DEF RInv

THEOREM RoutingInvariance == Spec => [](IInv /\ RInv)
<1>1. Init => IInv /\ RInv  BY ShapeInit, CountInit, RoutingInit DEF IInv
<1>2. IInv /\ RInv /\ [Next]_vars => (IInv /\ RInv)'
  <2>1. IInv /\ [Next]_vars => IInv'  BY ShapeStep, CountStep DEF IInv
  <2> QED  BY <2>1, RoutingStep
<1> QED  BY <1>1, <1>2, PTL DEF Spec

(* The slot of an ID that nobody logged in twice as names its one session,   *)
(* whatever happens to other IDs, and while nobody logs in twice at all its   *)
(* descriptor is that session's socket until the thread has closed it        *)
(* (l. 150-157, 200, 229-237).                                               *)
THEOREM TableNamesSessions == Spec => []SlotNamesItsSession
<1>1. IInv /\ RInv => SlotNamesItsSession
  <2> SUFFICES ASSUME IInv, RInv PROVE SlotNamesItsSession  OBVIOUS
  <2>1. SlotInv /\ AnswerInv  BY DEF RInv, BaseInv
  <2>2. \A t \in Live : t \in Conn /\ slot[t] \in Slot  BY <2>1 DEF Live, AnswerInv
  <2>3. ASSUME NEW t \in Live, ~Doubled(slot[t])
        PROVE  /\ slotFd[slot[t]] = fdNum[t]
               /\ \A u \in Live : slot[u] = slot[t] => u = t
    BY <2>1, <2>2, <2>3 DEF SlotInv
  <2>4. ASSUME NoDuplicate, NEW t \in Live, pc[t] # "exit" PROVE fdConn[fdNum[t]] = t
    BY <2>2, <2>4 DEF RInv, QuietInv, OwnerInv, Owner
  <2> QED  BY <2>1, <2>3, <2>4 DEF SlotInv, SlotNamesItsSession
<1> QED  BY <1>1, RoutingInvariance, PTL

(* While nobody logs in twice, the open sockets are exactly those of the     *)
(* sessions, of the login at hand and of the refused connections, which main *)
(* shuts and never closes (l. 107-111, 143, 173, 177, 229).                   *)
THEOREM SocketsAccounted == Spec => []FdAccounting
<1>1. IInv /\ RInv => FdAccounting
  <2> DEFINE Open == {fdConn[f] : f \in Fd} \ {NoConn}
             Held == {t \in Live : pc[t] # "exit"} \cup Answered({"full", "auth", "eof"})
                     \cup (IF mainPc \in {"check", "enter", "login"} THEN {cur} ELSE {})
  <2> SUFFICES ASSUME IInv, RInv, NoDuplicate PROVE Open = Held
    BY DEF FdAccounting
  <2>1. OwnerInv /\ AnswerInv  BY DEF RInv, QuietInv, BaseInv
  <2>2. \A c : c \in Held <=> c \in Conn /\ Owner(c)
    <3>1. mainPc \in {"check", "enter", "login"} => cur \in Conn  BY DEF IInv, Shape, MainInv
    <3> QED  BY <3>1 DEF Live, Answered, Owner
  <2>3. \A c : c \in Open <=> c \in Conn /\ \E f \in Fd : fdConn[f] = c
    BY ServerConstants DEF IInv, Shape, TypeOK
  <2>4. \A c \in Conn : Owner(c) <=> \E f \in Fd : fdConn[f] = c
    BY <2>1, OwnerFacts DEF OwnerInv
  <2> QED  BY <2>2, <2>3, <2>4
<1> QED  BY <1>1, RoutingInvariance, PTL

(* While nobody logs in twice, the [from] of a routed message is the ID its  *)
(* sender logged in with (l. 217-226).                                       *)
THEOREM SendersAuthentic == Spec => []AuthenticSender
<1>1. RInv => AuthenticSender  BY DEF RInv, QuietInv, AuthenticSender
<1> QED  BY <1>1, RoutingInvariance, PTL

(* While nobody logs in twice, GETTIME and IDLIST are answered to the        *)
(* connection that asked, if its descriptor fits a char (l. 252-273).        *)
THEOREM AskersAnswered == Spec => []ReplyToAsker
<1>1. RInv => ReplyToAsker  BY DEF RInv, QuietInv, ReplyToAsker
<1> QED  BY <1>1, RoutingInvariance, PTL

(* While nobody logs in twice, a client gets the messages of one sender in   *)
(* the order they were sent, each once but for a repeated ALLMSG (l. 246).   *)
THEOREM SendersInOrder == Spec => []PerSenderOrder
<1>1. RInv => PerSenderOrder  BY DEF RInv, QuietInv, PerSenderOrder
<1> QED  BY <1>1, RoutingInvariance, PTL

-----------------------------------------------------------------------------
(* The safety half of what main owes the clients in time *)

Waiting(c) == c \in {backlog[k] : k \in DOMAIN backlog}
InHand(c) == cur = c /\ mainPc \in {"check", "enter", "login"}

LEMMA MainAnswers ==
  ASSUME IInv, Main, mainPc # "accept"
  PROVE  /\ UNCHANGED <<backlog, peer>> /\ cur \in Conn
         /\ \A c \in Conn : c # cur => answer'[c] = answer[c]
         /\ (mainPc' \in {"enter", "login"} /\ cur' = cur) \/ mainPc \in {"kick", "spawn"}
              \/ answer'[cur] # "none"
<1> USE DEF IInv, Shape
<1>1. cur \in Conn  BY DEF MainInv
<1>2. CASE AcceptFull \/ Admit \/ EnterLogin
  BY <1>1, <1>2 DEF AcceptFull, Admit, EnterLogin, Finish, TypeOK
<1>3. CASE LoginEof \/ LoginAuthError
  BY <1>1, <1>3 DEF LoginEof, LoginAuthError, ReadLogin, Finish, TypeOK
<1>4. CASE LoginBusy \/ Register
  BY <1>1, <1>4 DEF LoginBusy, Register, ReadLogin, TypeOK
<1>5. CASE Kick \/ Spawn  BY <1>1, <1>5 DEF Kick, Spawn, Finish, TypeOK
<1>6. ~(\E c \in Conn : Accept(c))  BY DEF Accept, TakeConnection
<1> QED  BY <1>2, <1>3, <1>4, <1>5, <1>6 DEF Main

LEMMA MainForgetsNone ==
  ASSUME IInv, AnswerInv, NobodyForgotten, Main PROVE NobodyForgotten'
<1> USE DEF IInv, Shape
<1>1. ASSUME NEW c \in Conn, Accept(c) PROVE NobodyForgotten'
  <2>1. /\ TakeConnection(c) /\ mainPc = "accept" /\ UNCHANGED peer
        /\ \A d \in Conn : d # c => answer'[d] = answer[d]
        /\ InHand(c)'
    BY <1>1 DEF Accept, TakeConnection, InHand
  <2>2. backlog # <<>> /\ c = backlog[1] /\ backlog' = Tail(backlog) /\ backlog \in Seq(Conn)
    BY <2>1 DEF TakeConnection, TypeOK
  <2>3. ASSUME NEW d \in Conn, d # c, Waiting(d) PROVE Waiting(d)'
    <3>1. PICK k \in DOMAIN backlog : backlog[k] = d  BY <2>3 DEF Waiting
    <3>2. k # 1 /\ k - 1 \in DOMAIN backlog' /\ backlog'[k - 1] = d  BY <2>2, <2>3, <3>1
    <3> QED  BY <3>2 DEF Waiting
  <2>4. ASSUME NEW d \in Conn, peer[d] # "idle", answer'[d] = "none"
        PROVE  Waiting(d)' \/ InHand(d)'
    <3>1. CASE d = c  BY <2>1, <2>4, <3>1 DEF InHand
    <3>2. CASE d # c
      <4>1. answer[d] = "none"  BY <2>1, <2>4, <3>2
      <4>2. mainPc \notin {"check", "enter", "login"}  BY <2>1
      <4>3. Waiting(d)  BY <2>4, <4>1, <4>2 DEF NobodyForgotten, Waiting
      <4> QED  BY <2>3, <3>2, <4>3
    <3> QED  BY <3>1, <3>2
  <2>5. UNCHANGED peer  BY <2>1
  <2> QED  BY <2>4, <2>5 DEF NobodyForgotten, Waiting, InHand
<1>2. CASE mainPc # "accept"
  <2>1. ASSUME NEW c \in Conn, Waiting(c) \/ InHand(c), answer'[c] = "none"
        PROVE  Waiting(c)' \/ InHand(c)'
    <3>1. CASE Waiting(c)  BY <1>2, <3>1, MainAnswers DEF Waiting
    <3>2. CASE InHand(c)   BY <1>2, <2>1, <3>2, MainAnswers DEF InHand
    <3> QED  BY <2>1, <3>1, <3>2
  <2>2. ASSUME NEW c \in Conn, answer'[c] = "none" PROVE answer[c] = "none"
    BY <2>2, AnswerStands DEF Next
  <2> QED  BY <1>2, <2>1, <2>2, MainAnswers DEF NobodyForgotten, Waiting, InHand
<1>3. CASE mainPc = "accept" /\ ~(\E c \in Conn : Accept(c))
  BY <1>3 DEF Main, AcceptFull, Admit, EnterLogin, LoginEof, LoginAuthError, LoginBusy, Register,
     ReadLogin, Kick, Spawn
<1> QED  BY <1>1, <1>2, <1>3

LEMMA ForgottenStep ==
  ASSUME IInv, AnswerInv, NobodyForgotten, [Next]_vars PROVE NobodyForgotten'
<1> USE DEF IInv, Shape
<1>1. ASSUME UNCHANGED <<backlog, answer, cur, mainPc>>,
             \A c \in Conn : peer'[c] = "idle" <=> peer[c] = "idle"
      PROVE  NobodyForgotten'
  BY <1>1 DEF NobodyForgotten
<1>2. ASSUME NEW c \in Conn, Connect(c) PROVE NobodyForgotten'
  <2>1. /\ backlog' = Append(backlog, c) /\ backlog \in Seq(Conn)
        /\ UNCHANGED <<answer, cur, mainPc>>
        /\ \A d \in Conn : d # c => peer'[d] = peer[d]
    BY <1>2 DEF Connect, TypeOK
  <2>2. Waiting(c)'
    <3>1. Len(backlog) + 1 \in DOMAIN backlog' /\ backlog'[Len(backlog) + 1] = c  BY <2>1
    <3> QED  BY <3>1 DEF Waiting
  <2>3. ASSUME NEW d \in Conn, Waiting(d) PROVE Waiting(d)'
    <3>1. PICK k \in DOMAIN backlog : backlog[k] = d  BY <2>3 DEF Waiting
    <3>2. k \in DOMAIN backlog' /\ backlog'[k] = d  BY <2>1, <3>1
    <3> QED  BY <3>2 DEF Waiting
  <2> QED  BY <2>1, <2>2, <2>3 DEF NobodyForgotten, Waiting
<1>3. ASSUME NEW c \in Conn, SendLogin(c) \/ Send(c) \/ Close(c) \/ Reset(c)
      PROVE  NobodyForgotten'
  BY <1>1, <1>3 DEF SendLogin, Send, Put, Close, Reset, TypeOK
<1>4. ASSUME NEW t \in Conn, Session(t) PROVE NobodyForgotten'
  BY <1>1, <1>4, SessionFrame
<1>5. CASE UNCHANGED vars  BY <1>1, <1>5
<1> QED  BY <1>2, <1>3, <1>4, <1>5, MainForgetsNone DEF Next, Client

(* The safety half of EveryoneAnswered, whoever logs in twice: a connection   *)
(* without an answer is in the queue of accept or in main's hands (l. 102-177).*)
THEOREM NobodyIsForgotten == Spec => []NobodyForgotten
<1>1. Init => NobodyForgotten  BY DEF Init, NobodyForgotten
<1>2. IInv /\ BaseInv /\ NobodyForgotten /\ [Next]_vars => NobodyForgotten'
  BY ForgottenStep DEF BaseInv
<1> QED  BY <1>1, <1>2, BaseInvariance, PTL DEF Spec
=============================================================================
