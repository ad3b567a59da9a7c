--------------------------- MODULE IotServerProofs ---------------------------
(* Theorems about IotServer, for every set of connections, every size of    *)
(* the table, every range of descriptors and every bound on the messages.   *)
EXTENDS IotServer, FiniteSetTheorems, TLAPS

(* While main is busy with a connection, that connection has no session yet; *)
(* a login that can still register found room when it was accepted.          *)
MainInv ==
    /\ mainPc # "accept" =>
         cur \in Conn /\ pc[cur] = "none" /\ peer[cur] # "idle"
    /\ mainPc \in {"kick", "spawn"} => slot[cur] \in Slot
    /\ mainPc \in {"enter", "login"} => clntCnt < MAX_CLNT

(* A connection waits for accept at most once, before main and any session *)
(* have anything to do with it.                                            *)
BacklogInv ==
    /\ \A k \in 1 .. Len(backlog) :
         /\ peer[backlog[k]] # "idle" /\ pc[backlog[k]] = "none"
         /\ mainPc # "accept" => backlog[k] # cur
    /\ \A j, k \in 1 .. Len(backlog) : backlog[j] = backlog[k] => j = k

(* What a session thread relies on at each point of its code. *)
SessionInv ==
    \A t \in Conn :
      /\ pc[t] # "none" => slot[t] \in Slot /\ peer[t] # "idle"
      /\ pc[t] = "blocked" => on[t] \in Conn
      /\ pc[t] \in {"parse", "route", "write", "reply"} => req[t].msg \in Message
      /\ pc[t] = "write" => req[t].next \in Slot

CountInv == SessionCount /\ clntCnt <= MAX_CLNT

Shape == TypeOK /\ MainInv /\ BacklogInv /\ SessionInv
IInv == Shape /\ CountInv

USE DEF vars, clients, output, kernel, main, table, sessions

-----------------------------------------------------------------------------
LEMMA SlotFact == Slot \subseteq Id /\ MAX_CLNT \in Id /\ NONE \notin Slot
  BY ServerConstants DEF Slot, Id, NONE

LEMMA AsCharType == \A f \in Int : AsChar(f) \in Int
  BY ServerConstants DEF AsChar

LEMMA ConnAtType ==
  ASSUME TypeOK PROVE \A f : ConnAt(f) \in Conn \cup {NoConn}
  BY DEF TypeOK, ConnAt

(* write() keeps the types of what it changes. *)
LEMMA WriteToType ==
  ASSUME TypeOK, NEW c \in Conn \cup {NoConn}, NEW m \in Delivery, WriteTo(c, m)
  PROVE  inbox' \in [Conn -> Seq(Delivery)] /\ alive' \in BOOLEAN
<1>1. inbox' \in [Conn -> Seq(Delivery)]
  BY DEF TypeOK, WriteTo
<1>2. alive' \in BOOLEAN
  BY DEF WriteTo
<1> QED  BY <1>1, <1>2

LEMMA ShapeInit == Init => Shape
<1> SUFFICES ASSUME Init PROVE Shape  OBVIOUS
<1>1. TypeOK
  BY ServerConstants DEF Init, TypeOK, NoRequest, Request, Point, NONE, Answer
<1>2. MainInv /\ SessionInv  BY DEF Init, MainInv, SessionInv
<1>3. BacklogInv  BY DEF Init, BacklogInv
<1> QED  BY <1>1, <1>2, <1>3 DEF Shape

(* Taking the head of the backlog: it is in nobody's hands, and leaves. *)
LEMMA TakeFacts ==
  ASSUME Shape, NEW c \in Conn, TakeConnection(c)
  PROVE  /\ c \in Conn /\ pc[c] = "none" /\ peer[c] # "idle"
         /\ backlog' \in Seq(Conn)
         /\ Len(backlog') = Len(backlog) - 1
         /\ \A k \in 1 .. Len(backlog') : /\ backlog'[k] # c
                                          /\ pc[backlog'[k]] = "none"
                                          /\ peer[backlog'[k]] # "idle"
         /\ \A j, k \in 1 .. Len(backlog') : backlog'[j] = backlog'[k] => j = k
         /\ fdConn' \in [Fd -> Conn \cup {NoConn}]
         /\ fdNum' \in [Conn -> Fd \cup {NONE}]
<1>1. backlog # <<>> /\ c = backlog[1] /\ backlog' = Tail(backlog) /\ backlog \in Seq(Conn)
  BY DEF TakeConnection, Shape, TypeOK
<1>2. /\ backlog' \in Seq(Conn) /\ Len(backlog') = Len(backlog) - 1 /\ Len(backlog) \in Nat
      /\ \A k \in 1 .. Len(backlog') : backlog'[k] = backlog[k + 1]
      /\ 1 \in 1 .. Len(backlog)
  BY <1>1
<1>3. c \in Conn /\ pc[c] = "none" /\ peer[c] # "idle"
  BY <1>1, <1>2 DEF Shape, BacklogInv
<1>4. \A k \in 1 .. Len(backlog') :
        backlog'[k] # c /\ pc[backlog'[k]] = "none" /\ peer[backlog'[k]] # "idle"
  BY <1>1, <1>2 DEF Shape, BacklogInv
<1>5. \A j, k \in 1 .. Len(backlog') : backlog'[j] = backlog'[k] => j = k
  BY <1>2 DEF Shape, BacklogInv
<1>6. fdConn' \in [Fd -> Conn \cup {NoConn}] /\ fdNum' \in [Conn -> Fd \cup {NONE}]
  BY DEF TakeConnection, FreeFd, Shape, TypeOK
<1> QED  BY <1>2, <1>3, <1>4, <1>5, <1>6

LEMMA ShapeMain ==
  ASSUME Shape, CountInv, Main PROVE Shape'
<1> USE DEF Shape
<1>1. ASSUME NEW c \in Conn, Accept(c) PROVE Shape'
  <2>1. TypeOK'     BY <1>1, TakeFacts DEF Accept, TypeOK
  <2>2. MainInv'    BY <1>1, TakeFacts DEF Accept, MainInv
  <2>3. BacklogInv' BY <1>1, TakeFacts DEF Accept, BacklogInv, TypeOK
  <2>4. SessionInv' BY <1>1 DEF Accept, SessionInv
  <2> QED  BY <2>1, <2>2, <2>3, <2>4
<1>2. CASE AcceptFull \/ Admit
  <2>1. TypeOK'     BY <1>2 DEF AcceptFull, Admit, Finish, TypeOK, Answer
  <2>2. MainInv'
    <3>1. clntCnt < MAX_CLNT \/ mainPc' = "accept"
      BY <1>2, ServerConstants DEF AcceptFull, Admit, Finish, Full, TypeOK
    <3> QED  BY <1>2, <3>1 DEF AcceptFull, Admit, Finish, MainInv
  <2>3. BacklogInv' BY <1>2 DEF AcceptFull, Admit, Finish, BacklogInv
  <2>4. SessionInv' BY <1>2 DEF AcceptFull, Admit, SessionInv
  <2> QED  BY <2>1, <2>2, <2>3, <2>4
<1>3. CASE EnterLogin
  <2>1. TypeOK'     BY <1>3 DEF EnterLogin, Finish, TypeOK, Answer
  <2>2. MainInv'    BY <1>3 DEF EnterLogin, Finish, MainInv
  <2>3. BacklogInv' BY <1>3 DEF EnterLogin, Finish, BacklogInv
  <2>4. SessionInv' BY <1>3 DEF EnterLogin, SessionInv
  <2> QED  BY <2>1, <2>2, <2>3, <2>4
<1>4. CASE LoginEof
  <2>1. TypeOK'     BY <1>4 DEF LoginEof, Finish, TypeOK, Answer
  <2>2. MainInv'    BY <1>4 DEF LoginEof, Finish, MainInv
  <2>3. BacklogInv' BY <1>4 DEF LoginEof, Finish, BacklogInv
  <2>4. SessionInv' BY <1>4 DEF LoginEof, SessionInv
  <2> QED  BY <2>1, <2>2, <2>3, <2>4
<1>5. ASSUME ReadLogin
      PROVE  /\ cur \in Conn /\ pc[cur] = "none" /\ Login \in Message
             /\ pending' \in [Conn -> Seq(Message)]
             /\ \A t \in Conn : pc[t] # "none" => t # cur
  <2>1. cur \in Conn /\ pc[cur] = "none" /\ pending[cur] \in Seq(Message)
    BY <1>5 DEF ReadLogin, MainInv, TypeOK
  <2>2. Login \in Message /\ Tail(pending[cur]) \in Seq(Message)
    BY <1>5, <2>1 DEF ReadLogin, Login
  <2> QED  BY <1>5, <2>1, <2>2 DEF ReadLogin, TypeOK
<1>6. CASE LoginAuthError
  <2>1. TypeOK'
    <3>1. Notice("AUTH", MAX_CLNT) \in Delivery
      BY <1>5, <1>6, SlotFact DEF LoginAuthError, Notice, Delivery
    <3>2. inbox' \in [Conn -> Seq(Delivery)] /\ alive' \in BOOLEAN
      BY <1>6, <3>1, ConnAtType, WriteToType DEF LoginAuthError
    <3> QED  BY <1>5, <1>6, <3>2 DEF LoginAuthError, ReadLogin, Finish, TypeOK, Answer
  <2>2. MainInv'    BY <1>6 DEF LoginAuthError, Finish, MainInv
  <2>3. BacklogInv' BY <1>6 DEF LoginAuthError, ReadLogin, Finish, BacklogInv
  <2>4. SessionInv' BY <1>6 DEF LoginAuthError, ReadLogin, SessionInv
  <2> QED  BY <2>1, <2>2, <2>3, <2>4
<1>7. CASE LoginBusy
  <2>0. Login.to \in Slot  BY <1>7 DEF LoginBusy, NamesSlot
  <2>1. TypeOK'
    <3>1. Notice("BUSY", Login.to) \in Delivery
      BY <1>5, <1>7, <2>0, SlotFact DEF LoginBusy, Notice, Delivery
    <3>2. inbox' \in [Conn -> Seq(Delivery)] /\ alive' \in BOOLEAN
      BY <1>7, <3>1, ConnAtType, WriteToType DEF LoginBusy
    <3> QED  BY <1>5, <1>7, <2>0, <3>2 DEF LoginBusy, ReadLogin, TypeOK, Answer
  <2>2. MainInv'    BY <1>5, <1>7, <2>0 DEF LoginBusy, ReadLogin, MainInv, TypeOK
  <2>3. BacklogInv' BY <1>7 DEF LoginBusy, ReadLogin, BacklogInv
  <2>4. SessionInv' BY <1>5, <1>7 DEF LoginBusy, ReadLogin, SessionInv, TypeOK
  <2> QED  BY <2>1, <2>2, <2>3, <2>4
<1>8. CASE Kick
  <2>1. TypeOK'     BY <1>8 DEF Kick, Evict, Finish, TypeOK, Answer
  <2>2. MainInv'    BY <1>8 DEF Kick, Finish, MainInv
  <2>3. BacklogInv' BY <1>8 DEF Kick, Finish, BacklogInv
  <2>4. SessionInv' BY <1>8 DEF Kick, SessionInv
  <2> QED  BY <2>1, <2>2, <2>3, <2>4
<1>9. CASE Register
  <2>0. Login.to \in Slot  BY <1>9 DEF Register, NamesSlot
  <2>1. TypeOK'     BY <1>5, <1>9, <2>0 DEF Register, ReadLogin, TypeOK, Answer
  <2>2. MainInv'    BY <1>5, <1>9, <2>0 DEF Register, ReadLogin, MainInv, TypeOK
  <2>3. BacklogInv' BY <1>9 DEF Register, ReadLogin, BacklogInv
  <2>4. SessionInv' BY <1>5, <1>9 DEF Register, ReadLogin, SessionInv, TypeOK
  <2> QED  BY <2>1, <2>2, <2>3, <2>4
<1>10. CASE Spawn
  <2>0. cur \in Conn /\ slot[cur] \in Slot  BY <1>10 DEF Spawn, MainInv
  <2>1. TypeOK'
    <3>1. Notice("GREETING", slot[cur]) \in Delivery
      BY <2>0, SlotFact DEF Notice, Delivery
    <3>2. inbox' \in [Conn -> Seq(Delivery)] /\ alive' \in BOOLEAN
      BY <1>10, <3>1, ConnAtType, WriteToType DEF Spawn
    <3> QED  BY <1>10, <2>0, <3>2 DEF Spawn, Finish, TypeOK, Answer, Point
  <2>2. MainInv'    BY <1>10 DEF Spawn, Finish, MainInv
  <2>3. BacklogInv'
    <3>1. \A k \in 1 .. Len(backlog) : backlog[k] # cur  BY <1>10 DEF Spawn, BacklogInv
    <3>2. \A k \in 1 .. Len(backlog) : backlog[k] \in Conn  BY DEF TypeOK
    <3>3. \A c \in Conn : c # cur => pc'[c] = pc[c]  BY <1>10 DEF Spawn, TypeOK
    <3> QED  BY <1>10, <3>1, <3>2, <3>3 DEF Spawn, Finish, BacklogInv
  <2>4. SessionInv' BY <1>10, <2>0 DEF Spawn, SessionInv, MainInv, TypeOK
  <2> QED  BY <2>1, <2>2, <2>3, <2>4
<1> QED  BY <1>1, <1>2, <1>3, <1>4, <1>6, <1>7, <1>8, <1>9, <1>10 DEF Main

-----------------------------------------------------------------------------
(* The steps of the clients. *)
LEMMA ShapeClient ==
  ASSUME Shape, NEW c \in Conn, Client(c) PROVE Shape'
<1> USE DEF Shape
<1>1. CASE Connect(c)
  <2>1. TypeOK'     BY <1>1 DEF Connect, TypeOK
  <2>2. MainInv'    BY <1>1 DEF Connect, MainInv, TypeOK
  <2>3. BacklogInv'
    <3>1. /\ Len(backlog') = Len(backlog) + 1 /\ Len(backlog) \in Nat
          /\ \A k \in 1 .. Len(backlog) : backlog'[k] = backlog[k] /\ backlog[k] \in Conn
          /\ backlog'[Len(backlog) + 1] = c
      BY <1>1 DEF Connect, TypeOK
    <3>2. pc[c] = "none" /\ (mainPc # "accept" => c # cur)
      BY <1>1 DEF Connect, SessionInv, MainInv
    <3>3. \A k \in 1 .. Len(backlog) : backlog[k] # c
      BY <1>1 DEF Connect, BacklogInv
    <3>4. \A d \in Conn : peer'[d] # "idle" <=> peer[d] # "idle" \/ d = c
      BY <1>1 DEF Connect, TypeOK
    <3>5. \A k \in 1 .. Len(backlog') : k \in 1 .. Len(backlog) \/ k = Len(backlog) + 1
      BY <3>1
    <3> QED  BY <1>1, <3>1, <3>2, <3>3, <3>4, <3>5 DEF Connect, BacklogInv
  <2>4. SessionInv' BY <1>1 DEF Connect, SessionInv, TypeOK
  <2> QED  BY <2>1, <2>2, <2>3, <2>4
<1>2. ASSUME NEW cmd \in Route \cup {"LOGIN", "BADPW"}, NEW to \in Id,
             Put(c, cmd, to)
      PROVE  Shape'
  <2>1. TypeOK'
    <3>1. [cmd |-> cmd, to |-> to, src |-> c, n |-> sent[c]] \in Message
      BY <1>2 DEF Message, TypeOK
    <3>2. sent' \in [Conn -> Nat]
      BY <1>2 DEF Put, TypeOK
    <3>3. pending' \in [Conn -> Seq(Message)]
      BY <1>2, <3>1 DEF Put, TypeOK
    <3> QED  BY <1>2, <3>2, <3>3 DEF Put, TypeOK
  <2>2. MainInv'    BY <1>2 DEF Put, MainInv
  <2>3. BacklogInv' BY <1>2 DEF Put, BacklogInv
  <2>4. SessionInv' BY <1>2 DEF Put, SessionInv
  <2> QED  BY <2>1, <2>2, <2>3, <2>4
<1>3. CASE SendLogin(c)
  <2>1. PICK l \in Logins : Put(c, IF l.pw THEN "LOGIN" ELSE "BADPW", l.id)
    BY <1>3 DEF SendLogin
  <2>2. l.id \in Id  BY ServerConstants
  <2> QED  BY <1>2, <2>1, <2>2
<1>4. CASE Send(c)
  <2>1. PICK s \in Sends : Put(c, s.cmd, s.to)  BY <1>4 DEF Send
  <2>2. s.cmd \in Route /\ s.to \in Id  BY ServerConstants
  <2> QED  BY <1>2, <2>1, <2>2
<1>5. CASE Close(c)
  <2>1. TypeOK'     BY <1>5 DEF Close, TypeOK
  <2>2. MainInv'    BY <1>5 DEF Close, MainInv, TypeOK
  <2>3. BacklogInv'
    <3>1. \A d \in Conn : peer'[d] # "idle" <=> peer[d] # "idle"
      BY <1>5 DEF Close, TypeOK
    <3>2. \A k \in 1 .. Len(backlog) : backlog[k] \in Conn  BY DEF TypeOK
    <3> QED  BY <1>5, <3>1, <3>2 DEF Close, BacklogInv
  <2>4. SessionInv' BY <1>5 DEF Close, SessionInv, TypeOK
  <2> QED  BY <2>1, <2>2, <2>3, <2>4
<1>6. CASE Reset(c)
  <2>1. TypeOK'     BY <1>6 DEF Reset, TypeOK
  <2>2. MainInv'    BY <1>6 DEF Reset, MainInv, TypeOK
  <2>3. BacklogInv'
    <3>1. \A d \in Conn : peer'[d] # "idle" <=> peer[d] # "idle"
      BY <1>6 DEF Reset, TypeOK
    <3>2. \A k \in 1 .. Len(backlog) : backlog[k] \in Conn  BY DEF TypeOK
    <3> QED  BY <1>6, <3>1, <3>2 DEF Reset, BacklogInv
  <2>4. SessionInv' BY <1>6 DEF Reset, SessionInv, TypeOK
  <2> QED  BY <2>1, <2>2, <2>3, <2>4
<1> QED  BY <1>1, <1>3, <1>4, <1>5, <1>6 DEF Client

(* Whatever a thread of a session does, the other parts of Shape only ask *)
(* that it does not start or end a session of a connection main handles.  *)
LEMMA ShapeGoto ==
  ASSUME Shape, NEW t \in Conn, NEW there \in Point \ {"none"},
         pc[t] # "none", Goto(t, there), clntCnt' <= clntCnt, clntCnt' \in Int
  PROVE  /\ MainInv' /\ BacklogInv'
         /\ pc' \in [Conn -> Point] /\ pc'[t] = there
        /\ \A u \in Conn : u # t => pc'[u] = pc[u]
<1> USE DEF Shape
<1>1. /\ pc' \in [Conn -> Point] /\ pc'[t] = there
        /\ \A u \in Conn : u # t => pc'[u] = pc[u]
  BY DEF Goto, TypeOK
<1>2. MainInv'  BY <1>1, ServerConstants DEF Goto, MainInv, TypeOK
<1>3. BacklogInv'
  <2>1. \A k \in 1 .. Len(backlog) : backlog[k] \in Conn /\ backlog[k] # t
    <3>1. \A k \in 1 .. Len(backlog) : backlog[k] \in Conn  BY DEF TypeOK
    <3>2. \A k \in 1 .. Len(backlog) : backlog[k] # t  BY DEF BacklogInv
    <3> QED  BY <3>1, <3>2
  <2> QED  BY <1>1, <2>1 DEF Goto, BacklogInv
<1> QED  BY <1>1, <1>2, <1>3

(* The steps of the session threads. *)
LEMMA ShapeSession ==
  ASSUME Shape, CountInv, NEW t \in Conn, Session(t) PROVE Shape'
<1> USE DEF Shape, Point
<1>0. pc[t] # "none" /\ slot[t] \in Slot /\ slot[t] \in Id
  BY SlotFact DEF Session, SessionRead, SessionReceive, SessionEof, Fetch, Scan,
     WriteSlot, ScanEnd, Reply, SessionClose, SessionExit, At, SessionInv
<1>1. CASE SessionRead(t)
  <2>1. PICK there \in {"close", "blocked"} : Goto(t, there) /\
             (IF there = "blocked" THEN /\ ConnAt(slotFd[slot[t]]) # NoConn
                                        /\ on' = [on EXCEPT ![t] = ConnAt(slotFd[slot[t]])]
                                   ELSE on' = on)
    BY <1>1 DEF SessionRead
  <2>2. /\ MainInv' /\ BacklogInv'
        /\ pc' \in [Conn -> Point] /\ pc'[t] = there
        /\ \A u \in Conn : u # t => pc'[u] = pc[u]
    BY <1>0, <1>1, <2>1, ShapeGoto DEF SessionRead, TypeOK
  <2>3. /\ on' \in [Conn -> Conn \cup {NoConn}]
        /\ there = "blocked" => on'[t] \in Conn
        /\ \A u \in Conn : u # t => on'[u] = on[u]
    BY <2>1, ConnAtType DEF TypeOK
  <2>4. TypeOK'     BY <1>1, <2>1, <2>2, <2>3 DEF SessionRead, Goto, TypeOK
  <2>5. SessionInv' BY <1>0, <1>1, <2>1, <2>2, <2>3 DEF SessionRead, Goto, SessionInv
  <2> QED  BY <2>2, <2>4, <2>5
<1>2. CASE SessionReceive(t)
  <2> DEFINE m == Head(pending[on[t]])
  <2>1. on[t] \in Conn /\ pending[on[t]] \in Seq(Message) /\ pending[on[t]] # <<>>
    BY <1>2 DEF SessionReceive, At, Consume, SessionInv, TypeOK
  <2>2. m \in Message  BY <2>1
  <2>3. pending' \in [Conn -> Seq(Message)]
    <3>1. PICK k \in 1 .. Len(pending[on[t]]) :
            pending' = [pending EXCEPT ![on[t]] = SubSeq(@, k + 1, Len(@))]
      BY <1>2 DEF SessionReceive, Consume
    <3>2. SubSeq(pending[on[t]], k + 1, Len(pending[on[t]])) \in Seq(Message)
      BY <2>1, <3>1
    <3> QED  BY <3>1, <3>2 DEF TypeOK
  <2>4. /\ MainInv' /\ BacklogInv'
        /\ pc' \in [Conn -> Point] /\ pc'[t] = "parse"
        /\ \A u \in Conn : u # t => pc'[u] = pc[u]
    <3>1. Goto(t, "parse") /\ UNCHANGED clntCnt  BY <1>2 DEF SessionReceive
    <3> QED  BY <1>0, <3>1, ShapeGoto DEF TypeOK
  <2>5. /\ [NoRequest EXCEPT !.msg = m] \in Request
        /\ [NoRequest EXCEPT !.msg = m].msg = m
    BY <2>2, ServerConstants DEF NoRequest, NONE, Request
  <2>6. /\ req' \in [Conn -> Request]
        /\ req'[t].msg = m /\ \A u \in Conn : u # t => req'[u] = req[u]
    BY <1>2, <2>5 DEF SessionReceive, TypeOK
  <2>7. TypeOK'     BY <1>2, <2>3, <2>4, <2>6 DEF SessionReceive, Goto, TypeOK
  <2>8. SessionInv'
    <3>1. \A u \in Conn : u # t => on'[u] = on[u]  BY <1>2 DEF SessionReceive, TypeOK
    <3> QED  BY <1>0, <1>2, <2>2, <2>4, <2>6, <3>1 DEF SessionReceive, Goto, SessionInv
  <2> QED  BY <2>4, <2>7, <2>8
<1>3. CASE SessionEof(t)
  <2>1. /\ MainInv' /\ BacklogInv'
        /\ pc' \in [Conn -> Point] /\ pc'[t] = "close"
        /\ \A u \in Conn : u # t => pc'[u] = pc[u]
    BY <1>0, <1>3, ShapeGoto DEF SessionEof, TypeOK
  <2>2. TypeOK'     BY <1>3, <2>1 DEF SessionEof, Goto, TypeOK
  <2>3. SessionInv' BY <1>0, <1>3, <2>1 DEF SessionEof, Goto, SessionInv, TypeOK
  <2> QED  BY <2>1, <2>2, <2>3
<1>4. ASSUME req[t].next \in Slot, NEW found \in SUBSET Slot, Advance(t, found)
      PROVE  /\ req' \in [Conn -> Request]
             /\ req'[t].msg = req[t].msg /\ \A u \in Conn : u # t => req'[u] = req[u]
  <2>1. req[t].next + 1 \in 0 .. MAX_CLNT  BY <1>4, ServerConstants DEF Slot
  <2>2. req'[t] = [msg |-> req[t].msg, fd |-> req[t].fd, next |-> req[t].next + 1,
                   ids |-> req[t].ids \cup found]
    <3>1. req \in [Conn -> Request] /\ req[t] \in Request  BY DEF TypeOK
    <3> QED  BY <1>4, <3>1 DEF Advance, Request
  <2>3. req'[t] \in Request
    BY <2>1, <2>2 DEF TypeOK, Request
  <2> QED  BY <1>4, <2>2, <2>3 DEF Advance, TypeOK
<1>5. CASE Scan(t)
  <2>1. PICK there \in {"route", "write"} : Goto(t, there)  BY <1>5 DEF Scan
  <2>2. /\ MainInv' /\ BacklogInv'
        /\ pc' \in [Conn -> Point] /\ pc'[t] = there
        /\ \A u \in Conn : u # t => pc'[u] = pc[u]
    BY <1>0, <1>5, <2>1, ShapeGoto DEF Scan, TypeOK
  <2>3. req[t].next \in Slot /\ req[t].msg \in Message
    BY <1>5 DEF Scan, At, SessionInv
  <2>4. Advance(t, {}) \/ Advance(t, {req[t].next}) \/ UNCHANGED req
    BY <1>5 DEF Scan
  <2>5. /\ req' \in [Conn -> Request]
        /\ req'[t].msg = req[t].msg /\ \A u \in Conn : u # t => req'[u] = req[u]
    BY <1>4, <2>3, <2>4 DEF TypeOK
  <2>6. there = "write" => UNCHANGED req
    BY <1>5, <2>1, <2>2 DEF Scan, Goto, TypeOK
  <2>7. TypeOK'     BY <1>5, <2>1, <2>2, <2>5 DEF Scan, Goto, TypeOK
  <2>8. SessionInv' BY <1>0, <1>5, <2>1, <2>2, <2>3, <2>5, <2>6 DEF Scan, Goto, SessionInv
  <2> QED  BY <2>2, <2>7, <2>8
<1>6. ASSUME req[t].msg \in Message PROVE Routed(t) \in Delivery
  BY <1>0, <1>6 DEF Routed, Delivery, Message, Request, TypeOK
<1>7. CASE WriteSlot(t)
  <2>1. req[t].next \in Slot /\ req[t].msg \in Message
    BY <1>7 DEF WriteSlot, At, SessionInv
  <2>2. inbox' \in [Conn -> Seq(Delivery)] /\ alive' \in BOOLEAN
    BY <1>6, <1>7, <2>1, ConnAtType, WriteToType DEF WriteSlot
  <2>3. /\ MainInv' /\ BacklogInv'
        /\ pc' \in [Conn -> Point] /\ pc'[t] = "route"
        /\ \A u \in Conn : u # t => pc'[u] = pc[u]
    BY <1>0, <1>7, ShapeGoto DEF WriteSlot, TypeOK
  <2>4. /\ req' \in [Conn -> Request]
        /\ req'[t].msg = req[t].msg /\ \A u \in Conn : u # t => req'[u] = req[u]
    BY <1>4, <1>7, <2>1 DEF WriteSlot
  <2>5. TypeOK'     BY <1>7, <2>2, <2>3, <2>4 DEF WriteSlot, Goto, TypeOK
  <2>6. SessionInv' BY <1>0, <1>7, <2>1, <2>3, <2>4 DEF WriteSlot, Goto, SessionInv
  <2> QED  BY <2>3, <2>5, <2>6
<1>8. NoRequest \in Request
  BY ServerConstants DEF NoRequest, NONE, Request
<1>9. CASE ScanEnd(t)
  <2>1. PICK there \in {"reply", "read"} : Goto(t, there)  BY <1>9 DEF ScanEnd
  <2>2. /\ MainInv' /\ BacklogInv'
        /\ pc' \in [Conn -> Point] /\ pc'[t] = there
        /\ \A u \in Conn : u # t => pc'[u] = pc[u]
    BY <1>0, <1>9, <2>1, ShapeGoto DEF ScanEnd, TypeOK
  <2>3. /\ req' \in [Conn -> Request]
        /\ \A u \in Conn : u # t => req'[u] = req[u]
    <3>1. UNCHANGED req \/ req' = [req EXCEPT ![t] = NoRequest]
      BY <1>9 DEF ScanEnd
    <3>2. req \in [Conn -> Request]  BY DEF TypeOK
    <3> QED  BY <1>8, <3>1, <3>2
  <2>4. there = "reply" => UNCHANGED req
    BY <1>9, <2>1, <2>2 DEF ScanEnd, Goto, TypeOK
  <2>5. req[t].msg \in Message  BY <1>9 DEF ScanEnd, At, SessionInv
  <2>6. TypeOK'     BY <1>9, <2>1, <2>2, <2>3 DEF ScanEnd, Goto, TypeOK
  <2>7. SessionInv' BY <1>0, <1>9, <2>1, <2>2, <2>3, <2>4, <2>5 DEF ScanEnd, Goto, SessionInv
  <2> QED  BY <2>2, <2>6, <2>7
<1>10. CASE Reply(t)
  <2>1. req[t].msg \in Message  BY <1>10 DEF Reply, At, SessionInv
  <2>2. inbox' \in [Conn -> Seq(Delivery)] /\ alive' \in BOOLEAN
    BY <1>6, <1>10, <2>1, ConnAtType, WriteToType DEF Reply
  <2>3. /\ MainInv' /\ BacklogInv'
        /\ pc' \in [Conn -> Point] /\ pc'[t] = "read"
        /\ \A u \in Conn : u # t => pc'[u] = pc[u]
    BY <1>0, <1>10, ShapeGoto DEF Reply, TypeOK
  <2>4. /\ req' \in [Conn -> Request]
        /\ \A u \in Conn : u # t => req'[u] = req[u]
    BY <1>8, <1>10 DEF Reply, TypeOK
  <2>5. TypeOK'     BY <1>10, <2>2, <2>3, <2>4 DEF Reply, Goto, TypeOK
  <2>6. SessionInv' BY <1>0, <1>10, <2>3, <2>4 DEF Reply, Goto, SessionInv
  <2> QED  BY <2>3, <2>5, <2>6
<1>11. CASE SessionClose(t)
  <2>1. /\ MainInv' /\ BacklogInv'
        /\ pc' \in [Conn -> Point] /\ pc'[t] = "exit"
        /\ \A u \in Conn : u # t => pc'[u] = pc[u]
    BY <1>0, <1>11, ShapeGoto DEF SessionClose, TypeOK
  <2>2. TypeOK'     BY <1>11, <2>1 DEF SessionClose, CloseFd, Goto, TypeOK
  <2>3. SessionInv' BY <1>0, <1>11, <2>1 DEF SessionClose, Goto, SessionInv
  <2> QED  BY <2>1, <2>2, <2>3
<1>12. CASE SessionExit(t)
  <2>1. /\ MainInv' /\ BacklogInv'
        /\ pc' \in [Conn -> Point] /\ pc'[t] = "done"
        /\ \A u \in Conn : u # t => pc'[u] = pc[u]
    BY <1>0, <1>12, ShapeGoto DEF SessionExit, Leave, TypeOK
  <2>2. TypeOK'
    <3>1. slotFd' \in [Slot -> Fd \cup {NONE}] /\ clntCnt' \in Int
      <4>1. slotFd \in [Slot -> Fd \cup {NONE}] /\ clntCnt \in Int  BY DEF TypeOK
      <4>2. slotFd' = [slotFd EXCEPT ![slot[t]] = NONE] /\ clntCnt' = clntCnt - 1
        BY <1>12 DEF SessionExit, Leave
      <4>3. slotFd' \in [Slot -> Fd \cup {NONE}]  BY <4>1, <4>2
      <4>4. clntCnt' \in Int  BY <4>1, <4>2
      <4> QED  BY <4>3, <4>4
    <3> QED  BY <1>12, <2>1, <3>1 DEF SessionExit, Goto, TypeOK
  <2>3. SessionInv' BY <1>0, <1>12, <2>1 DEF SessionExit, Goto, SessionInv
  <2> QED  BY <2>1, <2>2, <2>3
<1>13. CASE Fetch(t)
  <2>1. PICK there \in {"reply", "route"} : Goto(t, there) /\ UNCHANGED clntCnt
    BY <1>13 DEF Fetch
  <2>2. /\ MainInv' /\ BacklogInv'
        /\ pc' \in [Conn -> Point] /\ pc'[t] = there
        /\ \A u \in Conn : u # t => pc'[u] = pc[u]
    BY <1>0, <2>1, ShapeGoto DEF TypeOK
  <2>3. req[t] \in Request /\ req[t].msg \in Message
    BY <1>13 DEF Fetch, At, SessionInv, TypeOK
  <2>4. AsChar(slotFd[slot[t]]) \in Int
    <3>1. slotFd[slot[t]] \in Int  BY <1>0, ServerConstants DEF TypeOK, Fd, NONE
    <3> QED  BY <3>1, AsCharType
  <2>5. /\ req' \in [Conn -> Request]
        /\ req'[t].msg = req[t].msg /\ \A u \in Conn : u # t => req'[u] = req[u]
    BY <1>13, <2>3, <2>4 DEF Fetch, Request, TypeOK
  <2>6. TypeOK'     BY <1>13, <2>1, <2>2, <2>5 DEF Fetch, Goto, TypeOK
  <2>7. SessionInv' BY <1>0, <1>13, <2>1, <2>2, <2>3, <2>5 DEF Fetch, Goto, SessionInv
  <2> QED  BY <2>2, <2>6, <2>7
<1> QED  BY <1>1, <1>2, <1>3, <1>5, <1>7, <1>9, <1>10, <1>11, <1>12, <1>13 DEF Session

LEMMA ShapeStep == IInv /\ [Next]_vars => Shape'
<1> SUFFICES ASSUME IInv, [Next]_vars PROVE Shape'  OBVIOUS
<1> USE DEF IInv
<1>1. CASE Main  BY <1>1, ShapeMain
<1>2. CASE \E t \in Conn : Session(t)  BY <1>2, ShapeSession
<1>3. CASE \E c \in Conn : Client(c)  BY <1>3, ShapeClient
<1>4. CASE UNCHANGED vars
  BY <1>4 DEF Shape, TypeOK, MainInv, BacklogInv, SessionInv
<1> QED  BY <1>1, <1>2, <1>3, <1>4 DEF Next

-----------------------------------------------------------------------------
(* The count.  Register adds main's connection to the live sessions, Spawn   *)
(* hands it to its thread, SessionExit takes one away; nothing else touches  *)
(* the set or the count.                                                     *)

LEMMA LiveFinite == IsFiniteSet(Live) /\ Cardinality(Live) \in Nat
<1>1. Live \in SUBSET Conn  BY DEF Live
<1> QED  BY <1>1, ServerConstants, FS_Subset, FS_CardinalityType

LEMMA CountInit == Init => CountInv
<1> SUFFICES ASSUME Init PROVE CountInv  OBVIOUS
<1>1. Live = {}  BY DEF Init, Live
<1> QED  BY <1>1, FS_EmptySet, ServerConstants DEF Init, CountInv, SessionCount

LEMMA CountStep == IInv /\ [Next]_vars => CountInv'
<1> SUFFICES ASSUME IInv, [Next]_vars PROVE CountInv'  OBVIOUS
<1> USE DEF IInv, Shape, CountInv, SessionCount
<1>0. clntCnt \in Int /\ MAX_CLNT \in Int  BY ServerConstants DEF TypeOK
<1>1. ASSUME Live' = Live, UNCHANGED clntCnt PROVE CountInv'
  BY <1>1
<1>2. CASE UNCHANGED pc /\ mainPc # "spawn" /\ mainPc' # "spawn" /\ UNCHANGED clntCnt
  BY <1>1, <1>2 DEF Live
<1>3. CASE (\E c \in Conn : Accept(c)) \/ AcceptFull \/ Admit
  BY <1>2, <1>3 DEF AcceptFull, Accept, Admit, Finish, TakeConnection
<1>4. CASE EnterLogin \/ LoginEof \/ LoginAuthError \/ LoginBusy \/ Kick
  BY <1>2, <1>4 DEF EnterLogin, LoginEof, LoginAuthError, LoginBusy, Kick, Evict,
     ReadLogin, Finish
<1>5. CASE Register
  <2>1. cur \in Conn /\ cur \notin Live /\ clntCnt < MAX_CLNT
    BY <1>5 DEF Register, ReadLogin, MainInv, Live
  <2>2. Live' = Live \cup {cur}
    BY <1>5, <2>1 DEF Register, ReadLogin, Live
  <2>3. Cardinality(Live') = Cardinality(Live) + 1
    BY <2>1, <2>2, LiveFinite, FS_AddElement
  <2> QED  BY <1>0, <1>5, <2>1, <2>3 DEF Register
<1>6. CASE Spawn
  <2>1. cur \in Conn /\ pc[cur] = "none"  BY <1>6 DEF Spawn, MainInv
  <2>2. pc'[cur] = "read" /\ \A c \in Conn : c # cur => pc'[c] = pc[c]
    BY <1>6, <2>1 DEF Spawn, TypeOK
  <2>3. Live' = Live
    BY <1>6, <2>1, <2>2 DEF Spawn, Finish, Live
  <2> QED  BY <1>1, <1>6, <2>3 DEF Spawn
<1>7. ASSUME NEW t \in Conn, Session(t) PROVE CountInv'
  <2>1. CASE SessionExit(t)
    <3>1. /\ t \in Live
          /\ pc'[t] = "done" /\ \A u \in Conn : u # t => pc'[u] = pc[u]
          /\ mainPc = "spawn" => t # cur
      BY <2>1 DEF SessionExit, At, Goto, Live, MainInv, TypeOK
    <3>2. Live' = Live \ {t}
      BY <2>1, <3>1 DEF SessionExit, Goto, Live
    <3>3. Cardinality(Live') = Cardinality(Live) - 1
      BY <3>1, <3>2, LiveFinite, FS_RemoveElement
    <3> QED  BY <1>0, <2>1, <3>3 DEF SessionExit, Leave
  <2>2. ASSUME NEW there \in Point \ {"none", "done"},
               pc[t] \notin {"none", "done"}, Goto(t, there), UNCHANGED clntCnt
        PROVE  CountInv'
    <3>1. pc'[t] = there /\ \A u \in Conn : u # t => pc'[u] = pc[u]
      BY <2>2 DEF Goto, TypeOK
    <3>2. Live' = Live  BY <2>2, <3>1 DEF Goto, Live
    <3> QED  BY <1>1, <2>2, <3>2
  <2>3. CASE SessionRead(t)     BY <2>2, <2>3 DEF SessionRead, At, Point
  <2>4. CASE SessionReceive(t)  BY <2>2, <2>4 DEF SessionReceive, At, Point
  <2>5. CASE SessionEof(t) \/ Fetch(t)  BY <2>2, <2>5 DEF SessionEof, Fetch, At, Point
  <2>6. CASE Scan(t)            BY <2>2, <2>6 DEF Scan, At, Point
  <2>7. CASE WriteSlot(t)       BY <2>2, <2>7 DEF WriteSlot, At, Point
  <2>8. CASE ScanEnd(t)         BY <2>2, <2>8 DEF ScanEnd, At, Point
  <2>9. CASE Reply(t)           BY <2>2, <2>9 DEF Reply, At, Point
  <2>10. CASE SessionClose(t)   BY <2>2, <2>10 DEF SessionClose, At, Point
  <2> QED  BY <1>7, <2>1, <2>3, <2>4, <2>5, <2>6, <2>7, <2>8, <2>9, <2>10 DEF Session
<1>8. CASE \E c \in Conn : Client(c)
  <2>1. UNCHANGED <<pc, mainPc, cur, clntCnt>>
    BY <1>8 DEF Client, Connect, SendLogin, Send, Put, Close, Reset
  <2> QED  BY <1>1, <2>1 DEF Live
<1>9. CASE UNCHANGED vars  BY <1>1, <1>9 DEF Live
<1> QED  BY <1>3, <1>4, <1>5, <1>6, <1>7, <1>8, <1>9 DEF Next, Main

-----------------------------------------------------------------------------
(* The invariant holds in every reachable state. *)
THEOREM Invariance == Spec => []IInv
<1>1. Init => IInv  BY ShapeInit, CountInit DEF IInv
<1>2. IInv /\ [Next]_vars => IInv'  BY ShapeStep, CountStep DEF IInv
<1> QED  BY <1>1, <1>2, PTL DEF Spec

(* Every variable of the server stays in its range. *)
THEOREM TypeCorrect == Spec => []TypeOK
<1>1. IInv => TypeOK  BY DEF IInv, Shape
<1> QED  BY <1>1, Invariance, PTL

(* clnt_cnt is the number of live sessions, whatever logins, duplicate       *)
(* logins and disconnections are interleaved (iot_server.c l. 153-157, 234). *)
THEOREM CountIsExact == Spec => []SessionCount
<1>1. IInv => SessionCount  BY DEF IInv, CountInv
<1> QED  BY <1>1, Invariance, PTL

(* There are never more than MAX_CLNT sessions, although main checks the     *)
(* count outside the mutex and before it reads the login (l. 107).           *)
THEOREM CapacityKept == Spec => []NeverOverCapacity
<1>1. IInv => NeverOverCapacity  BY DEF IInv, CountInv, SessionCount, NeverOverCapacity
<1> QED  BY <1>1, Invariance, PTL
=============================================================================
