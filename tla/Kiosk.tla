-------------------------------- MODULE Kiosk --------------------------------
(***************************************************************************)
(* The way of an order: from the payment on the touch screen over its      *)
(* socket, the message server, the Bluetooth bridge and the link to the    *)
(* vending controller, and the way back of the acknowledgement.  The       *)
(* bridge is the module BluetoothBridge; the controller is its abstract    *)
(* specification Dispenser, which VendingFirmware implements, behind a     *)
(* reception that loses bytes; of the server, whose threads are IotServer, *)
(* there are the login of the panel and the two sessions that relay.  Of   *)
(* the panel, whose slots are ControlPanel, there is the connection.       *)
(*                                                                         *)
(* Orders are named by their position in "ordered".  A text on the way is  *)
(* the order it is about, or 0: the panel's login, the server's greeting,  *)
(* an acknowledgement for a name that was cut.                             *)
(***************************************************************************)
EXTENDS BluetoothBridge, FiniteSets

CONSTANTS
    Product,       \* the buttons of the panel
    Motor,         \* the products that have a motor
    QUEUE_LEN,     \* orders that may wait in the controller
    MaxOrders,     \* bound: orders made
    MaxConnects    \* bound: times the panel connects

ASSUME KioskConstants ==
    /\ Motor \subseteq Product
    /\ QUEUE_LEN \in Nat \ {0}
    /\ MaxOrders \in Nat /\ MaxConnects \in Nat

Text == 0 .. MaxOrders

VARIABLES
    conn,       \* the panel's socket: "off", "connecting", "on"
    connects,   \* how often it connected (bound)
    panelOut,   \* lines the panel wrote that the server has not read
    session,    \* the server's end: "none", "login", "in", "refused"
    slot,       \* the bridge is registered under KJD_STM
    reader,     \* the thread of the bridge's session reads on
    rx,         \* the controller receives; FALSE after a line error
    queue,      \* the orders in the controller
    running,    \* the motors that are on
    ordered, reached, driven, acked,   \* as in OrderService (history)
    early       \* the orders made while the panel was not connected (history)

panel   == <<conn, connects, panelOut>>
server  == <<session, slot, reader>>
control == <<rx, queue, running>>
history == <<ordered, reached, driven, acked, early>>
threads == <<sockfd, alive, sndPc, msg, rcvPc, name_msg>>
vars == <<bridgeVars, panel, server, control, history>>

D == INSTANCE Dispenser WITH
       Capacity <- QUEUE_LEN,
       orders <- [i \in DOMAIN queue |-> ordered[queue[i]]]

(* The bridge has logged in and connected the link; the greeting of the server *)
(* is on its way to the controller.                                            *)
Init ==
    /\ BridgeInit
    /\ down = Line(0) /\ up = <<>> /\ serverUp = TRUE /\ rst = FALSE
    /\ btOut = <<>> /\ btIn = <<>> /\ btLink = "up"
    /\ conn = "off" /\ connects = 0 /\ panelOut = <<>>
    /\ session = "none" /\ slot = TRUE /\ reader = TRUE
    /\ rx = TRUE /\ queue = <<>> /\ running = {}
    /\ ordered = <<>> /\ reached = <<>> /\ driven = <<>> /\ acked = <<>> /\ early = {}

-----------------------------------------------------------------------------
(* The panel's connection *)

(* The server has seen the panel leave; a login before that is refused as a    *)
(* second one of its name, which is a matter of IotServer.                     *)
Connect ==
    /\ conn = "off" /\ session = "none" /\ connects < MaxConnects
    /\ conn' = "connecting"
    /\ connects' = connects + 1
    /\ UNCHANGED <<bridgeVars, panelOut, server, control, history>>

(* slotConnectServer: the login is written when the connection stands, behind  *)
(* what was written while it did not.                                          *)
ConnectedWithoutLogin ==                                            \* mutant
    /\ conn = "connecting" /\ serverUp
    /\ conn' = "on"
    /\ session' = "login"
    /\ UNCHANGED <<bridgeVars, connects, panelOut, slot, reader, control, history>>
ConnectedLoginFirst ==                                              \* mutant
    /\ conn = "connecting" /\ serverUp
    /\ conn' = "on"
    /\ session' = "login"
    /\ panelOut' = <<0>> \o panelOut
    /\ UNCHANGED <<bridgeVars, connects, slot, reader, control, history>>
Connected ==
    /\ conn = "connecting" /\ serverUp
    /\ conn' = "on"
    /\ session' = "login"
    /\ panelOut' = Append(panelOut, 0)
    /\ UNCHANGED <<bridgeVars, connects, slot, reader, control, history>>

(* No connection, or the end of it by the server. *)
Lost ==
    /\ \/ conn # "off" /\ ~serverUp
       \/ session = "refused"
    /\ conn' = "off" /\ panelOut' = <<>> /\ session' = "none"
    /\ UNCHANGED <<bridgeVars, connects, slot, reader, control, history>>

(* The button pressed again.  close() on a socket that is still connecting      *)
(* waits for the connection and sends what was written, without the login,      *)
(* which is refused a closed device; or nothing is left to send.                *)
Abandon ==
    /\ conn = "connecting"
    /\ conn' = "off"
    /\ \/ serverUp /\ panelOut # <<>> /\ session' = "login" /\ UNCHANGED panelOut
       \/ panelOut' = <<>> /\ UNCHANGED session
    /\ UNCHANGED <<bridgeVars, connects, slot, reader, control, history>>

Disconnect ==
    /\ conn = "on"
    /\ conn' = "off"
    /\ UNCHANGED <<bridgeVars, connects, panelOut, server, control, history>>

(* slotSocketSendData: without a connection the write fails, which nothing     *)
(* looks at; while one is made the socket keeps the line and sends it first.   *)
Order(p) ==
    /\ Len(ordered) < MaxOrders
    /\ ordered' = Append(ordered, p)
    /\ panelOut' = IF conn = "off" THEN panelOut ELSE Append(panelOut, Len(ordered'))
    /\ early' = IF conn = "on" THEN early ELSE early \cup {Len(ordered')}
    /\ UNCHANGED <<bridgeVars, conn, connects, server, control, reached, driven, acked>>

Panel ==
    \/ Connect \/ Connected \/ Lost \/ Abandon \/ Disconnect \/ (\E p \in Product : Order(p))

-----------------------------------------------------------------------------
(* The server *)

(* The login is the first line of what one read returns.  An order in its     *)
(* place names the bridge: that name is logged in already, so the connection  *)
(* is refused and the bridge's slot is freed.                                 *)
Login ==
    /\ serverUp /\ session = "login"
    /\ \E k \in 1 .. Len(panelOut) : panelOut' = SubSeq(panelOut, k + 1, Len(panelOut))
    /\ session' = IF Head(panelOut) = 0 THEN "in" ELSE "refused"
    /\ slot' = (slot /\ Head(panelOut) = 0)
    /\ UNCHANGED <<bridgeVars, conn, connects, reader, control, history>>

(* The panel's session: the first line of a read goes to whoever is in the     *)
(* bridge's slot.                                                              *)
RelayLast ==                                                        \* mutant
    /\ serverUp /\ session = "in"
    /\ \E k \in 1 .. Len(panelOut) :
         /\ panelOut' = SubSeq(panelOut, k + 1, Len(panelOut))
         /\ down' = IF slot /\ alive THEN down \o Line(panelOut[k]) ELSE down
    /\ UNCHANGED <<threads, up, serverUp, rst, radio, conn, connects, server, control, history>>
RelayAgain ==                                                       \* mutant
    /\ serverUp /\ session = "in" /\ panelOut # <<>>
    /\ down' = IF slot /\ alive THEN down \o Line(Head(panelOut)) ELSE down
    /\ panelOut' \in {panelOut, Tail(panelOut)}
    /\ UNCHANGED <<threads, up, serverUp, rst, radio, conn, connects, server, control, history>>
RelayOrder ==
    /\ serverUp /\ session = "in" /\ panelOut # <<>>
    /\ down' = IF slot /\ alive THEN down \o Line(Head(panelOut)) ELSE down
    /\ \E k \in 1 .. Len(panelOut) : panelOut' = SubSeq(panelOut, k + 1, Len(panelOut))
    /\ UNCHANGED <<threads, up, serverUp, rst, radio, conn, connects, server, control, history>>

SessionEnds ==
    /\ serverUp /\ session = "in" /\ conn = "off" /\ panelOut = <<>>
    /\ session' = "none"
    /\ UNCHANGED <<bridgeVars, panel, slot, reader, control, history>>

(* The bridge's session: of the writes a read returns the first line of the    *)
(* first is looked at.  A session without its slot reads descriptor -1 next,   *)
(* and ends, with the bridge's connection open.                                *)
RelayAckLast ==                                                     \* mutant
    /\ serverUp /\ reader
    /\ \E k \in 1 .. Len(up) :
         /\ up' = SubSeq(up, k + 1, Len(up))
         /\ LET a == Last(up[k]).text IN
              acked' = IF a # 0 /\ session = "in" /\ conn = "on" THEN Append(acked, a) ELSE acked
    /\ reader' = slot
    /\ UNCHANGED <<threads, down, serverUp, rst, radio, panel, session, slot, control,
                   ordered, reached, driven, early>>
RelayAck ==
    /\ serverUp /\ reader
    /\ \E k \in 1 .. Len(up) : up' = SubSeq(up, k + 1, Len(up))
    /\ LET a == up[1][1].text IN
         acked' = IF a # 0 /\ session = "in" /\ conn = "on" THEN Append(acked, a) ELSE acked
    /\ reader' = slot
    /\ UNCHANGED <<threads, down, serverUp, rst, radio, panel, session, slot, control,
                   ordered, reached, driven, early>>

(* The server ends: stopped, or by SIGPIPE. *)
ServerEnd ==
    /\ serverUp
    /\ serverUp' = FALSE
    /\ UNCHANGED <<threads, down, up, rst, radio, panel, server, control, history>>

Server == Login \/ RelayOrder \/ SessionEnds \/ RelayAck

-----------------------------------------------------------------------------
(* The link and the controller *)

LinkEnd ==
    /\ btLink = "up"
    /\ btLink' \in {"lost", "closed"}
    /\ UNCHANGED <<threads, socket, btOut, btIn, panel, server, control, history>>

LineError ==
    /\ rx /\ btOut # <<>>
    /\ rx' = FALSE
    /\ UNCHANGED <<bridgeVars, panel, server, queue, running, history>>

(* An order is answered whether or not the queue had room and whether or not  *)
(* its product has a motor.  Of a line that lost its beginning the rest of    *)
(* the sender's name is still there, and gets the answer.                     *)
Take(k) ==
    IF Len(queue) < QUEUE_LEN /\ ordered[k] \in Motor
    THEN queue' = Append(queue, k) /\ D!Take(ordered[k])
    ELSE UNCHANGED <<queue, running>>

Receive ==
    /\ rx /\ \E i \in DOMAIN btOut : btOut[i].end
    /\ UNCHANGED <<threads, socket, btLink, panel, server, rx, ordered, driven, acked, early>>
    /\ LET cut == btOut[1].end
           len == IF cut THEN 1 ELSE 2
           k   == btOut[1].text
       IN /\ \E lost \in 0 .. Len(btOut) - len :
               btOut' = SubSeq(btOut, len + lost + 1, Len(btOut))
          /\ IF k = 0
             THEN UNCHANGED <<queue, running, btIn, reached>>
             ELSE /\ Take(k)
                  /\ reached' = Append(reached, k)
                  /\ btIn' = IF btLink = "up" THEN btIn \o Line(IF cut THEN 0 ELSE k) ELSE btIn

Serve ==
    /\ queue # <<>>
    /\ UNCHANGED <<bridgeVars, panel, server, rx, ordered, reached, acked, early>>
    /\ queue' = Tail(queue)
    /\ D!Serve
    /\ driven' = Append(driven, Head(queue))

Stop ==
    /\ running' \in SUBSET running
    /\ UNCHANGED <<bridgeVars, panel, server, rx, queue, history>>

Controller == Receive \/ Serve

-----------------------------------------------------------------------------
BridgeStep == Bridge /\ UNCHANGED <<panel, server, control, history>>

Next == Panel \/ Server \/ ServerEnd \/ BridgeStep \/ LinkEnd \/ LineError \/ Controller \/ Stop

Spec == Init /\ [][Next]_vars

(* Threads, tasks and the event loop of the panel run; nobody has to order,   *)
(* to connect or to leave.                                                    *)
FairSpec ==
    /\ Spec
    /\ WF_vars(Connected \/ Lost)
    /\ WF_vars(Login \/ RelayOrder \/ SessionEnds) /\ WF_vars(RelayAck)
    /\ WF_vars(BridgeStep /\ recv_msg) /\ WF_vars(BridgeStep /\ send_msg)
    /\ WF_vars(BridgeStep /\ Exit)
    /\ WF_vars(Receive) /\ WF_vars(Serve)

-----------------------------------------------------------------------------
(* Properties *)

TypeOK ==
    /\ BridgeTypeOK(Text)
    /\ conn \in {"off", "connecting", "on"} /\ connects \in 0 .. MaxConnects
    /\ panelOut \in Seq(Text)
    /\ session \in {"none", "login", "in", "refused"}
    /\ slot \in BOOLEAN /\ reader \in BOOLEAN /\ rx \in BOOLEAN
    /\ queue \in Seq(Text \ {0}) /\ Len(queue) <= QUEUE_LEN
    /\ running \subseteq Motor
    /\ ordered \in Seq(Product)
    /\ Len(ordered) <= MaxOrders
    /\ reached \in Seq(Text \ {0}) /\ driven \in Seq(Text \ {0}) /\ acked \in Seq(Text \ {0})
    /\ early \subseteq 1 .. Len(ordered)

(* Panel, server, bridge and controller implement the service: no order is     *)
(* dispensed twice or out of turn, an acknowledgement that comes back is for   *)
(* an order that reached the controller, once and in order, through every      *)
(* reconnection, loss and end of one of them.                                  *)
S == INSTANCE OrderService
ImplementsOrderService == S!Spec

(* An order made while the panel was not connected is never dispensed later,   *)
(* not even when the panel connects again: it is not kept anywhere that would  *)
(* surprise the next customer.                                                 *)
EarlyOrderNeverReaches == \A i \in DOMAIN reached : reached[i] \notin early

(* The bridge loses its registration through nothing but an order that the     *)
(* panel sent before its login, whose first word is the name of the bridge.    *)
SlotLostToEarlyOrder == ~slot => early # {}

(* An order at the head of what the panel has sent, with nothing under way to  *)
(* the controller before it and room in the queue, is dispensed: the readings  *)
(* that lose lines and the interrupt that loses bytes lose only what comes     *)
(* behind something else.                                                      *)
Ended == ~serverUp \/ ~alive \/ sndPc = "ended" \/ btLink # "up" \/ ~rx \/ ~slot
Alone(k) ==
    /\ session = "in" /\ panelOut # <<>> /\ Head(panelOut) = k
    /\ down = <<>> /\ name_msg = <<>> /\ btOut = <<>>
    /\ Len(queue) < QUEUE_LEN /\ ordered[k] \in Motor
OrderAloneServed ==
    \A k \in 1 .. MaxOrders :
      Alone(k) ~> (Ended \/ \E i \in DOMAIN driven : driven[i] = k)

(* Likewise the acknowledgement: with none on its way before it, it reaches a  *)
(* panel that stays connected.                                                 *)
AckAlone(k) ==
    /\ msg = <<>> /\ up = <<>> /\ btIn # <<>> /\ btIn[1].text = k
AckAloneReturned ==
    \A k \in 1 .. MaxOrders :
      (AckAlone(k) /\ conn = "on" /\ session = "in")
        ~> (Ended \/ conn # "on" \/ \E i \in DOMAIN acked : acked[i] = k)

(* No step loses such an order: until it is dispensed or something ended, it  *)
(* is first in what the panel sent, first and whole in what is under way to   *)
(* the controller, or queued there, however the readings cut it and whatever  *)
(* follows it.                                                                *)
Coming == btOut \o (name_msg \o down)
OrderUnderWay(k) ==
    \/ /\ Len(queue) < QUEUE_LEN /\ k \in DOMAIN ordered /\ ordered[k] \in Motor
       /\ \/ IsPrefix(Line(k), Coming)
          \/ Coming = <<>> /\ session = "in" /\ panelOut # <<>> /\ Head(panelOut) = k
    \/ \E i \in DOMAIN queue : queue[i] = k
OrderNeverDropped ==
    [][\A k \in 1 .. MaxOrders :
         OrderUnderWay(k) =>
           OrderUnderWay(k)' \/ Ended' \/ \E i \in DOMAIN driven' : driven'[i] = k]_vars

(* Nor such an acknowledgement: until the panel has it, is gone, or something *)
(* ended, it begins what the bridge wrote or, with nothing written, what it   *)
(* assembles.                                                                 *)
AckUnderWay(k) ==
    /\ conn = "on" /\ session = "in"
    /\ IF up = <<>> THEN msg \o btIn # <<>> /\ (msg \o btIn)[1].text = k
                    ELSE up[1][1].text = k
AckNeverDropped ==
    [][\A k \in 1 .. MaxOrders :
         AckUnderWay(k) =>
           \/ AckUnderWay(k)' \/ Ended' \/ conn' # "on"
           \/ \E i \in DOMAIN acked' : acked'[i] = k]_vars

(* Nor the end of the bridge that EndsWithNextLine promises: once the thread  *)
(* that copies to the link ended, no step takes away the line that meets the  *)
(* reset descriptor before it has ended the process.                          *)
EndUnderWay ==
    /\ rcvPc = "ended"
    /\ sndPc \in {"write", "ended"} \/ \E i \in DOMAIN (msg \o btIn) : (msg \o btIn)[i].end
EndNeverDropped ==
    [][EndUnderWay => EndUnderWay' \/ ~alive']_vars
=============================================================================
