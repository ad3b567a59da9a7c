----------------------------- MODULE KioskProofs -----------------------------
(***************************************************************************)
(* What Kiosk promises of an order, for every length of the bridge's buffer *)
(* and of the controller's queue, and any number of orders and connections. *)
(***************************************************************************)
EXTENDS Kiosk, SequenceTheorems, TLAPS

Sent == Piece(Text)

(* Beginnings and ends of a buffer, and a line written to it. *)
LEMMA Suffix ==
  ASSUME NEW Elem, NEW s \in Seq(Elem), NEW k \in 0 .. Len(s)
  PROVE  /\ SubSeq(s, k + 1, Len(s)) \in Seq(Elem)
         /\ Len(SubSeq(s, k + 1, Len(s))) = Len(s) - k
         /\ \A i \in 1 .. Len(s) - k : SubSeq(s, k + 1, Len(s))[i] = s[k + i]
<1>1. Len(s) \in Nat /\ k \in Nat /\ k + 1 \in Int /\ Len(s) \in Int  OBVIOUS
<1>2. \A i \in k + 1 .. Len(s) : s[i] \in Elem
  <2>1. \A i \in 1 .. Len(s) : s[i] \in Elem  BY ElementOfSeq
  <2> QED  BY <1>1, <2>1
<1>3. /\ SubSeq(s, k + 1, Len(s)) \in Seq(Elem)
      /\ Len(SubSeq(s, k + 1, Len(s))) = IF k + 1 <= Len(s) THEN Len(s) - (k + 1) + 1 ELSE 0
      /\ \A i \in 1 .. Len(s) - (k + 1) + 1 : SubSeq(s, k + 1, Len(s))[i] = s[(k + 1) + i - 1]
  BY <1>1, <1>2, SubSeqProperties
<1>4. Len(s) - (k + 1) + 1 = Len(s) - k /\ \A i \in Int : (k + 1) + i - 1 = k + i  BY <1>1
<1>5. Len(SubSeq(s, k + 1, Len(s))) = Len(s) - k  BY <1>1, <1>3
<1>6. ASSUME NEW i \in 1 .. Len(s) - k PROVE SubSeq(s, k + 1, Len(s))[i] = s[k + i]
  BY <1>1, <1>3, <1>4
<1> QED  BY <1>3, <1>5, <1>6

LEMMA Prefix ==
  ASSUME NEW Elem, NEW s \in Seq(Elem), NEW k \in 0 .. Len(s)
  PROVE  /\ SubSeq(s, 1, k) \in Seq(Elem)
         /\ Len(SubSeq(s, 1, k)) = k
         /\ \A i \in 1 .. k : SubSeq(s, 1, k)[i] = s[i]
<1>1. Len(s) \in Nat /\ k \in Nat /\ 1 \in Int /\ k \in Int  OBVIOUS
<1>2. \A i \in 1 .. k : s[i] \in Elem
  <2>1. \A i \in 1 .. Len(s) : s[i] \in Elem  BY ElementOfSeq
  <2> QED  BY <1>1, <2>1
<1>3. /\ SubSeq(s, 1, k) \in Seq(Elem)
      /\ Len(SubSeq(s, 1, k)) = IF 1 <= k THEN k - 1 + 1 ELSE 0
      /\ \A i \in 1 .. k - 1 + 1 : SubSeq(s, 1, k)[i] = s[1 + i - 1]
  BY <1>1, <1>2, SubSeqProperties
<1>4. k - 1 + 1 = k /\ \A i \in Int : 1 + i - 1 = i  BY <1>1
<1> QED  BY <1>1, <1>3, <1>4

LEMMA LineType ==
  ASSUME NEW t \in Text
  PROVE  /\ Line(t) \in Seq(Sent) /\ Len(Line(t)) = 2
         /\ Line(t)[1] = [text |-> t, end |-> FALSE]
         /\ Line(t)[2] = [text |-> t, end |-> TRUE]
<1> DEFINE a == [text |-> t, end |-> FALSE]  b == [text |-> t, end |-> TRUE]
<1>1. a \in Sent /\ b \in Sent  BY DEF Sent, Piece
<1>2. Line(t) = <<a, b>>  BY DEF Line
<1> HIDE DEF a, b
<1>3. <<a, b>> \in Seq(Sent) /\ Len(<<a, b>>) = 2 /\ <<a, b>>[1] = a /\ <<a, b>>[2] = b  BY <1>1
<1> QED  BY <1>2, <1>3 DEF a, b

-----------------------------------------------------------------------------
(* Types.  What runs is left to the end, since it follows from what is queued. *)
Buffers ==
    /\ panelOut \in Seq(Text)
    /\ msg \in Seq(Sent) /\ Len(msg) <= BUF_SIZE
    /\ name_msg \in Seq(Sent) /\ down \in Seq(Sent)
    /\ btOut \in Seq(Sent) /\ btIn \in Seq(Sent)
    /\ up \in Seq(Seq(Sent))
Records ==
    /\ queue \in Seq(Text \ {0}) /\ Len(queue) <= QUEUE_LEN
    /\ ordered \in Seq(Product) /\ Len(ordered) <= MaxOrders
    /\ reached \in Seq(Text \ {0}) /\ driven \in Seq(Text \ {0}) /\ acked \in Seq(Text \ {0})
    /\ early \subseteq 1 .. Len(ordered)
Flags ==
    /\ sockfd \in BOOLEAN /\ alive \in BOOLEAN /\ serverUp \in BOOLEAN /\ rst \in BOOLEAN
    /\ sndPc \in {"select", "write", "ended"}
    /\ rcvPc \in {"call", "read", "write", "ended"}
    /\ btLink \in {"up", "lost", "closed"}
    /\ conn \in {"off", "connecting", "on"} /\ connects \in 0 .. MaxConnects
    /\ session \in {"none", "login", "in", "refused"}
    /\ slot \in BOOLEAN /\ reader \in BOOLEAN /\ rx \in BOOLEAN
Filled ==
    /\ sndPc = "write" => Len(msg) > 0
    /\ \A i \in DOMAIN up : Len(up[i]) > 0
Shape == Buffers /\ Records /\ Flags /\ Filled

LEMMA ZeroText == 0 \in Text
BY KioskConstants DEF Text

LEMMA ShapeInit == Init => Shape
<1> SUFFICES ASSUME Init PROVE Shape  OBVIOUS
<1>1. Line(0) \in Seq(Sent)  BY LineType, ZeroText
<1>2. Buffers
  <2>1. \A T : <<>> \in Seq(T) /\ Len(<<>>) = 0  BY EmptySeq
  <2>2. 0 <= BUF_SIZE  BY BridgeConstants
  <2> QED  BY <1>1, <2>1, <2>2 DEF Init, BridgeInit, Buffers
<1>3. Records  BY KioskConstants DEF Init, Records
<1>4. Flags
  <2>1. connects \in 0 .. MaxConnects  BY KioskConstants DEF Init
  <2> QED  BY <2>1 DEF Init, BridgeInit, Flags
<1>5. Filled  BY DEF Init, BridgeInit, Filled
<1> QED  BY <1>2, <1>3, <1>4, <1>5 DEF Shape

LEMMA ShapePanel == Shape /\ Panel => Shape'
<1> SUFFICES ASSUME Shape, Panel PROVE Shape'  OBVIOUS
<1> USE DEF bridgeVars, socket, radio, panel, server, control, history
<1>0. Filled'
  BY DEF Panel, Connect, Connected, Lost, Abandon, Disconnect, Order, Shape, Filled
<1>1. CASE Connect
  <2>1. Buffers' /\ Records'  BY <1>1 DEF Connect, Shape, Buffers, Records
  <2>2. Flags'
    <3>1. connects \in Nat /\ connects + 1 <= MaxConnects
      BY <1>1, KioskConstants DEF Connect, Shape, Flags
    <3>2. connects' \in 0 .. MaxConnects  BY <1>1, <3>1, KioskConstants DEF Connect
    <3> QED  BY <1>1, <3>2 DEF Connect, Shape, Flags
  <2> QED  BY <1>0, <2>1, <2>2 DEF Shape
<1>2. CASE Connected
  <2>1. panelOut' \in Seq(Text)  BY <1>2, ZeroText DEF Connected, Shape, Buffers
  <2>2. Buffers' /\ Records'  BY <1>2, <2>1 DEF Connected, Shape, Buffers, Records
  <2>3. Flags'  BY <1>2 DEF Connected, Shape, Flags
  <2> QED  BY <1>0, <2>2, <2>3 DEF Shape
<1>3. CASE Lost
  <2>1. Buffers' /\ Records'  BY <1>3 DEF Lost, Shape, Buffers, Records
  <2>2. Flags'  BY <1>3 DEF Lost, Shape, Flags
  <2> QED  BY <1>0, <2>1, <2>2 DEF Shape
<1>4. CASE Disconnect
  <2>1. Buffers' /\ Records'  BY <1>4 DEF Disconnect, Shape, Buffers, Records
  <2>2. Flags'  BY <1>4 DEF Disconnect, Shape, Flags
  <2> QED  BY <1>0, <2>1, <2>2 DEF Shape
<1>5. ASSUME NEW p \in Product, Order(p) PROVE Shape'
  <2>1. /\ ordered' \in Seq(Product) /\ Len(ordered') = Len(ordered) + 1 /\ Len(ordered) \in Nat
        /\ Len(ordered') <= MaxOrders
    BY <1>5, KioskConstants DEF Order, Shape, Records
  <2>2. Len(ordered') \in Text  BY <2>1, KioskConstants DEF Text
  <2>3. panelOut' \in Seq(Text)
    <3>1. panelOut \in Seq(Text)  BY DEF Shape, Buffers
    <3>2. panelOut' = panelOut \/ panelOut' = Append(panelOut, Len(ordered'))  BY <1>5 DEF Order
    <3> QED  BY <2>2, <3>1, <3>2
  <2>4. early' \subseteq 1 .. Len(ordered')
    <3>1. early \subseteq 1 .. Len(ordered)  BY DEF Shape, Records
    <3>2. early' \subseteq early \cup {Len(ordered')}  BY <1>5 DEF Order
    <3> QED  BY <2>1, <3>1, <3>2
  <2>5. Buffers'  BY <1>5, <2>3 DEF Order, Shape, Buffers
  <2>6. Records'  BY <1>5, <2>1, <2>4 DEF Order, Shape, Records
  <2>7. Flags'  BY <1>5 DEF Order, Shape, Flags
  <2> QED  BY <1>0, <2>5, <2>6, <2>7 DEF Shape
<1>6. CASE Abandon
  <2>1. panelOut' = panelOut \/ panelOut' = <<>>  BY <1>6 DEF Abandon
  <2>2. panelOut' \in Seq(Text)
    <3>1. panelOut \in Seq(Text)  BY DEF Shape, Buffers
    <3>2. CASE panelOut' = panelOut  BY <3>1, <3>2
    <3>3. CASE panelOut' = <<>>  BY <3>3
    <3> QED  BY <2>1, <3>2, <3>3
  <2>3. Buffers' /\ Records'  BY <1>6, <2>2 DEF Abandon, Shape, Buffers, Records
  <2>4. Flags'  BY <1>6 DEF Abandon, Shape, Flags
  <2> QED  BY <1>0, <2>3, <2>4 DEF Shape
<1> QED  BY <1>1, <1>2, <1>3, <1>4, <1>5, <1>6 DEF Panel

(* What is left of the panel's lines, and of the bridge's writes. *)
LEMMA RestOfPanel ==
  ASSUME Shape, NEW k \in 1 .. Len(panelOut), panelOut' = SubSeq(panelOut, k + 1, Len(panelOut))
  PROVE  /\ panelOut' \in Seq(Text) /\ Len(panelOut') = Len(panelOut) - k /\ Len(panelOut) \in Nat
         /\ \A i \in 1 .. Len(panelOut') : panelOut'[i] = panelOut[k + i]
<1>1. panelOut \in Seq(Text)  BY DEF Shape, Buffers
<1>2. k \in 0 .. Len(panelOut) /\ Len(panelOut) \in Nat  BY <1>1
<1> QED  BY <1>1, <1>2, Suffix

LEMMA RestOfUp ==
  ASSUME Shape, NEW k \in 1 .. Len(up), up' = SubSeq(up, k + 1, Len(up))
  PROVE  /\ up' \in Seq(Seq(Sent)) /\ Len(up') = Len(up) - k /\ Len(up) \in Nat
         /\ \A i \in 1 .. Len(up') : up'[i] = up[k + i]
<1> DEFINE W == Seq(Sent)
<1>1. up \in Seq(W)  BY DEF Shape, Buffers
<1> HIDE DEF W
<1>2. k \in 0 .. Len(up) /\ Len(up) \in Nat  BY <1>1
<1>3. /\ up' \in Seq(W) /\ Len(up') = Len(up) - k
      /\ \A i \in 1 .. Len(up') : up'[i] = up[k + i]
  BY <1>1, <1>2, Suffix
<1> QED  BY <1>2, <1>3 DEF W

(* A line for the bridge arrives, or nobody is there for it. *)
LEMMA DownType ==
  ASSUME Shape, NEW t \in Text, down' = IF slot /\ alive THEN down \o Line(t) ELSE down
  PROVE  down' \in Seq(Sent)
<1>1. down \in Seq(Sent) /\ Line(t) \in Seq(Sent)  BY LineType DEF Shape, Buffers
<1> QED  BY <1>1, ConcatProperties

LEMMA ShapeServer == Shape /\ (Server \/ ServerEnd) => Shape'
<1> SUFFICES ASSUME Shape, Server \/ ServerEnd PROVE Shape'  OBVIOUS
<1> USE DEF bridgeVars, socket, radio, threads, panel, server, control, history
<1>0. CASE RelayAck
  <2>1. PICK k \in 1 .. Len(up) : up' = SubSeq(up, k + 1, Len(up))
    BY <1>0 DEF RelayAck
  <2>2. up' \in Seq(Seq(Sent))  BY <2>1, RestOfUp
  <2>3. acked' \in Seq(Text \ {0})
    <3>1. up[1] \in Seq(Sent) /\ Len(up[1]) > 0
      <4>1. 1 \in DOMAIN up  BY <2>1 DEF Shape, Buffers
      <4> DEFINE W == Seq(Sent)
      <4>2. up \in Seq(W)  BY DEF Shape, Buffers
      <4> HIDE DEF W
      <4>3. up[1] \in W  BY <4>1, <4>2
      <4> QED  BY <4>1, <4>3 DEF W, Shape, Filled
    <3>2. up[1][1] \in Sent  BY <3>1
    <3>3. up[1][1].text \in Text  BY <3>2 DEF Sent, Piece
    <3>4. acked \in Seq(Text \ {0})  BY DEF Shape, Records
    <3> QED  BY <1>0, <3>3, <3>4 DEF RelayAck
  <2>4. Buffers' /\ Records'  BY <1>0, <2>2, <2>3 DEF RelayAck, Shape, Buffers, Records
  <2>5. Flags'  BY <1>0 DEF RelayAck, Shape, Flags
  <2>6. Filled'
    <3>1. \A i \in DOMAIN up' : Len(up'[i]) > 0
      <4> DEFINE W == Seq(Sent)
      <4>1. up \in Seq(W) /\ up' \in Seq(W)  BY <2>2 DEF Shape, Buffers
      <4> HIDE DEF W
      <4>2. DOMAIN up' = 1 .. Len(up') /\ DOMAIN up = 1 .. Len(up) /\ Len(up) \in Nat
        BY <4>1
      <4>3. Len(up') = Len(up) - k /\ \A i \in 1 .. Len(up') : up'[i] = up[k + i]
        BY <2>1, RestOfUp
      <4>4. \A i \in 1 .. Len(up') : k + i \in DOMAIN up  BY <4>2, <4>3
      <4> QED  BY <4>2, <4>3, <4>4 DEF Shape, Filled
    <3> QED  BY <1>0, <3>1 DEF RelayAck, Shape, Filled
  <2> QED  BY <2>4, <2>5, <2>6 DEF Shape
<1>1. CASE Login
  <2>1. PICK k \in 1 .. Len(panelOut) : panelOut' = SubSeq(panelOut, k + 1, Len(panelOut))
    BY <1>1 DEF Login
  <2>2. panelOut' \in Seq(Text)  BY <2>1, RestOfPanel
  <2>3. Buffers' /\ Records'  BY <1>1, <2>2 DEF Login, Shape, Buffers, Records
  <2>4. slot' \in BOOLEAN /\ session' \in {"in", "refused"}  BY <1>1 DEF Login
  <2>5. Flags'  BY <1>1, <2>4 DEF Login, Shape, Flags
  <2>6. Filled'  BY <1>1 DEF Login, Shape, Filled
  <2> QED  BY <2>6, <2>3, <2>5 DEF Shape
<1>2. CASE RelayOrder
  <2>1. PICK k \in 1 .. Len(panelOut) : panelOut' = SubSeq(panelOut, k + 1, Len(panelOut))
    BY <1>2 DEF RelayOrder
  <2>2. panelOut' \in Seq(Text)  BY <2>1, RestOfPanel
  <2>3. Head(panelOut) \in Text  BY <1>2, HeadTailProperties DEF RelayOrder, Shape, Buffers
  <2>4. down' \in Seq(Sent)  BY <1>2, <2>3, DownType DEF RelayOrder
  <2>5. Buffers' /\ Records'  BY <1>2, <2>2, <2>4 DEF RelayOrder, Shape, Buffers, Records
  <2>6. Flags'  BY <1>2 DEF RelayOrder, Shape, Flags
  <2>7. Filled'  BY <1>2 DEF RelayOrder, Shape, Filled
  <2> QED  BY <2>7, <2>5, <2>6 DEF Shape
<1>3. CASE SessionEnds
  <2>1. Buffers' /\ Records'  BY <1>3 DEF SessionEnds, Shape, Buffers, Records
  <2>2. Flags'  BY <1>3 DEF SessionEnds, Shape, Flags
  <2>3. Filled'  BY <1>3 DEF SessionEnds, Shape, Filled
  <2> QED  BY <2>3, <2>1, <2>2 DEF Shape
<1>4. CASE ServerEnd
  <2>1. Buffers' /\ Records'  BY <1>4 DEF ServerEnd, Shape, Buffers, Records
  <2>4. serverUp' \in BOOLEAN  BY <1>4 DEF ServerEnd
  <2>2. Flags'  BY <1>4, <2>4 DEF ServerEnd, Shape, Flags
  <2>3. Filled'  BY <1>4 DEF ServerEnd, Shape, Filled
  <2> QED  BY <2>3, <2>1, <2>2 DEF Shape
<1> QED  BY <1>0, <1>1, <1>2, <1>3, <1>4 DEF Server

LEMMA ShapeRecv == Shape /\ BridgeStep /\ recv_msg => Shape'
<1> SUFFICES ASSUME Shape, BridgeStep, recv_msg PROVE Shape'  OBVIOUS
<1> USE DEF socket, radio, panel, server, control, history
<1>1. CASE RecvCall
  <2>1. Buffers' /\ Records'  BY <1>1 DEF RecvCall, BridgeStep, Shape, Buffers, Records
  <2>2. Flags'  BY <1>1 DEF RecvCall, BridgeStep, Shape, Flags
  <2>3. Filled'  BY <1>1 DEF RecvCall, BridgeStep, Shape, Filled
  <2> QED  BY <2>1, <2>2, <2>3 DEF Shape
<1>2. CASE RecvRead
  <2>1. PICK n \in 1 .. Len(down) : /\ name_msg' = SubSeq(down, 1, n)
                                    /\ down' = SubSeq(down, n + 1, Len(down))
    BY <1>2 DEF RecvRead
  <2>2. down \in Seq(Sent) /\ n \in 0 .. Len(down)  BY DEF Shape, Buffers
  <2>3. name_msg' \in Seq(Sent) /\ down' \in Seq(Sent)  BY <2>1, <2>2, Prefix, Suffix
  <2>4. Buffers' /\ Records'  BY <1>2, <2>3 DEF RecvRead, BridgeStep, Shape, Buffers, Records
  <2>5. Flags'  BY <1>2 DEF RecvRead, BridgeStep, Shape, Flags
  <2>6. Filled'  BY <1>2 DEF RecvRead, BridgeStep, Shape, Filled
  <2> QED  BY <2>4, <2>5, <2>6 DEF Shape
<1>3. CASE RecvEnd
  <2>1. Buffers' /\ Records'  BY <1>3 DEF RecvEnd, BridgeStep, Shape, Buffers, Records
  <2>2. sockfd' \in BOOLEAN  BY <1>3 DEF RecvEnd
  <2>3. Flags'  BY <1>3, <2>2 DEF RecvEnd, BridgeStep, Shape, Flags
  <2>4. Filled'  BY <1>3 DEF RecvEnd, BridgeStep, Shape, Filled
  <2> QED  BY <2>1, <2>3, <2>4 DEF Shape
<1>4. CASE RecvWrite
  <2>1. btOut' \in Seq(Sent)
    <3>1. btOut \in Seq(Sent) /\ name_msg \in Seq(Sent)  BY DEF Shape, Buffers
    <3>2. btOut \o name_msg \in Seq(Sent)  BY <3>1, ConcatProperties
    <3> QED  BY <1>4, <3>1, <3>2 DEF RecvWrite
  <2>2. name_msg' \in Seq(Sent)  BY <1>4 DEF RecvWrite
  <2>3. Buffers' /\ Records'  BY <1>4, <2>1, <2>2 DEF RecvWrite, BridgeStep, Shape, Buffers, Records
  <2>4. Flags'  BY <1>4 DEF RecvWrite, BridgeStep, Shape, Flags
  <2>5. Filled'  BY <1>4 DEF RecvWrite, BridgeStep, Shape, Filled
  <2> QED  BY <2>3, <2>4, <2>5 DEF Shape
<1> QED  BY <1>1, <1>2, <1>3, <1>4 DEF recv_msg

(* What a read of the link leaves of it, and what the line grows by. *)
LEMMA ReadFacts ==
  ASSUME Shape, SndRead
  PROVE  \E n \in 1 .. Len(btIn) :
           /\ n \in 0 .. Len(btIn) /\ Len(btIn) \in Nat
           /\ msg' = msg \o SubSeq(btIn, 1, n) /\ btIn' = SubSeq(btIn, n + 1, Len(btIn))
           /\ msg' \in Seq(Sent) /\ btIn' \in Seq(Sent)
           /\ Len(msg') = Len(msg) + n /\ Len(msg') <= BUF_SIZE
<1>1. PICK n \in 1 .. Len(btIn) : /\ n <= BUF_SIZE - Len(msg)
                                  /\ msg' = msg \o SubSeq(btIn, 1, n)
                                  /\ btIn' = SubSeq(btIn, n + 1, Len(btIn))
  BY DEF SndRead
<1>2. msg \in Seq(Sent) /\ btIn \in Seq(Sent) /\ n \in 0 .. Len(btIn) /\ Len(btIn) \in Nat
  BY DEF Shape, Buffers
<1>3. SubSeq(btIn, 1, n) \in Seq(Sent) /\ Len(SubSeq(btIn, 1, n)) = n  BY <1>2, Prefix
<1>4. msg' \in Seq(Sent) /\ Len(msg') = Len(msg) + n  BY <1>1, <1>2, <1>3, ConcatProperties
<1>5. btIn' \in Seq(Sent)  BY <1>1, <1>2, Suffix
<1>6. Len(msg') <= BUF_SIZE  BY <1>1, <1>2, <1>4, BridgeConstants
<1> QED  BY <1>1, <1>2, <1>4, <1>5, <1>6

LEMMA ShapeSnd == Shape /\ BridgeStep /\ (send_msg \/ Exit) => Shape'
<1> SUFFICES ASSUME Shape, BridgeStep, send_msg \/ Exit PROVE Shape'  OBVIOUS
<1> USE DEF socket, radio, panel, server, control, history
<1>0. \A T : <<>> \in Seq(T) /\ Len(<<>>) = 0  BY EmptySeq
<1>00. 0 <= BUF_SIZE  BY BridgeConstants
<1>1. CASE SndRead
  <2>1. msg' \in Seq(Sent) /\ btIn' \in Seq(Sent) /\ Len(msg') <= BUF_SIZE /\ Len(msg') > 0
    <3>1. Len(msg) \in Nat  BY DEF Shape, Buffers
    <3> QED  BY <1>1, <3>1, ReadFacts
  <2>2. Buffers' /\ Records'  BY <1>1, <2>1 DEF SndRead, BridgeStep, Shape, Buffers, Records
  <2>3. sndPc' \in {"select", "write"}  BY <1>1 DEF SndRead
  <2>4. Flags'  BY <1>1, <2>3 DEF SndRead, BridgeStep, Shape, Flags
  <2>5. Filled'  BY <1>1, <2>1 DEF SndRead, BridgeStep, Shape, Filled
  <2> QED  BY <2>2, <2>4, <2>5 DEF Shape
<1>2. CASE SndReadNothing
  <2>1. Buffers' /\ Records'  BY <1>2 DEF SndReadNothing, BridgeStep, Shape, Buffers, Records
  <2>2. sockfd' \in BOOLEAN  BY <1>2 DEF SndReadNothing
  <2>3. Flags'  BY <1>2, <2>2 DEF SndReadNothing, BridgeStep, Shape, Flags
  <2>4. Filled'  BY <1>2 DEF SndReadNothing, BridgeStep, Shape, Filled
  <2> QED  BY <2>1, <2>3, <2>4 DEF Shape
<1>3. CASE SndReadError
  <2>1. Buffers' /\ Records'  BY <1>3 DEF SndReadError, BridgeStep, Shape, Buffers, Records
  <2>2. sockfd' \in BOOLEAN  BY <1>3 DEF SndReadError, Shape, Flags
  <2>3. sndPc' \in {"select", "ended"} /\ btLink' = "closed"  BY <1>3 DEF SndReadError
  <2>4. Flags'  BY <1>3, <2>2, <2>3 DEF SndReadError, BridgeStep, Shape, Flags
  <2>5. Filled'  BY <1>3, <2>3 DEF SndReadError, BridgeStep, Shape, Filled
  <2> QED  BY <2>1, <2>4, <2>5 DEF Shape
<1>4. CASE SndWrite
  <2> DEFINE W == Seq(Sent)
  <2>1. up \in Seq(W) /\ msg \in W /\ Len(msg) > 0  BY <1>4 DEF SndWrite, Shape, Buffers, Filled
  <2> HIDE DEF W
  <2>2. /\ up' \in Seq(W) /\ Len(up') = Len(up) + 1 /\ up'[Len(up) + 1] = msg
        /\ \A i \in 1 .. Len(up) : up'[i] = up[i]
    <3>1. up' = Append(up, msg)  BY <1>4 DEF SndWrite
    <3> QED  BY <2>1, <3>1, AppendProperties
  <2>3. up' \in Seq(Seq(Sent))  BY <2>2 DEF W
  <2>4. Buffers'
    <3>1. msg' = <<>>  BY <1>4 DEF SndWrite
    <3>2. msg' \in Seq(Sent) /\ Len(msg') <= BUF_SIZE  BY <1>0, <1>00, <3>1
    <3> QED  BY <1>4, <2>3, <3>2 DEF SndWrite, BridgeStep, Shape, Buffers
  <2>5. Records'  BY <1>4 DEF SndWrite, BridgeStep, Shape, Records
  <2>6. Flags'  BY <1>4 DEF SndWrite, BridgeStep, Shape, Flags
  <2>7. \A i \in DOMAIN up' : Len(up'[i]) > 0
    <3>1. \A i \in DOMAIN up : Len(up[i]) > 0  BY DEF Shape, Filled
    <3>2. DOMAIN up = 1 .. Len(up) /\ DOMAIN up' = 1 .. Len(up) + 1 /\ Len(up) \in Nat  BY <2>1, <2>2
    <3>3. ASSUME NEW i \in 1 .. Len(up) + 1 PROVE Len(up'[i]) > 0
      <4>1. CASE i \in 1 .. Len(up)  BY <2>2, <3>1, <3>2, <4>1
      <4>2. CASE i = Len(up) + 1  BY <2>1, <2>2, <4>2
      <4> QED  BY <3>2, <4>1, <4>2
    <3> QED  BY <3>2, <3>3
  <2>8. Filled'  BY <1>4, <2>7 DEF SndWrite, Filled
  <2> QED  BY <2>4, <2>5, <2>6, <2>8 DEF Shape
<1>5. CASE SndWriteFails
  <2>1. msg' \in Seq(Sent) /\ Len(msg') <= BUF_SIZE  BY <1>0, <1>00, <1>5 DEF SndWriteFails
  <2>2. Buffers' /\ Records'  BY <1>5, <2>1 DEF SndWriteFails, BridgeStep, Shape, Buffers, Records
  <2>3. sockfd' \in BOOLEAN  BY <1>5 DEF SndWriteFails
  <2>4. Flags'  BY <1>5, <2>3 DEF SndWriteFails, BridgeStep, Shape, Flags
  <2>5. Filled'  BY <1>5 DEF SndWriteFails, BridgeStep, Shape, Filled
  <2> QED  BY <2>2, <2>4, <2>5 DEF Shape
<1>6. CASE SndWriteClosed
  <2>1. msg' \in Seq(Sent) /\ Len(msg') <= BUF_SIZE  BY <1>0, <1>00, <1>6 DEF SndWriteClosed
  <2>2. Buffers' /\ Records'  BY <1>6, <2>1 DEF SndWriteClosed, BridgeStep, Shape, Buffers, Records
  <2>3. alive' \in BOOLEAN /\ rst' \in BOOLEAN  BY <1>6 DEF SndWriteClosed
  <2>4. Flags'  BY <1>6, <2>3 DEF SndWriteClosed, BridgeStep, Shape, Flags
  <2>5. Filled'  BY <1>6 DEF SndWriteClosed, BridgeStep, Shape, Filled
  <2> QED  BY <2>2, <2>4, <2>5 DEF Shape
<1>7. CASE Exit
  <2>1. Buffers' /\ Records'  BY <1>7 DEF Exit, BridgeStep, Shape, Buffers, Records
  <2>2. alive' \in BOOLEAN  BY <1>7 DEF Exit
  <2>3. Flags'  BY <1>7, <2>2 DEF Exit, BridgeStep, Shape, Flags
  <2>4. Filled'  BY <1>7 DEF Exit, BridgeStep, Shape, Filled
  <2> QED  BY <2>1, <2>3, <2>4 DEF Shape
<1> QED  BY <1>1, <1>2, <1>3, <1>4, <1>5, <1>6, <1>7 DEF send_msg

(* The end of a line: what it leaves on the link, and what it is about. *)
LEMMA ReceiveFacts ==
  ASSUME Shape, Receive
  PROVE  /\ Len(btOut) \in Nat /\ Len(btOut) > 0 /\ btOut[1] \in Sent
         /\ \E n \in 1 .. Len(btOut) :
              /\ btOut' = SubSeq(btOut, n + 1, Len(btOut))
              /\ ~btOut[1].end => n >= 2
         /\ btOut[1].text = 0 => UNCHANGED <<queue, running, btIn, reached>>
         /\ btOut[1].text # 0 =>
              /\ Take(btOut[1].text)
              /\ reached' = Append(reached, btOut[1].text)
              /\ btIn' = IF btLink = "up"
                         THEN btIn \o Line(IF btOut[1].end THEN 0 ELSE btOut[1].text) ELSE btIn
         /\ UNCHANGED <<threads, socket, btLink, panel, server, rx, ordered, driven, acked, early>>
<1>1. btOut \in Seq(Sent) /\ Len(btOut) \in Nat /\ DOMAIN btOut = 1 .. Len(btOut)
  BY DEF Shape, Buffers
<1>2. Len(btOut) > 0  BY <1>1 DEF Receive
<1>3. btOut[1] \in Sent  BY <1>1, <1>2
<1>4. \E n \in 1 .. Len(btOut) :
        /\ btOut' = SubSeq(btOut, n + 1, Len(btOut))
        /\ ~btOut[1].end => n >= 2
  <2> DEFINE len == IF btOut[1].end THEN 1 ELSE 2
  <2>1. PICK lost \in 0 .. Len(btOut) - len : btOut' = SubSeq(btOut, len + lost + 1, Len(btOut))
    BY DEF Receive
  <2>2. len \in {1, 2} /\ (~btOut[1].end => len = 2)  OBVIOUS
  <2> HIDE DEF len
  <2>3. len + lost \in 1 .. Len(btOut) /\ (len = 2 => len + lost >= 2)  BY <1>1, <2>1, <2>2
  <2> QED  BY <2>1, <2>2, <2>3
<1>5. /\ btOut[1].text = 0 => UNCHANGED <<queue, running, btIn, reached>>
      /\ btOut[1].text # 0 =>
           /\ Take(btOut[1].text)
           /\ reached' = Append(reached, btOut[1].text)
           /\ btIn' = IF btLink = "up"
                      THEN btIn \o Line(IF btOut[1].end THEN 0 ELSE btOut[1].text) ELSE btIn
      /\ UNCHANGED <<threads, socket, btLink, panel, server, rx, ordered, driven, acked, early>>
  BY DEF Receive
<1> QED  BY <1>1, <1>2, <1>3, <1>4, <1>5

LEMMA RestOfLink ==
  ASSUME Shape, NEW n \in 1 .. Len(btOut), btOut' = SubSeq(btOut, n + 1, Len(btOut))
  PROVE  /\ btOut' \in Seq(Sent) /\ Len(btOut') = Len(btOut) - n /\ Len(btOut) \in Nat
         /\ \A i \in 1 .. Len(btOut') : btOut'[i] = btOut[n + i]
<1>1. btOut \in Seq(Sent)  BY DEF Shape, Buffers
<1>2. n \in 0 .. Len(btOut) /\ Len(btOut) \in Nat  BY <1>1
<1> QED  BY <1>1, <1>2, Suffix

LEMMA TextOf == \A s \in Sent : s.text \in Text /\ s.end \in BOOLEAN
BY DEF Sent, Piece

LEMMA ShapeReceive == Shape /\ Receive => Shape'
<1> SUFFICES ASSUME Shape, Receive PROVE Shape'  OBVIOUS
<1> USE DEF socket, threads, panel, server
<1> DEFINE k == btOut[1].text  a == IF btOut[1].end THEN 0 ELSE k
<1>1. k \in Text /\ a \in Text  BY ReceiveFacts, TextOf, ZeroText
<1>2. btOut' \in Seq(Sent)
  <2>1. PICK n \in 1 .. Len(btOut) : btOut' = SubSeq(btOut, n + 1, Len(btOut))  BY ReceiveFacts
  <2> QED  BY <2>1, RestOfLink
<1>3. btIn' \in Seq(Sent)
  <2>1. btIn \in Seq(Sent)  BY DEF Shape, Buffers
  <2>2. btIn' = btIn \/ btIn' = btIn \o Line(a)  BY ReceiveFacts
  <2> HIDE DEF a
  <2>3. Line(a) \in Seq(Sent)  BY <1>1, LineType
  <2> QED  BY <2>1, <2>2, <2>3, ConcatProperties
<1>4. reached' \in Seq(Text \ {0})
  <2>1. reached \in Seq(Text \ {0})  BY DEF Shape, Records
  <2>2. reached' = reached \/ (k # 0 /\ reached' = Append(reached, k))  BY ReceiveFacts
  <2> QED  BY <1>1, <2>1, <2>2
<1>5. queue' \in Seq(Text \ {0}) /\ Len(queue') <= QUEUE_LEN
  <2>1. queue \in Seq(Text \ {0}) /\ Len(queue) <= QUEUE_LEN  BY DEF Shape, Records
  <2>2. queue' = queue \/ (k # 0 /\ Len(queue) < QUEUE_LEN /\ queue' = Append(queue, k))
    BY ReceiveFacts DEF Take
  <2>3. CASE queue' = queue  BY <2>1, <2>3
  <2>4. CASE k # 0 /\ Len(queue) < QUEUE_LEN /\ queue' = Append(queue, k)
    <3>1. queue' \in Seq(Text \ {0}) /\ Len(queue') = Len(queue) + 1 /\ Len(queue) \in Nat
      BY <1>1, <2>1, <2>4
    <3> QED  BY <2>4, <3>1, KioskConstants
  <2> QED  BY <2>2, <2>3, <2>4
<1> HIDE DEF k, a
<1>6. Buffers'  BY <1>2, <1>3, ReceiveFacts DEF Shape, Buffers
<1>7. Records'  BY <1>4, <1>5, ReceiveFacts DEF Shape, Records
<1>8. Flags'  BY ReceiveFacts DEF Shape, Flags
<1>9. Filled'  BY ReceiveFacts DEF Shape, Filled
<1> QED  BY <1>6, <1>7, <1>8, <1>9 DEF Shape

LEMMA ServeFacts ==
  ASSUME Shape, Serve
  PROVE  /\ Len(queue) \in Nat /\ Len(queue) > 0 /\ queue[1] \in Text \ {0}
         /\ queue' \in Seq(Text \ {0}) /\ Len(queue') = Len(queue) - 1
         /\ \A i \in 1 .. Len(queue') : queue'[i] = queue[i + 1]
         /\ driven' = Append(driven, queue[1])
         /\ driven' \in Seq(Text \ {0}) /\ Len(driven') = Len(driven) + 1 /\ Len(driven) \in Nat
         /\ driven'[Len(driven) + 1] = queue[1]
         /\ \A i \in 1 .. Len(driven) : driven'[i] = driven[i]
<1> DEFINE T == Text \ {0}
<1>1. queue \in Seq(T) /\ queue # <<>> /\ driven \in Seq(T)  BY DEF Serve, Shape, Records
<1> HIDE DEF T
<1>2. Len(queue) \in Nat /\ Len(queue) > 0 /\ queue[1] \in T  BY <1>1
<1>3. /\ Tail(queue) \in Seq(T) /\ Len(Tail(queue)) = Len(queue) - 1
      /\ \A i \in 1 .. Len(Tail(queue)) : Tail(queue)[i] = queue[i + 1]
  BY <1>1, HeadTailProperties
<1>4. queue' = Tail(queue) /\ driven' = Append(driven, queue[1])
  <2>1. Head(queue) = queue[1]  BY <1>1
  <2> QED  BY <2>1 DEF Serve
<1>5. /\ driven' \in Seq(T) /\ Len(driven') = Len(driven) + 1 /\ Len(driven) \in Nat
      /\ driven'[Len(driven) + 1] = queue[1]
      /\ \A i \in 1 .. Len(driven) : driven'[i] = driven[i]
  BY <1>1, <1>2, <1>4, AppendProperties
<1> QED  BY <1>2, <1>3, <1>4, <1>5 DEF T

LEMMA ShapeStep == Shape /\ [Next]_vars => Shape'
<1> SUFFICES ASSUME Shape, [Next]_vars PROVE Shape'  OBVIOUS
<1> USE DEF bridgeVars, socket, radio, threads, panel, server, control, history
<1>1. CASE Panel  BY <1>1, ShapePanel
<1>2. CASE Server \/ ServerEnd  BY <1>2, ShapeServer
<1>3. CASE BridgeStep
  <2>1. recv_msg \/ send_msg \/ Exit  BY <1>3 DEF BridgeStep, Bridge
  <2> QED  BY <1>3, <2>1, ShapeRecv, ShapeSnd
<1>4. CASE LinkEnd
  <2>1. Buffers' /\ Records'  BY <1>4 DEF LinkEnd, Shape, Buffers, Records
  <2>2. btLink' \in {"lost", "closed"}  BY <1>4 DEF LinkEnd
  <2>3. Flags'  BY <1>4, <2>2 DEF LinkEnd, Shape, Flags
  <2>4. Filled'  BY <1>4 DEF LinkEnd, Shape, Filled
  <2> QED  BY <2>1, <2>3, <2>4 DEF Shape
<1>5. CASE LineError
  <2>1. Buffers' /\ Records'  BY <1>5 DEF LineError, Shape, Buffers, Records
  <2>2. rx' \in BOOLEAN  BY <1>5 DEF LineError
  <2>3. Flags'  BY <1>5, <2>2 DEF LineError, Shape, Flags
  <2>4. Filled'  BY <1>5 DEF LineError, Shape, Filled
  <2> QED  BY <2>1, <2>3, <2>4 DEF Shape
<1>6. CASE Receive  BY <1>6, ShapeReceive
<1>7. CASE Serve
  <2>1. Len(queue') <= QUEUE_LEN
    <3>1. Len(queue) <= QUEUE_LEN  BY DEF Shape, Records
    <3> QED  BY <1>7, <3>1, ServeFacts, KioskConstants
  <2>2. queue' \in Seq(Text \ {0}) /\ driven' \in Seq(Text \ {0})  BY <1>7, ServeFacts
  <2>3. Records'  BY <1>7, <2>1, <2>2 DEF Serve, Shape, Records
  <2>4. Buffers'  BY <1>7 DEF Serve, Shape, Buffers
  <2>5. Flags'  BY <1>7 DEF Serve, Shape, Flags
  <2>6. Filled'  BY <1>7 DEF Serve, Shape, Filled
  <2> QED  BY <2>3, <2>4, <2>5, <2>6 DEF Shape
<1>8. CASE Stop
  <2>1. Buffers' /\ Records'  BY <1>8 DEF Stop, Shape, Buffers, Records
  <2>2. Flags'  BY <1>8 DEF Stop, Shape, Flags
  <2>3. Filled'  BY <1>8 DEF Stop, Shape, Filled
  <2> QED  BY <2>1, <2>2, <2>3 DEF Shape
<1>9. CASE UNCHANGED vars
  <2>1. Buffers' /\ Records'  BY <1>9 DEF vars, Shape, Buffers, Records
  <2>2. Flags'  BY <1>9 DEF vars, Shape, Flags
  <2>3. Filled'  BY <1>9 DEF vars, Shape, Filled
  <2> QED  BY <2>1, <2>2, <2>3 DEF Shape
<1> QED  BY <1>1, <1>2, <1>3, <1>4, <1>5, <1>6, <1>7, <1>8, <1>9 DEF Next, Controller

-----------------------------------------------------------------------------
(* The panel's lines: which orders stand before the login, and which behind. *)
Rise ==
    /\ \A i \in 1 .. Len(panelOut) : panelOut[i] <= Len(ordered)
    /\ \A i, j \in 1 .. Len(panelOut) : i < j /\ panelOut[j] # 0 => panelOut[i] < panelOut[j]
Place ==
    /\ conn = "on" => session # "none"
    /\ conn = "connecting" =>
         session = "none" /\ \A i \in 1 .. Len(panelOut) : panelOut[i] \in early
    /\ conn = "off" /\ session = "none" => Len(panelOut) = 0
    /\ session = "login" =>
         /\ Len(panelOut) > 0
         /\ panelOut[1] # 0 => panelOut[1] \in early
         /\ panelOut[1] = 0 => \A i \in 2 .. Len(panelOut) : panelOut[i] \notin early
    /\ session = "in" => \A i \in 1 .. Len(panelOut) : panelOut[i] \notin early
PanelInv == Rise /\ Place /\ SlotLostToEarlyOrder

LEMMA PanelInit == Init => PanelInv
BY DEF Init, PanelInv, Rise, Place, SlotLostToEarlyOrder

LEMMA PanelQuiet ==
  ASSUME PanelInv, UNCHANGED <<panelOut, ordered, early, conn, session, slot>>
  PROVE  PanelInv'
BY DEF PanelInv, Rise, Place, SlotLostToEarlyOrder

LEMMA PanelFacts ==
  ASSUME Shape
  PROVE  /\ panelOut \in Seq(Text) /\ Len(panelOut) \in Nat /\ Len(ordered) \in Nat
         /\ \A i \in 1 .. Len(panelOut) : panelOut[i] \in Nat
         /\ early \subseteq 1 .. Len(ordered)
<1>1. panelOut \in Seq(Text) /\ Len(panelOut) \in Nat  BY DEF Shape, Buffers
<1>2. \A i \in 1 .. Len(panelOut) : panelOut[i] \in Text  BY <1>1
<1>3. Text \subseteq Nat  BY KioskConstants DEF Text
<1>4. ordered \in Seq(Product) /\ early \subseteq 1 .. Len(ordered)  BY DEF Shape, Records
<1>5. Len(ordered) \in Nat  BY <1>4
<1>6. \A i \in 1 .. Len(panelOut) : panelOut[i] \in Nat  BY <1>2, <1>3
<1> QED  BY <1>1, <1>4, <1>5, <1>6

(* A line added to what the panel sent. *)
LEMMA PanelAppend ==
  ASSUME Shape, NEW t \in Text, panelOut' = Append(panelOut, t)
  PROVE  /\ Len(panelOut') = Len(panelOut) + 1 /\ panelOut'[Len(panelOut) + 1] = t
         /\ \A i \in 1 .. Len(panelOut) : panelOut'[i] = panelOut[i]
<1>1. panelOut \in Seq(Text)  BY DEF Shape, Buffers
<1> QED  BY <1>1, AppendProperties

LEMMA PanelOrder ==
  ASSUME Shape, PanelInv, NEW p \in Product, Order(p)
  PROVE  PanelInv'
<1> DEFINE n == Len(ordered) + 1
<1>1. /\ Len(ordered') = n /\ Len(ordered) \in Nat /\ n \in Text /\ n \notin early /\ n # 0
  <2>1. ordered \in Seq(Product) /\ Len(ordered) < MaxOrders /\ ordered' = Append(ordered, p)
    BY DEF Order, Shape, Records
  <2>2. Len(ordered') = n /\ Len(ordered) \in Nat  BY <2>1
  <2>3. n \in Text  BY <2>1, <2>2, KioskConstants DEF Text
  <2>4. n \notin early  BY <2>2, PanelFacts
  <2> QED  BY <2>2, <2>3, <2>4
<1>2. /\ UNCHANGED <<conn, session, slot>>
      /\ early' = IF conn = "on" THEN early ELSE early \cup {n}
  BY <1>1 DEF Order, server
<1>3. \A i \in 1 .. Len(panelOut) : panelOut[i] # n
  BY <1>1, PanelFacts DEF PanelInv, Rise
<1>4. SlotLostToEarlyOrder'
  BY <1>2 DEF PanelInv, SlotLostToEarlyOrder
<1>5. CASE conn = "off"
  <2>1. panelOut' = panelOut  BY <1>5 DEF Order
  <2>2. early' = early \cup {n}  BY <1>2, <1>5
  <2>3. Rise'  BY <1>1, <2>1, PanelFacts DEF PanelInv, Rise
  <2> HIDE DEF n
  <2>4. Place'  BY <1>1, <1>2, <1>3, <1>5, <2>1, <2>2, PanelFacts DEF PanelInv, Place
  <2> QED  BY <1>4, <2>3, <2>4 DEF PanelInv
<1>6. CASE conn # "off"
  <2>1. /\ Len(panelOut') = Len(panelOut) + 1 /\ panelOut'[Len(panelOut) + 1] = n
        /\ \A i \in 1 .. Len(panelOut) : panelOut'[i] = panelOut[i]
    <3>1. panelOut' = Append(panelOut, n)  BY <1>1, <1>6 DEF Order
    <3> QED  BY <1>1, <3>1, PanelAppend
  <2>2. Rise'
    <3> DEFINE m == Len(panelOut)
    <3>1. m \in Nat /\ \A i \in 1 .. m + 1 : i \in 1 .. m \/ i = m + 1  BY PanelFacts
    <3>2. \A i \in 1 .. m : panelOut[i] \in Nat /\ panelOut[i] <= Len(ordered)
      BY PanelFacts DEF PanelInv, Rise
    <3>3. \A i, j \in 1 .. m : i < j /\ panelOut[j] # 0 => panelOut[i] < panelOut[j]
      BY DEF PanelInv, Rise
    <3>4. ASSUME NEW i \in 1 .. m + 1 PROVE panelOut'[i] <= n
      BY <1>1, <2>1, <3>1, <3>2
    <3>5. ASSUME NEW i \in 1 .. m + 1, NEW j \in 1 .. m + 1, i < j, panelOut'[j] # 0
          PROVE  panelOut'[i] < panelOut'[j]
      <4>1. i \in 1 .. m  BY <3>1, <3>5
      <4>2. CASE j \in 1 .. m  BY <2>1, <3>3, <3>5, <4>1, <4>2
      <4>3. CASE j = m + 1  BY <1>1, <2>1, <3>2, <4>1, <4>3
      <4> QED  BY <3>1, <4>2, <4>3
    <3> QED  BY <1>1, <2>1, <3>4, <3>5 DEF Rise
  <2>3. CASE conn = "on"
    <3>1. early' = early /\ conn' = "on" /\ session' = session  BY <1>2, <2>3
    <3>2. Len(panelOut) \in Nat  BY PanelFacts
    <3> HIDE DEF n
    <3>3. session # "none"  BY <2>3 DEF PanelInv, Place
    <3>4. session = "login" =>
            /\ Len(panelOut') > 0
            /\ panelOut'[1] # 0 => panelOut'[1] \in early
            /\ panelOut'[1] = 0 => \A i \in 2 .. Len(panelOut') : panelOut'[i] \notin early
      <4> SUFFICES ASSUME session = "login"
                   PROVE  /\ Len(panelOut') > 0
                          /\ panelOut'[1] # 0 => panelOut'[1] \in early
                          /\ panelOut'[1] = 0 =>
                               \A i \in 2 .. Len(panelOut') : panelOut'[i] \notin early
        OBVIOUS
      <4>1. /\ Len(panelOut) > 0
            /\ panelOut[1] # 0 => panelOut[1] \in early
            /\ panelOut[1] = 0 => \A i \in 2 .. Len(panelOut) : panelOut[i] \notin early
        BY DEF PanelInv, Place
      <4>2. panelOut'[1] = panelOut[1]  BY <2>1, <3>2, <4>1
      <4>3. ASSUME panelOut[1] = 0, NEW i \in 2 .. Len(panelOut') PROVE panelOut'[i] \notin early
        <5>1. CASE i \in 2 .. Len(panelOut)  BY <2>1, <3>2, <4>1, <4>3, <5>1
        <5>2. CASE i = Len(panelOut) + 1  BY <1>1, <2>1, <5>2
        <5> QED  BY <2>1, <3>2, <5>1, <5>2
      <4> QED  BY <2>1, <3>2, <4>1, <4>2, <4>3
    <3>5. session = "in" => \A i \in 1 .. Len(panelOut') : panelOut'[i] \notin early
      <4> SUFFICES ASSUME session = "in", NEW i \in 1 .. Len(panelOut')
                   PROVE  panelOut'[i] \notin early
        OBVIOUS
      <4>1. CASE i \in 1 .. Len(panelOut)  BY <2>1, <4>1 DEF PanelInv, Place
      <4>2. CASE i = Len(panelOut) + 1  BY <1>1, <2>1, <4>2
      <4> QED  BY <2>1, <3>2, <4>1, <4>2
    <3>6. Place'  BY <3>1, <3>3, <3>4, <3>5 DEF Place
    <3> QED  BY <1>4, <2>2, <3>6 DEF PanelInv
  <2>4. CASE conn = "connecting"
    <3>1. /\ conn' = "connecting" /\ session' = "none" /\ early' = early \cup {n}
      BY <1>2, <2>4 DEF PanelInv, Place
    <3>2. \A i \in 1 .. Len(panelOut) : panelOut[i] \in early  BY <2>4 DEF PanelInv, Place
    <3>3. Len(panelOut) \in Nat  BY PanelFacts
    <3> HIDE DEF n
    <3>4. ASSUME NEW i \in 1 .. Len(panelOut') PROVE panelOut'[i] \in early'
      <4>1. CASE i \in 1 .. Len(panelOut)  BY <2>1, <3>1, <3>2, <4>1
      <4>2. CASE i = Len(panelOut) + 1  BY <2>1, <3>1, <4>2
      <4> QED  BY <2>1, <3>3, <4>1, <4>2
    <3>5. Place'  BY <3>1, <3>4 DEF Place
    <3> QED  BY <1>4, <2>2, <3>5 DEF PanelInv
  <2> QED  BY <1>6, <2>3, <2>4 DEF Shape, Flags
<1> QED  BY <1>5, <1>6

LEMMA PanelConnected == Shape /\ PanelInv /\ Connected => PanelInv'
<1> SUFFICES ASSUME Shape, PanelInv, Connected PROVE PanelInv'  OBVIOUS
<1>1. /\ conn = "connecting" /\ conn' = "on" /\ session' = "login"
      /\ UNCHANGED <<slot, ordered, early>> /\ panelOut' = Append(panelOut, 0)
  BY DEF Connected, history
<1>2. /\ Len(panelOut') = Len(panelOut) + 1 /\ panelOut'[Len(panelOut) + 1] = 0
      /\ \A i \in 1 .. Len(panelOut) : panelOut'[i] = panelOut[i]
  BY <1>1, PanelAppend, ZeroText
<1>3. \A i \in 1 .. Len(panelOut) : panelOut[i] \in early  BY <1>1 DEF PanelInv, Place
<1>4. Len(panelOut) \in Nat /\ Len(ordered) \in Nat /\ 0 \notin early  BY PanelFacts
<1>5. Rise'
  <2>1. \A i \in 1 .. Len(panelOut') : i \in 1 .. Len(panelOut) \/ i = Len(panelOut) + 1
    BY <1>2, <1>4
  <2>2. ASSUME NEW i \in 1 .. Len(panelOut') PROVE panelOut'[i] <= Len(ordered)
    <3>1. CASE i \in 1 .. Len(panelOut)  BY <1>2, <3>1 DEF PanelInv, Rise
    <3>2. CASE i = Len(panelOut) + 1  BY <1>2, <1>4, <3>2
    <3> QED  BY <2>1, <3>1, <3>2
  <2>3. ASSUME NEW i \in 1 .. Len(panelOut'), NEW j \in 1 .. Len(panelOut'), i < j, panelOut'[j] # 0
        PROVE  panelOut'[i] < panelOut'[j]
    <3>1. j \in 1 .. Len(panelOut)  BY <1>2, <2>1, <2>3
    <3>2. i \in 1 .. Len(panelOut)  BY <1>2, <1>4, <2>3, <3>1
    <3> QED  BY <1>2, <2>3, <3>1, <3>2 DEF PanelInv, Rise
  <2> QED  BY <1>1, <2>2, <2>3 DEF Rise
<1>6. Place'
  <2>1. Len(panelOut) > 0 => panelOut'[1] \in early /\ panelOut'[1] # 0  BY <1>2, <1>3, <1>4
  <2>2. Len(panelOut) = 0 => panelOut'[1] = 0 /\ Len(panelOut') = 1  BY <1>2
  <2>3. \/ Len(panelOut) > 0 \/ Len(panelOut) = 0  BY <1>4
  <2>4. /\ Len(panelOut') > 0
        /\ panelOut'[1] # 0 => panelOut'[1] \in early
        /\ panelOut'[1] = 0 => \A i \in 2 .. Len(panelOut') : panelOut'[i] \notin early
    BY <1>2, <1>4, <2>1, <2>2, <2>3
  <2> QED  BY <1>1, <2>4 DEF Place
<1>7. SlotLostToEarlyOrder'  BY <1>1 DEF PanelInv, SlotLostToEarlyOrder
<1> QED  BY <1>5, <1>6, <1>7 DEF PanelInv

(* What is read of the panel's lines leaves those behind it. *)
LEMMA RiseRest ==
  ASSUME Shape, PanelInv, NEW k \in 1 .. Len(panelOut),
         panelOut' = SubSeq(panelOut, k + 1, Len(panelOut)), ordered' = ordered
  PROVE  Rise'
<1>1. /\ Len(panelOut') = Len(panelOut) - k /\ Len(panelOut) \in Nat
      /\ \A i \in 1 .. Len(panelOut') : panelOut'[i] = panelOut[k + i]
  BY RestOfPanel
<1>2. \A i \in 1 .. Len(panelOut') : k + i \in 1 .. Len(panelOut)  BY <1>1
<1>3. ASSUME NEW i \in 1 .. Len(panelOut') PROVE panelOut'[i] <= Len(ordered')
  BY <1>1, <1>2 DEF PanelInv, Rise
<1>4. ASSUME NEW i \in 1 .. Len(panelOut'), NEW j \in 1 .. Len(panelOut'), i < j, panelOut'[j] # 0
      PROVE  panelOut'[i] < panelOut'[j]
  <2>1. k + i < k + j  BY <1>4
  <2> QED  BY <1>1, <1>2, <1>4, <2>1 DEF PanelInv, Rise
<1> QED  BY <1>3, <1>4 DEF Rise

LEMMA PanelLogin == Shape /\ PanelInv /\ Login => PanelInv'
<1> SUFFICES ASSUME Shape, PanelInv, Login PROVE PanelInv'  OBVIOUS
<1>1. PICK k \in 1 .. Len(panelOut) : panelOut' = SubSeq(panelOut, k + 1, Len(panelOut))
  BY DEF Login
<1>2. /\ Len(panelOut') = Len(panelOut) - k /\ Len(panelOut) \in Nat /\ panelOut \in Seq(Text)
      /\ \A i \in 1 .. Len(panelOut') : panelOut'[i] = panelOut[k + i]
  BY <1>1, RestOfPanel DEF Shape, Buffers
<1>3. Head(panelOut) = panelOut[1]  BY <1>2
<1>4. /\ session = "login" /\ UNCHANGED <<conn, ordered, early>>
      /\ session' = IF panelOut[1] = 0 THEN "in" ELSE "refused"
      /\ slot' = (slot /\ panelOut[1] = 0)
  BY <1>3 DEF Login, history
<1>5. Rise'  BY <1>1, <1>4, RiseRest
<1>6. /\ panelOut[1] # 0 => panelOut[1] \in early
      /\ panelOut[1] = 0 => \A i \in 2 .. Len(panelOut) : panelOut[i] \notin early
      /\ conn # "connecting"
  BY <1>4 DEF PanelInv, Place
<1>7. panelOut[1] = 0 => \A i \in 1 .. Len(panelOut') : panelOut'[i] \notin early
  <2>1. \A i \in 1 .. Len(panelOut') : k + i \in 2 .. Len(panelOut)  BY <1>2
  <2> QED  BY <1>2, <1>6, <2>1
<1>8. Place'  BY <1>4, <1>6, <1>7 DEF Place
<1>9. SlotLostToEarlyOrder'  BY <1>4, <1>6 DEF PanelInv, SlotLostToEarlyOrder
<1> QED  BY <1>5, <1>8, <1>9 DEF PanelInv

LEMMA PanelRelay == Shape /\ PanelInv /\ RelayOrder => PanelInv'
<1> SUFFICES ASSUME Shape, PanelInv, RelayOrder PROVE PanelInv'  OBVIOUS
<1>1. PICK k \in 1 .. Len(panelOut) : panelOut' = SubSeq(panelOut, k + 1, Len(panelOut))
  BY DEF RelayOrder
<1>2. /\ Len(panelOut') = Len(panelOut) - k /\ Len(panelOut) \in Nat
      /\ \A i \in 1 .. Len(panelOut') : panelOut'[i] = panelOut[k + i]
  BY <1>1, RestOfPanel
<1>3. session = "in" /\ UNCHANGED <<conn, session, slot, ordered, early>>
  BY DEF RelayOrder, server, history
<1>4. Rise'  BY <1>1, <1>3, RiseRest
<1>5. \A i \in 1 .. Len(panelOut') : panelOut'[i] \notin early
  <2>1. \A i \in 1 .. Len(panelOut') : k + i \in 1 .. Len(panelOut)  BY <1>2
  <2> QED  BY <1>2, <1>3, <2>1 DEF PanelInv, Place
<1>6. Place'  BY <1>3, <1>5 DEF PanelInv, Place
<1>7. SlotLostToEarlyOrder'  BY <1>3 DEF PanelInv, SlotLostToEarlyOrder
<1> QED  BY <1>4, <1>6, <1>7 DEF PanelInv

LEMMA PanelStep == Shape /\ PanelInv /\ [Next]_vars => PanelInv'
<1> SUFFICES ASSUME Shape, PanelInv, [Next]_vars PROVE PanelInv'  OBVIOUS
<1> USE DEF panel, server, control, history
<1>1. CASE Connect
  <2>1. /\ conn = "off" /\ session = "none" /\ conn' = "connecting"
        /\ UNCHANGED <<panelOut, ordered, early, session, slot>>
    BY <1>1 DEF Connect
  <2>2. Len(panelOut) = 0  BY <2>1 DEF PanelInv, Place
  <2>3. Place'  BY <2>1, <2>2 DEF Place
  <2> QED  BY <2>1, <2>3 DEF PanelInv, Rise, SlotLostToEarlyOrder
<1>2. CASE Connected  BY <1>2, PanelConnected
<1>3. CASE Lost
  <2>1. /\ conn' = "off" /\ panelOut' = <<>> /\ session' = "none"
        /\ UNCHANGED <<ordered, early, slot>>
    BY <1>3 DEF Lost
  <2>2. Len(panelOut') = 0  BY <2>1
  <2>3. Place' /\ Rise'  BY <2>1, <2>2 DEF Place, Rise
  <2> QED  BY <2>1, <2>3 DEF PanelInv, SlotLostToEarlyOrder
<1>4. CASE Disconnect
  <2>1. /\ conn = "on" /\ conn' = "off" /\ UNCHANGED <<panelOut, ordered, early, session, slot>>
    BY <1>4 DEF Disconnect
  <2>2. Place'  BY <2>1 DEF PanelInv, Place
  <2> QED  BY <2>1, <2>2 DEF PanelInv, Rise, SlotLostToEarlyOrder
<1>5. ASSUME NEW p \in Product, Order(p) PROVE PanelInv'  BY <1>5, PanelOrder
<1>6. CASE Login  BY <1>6, PanelLogin
<1>7. CASE RelayOrder  BY <1>7, PanelRelay
<1>8. CASE SessionEnds
  <2>1. /\ session = "in" /\ conn = "off" /\ panelOut = <<>> /\ session' = "none"
        /\ UNCHANGED <<panelOut, conn, ordered, early, slot>>
    BY <1>8 DEF SessionEnds
  <2>2. Place'  BY <2>1 DEF PanelInv, Place
  <2> QED  BY <2>1, <2>2 DEF PanelInv, Rise, SlotLostToEarlyOrder
<1>9. CASE RelayAck  BY <1>9, PanelQuiet DEF RelayAck
<1>10. CASE ServerEnd  BY <1>10, PanelQuiet DEF ServerEnd
<1>11. CASE BridgeStep  BY <1>11, PanelQuiet DEF BridgeStep
<1>12. CASE LinkEnd  BY <1>12, PanelQuiet DEF LinkEnd
<1>13. CASE LineError  BY <1>13, PanelQuiet DEF LineError
<1>14. CASE Receive  BY <1>14, PanelQuiet, ReceiveFacts
<1>15. CASE Serve  BY <1>15, PanelQuiet DEF Serve
<1>16. CASE Stop  BY <1>16, PanelQuiet DEF Stop
<1>17. CASE UNCHANGED vars  BY <1>17, PanelQuiet DEF vars
<1>18. CASE Abandon
  <2>1. /\ conn = "connecting" /\ conn' = "off" /\ UNCHANGED <<ordered, early, slot>>
        /\ \/ panelOut # <<>> /\ session' = "login" /\ panelOut' = panelOut
           \/ panelOut' = <<>> /\ session' = session
    BY <1>18 DEF Abandon
  <2>2. CASE panelOut # <<>> /\ session' = "login" /\ panelOut' = panelOut
    <3>1. Len(panelOut) > 0 /\ panelOut[1] \in early /\ panelOut[1] # 0
      <4>1. Len(panelOut) > 0  BY <2>2, PanelFacts
      <4>2. panelOut[1] \in early  BY <2>1, <4>1, PanelFacts DEF PanelInv, Place
      <4> QED  BY <4>1, <4>2, PanelFacts
    <3>2. Place'  BY <2>1, <2>2, <3>1 DEF Place
    <3> QED  BY <2>1, <2>2, <3>2 DEF PanelInv, Rise, SlotLostToEarlyOrder
  <2>3. CASE panelOut' = <<>> /\ session' = session
    <3>1. Len(panelOut') = 0 /\ session' = "none"  BY <2>1, <2>3 DEF PanelInv, Place
    <3>2. Place' /\ Rise'  BY <2>1, <3>1 DEF Place, Rise
    <3> QED  BY <2>1, <3>2 DEF PanelInv, SlotLostToEarlyOrder
  <2> QED  BY <2>1, <2>2, <2>3
<1> QED  BY <1>1, <1>2, <1>3, <1>4, <1>5, <1>6, <1>7, <1>8, <1>9, <1>10, <1>11, <1>12, <1>13,
            <1>14, <1>15, <1>16, <1>17, <1>18 DEF Next, Panel, Server, Controller

-----------------------------------------------------------------------------
(* The bridge: what msg ends with in each state of send_msg, and why the       *)
(* descriptor was reset.                                                       *)
BridgeInv ==
    /\ sndPc = "write" => msg[Len(msg)].end
    /\ sndPc = "select" /\ Len(msg) > 0 => ~msg[Len(msg)].end
    /\ ~sockfd => sndPc = "ended" \/ ~serverUp
    /\ EndsForACause

LEMMA BridgeInvInit == Init => BridgeInv
BY DEF Init, BridgeInit, BridgeInv, EndsForACause

LEMMA BridgeQuiet ==
  ASSUME BridgeInv, UNCHANGED <<sndPc, msg, sockfd>>, ~serverUp => ~serverUp',
         btLink # "up" => btLink' # "up"
  PROVE  BridgeInv'
BY DEF BridgeInv, EndsForACause

LEMMA BridgeSnd == Shape /\ BridgeInv /\ send_msg => BridgeInv'
<1> SUFFICES ASSUME Shape, BridgeInv, send_msg PROVE BridgeInv'  OBVIOUS
<1> USE DEF socket, radio
<1>1. CASE SndRead
  <2>1. msg' \in Seq(Sent) /\ Len(msg') \in Nat /\ Len(msg') > 0
    <3>1. Len(msg) \in Nat  BY DEF Shape, Buffers
    <3> QED  BY <1>1, <3>1, ReadFacts
  <2>2. Last(msg') = msg'[Len(msg')]  BY DEF Last
  <2>3. /\ sndPc = "select" /\ sndPc' = IF msg'[Len(msg')].end THEN "write" ELSE "select"
        /\ UNCHANGED <<sockfd, serverUp>>
    BY <1>1, <2>2 DEF SndRead
  <2> QED  BY <2>3 DEF BridgeInv, EndsForACause
<1>2. CASE SndReadNothing
  <2>1. /\ sndPc = "select" /\ sndPc' = "ended" /\ UNCHANGED <<msg, serverUp, btLink>>
        /\ btLink # "up" \/ Len(msg) = BUF_SIZE
    BY <1>2 DEF SndReadNothing
  <2>2. Len(msg) = BUF_SIZE => ~Last(msg).end
    <3>1. Len(msg) = BUF_SIZE => Len(msg) > 0  BY BridgeConstants
    <3> QED  BY <2>1, <3>1 DEF BridgeInv, Last
  <2> QED  BY <2>1, <2>2 DEF BridgeInv, EndsForACause
<1>3. CASE SndReadError  BY <1>3 DEF SndReadError, BridgeInv, EndsForACause
<1>4. CASE SndWrite
  <2>1. /\ sndPc' = "select" /\ msg' = <<>> /\ UNCHANGED <<sockfd, serverUp>> /\ serverUp /\ sockfd
    BY <1>4 DEF SndWrite
  <2> QED  BY <2>1 DEF BridgeInv, EndsForACause
<1>5. CASE SndWriteFails
  <2>1. sndPc = "write" /\ sndPc' = "ended" /\ ~(sockfd /\ serverUp) /\ UNCHANGED serverUp
    BY <1>5 DEF SndWriteFails
  <2>2. ~serverUp  BY <2>1 DEF BridgeInv
  <2> QED  BY <2>1, <2>2 DEF BridgeInv, EndsForACause
<1>6. CASE SndWriteClosed
  <2>1. sndPc' = "select" /\ msg' = <<>> /\ ~serverUp' /\ sockfd' = sockfd
    BY <1>6 DEF SndWriteClosed
  <2> QED  BY <2>1 DEF BridgeInv, EndsForACause
<1> QED  BY <1>1, <1>2, <1>3, <1>4, <1>5, <1>6 DEF send_msg

LEMMA BridgeInvStep == Shape /\ BridgeInv /\ [Next]_vars => BridgeInv'
<1> SUFFICES ASSUME Shape, BridgeInv, [Next]_vars PROVE BridgeInv'  OBVIOUS
<1> USE DEF bridgeVars, socket, radio, threads
<1>1. CASE Panel
  BY <1>1, BridgeQuiet DEF Panel, Connect, Connected, Lost, Abandon, Disconnect, Order
<1>2. CASE Server \/ ServerEnd
  BY <1>2, BridgeQuiet DEF Server, ServerEnd, Login, RelayOrder, SessionEnds, RelayAck
<1>3. CASE BridgeStep
  <2>1. CASE recv_msg
    <3>1. CASE RecvEnd
      <4>1. ~sockfd \/ ~serverUp  BY <3>1 DEF RecvEnd
      <4>2. sndPc = "ended" \/ ~serverUp  BY <4>1 DEF BridgeInv
      <4> QED  BY <3>1, <4>2 DEF RecvEnd, BridgeInv, EndsForACause
    <3>2. CASE RecvCall \/ RecvRead \/ RecvWrite
      BY <3>2, BridgeQuiet DEF RecvCall, RecvRead, RecvWrite
    <3> QED  BY <2>1, <3>1, <3>2 DEF recv_msg
  <2>2. CASE send_msg  BY <2>2, BridgeSnd
  <2>3. CASE Exit  BY <2>3, BridgeQuiet DEF Exit
  <2> QED  BY <1>3, <2>1, <2>2, <2>3 DEF BridgeStep, Bridge
<1>4. CASE LinkEnd  BY <1>4, BridgeQuiet DEF LinkEnd
<1>5. CASE LineError  BY <1>5, BridgeQuiet DEF LineError
<1>6. CASE Receive  BY <1>6, BridgeQuiet, ReceiveFacts
<1>7. CASE Serve  BY <1>7, BridgeQuiet DEF Serve
<1>8. CASE Stop  BY <1>8, BridgeQuiet DEF Stop
<1>9. CASE UNCHANGED vars  BY <1>9, BridgeQuiet DEF vars
<1> QED  BY <1>1, <1>2, <1>3, <1>4, <1>5, <1>6, <1>7, <1>8, <1>9 DEF Next, Controller

-----------------------------------------------------------------------------
(* Pieces on their way: beginnings are followed by their end, orders come in   *)
(* their order, and nothing ends in the middle of a line.                      *)
Paired(w) ==
    \A i \in 1 .. Len(w) : i < Len(w) /\ ~w[i].end => w[i + 1].end /\ w[i + 1].text = w[i].text
Rising(w) ==
    \A i, j \in 1 .. Len(w) : i < j /\ w[i].end /\ w[j].text # 0 => w[i].text < w[j].text
Closed(w) == Len(w) > 0 => w[Len(w)].end

LEMMA PieceFacts ==
  ASSUME NEW w \in Seq(Sent)
  PROVE  /\ Len(w) \in Nat
         /\ \A i \in 1 .. Len(w) : w[i].text \in Nat
         /\ \A i \in 1 .. Len(w) : w[i].end \in BOOLEAN
<1>1. Len(w) \in Nat /\ \A i \in 1 .. Len(w) : w[i] \in Sent  BY ElementOfSeq
<1>2. Text \subseteq Nat  BY KioskConstants DEF Text
<1> QED  BY <1>1, <1>2, TextOf

LEMMA SuffixKeeps ==
  ASSUME NEW w \in Seq(Sent), NEW k \in 0 .. Len(w)
  PROVE  /\ Paired(w) => Paired(SubSeq(w, k + 1, Len(w)))
         /\ Rising(w) => Rising(SubSeq(w, k + 1, Len(w)))
         /\ Closed(w) => Closed(SubSeq(w, k + 1, Len(w)))
<1> DEFINE v == SubSeq(w, k + 1, Len(w))
<1>1. /\ Len(v) = Len(w) - k /\ Len(w) \in Nat /\ k \in Nat
      /\ \A i \in 1 .. Len(v) : v[i] = w[k + i]
  BY Suffix
<1> HIDE DEF v
<1>2. \A i \in 1 .. Len(v) : k + i \in 1 .. Len(w)  BY <1>1
<1>3. ASSUME Paired(w) PROVE Paired(v)
  <2> SUFFICES ASSUME NEW i \in 1 .. Len(v), i < Len(v), ~v[i].end
               PROVE  v[i + 1].end /\ v[i + 1].text = v[i].text
    BY DEF Paired
  <2>1. k + i \in 1 .. Len(w) /\ k + i < Len(w) /\ i + 1 \in 1 .. Len(v) /\ k + (i + 1) = (k + i) + 1
    BY <1>1
  <2>2. v[i] = w[k + i] /\ v[i + 1] = w[(k + i) + 1]  BY <1>1, <2>1
  <2> QED  BY <1>3, <2>1, <2>2 DEF Paired
<1>4. ASSUME Rising(w) PROVE Rising(v)
  <2> SUFFICES ASSUME NEW i \in 1 .. Len(v), NEW j \in 1 .. Len(v), i < j, v[i].end, v[j].text # 0
               PROVE  v[i].text < v[j].text
    BY DEF Rising
  <2>1. k + i < k + j  BY <1>1
  <2>2. v[i] = w[k + i] /\ v[j] = w[k + j] /\ k + i \in 1 .. Len(w) /\ k + j \in 1 .. Len(w)
    BY <1>1, <1>2
  <2> QED  BY <1>4, <2>1, <2>2 DEF Rising
<1>5. ASSUME Closed(w) PROVE Closed(v)
  <2> SUFFICES ASSUME Len(v) > 0 PROVE v[Len(v)].end  BY DEF Closed
  <2>1. v[Len(v)] = w[Len(w)] /\ Len(w) > 0
    <3>1. Len(v) \in 1 .. Len(v) /\ k + Len(v) = Len(w) /\ Len(w) > 0  BY <1>1
    <3> QED  BY <1>1, <3>1
  <2> QED  BY <1>5, <2>1 DEF Closed
<1> QED  BY <1>3, <1>4, <1>5 DEF v

LEMMA FrontKeeps ==
  ASSUME NEW u \in Seq(Sent), NEW v \in Seq(Sent)
  PROVE  /\ Paired(u \o v) => Paired(u)
         /\ Rising(u \o v) => Rising(u)
<1> DEFINE w == u \o v
<1>1. /\ Len(w) = Len(u) + Len(v) /\ Len(u) \in Nat /\ Len(v) \in Nat
      /\ \A i \in 1 .. Len(u) : w[i] = u[i]
  BY ConcatProperties
<1> HIDE DEF w
<1>2. \A i \in 1 .. Len(u) : i \in 1 .. Len(w)  BY <1>1
<1>3. ASSUME Paired(w) PROVE Paired(u)
  <2> SUFFICES ASSUME NEW i \in 1 .. Len(u), i < Len(u), ~u[i].end
               PROVE  u[i + 1].end /\ u[i + 1].text = u[i].text
    BY DEF Paired
  <2>1. i + 1 \in 1 .. Len(u) /\ i < Len(w)  BY <1>1
  <2> QED  BY <1>1, <1>2, <1>3, <2>1 DEF Paired
<1>4. ASSUME Rising(w) PROVE Rising(u)  BY <1>1, <1>2, <1>4 DEF Rising
<1> QED  BY <1>3, <1>4 DEF w

LEMMA LineFacts ==
  ASSUME NEW t \in Text
  PROVE  /\ Line(t) \in Seq(Sent) /\ Len(Line(t)) = 2
         /\ Line(t)[1].text = t /\ ~Line(t)[1].end /\ Line(t)[2].text = t /\ Line(t)[2].end
<1> DEFINE L == Line(t)
<1>1. L[1] = [text |-> t, end |-> FALSE] /\ L[2] = [text |-> t, end |-> TRUE]  BY LineType
<1>2. L[1].text = t /\ L[2].text = t  BY <1>1
<1>3. ~L[1].end  BY <1>1
<1>4. L[2].end  BY <1>1
<1> QED  BY <1>2, <1>3, <1>4, LineType

LEMMA LineKeeps ==
  ASSUME NEW u \in Seq(Sent), NEW t \in Text, Paired(u), Rising(u), Closed(u),
         t # 0 => \A i \in 1 .. Len(u) : u[i].text < t
  PROVE  /\ Paired(u \o Line(t)) /\ Rising(u \o Line(t)) /\ Closed(u \o Line(t))
         /\ u \o Line(t) \in Seq(Sent)
         /\ \A i \in 1 .. Len(u \o Line(t)) :
              (i \in 1 .. Len(u) /\ (u \o Line(t))[i] = u[i]) \/ (u \o Line(t))[i].text = t
<1> DEFINE L == Line(t)  w == u \o L
<1>0. /\ L \in Seq(Sent) /\ Len(L) = 2
      /\ L[1].text = t /\ ~L[1].end /\ L[2].text = t /\ L[2].end
  BY LineFacts
<1> HIDE DEF L
<1>1. /\ w \in Seq(Sent) /\ Len(w) = Len(u) + 2 /\ Len(u) \in Nat
      /\ \A i \in 1 .. Len(u) : w[i] = u[i]
      /\ \A i \in Len(u) + 1 .. Len(u) + 2 : w[i] = L[i - Len(u)]
  <2>1. /\ w \in Seq(Sent) /\ Len(w) = Len(u) + Len(L)
        /\ \A i \in 1 .. Len(u) + Len(L) : w[i] = IF i <= Len(u) THEN u[i] ELSE L[i - Len(u)]
    <3>1. u \in Seq(Sent) /\ L \in Seq(Sent)  BY <1>0
    <3> QED  BY ONLY <3>1, ConcatProperties DEF w
  <2> HIDE DEF w
  <2> QED  BY <1>0, <2>1
<1>2. /\ w[Len(u) + 1].text = t /\ ~w[Len(u) + 1].end
      /\ w[Len(u) + 2].text = t /\ w[Len(u) + 2].end
  <2>1. Len(u) + 1 - Len(u) = 1 /\ Len(u) + 2 - Len(u) = 2  BY <1>1
  <2>2. w[Len(u) + 1] = L[1] /\ w[Len(u) + 2] = L[2]  BY <1>1, <2>1
  <2> HIDE DEF w
  <2> QED  BY <1>0, <2>2
<1> HIDE DEF w
<1>3. \A i \in 1 .. Len(w) : i \in 1 .. Len(u) \/ i = Len(u) + 1 \/ i = Len(u) + 2  BY <1>1
<1>4. Paired(w)
  <2> SUFFICES ASSUME NEW i \in 1 .. Len(w), i < Len(w), ~w[i].end
               PROVE  w[i + 1].end /\ w[i + 1].text = w[i].text
    BY DEF Paired
  <2>1. CASE i \in 1 .. Len(u) /\ i < Len(u)
    <3>1. i + 1 \in 1 .. Len(u)  BY <1>1, <2>1
    <3> QED  BY <1>1, <2>1, <3>1 DEF Paired
  <2>2. CASE i \in 1 .. Len(u) /\ i = Len(u)
    <3>1. Len(u) > 0 /\ w[i] = u[Len(u)]  BY <1>1, <2>2
    <3> QED  BY <3>1 DEF Closed
  <2>3. CASE i = Len(u) + 1  BY <1>1, <1>2, <2>3
  <2> QED  BY <1>1, <1>3, <2>1, <2>2, <2>3
<1>5. Rising(w)
  <2> SUFFICES ASSUME NEW i \in 1 .. Len(w), NEW j \in 1 .. Len(w), i < j, w[i].end, w[j].text # 0
               PROVE  w[i].text < w[j].text
    BY DEF Rising
  <2>1. CASE j \in 1 .. Len(u)
    <3>1. i \in 1 .. Len(u)  BY <1>1, <2>1
    <3> QED  BY <1>1, <2>1, <3>1 DEF Rising
  <2>2. CASE j = Len(u) + 1 \/ j = Len(u) + 2
    <3>1. w[j].text = t  BY <1>2, <2>2
    <3>2. i \in 1 .. Len(u) \/ (i = Len(u) + 1 /\ ~w[i].end)  BY <1>1, <1>2, <1>3, <2>2
    <3>3. i \in 1 .. Len(u)  BY <3>2
    <3> QED  BY <1>1, <3>1, <3>3
  <2> QED  BY <1>3, <2>1, <2>2
<1>6. Closed(w)  BY <1>1, <1>2 DEF Closed
<1>7. \A i \in 1 .. Len(w) : (i \in 1 .. Len(u) /\ w[i] = u[i]) \/ w[i].text = t  BY <1>1, <1>2, <1>3
<1> QED  BY <1>1, <1>4, <1>5, <1>6, <1>7 DEF w, L

(* What is read off the front of a line of two buffers. *)
LEMMA SuffixConcat ==
  ASSUME NEW Elem, NEW u \in Seq(Elem), NEW v \in Seq(Elem), NEW n \in 0 .. Len(u)
  PROVE  /\ SubSeq(u, n + 1, Len(u)) \o v = SubSeq(u \o v, n + 1, Len(u \o v))
         /\ n \in 0 .. Len(u \o v)
<1> DEFINE a == SubSeq(u, n + 1, Len(u))  l == a \o v  w == u \o v  r == SubSeq(w, n + 1, Len(w))
<1>1. /\ a \in Seq(Elem) /\ Len(a) = Len(u) - n /\ Len(u) \in Nat /\ n \in Nat /\ Len(v) \in Nat
      /\ \A i \in 1 .. Len(a) : a[i] = u[n + i]
  BY Suffix
<1>2. /\ w \in Seq(Elem) /\ Len(w) = Len(u) + Len(v)
      /\ \A i \in 1 .. Len(u) : w[i] = u[i]
      /\ \A i \in Len(u) + 1 .. Len(u) + Len(v) : w[i] = v[i - Len(u)]
  BY <1>1, ConcatProperties
<1>3. /\ l \in Seq(Elem) /\ Len(l) = Len(a) + Len(v)
      /\ \A i \in 1 .. Len(a) : l[i] = a[i]
      /\ \A i \in Len(a) + 1 .. Len(a) + Len(v) : l[i] = v[i - Len(a)]
  BY <1>1, ConcatProperties
<1> HIDE DEF a, w
<1>4. n \in 0 .. Len(w)  BY <1>1, <1>2
<1>5. r \in Seq(Elem) /\ Len(r) = Len(w) - n /\ \A i \in 1 .. Len(w) - n : r[i] = w[n + i]
  BY <1>2, <1>4, Suffix
<1> HIDE DEF l, r
<1>6. Len(l) = Len(r)  BY <1>1, <1>2, <1>3, <1>5
<1>7. ASSUME NEW i \in 1 .. Len(l) PROVE l[i] = r[i]
  <2>1. r[i] = w[n + i]  BY <1>5, <1>6
  <2>2. CASE i \in 1 .. Len(a)
    <3>1. n + i \in 1 .. Len(u)  BY <1>1, <2>2
    <3> QED  BY <1>1, <1>2, <1>3, <2>1, <2>2, <3>1
  <2>3. CASE i \in Len(a) + 1 .. Len(a) + Len(v)
    <3>1. n + i \in Len(u) + 1 .. Len(u) + Len(v) /\ (n + i) - Len(u) = i - Len(a)  BY <1>1, <2>3
    <3> QED  BY <1>2, <1>3, <2>1, <2>3, <3>1
  <2> QED  BY <1>1, <1>3, <2>2, <2>3
<1>8. l = r  BY <1>3, <1>5, <1>6, <1>7, SeqEqual
<1> QED  BY <1>4, <1>8 DEF l, r, a, w

(* What is on its way to the controller and may still arrive there.  Orders    *)
(* that reached it, those on their way and those the panel still holds follow  *)
(* each other, and none but the last may have been made before a connection.   *)
Fw == IF btLink = "up" THEN btOut \o (name_msg \o down) ELSE btOut

Lined == Paired(Fw) /\ Rising(Fw) /\ (btLink = "up" => Closed(Fw))
OnTheWay ==
    \A i \in 1 .. Len(Fw) :
      /\ Fw[i].text <= Len(ordered) /\ Fw[i].text \notin early
      /\ Fw[i].text # 0 => \A r \in 1 .. Len(reached) : reached[r] < Fw[i].text
      /\ \A j \in 1 .. Len(panelOut) : panelOut[j] # 0 => Fw[i].text < panelOut[j]
Arrived ==
    \A r \in 1 .. Len(reached) :
      /\ reached[r] <= Len(ordered) /\ reached[r] \notin early
      /\ \A j \in 1 .. Len(panelOut) : panelOut[j] # 0 => reached[r] < panelOut[j]
FlowInv ==
    /\ rcvPc # "write" => name_msg = <<>>
    /\ Lined /\ OnTheWay /\ Arrived

LEMMA FwType ==
  ASSUME Shape
  PROVE  /\ Fw \in Seq(Sent) /\ Len(Fw) \in Nat
         /\ \A i \in 1 .. Len(Fw) : Fw[i].text \in Nat
         /\ \A i \in 1 .. Len(Fw) : Fw[i].end \in BOOLEAN
         /\ Len(reached) \in Nat /\ \A r \in 1 .. Len(reached) : reached[r] \in Nat
<1>1. btOut \in Seq(Sent) /\ name_msg \in Seq(Sent) /\ down \in Seq(Sent)  BY DEF Shape, Buffers
<1>2. name_msg \o down \in Seq(Sent)  BY <1>1, ConcatProperties
<1>3. btOut \o (name_msg \o down) \in Seq(Sent)  BY <1>1, <1>2, ConcatProperties
<1>4. Fw \in Seq(Sent)  BY <1>1, <1>3 DEF Fw
<1>5. reached \in Seq(Text \ {0})  BY DEF Shape, Records
<1>6. Text \subseteq Nat  BY KioskConstants DEF Text
<1>7. Len(reached) \in Nat /\ \A r \in 1 .. Len(reached) : reached[r] \in Nat
  <2>1. Len(reached) \in Nat  BY <1>5
  <2>2. \A r \in 1 .. Len(reached) : reached[r] \in Text \ {0}  BY <1>5
  <2>3. \A r \in 1 .. Len(reached) : reached[r] \in Nat  BY <1>6, <2>2
  <2> QED  BY <2>1, <2>3
<1> QED  BY <1>4, <1>7, PieceFacts

LEMMA FlowInit == Init => FlowInv
<1> SUFFICES ASSUME Init PROVE FlowInv  OBVIOUS
<1> DEFINE L == Line(0)
<1>1. L \in Seq(Sent) /\ Len(L) = 2  BY LineType, ZeroText
<1>2. Fw = L
  <2>1. Fw = <<>> \o (<<>> \o L)  BY DEF Init, BridgeInit, Fw
  <2> HIDE DEF L
  <2> QED  BY <1>1, <2>1, ConcatEmptySeq
<1>3. L[1].text = 0 /\ L[2].text = 0  BY LineFacts, ZeroText
<1>4. ~L[1].end /\ L[2].end  BY LineFacts, ZeroText
<1> HIDE DEF L
<1>5. Len(Fw) = 2  BY <1>1, <1>2
<1>6. \A i \in 1 .. Len(Fw) : i = 1 \/ i = 2
  <2>1. \A i \in 1 .. 2 : i = 1 \/ i = 2  OBVIOUS
  <2> QED  BY ONLY <1>5, <2>1
<1>7. \A i \in 1 .. Len(Fw) : Fw[i].text = 0  BY <1>2, <1>3, <1>6
<1>8. Lined
  <2>1. Paired(Fw)
    <3> SUFFICES ASSUME NEW i \in 1 .. Len(Fw), i < Len(Fw), ~Fw[i].end
                 PROVE  Fw[i + 1].end /\ Fw[i + 1].text = Fw[i].text
      BY DEF Paired
    <3>1. i = 1  BY <1>5, <1>6
    <3> QED  BY <1>2, <1>3, <1>4, <3>1
  <2>2. Rising(Fw)  BY <1>7 DEF Rising
  <2>3. Closed(Fw)  BY <1>2, <1>4, <1>5 DEF Closed
  <2> QED  BY <2>1, <2>2, <2>3 DEF Lined
<1>9. ordered = <<>> /\ early = {} /\ reached = <<>> /\ panelOut = <<>> /\ name_msg = <<>>
  BY DEF Init, BridgeInit
<1>10. OnTheWay /\ Arrived  BY <1>7, <1>9 DEF OnTheWay, Arrived
<1> QED  BY <1>8, <1>9, <1>10 DEF FlowInv

LEMMA FlowQuiet ==
  ASSUME FlowInv, Fw' = Fw, UNCHANGED <<reached, ordered, early, panelOut>>,
         btLink' = "up" => btLink = "up", rcvPc' # "write" => name_msg' = <<>>
  PROVE  FlowInv'
BY DEF FlowInv, Lined, OnTheWay, Arrived

(* The panel adds to what it sent, or takes from it. *)
LEMMA FlowPanel ==
  ASSUME Shape, Shape', FlowInv, UNCHANGED <<rcvPc, name_msg, down, btOut, btLink, reached>>,
         Len(ordered) <= Len(ordered'), early' \subseteq early \cup (Len(ordered) + 1 .. Len(ordered')),
         \A j \in 1 .. Len(panelOut') :
           \/ panelOut'[j] = 0 \/ panelOut'[j] > Len(ordered)
           \/ \E i \in 1 .. Len(panelOut) : panelOut'[j] = panelOut[i]
  PROVE  FlowInv'
<1>1. Fw' = Fw  BY DEF Fw
<1>2. Lined'  BY <1>1 DEF FlowInv, Lined
<1>3. Len(ordered) \in Nat /\ Len(ordered') \in Nat /\ \A j \in 1 .. Len(panelOut') : panelOut'[j] \in Nat
  <2>1. panelOut' \in Seq(Text) /\ ordered' \in Seq(Product)  BY DEF Shape, Buffers, Records
  <2>2. Text \subseteq Nat  BY KioskConstants DEF Text
  <2>3. \A j \in 1 .. Len(panelOut') : panelOut'[j] \in Text  BY <2>1
  <2>4. Len(ordered') \in Nat  BY <2>1
  <2> QED  BY <2>2, <2>3, <2>4, PanelFacts
<1>4. ASSUME NEW t \in Nat, t <= Len(ordered), t \notin early,
             \A j \in 1 .. Len(panelOut) : panelOut[j] # 0 => t < panelOut[j]
      PROVE  /\ t <= Len(ordered') /\ t \notin early'
             /\ \A j \in 1 .. Len(panelOut') : panelOut'[j] # 0 => t < panelOut'[j]
  BY <1>3, <1>4
<1>5. OnTheWay'
  <2> SUFFICES ASSUME NEW i \in 1 .. Len(Fw)
               PROVE  /\ Fw[i].text <= Len(ordered') /\ Fw[i].text \notin early'
                      /\ Fw[i].text # 0 => \A r \in 1 .. Len(reached) : reached[r] < Fw[i].text
                      /\ \A j \in 1 .. Len(panelOut') : panelOut'[j] # 0 => Fw[i].text < panelOut'[j]
    BY <1>1 DEF OnTheWay
  <2>1. Fw[i].text \in Nat  BY FwType
  <2>2. /\ Fw[i].text <= Len(ordered) /\ Fw[i].text \notin early
        /\ Fw[i].text # 0 => \A r \in 1 .. Len(reached) : reached[r] < Fw[i].text
        /\ \A j \in 1 .. Len(panelOut) : panelOut[j] # 0 => Fw[i].text < panelOut[j]
    BY DEF FlowInv, OnTheWay
  <2> QED  BY <1>4, <2>1, <2>2
<1>6. Arrived'
  <2> SUFFICES ASSUME NEW r \in 1 .. Len(reached)
               PROVE  /\ reached[r] <= Len(ordered') /\ reached[r] \notin early'
                      /\ \A j \in 1 .. Len(panelOut') : panelOut'[j] # 0 => reached[r] < panelOut'[j]
    BY DEF Arrived
  <2>1. reached[r] \in Nat  BY FwType
  <2>2. /\ reached[r] <= Len(ordered) /\ reached[r] \notin early
        /\ \A j \in 1 .. Len(panelOut) : panelOut[j] # 0 => reached[r] < panelOut[j]
    BY DEF FlowInv, Arrived
  <2> QED  BY <1>4, <2>1, <2>2
<1> QED  BY <1>2, <1>5, <1>6 DEF FlowInv

LEMMA FlowOfPanel == Shape /\ Shape' /\ FlowInv /\ (Panel \/ Login) => FlowInv'
<1> SUFFICES ASSUME Shape, Shape', FlowInv, Panel \/ Login PROVE FlowInv'  OBVIOUS
<1> USE DEF bridgeVars, socket, radio, threads, panel, server, control, history
<1>0. Len(ordered) \in Nat /\ Len(panelOut) \in Nat  BY PanelFacts
<1>1. CASE Connect \/ Disconnect \/ Lost \/ Abandon
  <2>1. UNCHANGED <<rcvPc, name_msg, down, btOut, btLink, reached, ordered, early>>
    BY <1>1 DEF Connect, Disconnect, Lost, Abandon
  <2>2. panelOut' = panelOut \/ panelOut' = <<>>
    BY <1>1 DEF Connect, Disconnect, Lost, Abandon
  <2> QED  BY <1>0, <2>1, <2>2, FlowPanel
<1>2. CASE Connected
  <2>1. /\ UNCHANGED <<rcvPc, name_msg, down, btOut, btLink, reached, ordered, early>>
        /\ panelOut' = Append(panelOut, 0)
    BY <1>2 DEF Connected
  <2>2. /\ Len(panelOut') = Len(panelOut) + 1 /\ panelOut'[Len(panelOut) + 1] = 0
        /\ \A i \in 1 .. Len(panelOut) : panelOut'[i] = panelOut[i]
    BY <2>1, PanelAppend, ZeroText
  <2>3. \A j \in 1 .. Len(panelOut') : panelOut'[j] = 0 \/ \E i \in 1 .. Len(panelOut) : panelOut'[j] = panelOut[i]
    BY <1>0, <2>2
  <2> QED  BY <1>0, <2>1, <2>3, FlowPanel
<1>3. ASSUME NEW p \in Product, Order(p) PROVE FlowInv'
  <2> DEFINE n == Len(ordered')
  <2>1. /\ UNCHANGED <<rcvPc, name_msg, down, btOut, btLink, reached>>
        /\ panelOut' = panelOut \/ panelOut' = Append(panelOut, n)
        /\ early' \subseteq early \cup {n} /\ ordered' = Append(ordered, p)
    BY <1>3 DEF Order
  <2>2. n = Len(ordered) + 1 /\ n \in Text
    <3>1. ordered \in Seq(Product) /\ Len(ordered) < MaxOrders  BY <1>3 DEF Order, Shape, Records
    <3>2. n = Len(ordered) + 1  BY <2>1, <3>1
    <3> HIDE DEF n
    <3> QED  BY <1>0, <3>1, <3>2, KioskConstants DEF Text
  <2>3. \A j \in 1 .. Len(panelOut') :
          panelOut'[j] = n \/ \E i \in 1 .. Len(panelOut) : panelOut'[j] = panelOut[i]
    <3>1. CASE panelOut' = panelOut  BY <3>1
    <3>2. CASE panelOut' = Append(panelOut, n)
      <4> HIDE DEF n
      <4>1. /\ Len(panelOut') = Len(panelOut) + 1 /\ panelOut'[Len(panelOut) + 1] = n
            /\ \A i \in 1 .. Len(panelOut) : panelOut'[i] = panelOut[i]
        BY <2>2, <3>2, PanelAppend
      <4> QED  BY <1>0, <4>1
    <3> QED  BY <2>1, <3>1, <3>2
  <2>4. early' \subseteq early \cup (Len(ordered) + 1 .. Len(ordered'))  BY <1>0, <2>1, <2>2
  <2>5. Len(ordered) <= Len(ordered') /\ n > Len(ordered)  BY <1>0, <2>2
  <2> QED  BY <2>1, <2>3, <2>4, <2>5, FlowPanel
<1>4. CASE Login
  <2>1. PICK k \in 1 .. Len(panelOut) : panelOut' = SubSeq(panelOut, k + 1, Len(panelOut))
    BY <1>4 DEF Login
  <2>2. UNCHANGED <<rcvPc, name_msg, down, btOut, btLink, reached, ordered, early>>
    BY <1>4 DEF Login
  <2>3. /\ Len(panelOut') = Len(panelOut) - k
        /\ \A i \in 1 .. Len(panelOut') : panelOut'[i] = panelOut[k + i]
    BY <2>1, RestOfPanel
  <2>4. \A j \in 1 .. Len(panelOut') : k + j \in 1 .. Len(panelOut)  BY <1>0, <2>3
  <2>5. \A j \in 1 .. Len(panelOut') : \E i \in 1 .. Len(panelOut) : panelOut'[j] = panelOut[i]
    BY <2>3, <2>4
  <2> QED  BY <1>0, <2>2, <2>5, FlowPanel
<1> QED  BY <1>1, <1>2, <1>3, <1>4 DEF Panel

(* The bridge copies: what it has read stands where it stood. *)
LEMMA FlowRecv == Shape /\ FlowInv /\ recv_msg => Fw' = Fw
<1> SUFFICES ASSUME Shape, FlowInv, recv_msg PROVE Fw' = Fw  OBVIOUS
<1> USE DEF socket, radio
<1>0. btOut \in Seq(Sent) /\ name_msg \in Seq(Sent) /\ down \in Seq(Sent)  BY DEF Shape, Buffers
<1>1. CASE RecvCall \/ RecvEnd  BY <1>1 DEF RecvCall, RecvEnd, Fw
<1>2. CASE RecvRead
  <2>1. PICK n \in 1 .. Len(down) : /\ name_msg' = SubSeq(down, 1, n)
                                    /\ down' = SubSeq(down, n + 1, Len(down))
    BY <1>2 DEF RecvRead
  <2>2. btOut' = btOut /\ btLink' = btLink /\ name_msg = <<>>  BY <1>2 DEF RecvRead, FlowInv
  <2>3. name_msg' \o down' = name_msg \o down
    <3>1. n \in 1 .. Len(down) /\ Len(down) \in Nat  BY <1>0
    <3>2. SubSeq(down, 1, n) \o SubSeq(down, n + 1, Len(down)) = SubSeq(down, 1, Len(down))
      BY <1>0, <3>1, ConcatAdjacentSubSeq
    <3>3. SubSeq(down, 1, Len(down)) = down  BY <1>0, SubSeqFull
    <3>4. <<>> \o down = down  BY <1>0, ConcatEmptySeq
    <3> QED  BY <2>1, <2>2, <3>2, <3>3, <3>4
  <2> QED  BY <2>2, <2>3 DEF Fw
<1>3. CASE RecvWrite
  <2>1. /\ btOut' = IF btLink = "up" THEN btOut \o name_msg ELSE btOut
        /\ name_msg' = <<>> /\ down' = down /\ btLink' = btLink
    BY <1>3 DEF RecvWrite
  <2>2. (btOut \o name_msg) \o (<<>> \o down) = btOut \o (name_msg \o down)
    <3>1. <<>> \o down = down  BY <1>0, ConcatEmptySeq
    <3>2. (btOut \o name_msg) \o down = btOut \o (name_msg \o down)  BY <1>0, ConcatAssociative
    <3> QED  BY <3>1, <3>2
  <2> QED  BY <2>1, <2>2 DEF Fw
<1> QED  BY <1>1, <1>2, <1>3 DEF recv_msg

(* The server passes the first line of a read on. *)
LEMMA FlowRelay == Shape /\ Shape' /\ PanelInv /\ FlowInv /\ RelayOrder => FlowInv'
<1> SUFFICES ASSUME Shape, Shape', PanelInv, FlowInv, RelayOrder PROVE FlowInv'  OBVIOUS
<1> USE DEF threads, radio, server, history
<1>1. PICK m \in 1 .. Len(panelOut) : panelOut' = SubSeq(panelOut, m + 1, Len(panelOut))
  BY DEF RelayOrder
<1>2. /\ Len(panelOut') = Len(panelOut) - m /\ Len(panelOut) \in Nat
      /\ \A i \in 1 .. Len(panelOut') : panelOut'[i] = panelOut[m + i]
  BY <1>1, RestOfPanel
<1>3. \A j \in 1 .. Len(panelOut') : m + j \in 1 .. Len(panelOut) /\ 1 < m + j /\ 1 \in 1 .. Len(panelOut)
  BY <1>2
<1> DEFINE k == panelOut[1]
<1>4. /\ session = "in" /\ UNCHANGED <<rcvPc, name_msg, btOut, btLink, reached, ordered, early>>
      /\ down' = down \/ down' = down \o Line(k)
  <2>1. Head(panelOut) = k  BY <1>2 DEF Shape, Buffers
  <2> QED  BY <2>1 DEF RelayOrder
<1>5. /\ k \in Text /\ k <= Len(ordered) /\ k \notin early
      /\ \A j \in 1 .. Len(panelOut') : panelOut'[j] # 0 => k < panelOut'[j]
  <2>1. 1 \in 1 .. Len(panelOut)  BY <1>2
  <2>2. k \in Text  BY <2>1 DEF Shape, Buffers
  <2>3. k <= Len(ordered)  BY <2>1 DEF PanelInv, Rise
  <2>4. k \notin early  BY <1>4, <2>1 DEF PanelInv, Place
  <2>5. ASSUME NEW j \in 1 .. Len(panelOut'), panelOut'[j] # 0 PROVE k < panelOut'[j]
    <3>1. panelOut'[j] = panelOut[m + j]  BY <1>2
    <3> QED  BY <1>3, <2>1, <2>5, <3>1 DEF PanelInv, Rise
  <2> QED  BY <2>2, <2>3, <2>4, <2>5
<1>6. k # 0 => /\ \A i \in 1 .. Len(Fw) : Fw[i].text < k
               /\ \A r \in 1 .. Len(reached) : reached[r] < k
  <2>1. 1 \in 1 .. Len(panelOut)  BY <1>2
  <2> QED  BY <2>1 DEF FlowInv, OnTheWay, Arrived
<1>7. ASSUME NEW j \in 1 .. Len(panelOut'), panelOut'[j] # 0
      PROVE  /\ \A i \in 1 .. Len(Fw) : Fw[i].text < panelOut'[j]
             /\ \A r \in 1 .. Len(reached) : reached[r] < panelOut'[j]
  <2>1. panelOut'[j] = panelOut[m + j] /\ m + j \in 1 .. Len(panelOut)  BY <1>2, <1>3
  <2> QED  BY <1>7, <2>1 DEF FlowInv, OnTheWay, Arrived
<1>8. Arrived'
  <2>1. \A r \in 1 .. Len(reached) : reached[r] <= Len(ordered) /\ reached[r] \notin early
    BY DEF FlowInv, Arrived
  <2> QED  BY <1>4, <1>7, <2>1 DEF Arrived
<1>9. CASE Fw' = Fw
  <2>1. OnTheWay'
    <3>1. \A i \in 1 .. Len(Fw) :
            /\ Fw[i].text <= Len(ordered) /\ Fw[i].text \notin early
            /\ Fw[i].text # 0 => \A r \in 1 .. Len(reached) : reached[r] < Fw[i].text
      BY DEF FlowInv, OnTheWay
    <3> QED  BY <1>4, <1>7, <1>9, <3>1 DEF OnTheWay
  <2> QED  BY <1>4, <1>8, <1>9, <2>1 DEF FlowInv, Lined
<1>10. CASE btLink = "up" /\ Fw' = Fw \o Line(k)
  <2>1. Paired(Fw) /\ Rising(Fw) /\ Closed(Fw)  BY <1>10 DEF FlowInv, Lined
  <2>2. Fw \in Seq(Sent)  BY FwType
  <2> DEFINE w == Fw \o Line(k)
  <2>3. /\ Paired(w) /\ Rising(w) /\ Closed(w)
        /\ \A i \in 1 .. Len(w) : (i \in 1 .. Len(Fw) /\ w[i] = Fw[i]) \/ w[i].text = k
    <3> HIDE DEF k
    <3> QED  BY <1>5, <1>6, <2>1, <2>2, LineKeeps
  <2> HIDE DEF w, k
  <2>4. Fw' = w  BY <1>10 DEF w
  <2>5. Lined'  BY <2>3, <2>4 DEF Lined
  <2>6. OnTheWay'
    <3> SUFFICES ASSUME NEW i \in 1 .. Len(w)
                 PROVE  /\ w[i].text <= Len(ordered) /\ w[i].text \notin early
                        /\ w[i].text # 0 => \A r \in 1 .. Len(reached) : reached[r] < w[i].text
                        /\ \A j \in 1 .. Len(panelOut') : panelOut'[j] # 0 => w[i].text < panelOut'[j]
      BY <1>4, <2>4 DEF OnTheWay
    <3>1. CASE i \in 1 .. Len(Fw) /\ w[i] = Fw[i]
      <4>1. /\ Fw[i].text <= Len(ordered) /\ Fw[i].text \notin early
            /\ Fw[i].text # 0 => \A r \in 1 .. Len(reached) : reached[r] < Fw[i].text
        BY <3>1 DEF FlowInv, OnTheWay
      <4> QED  BY <1>7, <3>1, <4>1
    <3>2. CASE w[i].text = k  BY <1>5, <1>6, <3>2
    <3> QED  BY <2>3, <3>1, <3>2
  <2> QED  BY <1>4, <1>8, <2>5, <2>6 DEF FlowInv
<1>11. Fw' = Fw \/ (btLink = "up" /\ Fw' = Fw \o Line(k))
  <2> DEFINE L == Line(k)
  <2>1. L \in Seq(Sent)  BY <1>5, LineFacts
  <2>2. btOut \in Seq(Sent) /\ name_msg \in Seq(Sent) /\ down \in Seq(Sent)  BY DEF Shape, Buffers
  <2>3. CASE btLink # "up" \/ down' = down  BY <1>4, <2>3 DEF Fw
  <2>4. CASE btLink = "up" /\ down' = down \o L
    <3> DEFINE y == name_msg \o down
    <3> HIDE DEF L
    <3>1. y \in Seq(Sent)  BY <2>2, ConcatProperties
    <3>2. name_msg \o (down \o L) = y \o L
      <4>1. name_msg \in Seq(Sent) /\ down \in Seq(Sent) /\ L \in Seq(Sent)  BY <2>1, <2>2
      <4>2. (name_msg \o down) \o L = name_msg \o (down \o L)
        BY ONLY <4>1, ConcatAssociative
      <4> QED  BY <4>2
    <3> HIDE DEF y
    <3>3. btOut \o (y \o L) = (btOut \o y) \o L
      <4>1. btOut \in Seq(Sent) /\ L \in Seq(Sent)  BY <2>1, <2>2
      <4> QED  BY ONLY <3>1, <4>1, ConcatAssociative
    <3>4. Fw' = Fw \o L  BY <1>4, <2>4, <3>2, <3>3 DEF Fw, y
    <3> QED  BY <2>4, <3>4 DEF L
  <2> QED  BY <1>4, <2>3, <2>4
<1> QED  BY <1>9, <1>10, <1>11

(* The link ends: what the controller already has is the beginning of it. *)
LEMMA FlowLinkEnd == Shape /\ FlowInv /\ LinkEnd => FlowInv'
<1> SUFFICES ASSUME Shape, FlowInv, LinkEnd PROVE FlowInv'  OBVIOUS
<1> USE DEF threads, socket, panel, history
<1>1. /\ btLink = "up" /\ btLink' # "up"
      /\ UNCHANGED <<rcvPc, name_msg, down, btOut, reached, ordered, early, panelOut>>
  BY DEF LinkEnd
<1> DEFINE v == name_msg \o down
<1>2. btOut \in Seq(Sent) /\ v \in Seq(Sent)  BY ConcatProperties DEF Shape, Buffers
<1> HIDE DEF v
<1>3. Fw = btOut \o v /\ Fw' = btOut  BY <1>1 DEF Fw, v
<1>4. Lined'  BY <1>1, <1>2, <1>3, FrontKeeps DEF FlowInv, Lined
<1>5. \A i \in 1 .. Len(btOut) : i \in 1 .. Len(Fw) /\ Fw[i] = btOut[i]
  <2>1. Len(btOut) \in Nat /\ Len(v) \in Nat  BY <1>2
  <2> QED  BY <1>2, <1>3, <2>1, ConcatProperties
<1>6. OnTheWay'  BY <1>1, <1>3, <1>5 DEF FlowInv, OnTheWay
<1>7. Arrived'  BY <1>1 DEF FlowInv, Arrived
<1> QED  BY <1>1, <1>4, <1>6, <1>7 DEF FlowInv

(* A line reaches the controller, with whatever is lost behind it. *)
LEMMA FwFront ==
  ASSUME Shape, Receive
  PROVE  \E n \in 1 .. Len(Fw) :
           /\ Fw' = SubSeq(Fw, n + 1, Len(Fw)) /\ n \in 0 .. Len(Fw)
           /\ Fw[1] = btOut[1] /\ (~Fw[1].end => n >= 2)
           /\ Len(Fw') = Len(Fw) - n /\ \A i \in 1 .. Len(Fw') : Fw'[i] = Fw[n + i]
<1> DEFINE v == IF btLink = "up" THEN name_msg \o down ELSE <<>>
<1>1. PICK n \in 1 .. Len(btOut) : /\ btOut' = SubSeq(btOut, n + 1, Len(btOut))
                                   /\ ~btOut[1].end => n >= 2
  BY ReceiveFacts
<1>2. UNCHANGED <<btLink, name_msg, down>> /\ Len(btOut) \in Nat /\ Len(btOut) > 0
  BY ReceiveFacts DEF threads, socket
<1>3. btOut \in Seq(Sent) /\ v \in Seq(Sent) /\ n \in 0 .. Len(btOut)
  <2>1. btOut \in Seq(Sent) /\ name_msg \in Seq(Sent) /\ down \in Seq(Sent)  BY DEF Shape, Buffers
  <2>2. name_msg \o down \in Seq(Sent)  BY <2>1, ConcatProperties
  <2>3. <<>> \in Seq(Sent)  BY EmptySeq
  <2> QED  BY <1>2, <2>1, <2>2, <2>3
<1>4. Fw = btOut \o v /\ Fw' = SubSeq(btOut, n + 1, Len(btOut)) \o v
  <2>1. ASSUME NEW s \in Seq(Sent) PROVE s \o <<>> = s
    BY ONLY s \in Seq(Sent), ConcatEmptySeq
  <2>2. SubSeq(btOut, n + 1, Len(btOut)) \in Seq(Sent)  BY <1>3, Suffix
  <2>3. CASE btLink = "up"
    <3>1. v = name_msg \o down  BY <2>3
    <3>2. Fw = btOut \o (name_msg \o down)  BY <2>3 DEF Fw
    <3>3. Fw' = btOut' \o (name_msg \o down)  BY <1>2, <2>3 DEF Fw
    <3>4. btOut' = SubSeq(btOut, n + 1, Len(btOut))  BY <1>1
    <3> HIDE DEF v
    <3> QED  BY ONLY <3>1, <3>2, <3>3, <3>4
  <2>4. CASE btLink # "up"
    <3>1. v = <<>>  BY <2>4
    <3>2. Fw = btOut /\ Fw' = btOut'  BY <1>2, <2>4 DEF Fw
    <3>3. btOut \o <<>> = btOut  BY <1>3, <2>1
    <3>4. SubSeq(btOut, n + 1, Len(btOut)) \o <<>> = SubSeq(btOut, n + 1, Len(btOut))  BY <2>1, <2>2
    <3>5. btOut' = SubSeq(btOut, n + 1, Len(btOut))  BY <1>1
    <3> HIDE DEF v
    <3> QED  BY ONLY <3>1, <3>2, <3>3, <3>4, <3>5
  <2> QED  BY <2>3, <2>4
<1> HIDE DEF v
<1>5. Fw' = SubSeq(Fw, n + 1, Len(Fw)) /\ n \in 0 .. Len(Fw)  BY <1>3, <1>4, SuffixConcat
<1>6. n \in 1 .. Len(Fw)  BY <1>5, FwType
<1>7. Fw[1] = btOut[1]
  <2>1. Len(v) \in Nat /\ 1 \in 1 .. Len(btOut) + Len(v) /\ 1 <= Len(btOut)  BY <1>2, <1>3
  <2>2. (btOut \o v)[1] = btOut[1]  BY <1>3, <2>1, ConcatProperties
  <2> QED  BY <1>4, <2>2
<1>8. Len(Fw') = Len(Fw) - n /\ \A i \in 1 .. Len(Fw') : Fw'[i] = Fw[n + i]
  <2>1. Fw \in Seq(Sent)  BY FwType
  <2>2. /\ Len(SubSeq(Fw, n + 1, Len(Fw))) = Len(Fw) - n
        /\ \A i \in 1 .. Len(Fw) - n : SubSeq(Fw, n + 1, Len(Fw))[i] = Fw[n + i]
    BY <1>5, <2>1, Suffix
  <2>3. Len(Fw') = Len(Fw) - n  BY <1>5, <2>2
  <2>4. \A i \in 1 .. Len(Fw) - n : Fw'[i] = Fw[n + i]  BY <1>5, <2>2
  <2>5. 1 .. Len(Fw') = 1 .. Len(Fw) - n  BY ONLY <2>3
  <2> QED  BY ONLY <2>3, <2>4, <2>5
<1> QED  BY <1>1, <1>5, <1>6, <1>7, <1>8

LEMMA FlowReceive == Shape /\ FlowInv /\ Receive => FlowInv'
<1> SUFFICES ASSUME Shape, FlowInv, Receive PROVE FlowInv'  OBVIOUS
<1> DEFINE k == Fw[1].text
<1>1. PICK n \in 1 .. Len(Fw) :
           /\ Fw' = SubSeq(Fw, n + 1, Len(Fw)) /\ n \in 0 .. Len(Fw)
           /\ Fw[1] = btOut[1] /\ (~Fw[1].end => n >= 2)
           /\ Len(Fw') = Len(Fw) - n /\ \A i \in 1 .. Len(Fw') : Fw'[i] = Fw[n + i]
  BY FwFront
<1>2. /\ UNCHANGED <<rcvPc, name_msg, btLink, panelOut, ordered, early>>
      /\ k = 0 => reached' = reached
      /\ k # 0 => reached' = Append(reached, k)
  BY <1>1, ReceiveFacts DEF threads, panel
<1>3. Len(Fw) \in Nat /\ 1 \in 1 .. Len(Fw) /\ \A i \in 1 .. Len(Fw') : n + i \in 1 .. Len(Fw)
  <2>1. Len(Fw) \in Nat /\ n \in 1 .. Len(Fw)  BY FwType
  <2>2. Len(Fw') = Len(Fw) - n  BY <1>1
  <2> QED  BY ONLY <2>1, <2>2
<1>4. Lined'
  <2>1. Fw \in Seq(Sent)  BY FwType
  <2> QED  BY <1>1, <1>2, <2>1, SuffixKeeps DEF FlowInv, Lined
<1>5. ASSUME NEW i \in 1 .. Len(Fw'), Fw'[i].text # 0 PROVE k < Fw'[i].text
  <2>1. Fw'[i] = Fw[n + i] /\ n + i \in 1 .. Len(Fw) /\ 1 < n + i  BY <1>1, <1>3
  <2>2. CASE Fw[1].end  BY <1>3, <1>5, <2>1, <2>2 DEF FlowInv, Lined, Rising
  <2>3. CASE ~Fw[1].end
    <3>0. n >= 2  BY <1>1, <2>3
    <3>1. 1 < Len(Fw) /\ 2 \in 1 .. Len(Fw) /\ 2 < n + i
      <4>1. n \in 1 .. Len(Fw) /\ i \in 1 .. Len(Fw')  OBVIOUS
      <4>2. Len(Fw') = Len(Fw) - n  BY <1>1
      <4> QED  BY ONLY <1>3, <3>0, <4>1, <4>2
    <3>2. Fw[1 + 1].end /\ Fw[1 + 1].text = k
      BY <1>3, <2>3, <3>1 DEF FlowInv, Lined, Paired
    <3>3. 1 + 1 = 2  OBVIOUS
    <3>4. Fw[2].end /\ Fw[2].text = k  BY <3>2, <3>3
    <3> HIDE DEF k
    <3> QED  BY <1>5, <2>1, <3>1, <3>4 DEF FlowInv, Lined, Rising
  <2> QED  BY <2>2, <2>3
<1>6. /\ k \in Nat /\ k <= Len(ordered) /\ k \notin early
      /\ \A j \in 1 .. Len(panelOut) : panelOut[j] # 0 => k < panelOut[j]
  BY <1>3, FwType DEF FlowInv, OnTheWay
<1> HIDE DEF k
<1>7. Len(reached) \in Nat /\ Len(reached') \in Nat
      /\ \A r \in 1 .. Len(reached') :
           (r \in 1 .. Len(reached) /\ reached'[r] = reached[r]) \/ (k # 0 /\ reached'[r] = k)
  <2>1. reached \in Seq(Text \ {0}) /\ Len(reached) \in Nat  BY FwType DEF Shape, Records
  <2>2. CASE k = 0  BY <1>2, <2>1, <2>2
  <2>3. CASE k # 0
    <3>1. /\ Len(reached') = Len(reached) + 1 /\ reached'[Len(reached) + 1] = k
          /\ \A r \in 1 .. Len(reached) : reached'[r] = reached[r]
      BY <1>2, <2>1, <2>3
    <3> QED  BY <2>1, <2>3, <3>1
  <2> QED  BY <2>2, <2>3
<1>8. Arrived'
  <2> SUFFICES ASSUME NEW r \in 1 .. Len(reached')
               PROVE  /\ reached'[r] <= Len(ordered) /\ reached'[r] \notin early
                      /\ \A j \in 1 .. Len(panelOut) : panelOut[j] # 0 => reached'[r] < panelOut[j]
    BY <1>2 DEF Arrived
  <2>1. CASE r \in 1 .. Len(reached) /\ reached'[r] = reached[r]
    BY <2>1 DEF FlowInv, Arrived
  <2>2. CASE reached'[r] = k  BY <1>6, <2>2
  <2> QED  BY <1>7, <2>1, <2>2
<1>9. OnTheWay'
  <2> SUFFICES ASSUME NEW i \in 1 .. Len(Fw')
               PROVE  /\ Fw'[i].text <= Len(ordered) /\ Fw'[i].text \notin early
                      /\ Fw'[i].text # 0 => \A r \in 1 .. Len(reached') : reached'[r] < Fw'[i].text
                      /\ \A j \in 1 .. Len(panelOut) : panelOut[j] # 0 => Fw'[i].text < panelOut[j]
    BY <1>2 DEF OnTheWay
  <2>1. Fw'[i] = Fw[n + i] /\ n + i \in 1 .. Len(Fw)  BY <1>1, <1>3
  <2>2. /\ Fw'[i].text <= Len(ordered) /\ Fw'[i].text \notin early
        /\ Fw'[i].text # 0 => \A r \in 1 .. Len(reached) : reached[r] < Fw'[i].text
        /\ \A j \in 1 .. Len(panelOut) : panelOut[j] # 0 => Fw'[i].text < panelOut[j]
    BY <2>1 DEF FlowInv, OnTheWay
  <2> QED  BY <1>5, <1>7, <2>2
<1> QED  BY <1>2, <1>4, <1>8, <1>9 DEF FlowInv

LEMMA FlowStep == Shape /\ Shape' /\ PanelInv /\ FlowInv /\ [Next]_vars => FlowInv'
<1> SUFFICES ASSUME Shape, Shape', PanelInv, FlowInv, [Next]_vars PROVE FlowInv'  OBVIOUS
<1> USE DEF bridgeVars, socket, radio, threads, panel, server, control, history
<1>1. CASE Panel \/ Login  BY <1>1, FlowOfPanel
<1>2. CASE RelayOrder  BY <1>2, FlowRelay
<1>3. CASE SessionEnds \/ RelayAck \/ ServerEnd \/ LineError \/ Serve \/ Stop
  <2>1. UNCHANGED <<rcvPc, name_msg, down, btOut, btLink, reached, ordered, early, panelOut>>
    BY <1>3 DEF SessionEnds, RelayAck, ServerEnd, LineError, Serve, Stop
  <2>2. Fw' = Fw  BY <2>1 DEF Fw
  <2> QED  BY <2>1, <2>2, FlowQuiet DEF FlowInv
<1>4. CASE BridgeStep /\ recv_msg
  <2>1. Fw' = Fw  BY <1>4, FlowRecv
  <2>2. UNCHANGED <<reached, ordered, early, panelOut>>  BY <1>4 DEF BridgeStep
  <2>3. btLink' = btLink /\ (rcvPc' # "write" => name_msg' = <<>>)
    BY <1>4 DEF recv_msg, RecvCall, RecvRead, RecvEnd, RecvWrite, FlowInv
  <2> QED  BY <2>1, <2>2, <2>3, FlowQuiet
<1>5. CASE BridgeStep /\ (send_msg \/ Exit)
  <2>1. UNCHANGED <<reached, ordered, early, panelOut>>  BY <1>5 DEF BridgeStep
  <2>2. /\ UNCHANGED <<rcvPc, name_msg, down, btOut>>
        /\ btLink' = btLink \/ (btLink # "up" /\ btLink' # "up")
    BY <1>5 DEF send_msg, SndRead, SndReadNothing, SndReadError, SndWrite, SndWriteFails,
                SndWriteClosed, Exit
  <2>3. Fw' = Fw  BY <2>2 DEF Fw
  <2> QED  BY <2>1, <2>2, <2>3, FlowQuiet DEF FlowInv
<1>6. CASE LinkEnd  BY <1>6, FlowLinkEnd
<1>7. CASE Receive  BY <1>7, FlowReceive
<1>8. CASE UNCHANGED vars
  <2>1. Fw' = Fw  BY <1>8 DEF Fw, vars
  <2> QED  BY <1>8, <2>1, FlowQuiet DEF FlowInv, vars
<1> QED  BY <1>1, <1>2, <1>3, <1>4, <1>5, <1>6, <1>7, <1>8
         DEF Next, Server, Controller, BridgeStep, Bridge

-----------------------------------------------------------------------------
(* The orders in the controller: in their order, each with a motor, none of    *)
(* them driven yet.                                                            *)
Among(k, s) == \E r \in 1 .. Len(s) : s[r] = k
QueueInv ==
    /\ \A i \in 1 .. Len(queue) :
         /\ Among(queue[i], reached) /\ ordered[queue[i]] \in Motor
         /\ \A j \in 1 .. Len(queue) : i < j => queue[i] < queue[j]
         /\ \A d \in 1 .. Len(driven) : driven[d] < queue[i]
    /\ \A d \in 1 .. Len(driven) : Among(driven[d], reached)
    /\ running \subseteq Motor

LEMMA QueueInit == Init => QueueInv
BY DEF Init, QueueInv

LEMMA QueueFacts ==
  ASSUME Shape
  PROVE  /\ Len(queue) \in Nat /\ \A i \in 1 .. Len(queue) : queue[i] \in Nat \ {0}
         /\ Len(driven) \in Nat /\ \A d \in 1 .. Len(driven) : driven[d] \in Nat \ {0}
         /\ Len(reached) \in Nat /\ \A r \in 1 .. Len(reached) : reached[r] \in Nat \ {0}
<1> DEFINE T == Text \ {0}
<1>1. queue \in Seq(T) /\ driven \in Seq(T) /\ reached \in Seq(T)  BY DEF Shape, Records
<1>2. T \subseteq Nat \ {0}  BY KioskConstants DEF Text
<1> HIDE DEF T
<1>3. /\ Len(queue) \in Nat /\ \A i \in 1 .. Len(queue) : queue[i] \in T
      /\ Len(driven) \in Nat /\ \A d \in 1 .. Len(driven) : driven[d] \in T
      /\ Len(reached) \in Nat /\ \A r \in 1 .. Len(reached) : reached[r] \in T
  BY <1>1
<1> QED  BY <1>2, <1>3

(* An order that reaches the controller is a new one, and the last so far. *)
LEMMA ReachedGrows ==
  ASSUME Shape, FlowInv, Receive, btOut[1].text # 0
  PROVE  /\ btOut[1].text \in Nat \ {0} /\ btOut[1].text <= Len(ordered)
         /\ \A r \in 1 .. Len(reached) : reached[r] < btOut[1].text
         /\ reached' = Append(reached, btOut[1].text)
         /\ Len(reached') = Len(reached) + 1 /\ reached'[Len(reached) + 1] = btOut[1].text
         /\ \A r \in 1 .. Len(reached) : reached'[r] = reached[r]
<1> DEFINE k == btOut[1].text
<1>1. PICK n \in 1 .. Len(Fw) : Fw[1] = btOut[1]  BY FwFront
<1>2. 1 \in 1 .. Len(Fw)  BY FwType
<1>3. k \in Nat  BY <1>1, <1>2, FwType
<1>4. k <= Len(ordered) /\ \A r \in 1 .. Len(reached) : reached[r] < k
  BY <1>1, <1>2 DEF FlowInv, OnTheWay
<1>5. reached' = Append(reached, k)  BY ReceiveFacts
<1>6. reached \in Seq(Text \ {0})  BY DEF Shape, Records
<1> HIDE DEF k
<1>7. /\ Len(reached') = Len(reached) + 1 /\ reached'[Len(reached) + 1] = k
      /\ \A r \in 1 .. Len(reached) : reached'[r] = reached[r]
  BY <1>5, <1>6
<1>8. k # 0  BY DEF k
<1> QED  BY <1>3, <1>4, <1>5, <1>7, <1>8 DEF k

LEMMA ReachedStays ==
  ASSUME Shape, Receive
  PROVE  \A k : Among(k, reached) => Among(k, reached')
<1> DEFINE k == btOut[1].text
<1>1. reached \in Seq(Text \ {0}) /\ Len(reached) \in Nat  BY DEF Shape, Records
<1>2. reached' = reached \/ reached' = Append(reached, k)  BY ReceiveFacts
<1> HIDE DEF k
<1>3. \A r \in 1 .. Len(reached) : r \in 1 .. Len(reached') /\ reached'[r] = reached[r]
  <2>1. CASE reached' = reached  BY <2>1
  <2>2. CASE reached' = Append(reached, k)
    <3>1. Len(reached') = Len(reached) + 1 /\ \A r \in 1 .. Len(reached) : reached'[r] = reached[r]
      BY <1>1, <2>2
    <3> QED  BY <1>1, <3>1
  <2> QED  BY <1>2, <2>1, <2>2
<1> QED  BY <1>3 DEF Among

LEMMA QueueQuiet ==
  ASSUME QueueInv, UNCHANGED <<queue, reached, driven, ordered>>, running' \subseteq running
  PROVE  QueueInv'
BY DEF QueueInv, Among

LEMMA QueueReceive == Shape /\ FlowInv /\ QueueInv /\ Receive => QueueInv'
<1> SUFFICES ASSUME Shape, FlowInv, QueueInv, Receive PROVE QueueInv'  OBVIOUS
<1> DEFINE k == btOut[1].text
<1>1. CASE k = 0
  <2>1. UNCHANGED <<queue, running, reached, ordered, driven>>  BY <1>1, ReceiveFacts
  <2> QED  BY <2>1, QueueQuiet
<1>2. CASE k # 0
  <2>1. /\ k \in Nat \ {0} /\ \A r \in 1 .. Len(reached) : reached[r] < k
        /\ Len(reached') = Len(reached) + 1 /\ reached'[Len(reached) + 1] = k
    BY <1>2, ReachedGrows
  <2>2. UNCHANGED <<ordered, driven>> /\ running' = running
        /\ \/ queue' = queue
           \/ queue' = Append(queue, k) /\ ordered[k] \in Motor
    BY <1>2, ReceiveFacts DEF Take, D!Take
  <2>3. \A t : Among(t, reached) => Among(t, reached')  BY ReachedStays
  <2>4. Among(k, reached')
    <3>1. Len(reached) + 1 \in 1 .. Len(reached')  BY <2>1, QueueFacts
    <3> QED  BY <2>1, <3>1 DEF Among
  <2>5. \A t : Among(t, reached) => t < k  BY <2>1 DEF Among
  <2> HIDE DEF k
  <2>6. CASE queue' = queue  BY <2>2, <2>3, <2>6 DEF QueueInv
  <2>7. CASE queue' = Append(queue, k) /\ ordered[k] \in Motor
    <3>1. queue \in Seq(Text \ {0}) /\ Len(queue) \in Nat  BY QueueFacts DEF Shape, Records
    <3>2. /\ Len(queue') = Len(queue) + 1 /\ queue'[Len(queue) + 1] = k
          /\ \A i \in 1 .. Len(queue) : queue'[i] = queue[i]
      BY <2>7, <3>1
    <3>3. \A i \in 1 .. Len(queue') : i \in 1 .. Len(queue) \/ i = Len(queue) + 1  BY <3>1, <3>2
    <3>4. ASSUME NEW i \in 1 .. Len(queue')
          PROVE  /\ Among(queue'[i], reached') /\ ordered[queue'[i]] \in Motor
                 /\ \A j \in 1 .. Len(queue') : i < j => queue'[i] < queue'[j]
                 /\ \A d \in 1 .. Len(driven) : driven[d] < queue'[i]
      <4>1. CASE i \in 1 .. Len(queue)
        <5>1. /\ Among(queue[i], reached) /\ ordered[queue[i]] \in Motor
              /\ \A j \in 1 .. Len(queue) : i < j => queue[i] < queue[j]
              /\ \A d \in 1 .. Len(driven) : driven[d] < queue[i]
          BY <4>1 DEF QueueInv
        <5>2. queue'[i] = queue[i] /\ queue[i] < k  BY <2>5, <3>2, <4>1, <5>1
        <5>3. ASSUME NEW j \in 1 .. Len(queue'), i < j PROVE queue'[i] < queue'[j]
          <6>1. CASE j \in 1 .. Len(queue)  BY <3>2, <5>1, <5>2, <5>3, <6>1
          <6>2. CASE j = Len(queue) + 1  BY <3>2, <5>2, <6>2
          <6> QED  BY <3>3, <6>1, <6>2
        <5> QED  BY <2>3, <5>1, <5>2, <5>3
      <4>2. CASE i = Len(queue) + 1
        <5>1. queue'[i] = k  BY <3>2, <4>2
        <5>2. \A j \in 1 .. Len(queue') : ~(i < j)  BY <3>1, <3>2, <4>2
        <5>3. \A d \in 1 .. Len(driven) : driven[d] < k  BY <2>5 DEF QueueInv
        <5> QED  BY <2>4, <2>7, <5>1, <5>2, <5>3
      <4> QED  BY <3>3, <4>1, <4>2
    <3> QED  BY <2>2, <2>3, <3>4 DEF QueueInv
  <2> QED  BY <2>2, <2>6, <2>7
<1> QED  BY <1>1, <1>2

LEMMA QueueServe == Shape /\ QueueInv /\ Serve => QueueInv'
<1> SUFFICES ASSUME Shape, QueueInv, Serve PROVE QueueInv'  OBVIOUS
<1> DEFINE q == queue[1]
<1>1. /\ Len(queue) \in Nat /\ Len(queue) > 0 /\ Len(queue') = Len(queue) - 1
      /\ \A i \in 1 .. Len(queue') : queue'[i] = queue[i + 1]
      /\ Len(driven') = Len(driven) + 1 /\ Len(driven) \in Nat
      /\ driven'[Len(driven) + 1] = q
      /\ \A i \in 1 .. Len(driven) : driven'[i] = driven[i]
  BY ServeFacts
<1>2. reached' = reached /\ ordered' = ordered  BY DEF Serve
<1>3. /\ 1 \in 1 .. Len(queue) /\ \A i \in 1 .. Len(queue') : i + 1 \in 1 .. Len(queue) /\ 1 < i + 1
      /\ \A d \in 1 .. Len(driven') : d \in 1 .. Len(driven) \/ d = Len(driven) + 1
  BY <1>1
<1>4. /\ Among(q, reached) /\ ordered[q] \in Motor
      /\ \A j \in 1 .. Len(queue) : 1 < j => q < queue[j]
  BY <1>3 DEF QueueInv
<1>5. running' \subseteq Motor
  <2> DEFINE f == [i \in DOMAIN queue |-> ordered[queue[i]]]
  <2>1. running' = running \cup {Head(f)}  BY DEF Serve, D!Serve
  <2>2. Head(f) = ordered[q]
    <3>1. queue \in Seq(Text \ {0})  BY DEF Shape, Records
    <3>2. 1 \in DOMAIN queue  BY <1>3, <3>1
    <3>3. f[1] = ordered[q]  BY <3>2
    <3> HIDE DEF f
    <3>4. Head(f) = f[1]  OBVIOUS
    <3> QED  BY <3>3, <3>4
  <2> QED  BY <1>4, <2>1, <2>2 DEF QueueInv
<1> HIDE DEF q
<1>6. ASSUME NEW i \in 1 .. Len(queue')
      PROVE  /\ Among(queue'[i], reached') /\ ordered'[queue'[i]] \in Motor
             /\ \A j \in 1 .. Len(queue') : i < j => queue'[i] < queue'[j]
             /\ \A d \in 1 .. Len(driven') : driven'[d] < queue'[i]
  <2>1. queue'[i] = queue[i + 1] /\ i + 1 \in 1 .. Len(queue) /\ 1 < i + 1  BY <1>1, <1>3
  <2>2. /\ Among(queue[i + 1], reached) /\ ordered[queue[i + 1]] \in Motor
        /\ \A j \in 1 .. Len(queue) : i + 1 < j => queue[i + 1] < queue[j]
        /\ \A d \in 1 .. Len(driven) : driven[d] < queue[i + 1]
    BY <2>1 DEF QueueInv
  <2>3. ASSUME NEW j \in 1 .. Len(queue'), i < j PROVE queue'[i] < queue'[j]
    <3>1. queue'[j] = queue[j + 1] /\ j + 1 \in 1 .. Len(queue) /\ i + 1 < j + 1  BY <1>1, <1>3, <2>3
    <3> QED  BY <2>1, <2>2, <3>1
  <2>4. q < queue[i + 1]  BY <1>4, <2>1
  <2>5. ASSUME NEW d \in 1 .. Len(driven') PROVE driven'[d] < queue'[i]
    BY <1>1, <1>3, <2>1, <2>2, <2>4
  <2>6. Among(queue'[i], reached')  BY <1>2, <2>1, <2>2 DEF Among
  <2> QED  BY <1>2, <2>1, <2>2, <2>3, <2>5, <2>6
<1>7. \A d \in 1 .. Len(driven') : Among(driven'[d], reached')
  BY <1>1, <1>2, <1>3, <1>4 DEF QueueInv, Among
<1> QED  BY <1>5, <1>6, <1>7 DEF QueueInv

LEMMA QueueStep == Shape /\ FlowInv /\ QueueInv /\ [Next]_vars => QueueInv'
<1> SUFFICES ASSUME Shape, FlowInv, QueueInv, [Next]_vars PROVE QueueInv'  OBVIOUS
<1> USE DEF server, control, history
<1>1. CASE Connect \/ Connected \/ Lost \/ Abandon \/ Disconnect \/ Server \/ ServerEnd \/ BridgeStep
           \/ LinkEnd \/ LineError \/ Stop
  <2>1. UNCHANGED <<queue, reached, driven, ordered>> /\ running' \subseteq running
    BY <1>1 DEF Connect, Connected, Lost, Abandon, Disconnect, Server, Login, RelayOrder,
       SessionEnds, RelayAck, ServerEnd, BridgeStep, LinkEnd, LineError, Stop
  <2> QED  BY <2>1, QueueQuiet
<1>2. ASSUME NEW p \in Product, Order(p) PROVE QueueInv'
  <2>1. UNCHANGED <<queue, reached, driven, running>> /\ ordered' = Append(ordered, p)
    BY <1>2 DEF Order
  <2>2. ordered \in Seq(Product)  BY DEF Shape, Records
  <2>3. \A k \in 1 .. Len(ordered) : ordered'[k] = ordered[k]  BY <2>1, <2>2
  <2>4. \A i \in 1 .. Len(queue) : queue[i] \in 1 .. Len(ordered)
    <3>1. \A r \in 1 .. Len(reached) : reached[r] <= Len(ordered) /\ reached[r] \in Nat \ {0}
      BY QueueFacts DEF FlowInv, Arrived
    <3>2. Len(ordered) \in Nat  BY <2>2
    <3>3. \A i \in 1 .. Len(queue) : Among(queue[i], reached)  BY DEF QueueInv
    <3> QED  BY <3>1, <3>2, <3>3 DEF Among
  <2>5. \A i \in 1 .. Len(queue) : ordered'[queue[i]] \in Motor  BY <2>3, <2>4 DEF QueueInv
  <2> QED  BY <2>1, <2>5 DEF QueueInv, Among
<1>3. CASE Receive  BY <1>3, QueueReceive
<1>4. CASE Serve  BY <1>4, QueueServe
<1>5. CASE UNCHANGED vars  BY <1>5, QueueQuiet DEF vars
<1> QED  BY <1>1, <1>2, <1>3, <1>4, <1>5 DEF Next, Panel, Controller

-----------------------------------------------------------------------------
(* The way back.  What the link delivered and what msg holds of it are whole   *)
(* lines together, so that a part of a line in msg always finds its end.       *)
Lines(w) ==
    /\ Len(w) % 2 = 0
    /\ \A i \in 1 .. Len(w) : /\ w[i].end <=> i % 2 = 0
                              /\ i % 2 = 0 => w[i].text = w[i - 1].text

LEMMA LinesAppend ==
  ASSUME NEW u \in Seq(Sent), NEW t \in Text, Lines(u)
  PROVE  Lines(u \o Line(t))
<1> DEFINE L == Line(t)  w == u \o L
<1>1. L \in Seq(Sent) /\ Len(L) = 2 /\ L[1].text = t /\ ~L[1].end /\ L[2].text = t /\ L[2].end
  BY LineFacts
<1> HIDE DEF L
<1>2. /\ Len(w) = Len(u) + Len(L)
      /\ \A i \in 1 .. Len(u) + Len(L) : w[i] = IF i <= Len(u) THEN u[i] ELSE L[i - Len(u)]
  <2>1. u \in Seq(Sent) /\ L \in Seq(Sent)  BY <1>1
  <2> QED  BY ONLY <2>1, ConcatProperties DEF w
<1> HIDE DEF w
<1>3. Len(u) \in Nat /\ Len(w) = Len(u) + 2 /\ Len(u) % 2 = 0  BY <1>1, <1>2 DEF Lines
<1>4. Len(w) % 2 = 0 /\ (Len(u) + 1) % 2 # 0 /\ (Len(u) + 2) % 2 = 0  BY <1>3
<1>5. w[Len(u) + 1] = L[1] /\ w[Len(u) + 2] = L[2]
  <2>1. Len(u) + 1 - Len(u) = 1 /\ Len(u) + 2 - Len(u) = 2 /\ ~(Len(u) + 1 <= Len(u)) /\ ~(Len(u) + 2 <= Len(u))
    BY <1>3
  <2>2. Len(u) + 1 \in 1 .. Len(u) + Len(L) /\ Len(u) + 2 \in 1 .. Len(u) + Len(L)  BY <1>1, <1>3
  <2> QED  BY <1>2, <2>1, <2>2
<1>6. ASSUME NEW i \in 1 .. Len(w)
      PROVE  (w[i].end <=> i % 2 = 0) /\ (i % 2 = 0 => w[i].text = w[i - 1].text)
  <2>1. CASE i \in 1 .. Len(u)
    <3>1. (u[i].end <=> i % 2 = 0) /\ (i % 2 = 0 => u[i].text = u[i - 1].text)  BY <2>1 DEF Lines
    <3>2. w[i] = u[i]  BY <1>1, <1>2, <1>3, <2>1
    <3>3. i % 2 = 0 => w[i - 1] = u[i - 1]
      <4>1. i % 2 = 0 => i - 1 \in 1 .. Len(u) /\ i - 1 <= Len(u) /\ i - 1 \in 1 .. Len(u) + Len(L)
        BY <1>1, <1>3, <2>1
      <4> QED  BY <1>2, <4>1
    <3> QED  BY <3>1, <3>2, <3>3
  <2>2. CASE i = Len(u) + 1
    <3>1. i % 2 # 0  BY <1>4, <2>2
    <3> QED  BY <1>1, <1>5, <2>2, <3>1
  <2>3. CASE i = Len(u) + 2
    <3>1. i % 2 = 0 /\ i - 1 = Len(u) + 1  BY <1>3, <1>4, <2>3
    <3> QED  BY <1>1, <1>5, <2>3, <3>1
  <2> QED  BY <1>3, <2>1, <2>2, <2>3
<1>7. Lines(w)  BY <1>4, <1>6 DEF Lines
<1> QED  BY <1>7 DEF w, L

LEMMA LinesSplit ==
  ASSUME NEW u \in Seq(Sent), NEW v \in Seq(Sent), Lines(u \o v), Len(u) = 0 \/ u[Len(u)].end
  PROVE  Lines(u) /\ Lines(v)
<1> DEFINE w == u \o v
<1>1. /\ Len(w) = Len(u) + Len(v) /\ Len(u) \in Nat /\ Len(v) \in Nat
      /\ \A i \in 1 .. Len(u) : i \in 1 .. Len(w) /\ w[i] = u[i]
      /\ \A i \in 1 .. Len(v) : Len(u) + i \in 1 .. Len(w) /\ w[Len(u) + i] = v[i]
  <2>1. /\ Len(w) = Len(u) + Len(v)
        /\ \A i \in 1 .. Len(u) + Len(v) : w[i] = IF i <= Len(u) THEN u[i] ELSE v[i - Len(u)]
    BY ConcatProperties
  <2>2. Len(u) \in Nat /\ Len(v) \in Nat  OBVIOUS
  <2> HIDE DEF w
  <2>3. ASSUME NEW i \in 1 .. Len(u) PROVE i \in 1 .. Len(w) /\ w[i] = u[i]  BY <2>1, <2>2
  <2>4. ASSUME NEW i \in 1 .. Len(v) PROVE Len(u) + i \in 1 .. Len(w) /\ w[Len(u) + i] = v[i]
    <3>1. Len(u) + i \in 1 .. Len(u) + Len(v) /\ ~(Len(u) + i <= Len(u)) /\ Len(u) + i - Len(u) = i
      BY <2>2
    <3> QED  BY <2>1, <3>1
  <2> QED  BY <2>1, <2>2, <2>3, <2>4
<1> HIDE DEF w
<1>2. /\ Len(w) % 2 = 0
      /\ \A i \in 1 .. Len(w) : (w[i].end <=> i % 2 = 0) /\ (i % 2 = 0 => w[i].text = w[i - 1].text)
  BY DEF Lines, w
<1>3. Len(u) % 2 = 0
  <2>1. CASE Len(u) = 0  BY <2>1
  <2>2. CASE Len(u) # 0 /\ u[Len(u)].end
    <3>1. Len(u) \in 1 .. Len(u)  BY <1>1, <2>2
    <3> QED  BY <1>1, <1>2, <2>2, <3>1
  <2> QED  BY <2>1, <2>2
<1>4. Lines(u)
  <2>1. ASSUME NEW i \in 1 .. Len(u)
        PROVE  (u[i].end <=> i % 2 = 0) /\ (i % 2 = 0 => u[i].text = u[i - 1].text)
    <3>1. (w[i].end <=> i % 2 = 0) /\ (i % 2 = 0 => w[i].text = w[i - 1].text)  BY <1>1, <1>2
    <3>2. i % 2 = 0 => i - 1 \in 1 .. Len(u)  BY <1>1
    <3>3. w[i] = u[i] /\ (i % 2 = 0 => w[i - 1] = u[i - 1])  BY <1>1, <3>2
    <3> QED  BY <3>1, <3>3
  <2> QED  BY <1>3, <2>1 DEF Lines
<1>5. Lines(v)
  <2>1. Len(v) % 2 = 0  BY <1>1, <1>2, <1>3
  <2>2. ASSUME NEW i \in 1 .. Len(v)
        PROVE  (v[i].end <=> i % 2 = 0) /\ (i % 2 = 0 => v[i].text = v[i - 1].text)
    <3> DEFINE n == Len(u) + i
    <3>1. n \in 1 .. Len(w) /\ w[n] = v[i]  BY <1>1
    <3>2. n % 2 = i % 2
      <4>1. Len(u) \in Nat /\ i \in Nat  BY <1>1
      <4> QED  BY ONLY <1>3, <4>1
    <3>3. (w[n].end <=> n % 2 = 0) /\ (n % 2 = 0 => w[n].text = w[n - 1].text)  BY <1>2, <3>1
    <3>4. i % 2 = 0 => i - 1 \in 1 .. Len(v) /\ Len(u) + (i - 1) = n - 1  BY <1>1
    <3>5. i % 2 = 0 => w[n - 1] = v[i - 1]  BY <1>1, <3>4
    <3> HIDE DEF n
    <3> QED  BY <3>1, <3>2, <3>3, <3>5
  <2> QED  BY <2>1, <2>2 DEF Lines
<1> QED  BY <1>4, <1>5

LEMMA LinesPaired ==
  ASSUME NEW w \in Seq(Sent), Lines(w)
  PROVE  Paired(w) /\ Closed(w)
<1>1. Len(w) \in Nat /\ Len(w) % 2 = 0  BY DEF Lines
<1>2. \A i \in 1 .. Len(w) : (w[i].end <=> i % 2 = 0) /\ (i % 2 = 0 => w[i].text = w[i - 1].text)
  BY DEF Lines
<1>3. Paired(w)
  <2> SUFFICES ASSUME NEW i \in 1 .. Len(w), i < Len(w), ~w[i].end
               PROVE  w[i + 1].end /\ w[i + 1].text = w[i].text
    BY DEF Paired
  <2>1. i % 2 # 0  BY <1>2
  <2>2. (i + 1) % 2 = 0 /\ i + 1 \in 1 .. Len(w) /\ (i + 1) - 1 = i  BY <1>1, <2>1
  <2> QED  BY <1>2, <2>2
<1>4. Closed(w)
  <2> SUFFICES ASSUME Len(w) > 0 PROVE w[Len(w)].end  BY DEF Closed
  <2>1. Len(w) \in 1 .. Len(w)  BY <1>1
  <2> QED  BY <1>1, <1>2, <2>1
<1> QED  BY <1>3, <1>4

(* Acknowledgements that came back, those written to the server and those the  *)
(* link delivered follow each other, and are for orders that were reached.     *)
Back == msg \o btIn
Below(a, w) == \A j \in 1 .. Len(w) : w[j].text # 0 => a < w[j].text
Known(t, s) == t = 0 \/ Among(t, s)

AckedInv ==
    \A r \in 1 .. Len(acked) :
      /\ Among(acked[r], reached) /\ Below(acked[r], Back)
      /\ \A u \in 1 .. Len(up) : Below(acked[r], up[u])
WrittenInv ==
    \A u \in 1 .. Len(up) :
      /\ Lines(up[u])
      /\ \A i \in 1 .. Len(up[u]) :
           /\ Known(up[u][i].text, reached) /\ Below(up[u][i].text, Back)
           /\ \A v \in 1 .. Len(up) : u < v => Below(up[u][i].text, up[v])
AckInv ==
    /\ Lines(Back) /\ Rising(Back)
    /\ \A j \in 1 .. Len(Back) : Known(Back[j].text, reached)
    /\ AckedInv /\ WrittenInv

LEMMA AckInit == Init => AckInv
<1> SUFFICES ASSUME Init PROVE AckInv  OBVIOUS
<1>1. Back = <<>>
  <2>1. Back = <<>> \o <<>>  BY DEF Init, BridgeInit, Back
  <2>2. <<>> \in Seq(Sent)  BY EmptySeq
  <2> QED  BY <2>1, <2>2, ConcatEmptySeq
<1>2. Len(Back) = 0 /\ Len(up) = 0 /\ Len(acked) = 0  BY <1>1 DEF Init
<1>3. Lines(Back)
  <2>1. Len(Back) % 2 = 0  BY <1>2
  <2> QED  BY <1>2, <2>1 DEF Lines
<1>4. Rising(Back)  BY <1>2 DEF Rising
<1> QED  BY <1>2, <1>3, <1>4 DEF AckInv, AckedInv, WrittenInv

LEMMA BackFacts ==
  ASSUME Shape
  PROVE  /\ msg \in Seq(Sent) /\ btIn \in Seq(Sent) /\ Back \in Seq(Sent)
         /\ Len(msg) \in Nat /\ Len(btIn) \in Nat /\ Len(Back) = Len(msg) + Len(btIn)
         /\ \A i \in 1 .. Len(msg) : i \in 1 .. Len(Back) /\ Back[i] = msg[i]
         /\ \A i \in 1 .. Len(btIn) : Len(msg) + i \in 1 .. Len(Back) /\ Back[Len(msg) + i] = btIn[i]
<1>1. msg \in Seq(Sent) /\ btIn \in Seq(Sent) /\ Len(msg) \in Nat /\ Len(btIn) \in Nat
  BY DEF Shape, Buffers
<1>2. /\ Back \in Seq(Sent) /\ Len(Back) = Len(msg) + Len(btIn)
      /\ \A i \in 1 .. Len(msg) + Len(btIn) :
           Back[i] = IF i <= Len(msg) THEN msg[i] ELSE btIn[i - Len(msg)]
  <2>1. msg \in Seq(Sent) /\ btIn \in Seq(Sent)  BY <1>1
  <2> QED  BY ONLY <2>1, ConcatProperties DEF Back
<1>3. ASSUME NEW i \in 1 .. Len(msg) PROVE i \in 1 .. Len(Back) /\ Back[i] = msg[i]
  BY <1>1, <1>2
<1>4. ASSUME NEW i \in 1 .. Len(btIn)
      PROVE  Len(msg) + i \in 1 .. Len(Back) /\ Back[Len(msg) + i] = btIn[i]
  <2>1. /\ Len(msg) + i \in 1 .. Len(msg) + Len(btIn) /\ ~(Len(msg) + i <= Len(msg))
        /\ Len(msg) + i - Len(msg) = i
    BY <1>1
  <2> QED  BY <1>2, <2>1
<1> QED  BY <1>1, <1>2, <1>3, <1>4

LEMMA UpFacts ==
  ASSUME Shape
  PROVE  /\ Len(up) \in Nat
         /\ \A u \in 1 .. Len(up) : up[u] \in Seq(Sent) /\ Len(up[u]) \in Nat /\ Len(up[u]) > 0
<1> DEFINE W == Seq(Sent)
<1>1. up \in Seq(W)  BY DEF Shape, Buffers
<1> HIDE DEF W
<1>2. Len(up) \in Nat /\ DOMAIN up = 1 .. Len(up) /\ \A u \in 1 .. Len(up) : up[u] \in W  BY <1>1
<1>3. \A u \in 1 .. Len(up) : Len(up[u]) > 0  BY <1>2 DEF Shape, Filled
<1>4. \A w \in W : Len(w) \in Nat  BY DEF W
<1> QED  BY <1>2, <1>3, <1>4 DEF W

(* When send_msg writes or drops msg, it holds whole lines. *)
LEMMA BackSplit ==
  ASSUME Shape, AckInv, Len(msg) = 0 \/ msg[Len(msg)].end
  PROVE  /\ Lines(msg) /\ Lines(btIn) /\ Rising(btIn)
         /\ \A a : Below(a, Back) => Below(a, msg) /\ Below(a, btIn)
         /\ \A j \in 1 .. Len(msg) : Known(msg[j].text, reached) /\ Below(msg[j].text, btIn)
         /\ \A j \in 1 .. Len(btIn) : Known(btIn[j].text, reached)
<1>1. /\ msg \in Seq(Sent) /\ btIn \in Seq(Sent) /\ Back \in Seq(Sent)
      /\ Len(msg) \in Nat /\ Len(btIn) \in Nat /\ Len(Back) = Len(msg) + Len(btIn)
      /\ \A i \in 1 .. Len(msg) : i \in 1 .. Len(Back) /\ Back[i] = msg[i]
      /\ \A i \in 1 .. Len(btIn) : Len(msg) + i \in 1 .. Len(Back) /\ Back[Len(msg) + i] = btIn[i]
  BY BackFacts
<1>2. Lines(msg) /\ Lines(btIn)
  <2>1. Lines(msg \o btIn)  BY DEF AckInv, Back
  <2> QED  BY <1>1, <2>1, LinesSplit
<1>3. Rising(btIn)
  <2> SUFFICES ASSUME NEW i \in 1 .. Len(btIn), NEW j \in 1 .. Len(btIn), i < j,
                      btIn[i].end, btIn[j].text # 0
               PROVE  btIn[i].text < btIn[j].text
    BY DEF Rising
  <2>1. Len(msg) + i < Len(msg) + j  BY <1>1
  <2> QED  BY <1>1, <2>1 DEF AckInv, Rising
<1>4. ASSUME NEW a, Below(a, Back) PROVE Below(a, msg) /\ Below(a, btIn)
  BY <1>1, <1>4 DEF Below
<1>5. \A j \in 1 .. Len(msg) : Known(msg[j].text, reached)  BY <1>1 DEF AckInv
<1>6. \A j \in 1 .. Len(btIn) : Known(btIn[j].text, reached)  BY <1>1 DEF AckInv
<1>7. ASSUME NEW i \in 1 .. Len(msg) PROVE Below(msg[i].text, btIn)
  <2> SUFFICES ASSUME NEW j \in 1 .. Len(btIn), btIn[j].text # 0 PROVE msg[i].text < btIn[j].text
    BY DEF Below
  <2>1. PICK e \in 1 .. Len(msg) : msg[e].end /\ msg[e].text = msg[i].text
    <3>1. CASE msg[i].end  BY <3>1
    <3>2. CASE ~msg[i].end
      <4>1. Paired(msg) /\ Closed(msg)  BY <1>1, <1>2, LinesPaired
      <4>2. i # Len(msg)
        <5>1. i = Len(msg) => Len(msg) > 0  BY <1>1
        <5> QED  BY <3>2, <4>1, <5>1 DEF Closed
      <4>3. i < Len(msg) /\ i + 1 \in 1 .. Len(msg)  BY <1>1, <4>2
      <4> QED  BY <3>2, <4>1, <4>3 DEF Paired
    <3> QED  BY <3>1, <3>2
  <2>2. e < Len(msg) + j  BY <1>1
  <2>3. /\ e \in 1 .. Len(Back) /\ Back[e] = msg[e]
        /\ Len(msg) + j \in 1 .. Len(Back) /\ Back[Len(msg) + j] = btIn[j]
    BY <1>1
  <2> QED  BY <2>1, <2>2, <2>3 DEF AckInv, Rising
<1> QED  BY <1>2, <1>3, <1>4, <1>5, <1>6, <1>7

LEMMA AckQuiet ==
  ASSUME AckInv, Back' = Back, UNCHANGED <<up, acked, reached>>
  PROVE  AckInv'
BY DEF AckInv, AckedInv, WrittenInv

(* msg is given up: its lines are lost. *)
LEMMA AckDrop ==
  ASSUME Shape, AckInv, Len(msg) = 0 \/ msg[Len(msg)].end,
         Back' = btIn, UNCHANGED <<up, acked, reached>>
  PROVE  AckInv'
<1>1. /\ Lines(btIn) /\ Rising(btIn)
      /\ \A a : Below(a, Back) => Below(a, btIn)
      /\ \A j \in 1 .. Len(btIn) : Known(btIn[j].text, reached)
  BY BackSplit
<1>2. AckedInv'  BY <1>1 DEF AckInv, AckedInv
<1>3. WrittenInv'  BY <1>1 DEF AckInv, WrittenInv
<1> QED  BY <1>1, <1>2, <1>3 DEF AckInv

(* msg is written. *)
LEMMA AckWrite ==
  ASSUME Shape, AckInv, Len(msg) = 0 \/ msg[Len(msg)].end,
         Back' = btIn, up' = Append(up, msg), UNCHANGED <<acked, reached>>
  PROVE  AckInv'
<1>1. /\ Lines(msg) /\ Lines(btIn) /\ Rising(btIn)
      /\ \A a : Below(a, Back) => Below(a, msg) /\ Below(a, btIn)
      /\ \A j \in 1 .. Len(msg) : Known(msg[j].text, reached) /\ Below(msg[j].text, btIn)
      /\ \A j \in 1 .. Len(btIn) : Known(btIn[j].text, reached)
  BY BackSplit
<1>2. /\ Len(up) \in Nat /\ Len(up') = Len(up) + 1 /\ up'[Len(up) + 1] = msg
      /\ \A u \in 1 .. Len(up) : up'[u] = up[u]
  <2> DEFINE W == Seq(Sent)
  <2>1. up \in Seq(W) /\ msg \in W  BY DEF Shape, Buffers
  <2> HIDE DEF W
  <2> QED  BY <2>1, AppendProperties
<1>3. \A u \in 1 .. Len(up') : u \in 1 .. Len(up) \/ u = Len(up) + 1  BY <1>2
<1>4. AckedInv'
  <2> SUFFICES ASSUME NEW r \in 1 .. Len(acked)
               PROVE  /\ Among(acked[r], reached) /\ Below(acked[r], btIn)
                      /\ \A u \in 1 .. Len(up') : Below(acked[r], up'[u])
    BY DEF AckedInv
  <2>1. /\ Among(acked[r], reached) /\ Below(acked[r], Back)
        /\ \A u \in 1 .. Len(up) : Below(acked[r], up[u])
    BY DEF AckInv, AckedInv
  <2>2. Below(acked[r], msg) /\ Below(acked[r], btIn)  BY <1>1, <2>1
  <2>3. \A u \in 1 .. Len(up') : Below(acked[r], up'[u])  BY <1>2, <1>3, <2>1, <2>2
  <2> QED  BY <2>1, <2>2, <2>3
<1>5. WrittenInv'
  <2> SUFFICES ASSUME NEW u \in 1 .. Len(up')
               PROVE  /\ Lines(up'[u])
                      /\ \A i \in 1 .. Len(up'[u]) :
                           /\ Known(up'[u][i].text, reached) /\ Below(up'[u][i].text, btIn)
                           /\ \A v \in 1 .. Len(up') : u < v => Below(up'[u][i].text, up'[v])
    BY DEF WrittenInv
  <2>1. CASE u \in 1 .. Len(up)
    <3>1. up'[u] = up[u] /\ Lines(up[u])  BY <1>2, <2>1 DEF AckInv, WrittenInv
    <3>2. ASSUME NEW i \in 1 .. Len(up[u])
          PROVE  /\ Known(up[u][i].text, reached) /\ Below(up[u][i].text, btIn)
                 /\ \A v \in 1 .. Len(up') : u < v => Below(up[u][i].text, up'[v])
      <4>1. /\ Known(up[u][i].text, reached) /\ Below(up[u][i].text, Back)
            /\ \A v \in 1 .. Len(up) : u < v => Below(up[u][i].text, up[v])
        BY <2>1 DEF AckInv, WrittenInv
      <4>2. Below(up[u][i].text, msg) /\ Below(up[u][i].text, btIn)  BY <1>1, <4>1
      <4>3. \A v \in 1 .. Len(up') : u < v => Below(up[u][i].text, up'[v])
        BY <1>2, <1>3, <4>1, <4>2
      <4> QED  BY <4>1, <4>2, <4>3
    <3> QED  BY <3>1, <3>2
  <2>2. CASE u = Len(up) + 1
    <3>1. up'[u] = msg /\ \A v \in 1 .. Len(up') : ~(u < v)  BY <1>2, <2>2
    <3> QED  BY <1>1, <3>1
  <2> QED  BY <1>3, <2>1, <2>2
<1> QED  BY <1>1, <1>4, <1>5 DEF AckInv

(* An order that reaches the controller is answered behind all answers so far. *)
LEMMA AckReceive == Shape /\ FlowInv /\ AckInv /\ Receive => AckInv'
<1> SUFFICES ASSUME Shape, FlowInv, AckInv, Receive PROVE AckInv'  OBVIOUS
<1> DEFINE k == btOut[1].text  a == IF btOut[1].end THEN 0 ELSE k
<1>1. UNCHANGED <<msg, up, acked>>  BY ReceiveFacts DEF threads, socket
<1>2. CASE k = 0
  <2>1. UNCHANGED <<btIn, reached>>  BY <1>2, ReceiveFacts
  <2>2. Back' = Back  BY <1>1, <2>1 DEF Back
  <2> QED  BY <1>1, <2>1, <2>2, AckQuiet
<1>3. CASE k # 0
  <2>1. /\ k \in Nat \ {0} /\ \A r \in 1 .. Len(reached) : reached[r] < k
        /\ Len(reached') = Len(reached) + 1 /\ reached'[Len(reached) + 1] = k
    BY <1>3, ReachedGrows
  <2>2. \A t : Known(t, reached) => Known(t, reached') /\ t < k
    <3>1. \A t : Among(t, reached) => Among(t, reached')  BY ReachedStays
    <3>2. \A t : Among(t, reached) => t < k  BY <2>1 DEF Among
    <3>3. 0 < k  BY <2>1
    <3> QED  BY <3>1, <3>2, <3>3 DEF Known
  <2>3. Known(k, reached') /\ Known(0, reached')
    <3>1. Len(reached) + 1 \in 1 .. Len(reached')  BY <2>1, QueueFacts
    <3> QED  BY <2>1, <3>1 DEF Known, Among
  <2>4. a \in Text /\ (a = 0 \/ a = k)
    <3>1. k \in Text  BY ReceiveFacts, TextOf
    <3> QED  BY <3>1, ZeroText
  <2>5. btIn' = btIn \/ btIn' = btIn \o Line(a)  BY <1>3, ReceiveFacts
  <2> HIDE DEF k, a
  <2>6. Back' = Back \/ Back' = Back \o Line(a)
    <3> DEFINE L == Line(a)
    <3>1. msg \in Seq(Sent) /\ btIn \in Seq(Sent) /\ L \in Seq(Sent)  BY <2>4, BackFacts, LineFacts
    <3> HIDE DEF L
    <3>2. msg \o (btIn \o L) = (msg \o btIn) \o L  BY ONLY <3>1, ConcatAssociative
    <3>3. btIn' = btIn \/ btIn' = btIn \o L  BY <2>5 DEF L
    <3>4. Back' = Back \/ Back' = Back \o L  BY <1>1, <3>2, <3>3 DEF Back
    <3> QED  BY <3>4 DEF L
  <2>7. /\ Lines(Back') /\ Rising(Back')
        /\ \A i \in 1 .. Len(Back') : (i \in 1 .. Len(Back) /\ Back'[i] = Back[i]) \/ Back'[i].text = a
    <3>1. Back \in Seq(Sent) /\ Lines(Back) /\ Rising(Back)  BY BackFacts DEF AckInv
    <3>2. CASE Back' = Back  BY <3>1, <3>2
    <3>3. CASE Back' = Back \o Line(a)
      <4>1. Paired(Back) /\ Closed(Back)  BY <3>1, LinesPaired
      <4>2. a # 0 => \A i \in 1 .. Len(Back) : Back[i].text < a  BY <2>2, <2>4 DEF AckInv
      <4>3. Lines(Back \o Line(a))  BY <2>4, <3>1, LinesAppend
      <4>4. /\ Rising(Back \o Line(a))
            /\ \A i \in 1 .. Len(Back \o Line(a)) :
                 (i \in 1 .. Len(Back) /\ (Back \o Line(a))[i] = Back[i]) \/ (Back \o Line(a))[i].text = a
        BY <2>4, <3>1, <4>1, <4>2, LineKeeps
      <4> QED  BY <3>3, <4>3, <4>4
    <3> QED  BY <2>6, <3>2, <3>3
  <2>8. \A i \in 1 .. Len(Back') : Known(Back'[i].text, reached')
    <3>1. \A i \in 1 .. Len(Back) : Known(Back[i].text, reached)  BY DEF AckInv
    <3>2. Known(a, reached')  BY <2>3, <2>4
    <3> QED  BY <2>2, <2>7, <3>1, <3>2
  <2>9. ASSUME NEW t, Known(t, reached), Below(t, Back) PROVE Below(t, Back')
    <3> SUFFICES ASSUME NEW j \in 1 .. Len(Back'), Back'[j].text # 0 PROVE t < Back'[j].text
      BY DEF Below
    <3>1. CASE j \in 1 .. Len(Back) /\ Back'[j] = Back[j]  BY <2>9, <3>1 DEF Below
    <3>2. CASE Back'[j].text = a  BY <2>2, <2>4, <2>9, <3>2
    <3> QED  BY <2>7, <3>1, <3>2
  <2>10. AckedInv'
    <3> SUFFICES ASSUME NEW r \in 1 .. Len(acked)
                 PROVE  /\ Among(acked[r], reached') /\ Below(acked[r], Back')
                        /\ \A u \in 1 .. Len(up) : Below(acked[r], up[u])
      BY <1>1 DEF AckedInv
    <3>1. /\ Among(acked[r], reached) /\ Below(acked[r], Back)
          /\ \A u \in 1 .. Len(up) : Below(acked[r], up[u])
      BY DEF AckInv, AckedInv
    <3>2. Among(acked[r], reached')  BY <3>1, ReachedStays
    <3>3. Known(acked[r], reached)  BY <3>1 DEF Known
    <3> QED  BY <2>9, <3>1, <3>2, <3>3
  <2>11. WrittenInv'
    <3> SUFFICES ASSUME NEW u \in 1 .. Len(up)
                 PROVE  /\ Lines(up[u])
                        /\ \A i \in 1 .. Len(up[u]) :
                             /\ Known(up[u][i].text, reached') /\ Below(up[u][i].text, Back')
                             /\ \A v \in 1 .. Len(up) : u < v => Below(up[u][i].text, up[v])
      BY <1>1 DEF WrittenInv
    <3>1. Lines(up[u])  BY DEF AckInv, WrittenInv
    <3>2. ASSUME NEW i \in 1 .. Len(up[u])
          PROVE  /\ Known(up[u][i].text, reached') /\ Below(up[u][i].text, Back')
                 /\ \A v \in 1 .. Len(up) : u < v => Below(up[u][i].text, up[v])
      <4>1. /\ Known(up[u][i].text, reached) /\ Below(up[u][i].text, Back)
            /\ \A v \in 1 .. Len(up) : u < v => Below(up[u][i].text, up[v])
        BY DEF AckInv, WrittenInv
      <4> QED  BY <2>2, <2>9, <4>1
    <3> QED  BY <3>1, <3>2
  <2> QED  BY <2>7, <2>8, <2>10, <2>11 DEF AckInv
<1> QED  BY <1>2, <1>3

(* The server passes the first line of a read back, or nobody is there for it. *)
LEMMA RelayFacts ==
  ASSUME Shape, AckInv, RelayAck
  PROVE  /\ up[1][1].text \in Text
         /\ 1 \in 1 .. Len(up) /\ 1 \in 1 .. Len(up[1])
         /\ acked' = acked \/ (up[1][1].text # 0 /\ acked' = Append(acked, up[1][1].text))
         /\ \E k \in 1 .. Len(up) :
              /\ Len(up') = Len(up) - k
              /\ \A u \in 1 .. Len(up') : up'[u] = up[k + u] /\ k + u \in 1 .. Len(up) /\ 1 < k + u
         /\ UNCHANGED <<threads, radio, ordered, reached, driven>>
<1>1. PICK k \in 1 .. Len(up) : up' = SubSeq(up, k + 1, Len(up))  BY DEF RelayAck
<1>2. /\ Len(up') = Len(up) - k /\ Len(up) \in Nat
      /\ \A i \in 1 .. Len(up') : up'[i] = up[k + i]
  BY <1>1, RestOfUp
<1>3. 1 \in 1 .. Len(up) /\ \A u \in 1 .. Len(up') : k + u \in 1 .. Len(up) /\ 1 < k + u  BY <1>2
<1>4. up[1] \in Seq(Sent) /\ Len(up[1]) \in Nat /\ Len(up[1]) > 0  BY <1>3, UpFacts
<1>5. 1 \in 1 .. Len(up[1])  BY <1>4
<1>6. up[1][1] \in Sent  BY <1>4, <1>5, ElementOfSeq
<1>7. up[1][1].text \in Text  BY <1>6, TextOf
<1>8. acked' = acked \/ (up[1][1].text # 0 /\ acked' = Append(acked, up[1][1].text))
  BY DEF RelayAck
<1>9. UNCHANGED <<threads, radio, ordered, reached, driven>>  BY DEF RelayAck
<1> QED  BY <1>2, <1>3, <1>5, <1>7, <1>8, <1>9

LEMMA AckRelay == Shape /\ AckInv /\ RelayAck => AckInv'
<1> SUFFICES ASSUME Shape, AckInv, RelayAck PROVE AckInv'  OBVIOUS
<1> DEFINE a == up[1][1].text
<1>1. /\ a \in Text /\ 1 \in 1 .. Len(up) /\ 1 \in 1 .. Len(up[1])
      /\ acked' = acked \/ (a # 0 /\ acked' = Append(acked, a))
      /\ UNCHANGED <<msg, btIn, reached>>
  BY RelayFacts DEF threads, radio
<1>2. PICK k \in 1 .. Len(up) :
        /\ Len(up') = Len(up) - k
        /\ \A u \in 1 .. Len(up') : up'[u] = up[k + u] /\ k + u \in 1 .. Len(up) /\ 1 < k + u
  BY RelayFacts
<1>3. Back' = Back  BY <1>1 DEF Back
<1>4. /\ Known(a, reached) /\ Below(a, Back)
      /\ \A v \in 1 .. Len(up) : 1 < v => Below(a, up[v])
  BY <1>1 DEF AckInv, WrittenInv
<1> HIDE DEF a
<1>5. /\ Len(acked) \in Nat
      /\ \A r \in 1 .. Len(acked') :
           (r \in 1 .. Len(acked) /\ acked'[r] = acked[r]) \/ (a # 0 /\ acked'[r] = a)
  <2>1. acked \in Seq(Text \ {0}) /\ Len(acked) \in Nat  BY DEF Shape, Records
  <2>2. CASE acked' = acked  BY <2>1, <2>2
  <2>3. CASE a # 0 /\ acked' = Append(acked, a)
    <3>1. /\ Len(acked') = Len(acked) + 1 /\ acked'[Len(acked) + 1] = a
          /\ \A r \in 1 .. Len(acked) : acked'[r] = acked[r]
      BY <2>1, <2>3
    <3> QED  BY <2>1, <2>3, <3>1
  <2> QED  BY <1>1, <2>1, <2>2, <2>3
<1>6. AckedInv'
  <2> SUFFICES ASSUME NEW r \in 1 .. Len(acked')
               PROVE  /\ Among(acked'[r], reached) /\ Below(acked'[r], Back)
                      /\ \A u \in 1 .. Len(up') : Below(acked'[r], up'[u])
    BY <1>1, <1>3 DEF AckedInv
  <2>1. CASE r \in 1 .. Len(acked) /\ acked'[r] = acked[r]
    <3>1. /\ Among(acked[r], reached) /\ Below(acked[r], Back)
          /\ \A u \in 1 .. Len(up) : Below(acked[r], up[u])
      BY <2>1 DEF AckInv, AckedInv
    <3> QED  BY <1>2, <2>1, <3>1
  <2>2. CASE a # 0 /\ acked'[r] = a
    <3>1. Among(a, reached)  BY <1>4, <2>2 DEF Known
    <3> QED  BY <1>2, <1>4, <2>2, <3>1
  <2> QED  BY <1>5, <2>1, <2>2
<1>7. WrittenInv'
  <2> SUFFICES ASSUME NEW u \in 1 .. Len(up')
               PROVE  /\ Lines(up'[u])
                      /\ \A i \in 1 .. Len(up'[u]) :
                           /\ Known(up'[u][i].text, reached) /\ Below(up'[u][i].text, Back)
                           /\ \A v \in 1 .. Len(up') : u < v => Below(up'[u][i].text, up'[v])
    BY <1>1, <1>3 DEF WrittenInv
  <2>1. up'[u] = up[k + u] /\ k + u \in 1 .. Len(up)  BY <1>2
  <2>2. /\ Lines(up[k + u])
        /\ \A i \in 1 .. Len(up[k + u]) :
             /\ Known(up[k + u][i].text, reached) /\ Below(up[k + u][i].text, Back)
             /\ \A v \in 1 .. Len(up) : k + u < v => Below(up[k + u][i].text, up[v])
    BY <2>1 DEF AckInv, WrittenInv
  <2>3. ASSUME NEW v \in 1 .. Len(up'), u < v PROVE up'[v] = up[k + v] /\ k + v \in 1 .. Len(up) /\ k + u < k + v
    <3>1. up'[v] = up[k + v] /\ k + v \in 1 .. Len(up)  BY <1>2
    <3>2. k + u < k + v  BY <2>3
    <3> QED  BY <3>1, <3>2
  <2> QED  BY <2>1, <2>2, <2>3
<1> QED  BY <1>1, <1>3, <1>6, <1>7 DEF AckInv

(* A read moves what it returns behind what msg holds already. *)
LEMMA BackRead == Shape /\ SndRead => Back' = Back
<1> SUFFICES ASSUME Shape, SndRead PROVE Back' = Back  OBVIOUS
<1>1. PICK n \in 1 .. Len(btIn) :
         /\ n \in 0 .. Len(btIn) /\ Len(btIn) \in Nat
         /\ msg' = msg \o SubSeq(btIn, 1, n) /\ btIn' = SubSeq(btIn, n + 1, Len(btIn))
  BY ReadFacts
<1>2. msg \in Seq(Sent) /\ btIn \in Seq(Sent)  BY BackFacts
<1> DEFINE b == SubSeq(btIn, 1, n)  c == SubSeq(btIn, n + 1, Len(btIn))
<1>3. b \in Seq(Sent) /\ c \in Seq(Sent)  BY <1>1, <1>2, Prefix, Suffix
<1>4. b \o c = btIn
  <2>1. b \o c = SubSeq(btIn, 1, Len(btIn))  BY <1>1, <1>2, ConcatAdjacentSubSeq
  <2>2. SubSeq(btIn, 1, Len(btIn)) = btIn  BY <1>2, SubSeqFull
  <2> QED  BY <2>1, <2>2
<1> HIDE DEF b, c
<1>5. (msg \o b) \o c = msg \o (b \o c)
  <2>1. msg \in Seq(Sent) /\ b \in Seq(Sent) /\ c \in Seq(Sent)  BY <1>2, <1>3
  <2> QED  BY ONLY <2>1, ConcatAssociative
<1>6. msg' = msg \o b /\ btIn' = c  BY <1>1 DEF b, c
<1> QED  BY <1>4, <1>5, <1>6 DEF Back

LEMMA AckSnd == Shape /\ BridgeInv /\ AckInv /\ BridgeStep /\ send_msg => AckInv'
<1> SUFFICES ASSUME Shape, BridgeInv, AckInv, BridgeStep, send_msg PROVE AckInv'  OBVIOUS
<1> USE DEF socket, radio, history
<1>0. UNCHANGED <<acked, reached>>  BY DEF BridgeStep
<1>1. CASE SndRead
  <2>1. up' = up  BY <1>1 DEF SndRead
  <2> QED  BY <1>0, <1>1, <2>1, BackRead, AckQuiet
<1>2. CASE SndReadNothing \/ SndReadError
  <2>1. UNCHANGED <<msg, btIn, up>>  BY <1>2 DEF SndReadNothing, SndReadError
  <2>2. Back' = Back  BY <2>1 DEF Back
  <2> QED  BY <1>0, <2>1, <2>2, AckQuiet
<1>3. CASE SndWrite \/ SndWriteFails \/ SndWriteClosed
  <2>1. sndPc = "write" /\ msg' = <<>> /\ btIn' = btIn
    BY <1>3 DEF SndWrite, SndWriteFails, SndWriteClosed
  <2>2. msg[Len(msg)].end  BY <2>1 DEF BridgeInv
  <2>3. Back' = btIn
    <3>1. btIn \in Seq(Sent)  BY BackFacts
    <3>2. <<>> \o btIn = btIn  BY ONLY <3>1, ConcatEmptySeq
    <3> QED  BY <2>1, <3>2 DEF Back
  <2>4. up' = Append(up, msg) \/ up' = up  BY <1>3 DEF SndWrite, SndWriteFails, SndWriteClosed
  <2> QED  BY <1>0, <2>2, <2>3, <2>4, AckDrop, AckWrite
<1> QED  BY <1>1, <1>2, <1>3 DEF send_msg

LEMMA AckStep == Shape /\ FlowInv /\ BridgeInv /\ AckInv /\ [Next]_vars => AckInv'
<1> SUFFICES ASSUME Shape, FlowInv, BridgeInv, AckInv, [Next]_vars PROVE AckInv'  OBVIOUS
<1> USE DEF bridgeVars, socket, radio, threads, history
<1>1. CASE Panel \/ Login \/ RelayOrder \/ SessionEnds \/ ServerEnd \/ LinkEnd \/ LineError
           \/ Serve \/ Stop \/ UNCHANGED vars
  <2>1. UNCHANGED <<msg, btIn, up, acked, reached>>
    BY <1>1 DEF Panel, Connect, Connected, Lost, Abandon, Disconnect, Order, Login, RelayOrder,
       SessionEnds, ServerEnd, LinkEnd, LineError, Serve, Stop, vars
  <2>2. Back' = Back  BY <2>1 DEF Back
  <2> QED  BY <2>1, <2>2, AckQuiet
<1>2. CASE RelayAck  BY <1>2, AckRelay
<1>3. CASE Receive  BY <1>3, AckReceive
<1>4. CASE BridgeStep /\ send_msg  BY <1>4, AckSnd
<1>5. CASE BridgeStep /\ (recv_msg \/ Exit)
  <2>1. UNCHANGED <<msg, btIn, up, acked, reached>>
    BY <1>5 DEF BridgeStep, recv_msg, RecvCall, RecvRead, RecvEnd, RecvWrite, Exit
  <2>2. Back' = Back  BY <2>1 DEF Back
  <2> QED  BY <2>1, <2>2, AckQuiet
<1> QED  BY <1>1, <1>2, <1>3, <1>4, <1>5 DEF Next, Server, Controller, BridgeStep, Bridge

-----------------------------------------------------------------------------
IInv == Shape /\ PanelInv /\ BridgeInv /\ FlowInv /\ QueueInv /\ AckInv

LEMMA Inductive == Spec => []IInv
<1>1. Init => IInv
  BY ShapeInit, PanelInit, BridgeInvInit, FlowInit, QueueInit, AckInit DEF IInv
<1>2. IInv /\ [Next]_vars => IInv'
  <2> SUFFICES ASSUME IInv, [Next]_vars PROVE IInv'  OBVIOUS
  <2>1. Shape'  BY ShapeStep DEF IInv
  <2> QED
    BY <2>1, PanelStep, BridgeInvStep, FlowStep, QueueStep, AckStep DEF IInv
<1> QED  BY <1>1, <1>2, PTL DEF Spec

(* Types: what is sent, held and recorded stays within its range, msg within   *)
(* its size and the controller's queue within its length.                      *)
THEOREM KioskTypes == Spec => []TypeOK
<1>1. IInv => TypeOK
  <2> SUFFICES ASSUME IInv PROVE TypeOK  OBVIOUS
  <2>1. Buffers /\ Records /\ Flags /\ running \subseteq Motor  BY DEF IInv, Shape, QueueInv
  <2>2. BridgeTypeOK(Text)  BY <2>1 DEF BridgeTypeOK, Buffers, Flags, Sent
  <2> QED  BY <2>1, <2>2 DEF TypeOK, Buffers, Records, Flags
<1> QED  BY <1>1, Inductive, PTL

(* slotSocketSendData: an order made without a connection, or while it is      *)
(* being made, never reaches the controller, however often the panel connects. *)
THEOREM EarlyOrders == Spec => []EarlyOrderNeverReaches
<1>1. IInv => EarlyOrderNeverReaches
  <2> SUFFICES ASSUME IInv, NEW i \in DOMAIN reached PROVE reached[i] \notin early
    BY DEF EarlyOrderNeverReaches
  <2>1. reached \in Seq(Text \ {0})  BY DEF IInv, Shape, Records
  <2>2. i \in 1 .. Len(reached)  BY <2>1
  <2> QED  BY <2>2 DEF IInv, FlowInv, Arrived
<1> QED  BY <1>1, Inductive, PTL

(* The bridge's registration at the server is lost to nothing but an order the *)
(* panel sent before its login.                                                *)
THEOREM SlotLost == Spec => []SlotLostToEarlyOrder
<1>1. IInv => SlotLostToEarlyOrder  BY DEF IInv, PanelInv
<1> QED  BY <1>1, Inductive, PTL

(* send_msg ends for the end of the link, the end of the server, or a msg that *)
(* filled up in the middle of a line.                                          *)
THEOREM BridgeEnds == Spec => []EndsForACause
<1>1. IInv => EndsForACause  BY DEF IInv, BridgeInv
<1> QED  BY <1>1, Inductive, PTL

(* Whatever the link delivers at once and whatever msg holds, the bridge       *)
(* writes whole lines to the server.                                           *)
THEOREM WholeWrites == Spec => []WritesWholeLines
<1>1. IInv => WritesWholeLines
  <2> SUFFICES ASSUME IInv, NEW u \in DOMAIN up PROVE Whole(up[u])
    BY DEF WritesWholeLines
  <2>1. u \in 1 .. Len(up)  BY DEF IInv, Shape, Buffers
  <2>2. up[u] \in Seq(Sent) /\ Len(up[u]) > 0  BY <2>1, UpFacts DEF IInv
  <2>3. Lines(up[u])  BY <2>1 DEF IInv, AckInv, WrittenInv
  <2>4. DOMAIN up[u] = 1 .. Len(up[u]) /\ up[u] # <<>>  BY <2>2
  <2> QED  BY <2>3, <2>4 DEF Lines, Whole
<1> QED  BY <1>1, Inductive, PTL

LEMMA ServiceStep == IInv /\ [Next]_vars => [S!Next]_(S!vars)
<1> SUFFICES ASSUME IInv, [Next]_vars, UNCHANGED S!vars => FALSE PROVE S!Next
  OBVIOUS
<1> USE DEF server, control, history
<1>0. Shape /\ FlowInv /\ QueueInv /\ AckInv  BY DEF IInv
<1>1. CASE Connect \/ Connected \/ Lost \/ Abandon \/ Disconnect \/ Login \/ RelayOrder \/ SessionEnds
           \/ ServerEnd \/ BridgeStep \/ LinkEnd \/ LineError \/ Stop \/ UNCHANGED vars
  <2>1. UNCHANGED <<ordered, reached, driven, acked>>
    BY <1>1 DEF Connect, Connected, Lost, Abandon, Disconnect, Login, RelayOrder, SessionEnds,
       ServerEnd, BridgeStep, LinkEnd, LineError, Stop, vars
  <2> QED  BY <2>1 DEF S!vars
<1>2. ASSUME NEW p \in Product, Order(p) PROVE S!Next
  <2>1. S!Order(p)  BY <1>2 DEF Order, S!Order
  <2> QED  BY <2>1 DEF S!Next
<1>3. ASSUME NEW k, Among(k, reached) PROVE S!IsIn(k, reached) /\ k \in DOMAIN ordered
  <2>1. PICK r \in 1 .. Len(reached) : reached[r] = k  BY <1>3 DEF Among
  <2>2. k \in Nat \ {0} /\ k <= Len(ordered)  BY <1>0, <2>1, QueueFacts DEF FlowInv, Arrived
  <2>3. ordered \in Seq(Product) /\ reached \in Seq(Text \ {0})  BY <1>0 DEF Shape, Records
  <2>4. k \in DOMAIN ordered /\ r \in DOMAIN reached  BY <2>2, <2>3
  <2> QED  BY <2>1, <2>4 DEF S!IsIn
<1>4. CASE RelayAck
  <2> DEFINE a == up[1][1].text
  <2>1. /\ a # 0 /\ acked' = Append(acked, a) /\ UNCHANGED <<ordered, reached, driven>>
        /\ 1 \in 1 .. Len(up) /\ 1 \in 1 .. Len(up[1])
    BY <1>0, <1>4, RelayFacts DEF S!vars
  <2>2. Among(a, reached)  BY <1>0, <2>1 DEF AckInv, WrittenInv, Known
  <2>3. S!After(a, acked)
    <3>1. acked \in Seq(Text \ {0})  BY <1>0 DEF Shape, Records
    <3>2. \A r \in 1 .. Len(acked) : Below(acked[r], up[1])  BY <1>0, <2>1 DEF AckInv, AckedInv
    <3>3. \A r \in 1 .. Len(acked) : acked[r] < a  BY <2>1, <3>2 DEF Below
    <3> HIDE DEF a
    <3> QED  BY <3>1, <3>3 DEF S!After
  <2> HIDE DEF a
  <2>4. S!Acknowledge(a)  BY <1>3, <2>1, <2>2, <2>3 DEF S!Acknowledge
  <2> QED  BY <1>3, <2>2, <2>4 DEF S!Next
<1>5. CASE Receive
  <2> DEFINE k == btOut[1].text
  <2>1. k # 0 /\ UNCHANGED <<ordered, driven, acked>>
    BY <1>5, <1>0, ReceiveFacts DEF S!vars
  <2>2. /\ k \in Nat \ {0} /\ k <= Len(ordered) /\ \A r \in 1 .. Len(reached) : reached[r] < k
        /\ reached' = Append(reached, k)
    BY <1>0, <1>5, <2>1, ReachedGrows
  <2> HIDE DEF k
  <2>3. ordered \in Seq(Product) /\ reached \in Seq(Text \ {0})  BY <1>0 DEF Shape, Records
  <2>4. k \in DOMAIN ordered /\ S!After(k, reached)  BY <2>2, <2>3 DEF S!After
  <2>5. S!Reach(k)  BY <2>1, <2>2, <2>4 DEF S!Reach
  <2> QED  BY <2>4, <2>5 DEF S!Next
<1>6. CASE Serve
  <2> DEFINE q == queue[1]
  <2>1. Len(queue) \in Nat /\ Len(queue) > 0 /\ driven' = Append(driven, q)  BY <1>0, <1>6, ServeFacts
  <2>2. UNCHANGED <<ordered, reached, acked>>  BY <1>6 DEF Serve
  <2>3. 1 \in 1 .. Len(queue)  BY <2>1
  <2>4. Among(q, reached) /\ \A d \in 1 .. Len(driven) : driven[d] < q
    BY <1>0, <2>3 DEF QueueInv
  <2> HIDE DEF q
  <2>5. driven \in Seq(Text \ {0})  BY <1>0 DEF Shape, Records
  <2>6. S!After(q, driven)  BY <2>4, <2>5 DEF S!After
  <2>7. S!Drive(q)  BY <1>3, <2>1, <2>2, <2>4, <2>6 DEF S!Drive
  <2> QED  BY <1>3, <2>4, <2>7 DEF S!Next
<1> QED  BY <1>1, <1>2, <1>4, <1>5, <1>6 DEF Next, Panel, Server, Controller

(* Panel, server, bridge and controller together implement OrderService: no    *)
(* order is dispensed twice or out of turn, and an acknowledgement that comes  *)
(* back is for an order that reached the controller.                           *)
THEOREM ServiceImplemented == Spec => ImplementsOrderService
<1>1. Init => S!Init  BY DEF Init, S!Init
<1>2. IInv /\ [Next]_vars => [S!Next]_(S!vars)  BY ServiceStep
<1> QED  BY <1>1, <1>2, Inductive, PTL DEF Spec, ImplementsOrderService, S!Spec

-----------------------------------------------------------------------------
(* What is under way is not dropped.  Not the order that is first of what comes *)
(* to the controller.                                                          *)
LEMMA ComingFacts ==
  ASSUME Shape
  PROVE  /\ Coming \in Seq(Sent) /\ Len(Coming) \in Nat
         /\ \A i \in 1 .. Len(btOut) : i \in 1 .. Len(Coming) /\ Coming[i] = btOut[i]
         /\ Coming = <<>> => btOut = <<>> /\ name_msg = <<>> /\ down = <<>>
<1> DEFINE rest == name_msg \o down
<1>1. btOut \in Seq(Sent) /\ name_msg \in Seq(Sent) /\ down \in Seq(Sent)  BY DEF Shape, Buffers
<1>2. rest \in Seq(Sent)  BY <1>1, ConcatProperties
<1>3. Coming = btOut \o rest  BY DEF Coming
<1>4. rest = <<>> => name_msg = <<>> /\ down = <<>>  BY ONLY <1>1, ConcatEqualIffEmpty
<1> HIDE DEF rest
<1>5. /\ btOut \o rest \in Seq(Sent) /\ Len(btOut \o rest) = Len(btOut) + Len(rest)
      /\ \A i \in 1 .. Len(btOut) + Len(rest) :
           (btOut \o rest)[i] = IF i <= Len(btOut) THEN btOut[i] ELSE rest[i - Len(btOut)]
  BY ONLY <1>1, <1>2, ConcatProperties
<1>6. btOut \o rest = <<>> => btOut = <<>> /\ rest = <<>>  BY ONLY <1>1, <1>2, ConcatEqualIffEmpty
<1>7. Len(btOut) \in Nat /\ Len(rest) \in Nat  BY <1>1, <1>2
<1>8. Coming \in Seq(Sent) /\ Len(Coming) = Len(btOut) + Len(rest)  BY <1>3, <1>5
<1>9. ASSUME NEW i \in 1 .. Len(btOut)
      PROVE  i \in 1 .. Len(Coming) /\ Coming[i] = btOut[i]
  <2>1. i \in 1 .. Len(btOut) + Len(rest) /\ i <= Len(btOut)  BY <1>7
  <2> QED  BY <1>3, <1>5, <1>8, <2>1
<1> QED  BY <1>3, <1>4, <1>6, <1>7, <1>8, <1>9

LEMMA LinePrefix ==
  ASSUME NEW t \in Text, NEW c \in Seq(Sent)
  PROVE  IsPrefix(Line(t), c) <=> Len(c) >= 2 /\ c[1] = Line(t)[1] /\ c[2] = Line(t)[2]
<1> DEFINE l == Line(t)
<1>1. l \in Seq(Sent) /\ Len(l) = 2  BY LineType
<1> HIDE DEF l
<1>2. SubSeq(l, 1, 2) = l
  <2>1. SubSeq(l, 1, Len(l)) = l  BY <1>1, SubSeqFull
  <2> QED  BY <1>1, <2>1
<1>3. IsPrefix(l, c) <=> Len(c) >= 2 /\ l = SubSeq(c, 1, 2)
  <2>1. Len(c) \in Nat  OBVIOUS
  <2> QED  BY <1>1, <1>2, <2>1 DEF IsPrefix
<1>4. ASSUME Len(c) >= 2 PROVE l = SubSeq(c, 1, 2) <=> c[1] = l[1] /\ c[2] = l[2]
  <2>1. 2 \in 0 .. Len(c)  BY <1>4
  <2> DEFINE p == SubSeq(c, 1, 2)
  <2>2. p \in Seq(Sent) /\ Len(p) = 2 /\ p[1] = c[1] /\ p[2] = c[2]
    <3>1. p \in Seq(Sent) /\ Len(p) = 2 /\ \A i \in 1 .. 2 : p[i] = c[i]  BY <2>1, Prefix
    <3> QED  BY <3>1
  <2> HIDE DEF p
  <2>3. ASSUME c[1] = l[1], c[2] = l[2] PROVE l = p
    <3>1. \A i \in 1 .. Len(l) : l[i] = p[i]  BY <1>1, <2>2, <2>3
    <3> QED  BY <1>1, <2>2, <3>1, SeqEqual
  <2> QED  BY <2>2, <2>3 DEF p
<1> QED  BY <1>3, <1>4 DEF l

(* What more the server passes on comes behind it. *)
LEMMA LineStaysFirst ==
  ASSUME Shape, NEW t \in Text, NEW x \in Text,
         UNCHANGED <<btOut, name_msg>>, down' = down \o Line(x)
  PROVE  /\ IsPrefix(Line(t), Coming) => IsPrefix(Line(t), Coming')
         /\ Coming = <<>> => Coming' = Line(x)
<1>1. /\ btOut \in Seq(Sent) /\ name_msg \in Seq(Sent) /\ down \in Seq(Sent)
      /\ Line(x) \in Seq(Sent)
  BY LineType DEF Shape, Buffers
<1>2. Coming' = Coming \o Line(x)
  <2> DEFINE rest == name_msg \o down  l == Line(x)
  <2>1. name_msg \o (down \o l) = rest \o l
    <3>1. name_msg \in Seq(Sent) /\ down \in Seq(Sent) /\ l \in Seq(Sent)  BY <1>1
    <3> HIDE DEF l
    <3> QED  BY ONLY <3>1, ConcatAssociative
  <2>2. rest \in Seq(Sent) /\ l \in Seq(Sent)
    <3>1. name_msg \o down \in Seq(Sent)  BY ONLY <1>1, ConcatProperties
    <3> QED  BY <1>1, <3>1
  <2>3. Coming' = btOut \o (rest \o l)  BY <2>1 DEF Coming
  <2>4. Coming = btOut \o rest  BY DEF Coming
  <2> HIDE DEF rest, l
  <2>5. (btOut \o rest) \o l = btOut \o (rest \o l)
    <3>1. btOut \in Seq(Sent) /\ rest \in Seq(Sent) /\ l \in Seq(Sent)  BY <1>1, <2>2
    <3> QED  BY ONLY <3>1, ConcatAssociative
  <2>6. Coming' = Coming \o l  BY <2>3, <2>4, <2>5
  <2> QED  BY <2>6 DEF l
<1>3. Coming \in Seq(Sent) /\ Len(Coming) \in Nat  BY ComingFacts
<1>4. /\ Coming \o Line(x) \in Seq(Sent) /\ Len(Coming \o Line(x)) = Len(Coming) + Len(Line(x))
      /\ \A i \in 1 .. Len(Coming) + Len(Line(x)) :
           (Coming \o Line(x))[i] = IF i <= Len(Coming) THEN Coming[i] ELSE Line(x)[i - Len(Coming)]
  BY ONLY <1>1, <1>3, ConcatProperties
<1>5. Len(Line(x)) = 2  BY LineType
<1>6. ASSUME IsPrefix(Line(t), Coming) PROVE IsPrefix(Line(t), Coming')
  <2>1. Len(Coming) >= 2 /\ Coming[1] = Line(t)[1] /\ Coming[2] = Line(t)[2]
    BY <1>3, <1>6, LinePrefix
  <2>2. /\ 1 \in 1 .. Len(Coming) + Len(Line(x)) /\ 1 <= Len(Coming)
        /\ 2 \in 1 .. Len(Coming) + Len(Line(x)) /\ 2 <= Len(Coming)
    BY <1>3, <1>5, <2>1
  <2>3. Coming'[1] = Coming[1] /\ Coming'[2] = Coming[2]  BY <1>2, <1>4, <2>2
  <2>4. Coming' \in Seq(Sent) /\ Len(Coming') >= 2  BY <1>2, <1>3, <1>4, <1>5
  <2> QED  BY <2>1, <2>3, <2>4, LinePrefix
<1>7. ASSUME Coming = <<>> PROVE Coming' = Line(x)
  <2>1. <<>> \o Line(x) = Line(x)  BY ONLY <1>1, ConcatEmptySeq
  <2> QED  BY <1>2, <1>7, <2>1
<1> QED  BY <1>6, <1>7

(* The order at the head of what the panel sent is the line that is relayed. *)
LEMMA OrderRelayed ==
  ASSUME Shape, RelayOrder, ~Ended', NEW k \in Text,
         \/ IsPrefix(Line(k), Coming)
         \/ Coming = <<>> /\ Head(panelOut) = k
  PROVE  IsPrefix(Line(k), Coming')
<1> DEFINE x == Head(panelOut)
<1>1. x \in Text
  <2>1. panelOut \in Seq(Text) /\ panelOut # <<>>  BY DEF RelayOrder, Shape, Buffers
  <2> QED  BY <2>1, HeadTailProperties
<1>2. slot /\ alive
  BY DEF RelayOrder, Ended, threads, server
<1>3. UNCHANGED <<btOut, name_msg>> /\ down' = down \o Line(x)
  BY <1>2 DEF RelayOrder, threads, radio
<1> HIDE DEF x
<1>4. /\ IsPrefix(Line(k), Coming) => IsPrefix(Line(k), Coming')
      /\ Coming = <<>> => Coming' = Line(x)
  BY <1>1, <1>3, LineStaysFirst
<1>5. IsPrefix(Line(k), Line(k))
  <2> DEFINE l == Line(k)
  <2>1. l \in Seq(Sent) /\ Len(l) = 2  BY LineType
  <2>2. IsPrefix(Line(k), l) <=> Len(l) >= 2 /\ l[1] = Line(k)[1] /\ l[2] = Line(k)[2]
    BY <2>1, LinePrefix
  <2> HIDE DEF l
  <2>3. Len(l) >= 2  BY <2>1
  <2> QED  BY <2>2, <2>3 DEF l
<1> QED  BY <1>4, <1>5 DEF x

(* The controller takes a whole line as the order it is, into the queue. *)
LEMMA OrderReceived ==
  ASSUME Shape, Receive, NEW k \in Text \ {0},
         Len(queue) < QUEUE_LEN, ordered[k] \in Motor,
         IsPrefix(Line(k), Coming) \/ Coming = <<>>
  PROVE  \E i \in DOMAIN queue' : queue'[i] = k
<1>1. Len(btOut) \in Nat /\ Len(btOut) > 0  BY ReceiveFacts
<1>2. 1 \in 1 .. Len(btOut)  BY <1>1
<1>3. Coming \in Seq(Sent) /\ 1 \in 1 .. Len(Coming) /\ Coming[1] = btOut[1]  BY <1>2, ComingFacts
<1>4. Coming # <<>>  BY <1>3
<1>5. Coming[1] = Line(k)[1]  BY <1>3, <1>4, LinePrefix
<1>6. btOut[1].text = k
  <2>1. k \in Text  OBVIOUS
  <2>2. Line(k)[1] = [text |-> k, end |-> FALSE]  BY <2>1, LineType
  <2>3. btOut[1] = [text |-> k, end |-> FALSE]  BY <1>3, <1>5, <2>2
  <2>4. [text |-> k, end |-> FALSE].text = k  OBVIOUS
  <2> QED  BY <2>3, <2>4
<1>7. Take(btOut[1].text)  BY <1>6, ReceiveFacts
<1>8. queue' = Append(queue, k)  BY <1>6, <1>7 DEF Take
<1>9. queue \in Seq(Text \ {0})  BY DEF Shape, Records
<1>10. Len(queue') = Len(queue) + 1 /\ Len(queue) \in Nat /\ queue'[Len(queue) + 1] = k
       /\ DOMAIN queue' = 1 .. Len(queue')
  <2> DEFINE T == Text \ {0}
  <2>1. queue \in Seq(T) /\ k \in T  BY <1>9
  <2> HIDE DEF T
  <2> QED  BY <1>8, <2>1
<1>11. Len(queue) + 1 \in DOMAIN queue'  BY <1>10
<1> QED  BY <1>10, <1>11

(* A queued order stays until UART_Task takes it to its motor. *)
LEMMA OrderQueued ==
  ASSUME Shape, [Next]_vars, NEW k, \E i \in DOMAIN queue : queue[i] = k
  PROVE  \/ \E i \in DOMAIN queue' : queue'[i] = k
         \/ \E i \in DOMAIN driven' : driven'[i] = k
<1> USE DEF server, control, history
<1>0. PICK i \in DOMAIN queue : queue[i] = k  OBVIOUS
<1> DEFINE T == Text \ {0}
<1>00. queue \in Seq(T) /\ Len(queue) \in Nat /\ i \in 1 .. Len(queue)  BY <1>0 DEF Shape, Records
<1> HIDE DEF T
<1>1. CASE Serve
  <2>1. /\ Len(queue) > 0 /\ Len(queue') = Len(queue) - 1 /\ queue' \in Seq(T)
        /\ \A j \in 1 .. Len(queue') : queue'[j] = queue[j + 1]
        /\ driven' \in Seq(T) /\ Len(driven') = Len(driven) + 1 /\ Len(driven) \in Nat
        /\ driven'[Len(driven) + 1] = queue[1]
    BY <1>1, ServeFacts DEF T
  <2>2. CASE i = 1
    <3>1. Len(driven) + 1 \in DOMAIN driven'  BY <2>1
    <3> QED  BY <1>0, <2>1, <2>2, <3>1
  <2>3. CASE i # 1
    <3> DEFINE j == i - 1
    <3>1. j \in 1 .. Len(queue') /\ j + 1 = i  BY <1>00, <2>1, <2>3
    <3>2. DOMAIN queue' = 1 .. Len(queue')  BY <2>1
    <3> HIDE DEF j
    <3>3. queue'[j] = queue[j + 1]  BY <2>1, <3>1
    <3>4. queue'[j] = k  BY <1>0, <3>1, <3>3
    <3> QED  BY <3>1, <3>2, <3>4
  <2> QED  BY <2>2, <2>3
<1>2. CASE Receive
  <2> DEFINE t == btOut[1].text
  <2>1. queue' = queue \/ (t \in T /\ queue' = Append(queue, t))
    <3>1. btOut[1] \in Sent  BY <1>2, ReceiveFacts
    <3>2. t \in Text  BY <3>1, TextOf
    <3> QED  BY <1>2, <3>2, ReceiveFacts DEF Take, T
  <2> HIDE DEF t
  <2>2. i \in DOMAIN queue' /\ queue'[i] = queue[i]  BY <1>00, <2>1
  <2> QED  BY <1>0, <2>2
<1>3. CASE Panel \/ Server \/ ServerEnd \/ BridgeStep \/ LinkEnd \/ LineError \/ Stop
           \/ UNCHANGED vars
  <2>1. queue' = queue
    BY <1>3 DEF Panel, Connect, Connected, Lost, Abandon, Disconnect, Order, Server, Login,
       RelayOrder, SessionEnds, RelayAck, ServerEnd, BridgeStep, LinkEnd, LineError, Stop, vars
  <2> QED  BY <1>0, <2>1
<1> QED  BY <1>1, <1>2, <1>3 DEF Next, Controller

(* No other step disturbs what comes first. *)
LEMMA OrderKept ==
  ASSUME Shape, FlowInv, [Next]_vars, ~RelayOrder, ~Receive, ~Ended'
  PROVE  Coming' = Coming
<1> USE DEF bridgeVars, socket, radio, threads, panel, server, control, history
<1>1. CASE BridgeStep /\ recv_msg
  <2>1. Fw' = Fw  BY <1>1, FlowRecv
  <2>2. btLink' = btLink /\ btLink' = "up"
    BY <1>1 DEF recv_msg, RecvCall, RecvRead, RecvEnd, RecvWrite, Ended
  <2> QED  BY <2>1, <2>2 DEF Fw, Coming
<1>2. CASE BridgeStep /\ (send_msg \/ Exit)
  <2>1. UNCHANGED <<name_msg, down, btOut>>
    BY <1>2 DEF send_msg, SndRead, SndReadNothing, SndReadError, SndWrite, SndWriteFails,
                SndWriteClosed, Exit
  <2> QED  BY <2>1 DEF Coming
<1>3. CASE Panel \/ Login \/ SessionEnds \/ RelayAck \/ ServerEnd \/ LinkEnd \/ LineError
           \/ Serve \/ Stop \/ UNCHANGED vars
  <2>1. UNCHANGED <<name_msg, down, btOut>>
    BY <1>3 DEF Panel, Connect, Connected, Lost, Abandon, Disconnect, Order, Login, SessionEnds,
       RelayAck, ServerEnd, LinkEnd, LineError, Serve, Stop, vars
  <2> QED  BY <2>1 DEF Coming
<1> QED  BY <1>1, <1>2, <1>3 DEF Next, Server, Controller, BridgeStep, Bridge

(* Until it is relayed, an order at the head of what the panel sent stays there, *)
(* whether or not the panel does.                                               *)
LEMMA HeadKept ==
  ASSUME Shape, PanelInv, [Next]_vars, ~RelayOrder, ~Ended',
         session = "in", panelOut # <<>>
  PROVE  session' = "in" /\ panelOut' # <<>> /\ Head(panelOut') = Head(panelOut)
<1> USE DEF panel, server
<1>1. CASE Connect \/ Connected \/ Lost \/ Abandon
  <2>1. conn # "connecting"  BY DEF PanelInv, Place
  <2>2. serverUp
    BY <1>1 DEF Connect, Connected, Lost, Abandon, bridgeVars, socket, Ended
  <2> QED  BY <1>1, <2>1, <2>2 DEF Connect, Connected, Lost, Abandon
<1>2. ASSUME NEW p \in Product, Order(p)
      PROVE  session' = "in" /\ panelOut' # <<>> /\ Head(panelOut') = Head(panelOut)
  <2>1. session' = "in" /\ (panelOut' = panelOut \/ panelOut' = Append(panelOut, Len(ordered')))
    BY <1>2 DEF Order
  <2>2. panelOut \in Seq(Text)  BY DEF Shape, Buffers
  <2>3. Len(ordered') \in Text
    <3>1. ordered' = Append(ordered, p) /\ ordered \in Seq(Product) /\ Len(ordered) < MaxOrders
      BY <1>2 DEF Order, Shape, Records
    <3>2. Len(ordered') = Len(ordered) + 1 /\ Len(ordered) \in Nat  BY <3>1
    <3> QED  BY <3>1, <3>2, KioskConstants DEF Text
  <2>4. CASE panelOut' = Append(panelOut, Len(ordered'))
    <3> DEFINE t == Len(ordered')
    <3>1. t \in Text /\ panelOut' = Append(panelOut, t)  BY <2>3, <2>4
    <3> HIDE DEF t
    <3>2. Append(panelOut, t) # <<>> /\ Head(Append(panelOut, t)) = Head(panelOut)
      BY <2>2, <3>1, HeadTailAppend, AppendProperties
    <3> QED  BY <2>1, <3>1, <3>2
  <2> QED  BY <2>1, <2>4
<1>3. CASE Disconnect \/ Login \/ SessionEnds \/ RelayAck \/ ServerEnd \/ BridgeStep \/ LinkEnd
           \/ LineError \/ Receive \/ Serve \/ Stop \/ UNCHANGED vars
  <2>1. UNCHANGED <<session, panelOut>>
    BY <1>3 DEF Disconnect, Login, SessionEnds, RelayAck, ServerEnd, BridgeStep, LinkEnd,
                LineError, Receive, Serve, Stop, vars
  <2> QED  BY <2>1
<1> QED  BY <1>1, <1>2, <1>3 DEF Next, Panel, Server, Controller

(* Orders are only added, and the queue is only filled by what arrives. *)
LEMMA RoomKept ==
  ASSUME Shape, [Next]_vars, ~Receive, NEW k \in DOMAIN ordered
  PROVE  /\ k \in DOMAIN ordered' /\ ordered'[k] = ordered[k]
         /\ Len(queue) < QUEUE_LEN => Len(queue') < QUEUE_LEN
<1> USE DEF server, control, history
<1>0. ordered \in Seq(Product) /\ QUEUE_LEN \in Nat  BY KioskConstants DEF Shape, Records
<1>1. ASSUME NEW p \in Product, Order(p)
      PROVE  k \in DOMAIN ordered' /\ ordered'[k] = ordered[k] /\ queue' = queue
  BY <1>0, <1>1 DEF Order
<1>2. CASE Serve
  <2>1. ordered' = ordered  BY <1>2 DEF Serve
  <2> QED  BY <1>0, <1>2, <2>1, ServeFacts
<1>3. CASE Connect \/ Connected \/ Lost \/ Abandon \/ Disconnect \/ Server \/ ServerEnd \/ BridgeStep
           \/ LinkEnd \/ LineError \/ Stop \/ UNCHANGED vars
  <2>1. UNCHANGED <<queue, ordered>>
    BY <1>3 DEF Connect, Connected, Lost, Abandon, Disconnect, Server, Login, RelayOrder,
       SessionEnds, RelayAck, ServerEnd, BridgeStep, LinkEnd, LineError, Stop, vars
  <2> QED  BY <2>1
<1> QED  BY <1>1, <1>2, <1>3 DEF Next, Panel, Controller

LEMMA OrderStep ==
  ASSUME Shape, PanelInv, FlowInv, [Next]_vars, ~Ended',
         NEW k \in 1 .. MaxOrders, OrderUnderWay(k)
  PROVE  OrderUnderWay(k)' \/ \E i \in DOMAIN driven' : driven'[i] = k
<1>0. k \in Text \ {0}  BY KioskConstants DEF Text
<1>1. CASE \E i \in DOMAIN queue : queue[i] = k  BY <1>1, OrderQueued DEF OrderUnderWay
<1>2. CASE ~\E i \in DOMAIN queue : queue[i] = k
  <2>1. /\ Len(queue) < QUEUE_LEN /\ k \in DOMAIN ordered /\ ordered[k] \in Motor
        /\ \/ IsPrefix(Line(k), Coming)
           \/ Coming = <<>> /\ session = "in" /\ panelOut # <<>> /\ Head(panelOut) = k
    BY <1>2 DEF OrderUnderWay
  <2>2. CASE Receive  BY <1>0, <2>1, <2>2, OrderReceived DEF OrderUnderWay
  <2>3. CASE ~Receive
    <3>1. Len(queue') < QUEUE_LEN /\ k \in DOMAIN ordered' /\ ordered'[k] \in Motor
      BY <2>1, <2>3, RoomKept
    <3>2. CASE RelayOrder
      <4>1. IsPrefix(Line(k), Coming')  BY <1>0, <2>1, <3>2, OrderRelayed
      <4> QED  BY <3>1, <4>1 DEF OrderUnderWay
    <3>3. CASE ~RelayOrder
      <4>1. Coming' = Coming  BY <2>3, <3>3, OrderKept
      <4>2. CASE IsPrefix(Line(k), Coming)  BY <3>1, <4>1, <4>2 DEF OrderUnderWay
      <4>3. CASE Coming = <<>> /\ session = "in" /\ panelOut # <<>> /\ Head(panelOut) = k
        <5>1. session' = "in" /\ panelOut' # <<>> /\ Head(panelOut') = k
          BY <3>3, <4>3, HeadKept
        <5> QED  BY <3>1, <4>1, <4>3, <5>1 DEF OrderUnderWay
      <4> QED  BY <2>1, <4>2, <4>3
    <3> QED  BY <3>2, <3>3
  <2> QED  BY <2>2, <2>3
<1> QED  BY <1>1, <1>2

(* No step drops an order for which there is room and nothing comes before it:  *)
(* however the readings of server and bridge cut it, and whatever follows it or *)
(* is lost behind it, it is under way until the motor was driven or something   *)
(* ended.                                                                       *)
THEOREM OrdersReachMotors == Spec => OrderNeverDropped
<1>1. IInv /\ [Next]_vars =>
        [\A k \in 1 .. MaxOrders :
           OrderUnderWay(k) =>
             OrderUnderWay(k)' \/ Ended' \/ \E i \in DOMAIN driven' : driven'[i] = k]_vars
  <2> SUFFICES ASSUME IInv, [Next]_vars, NEW k \in 1 .. MaxOrders, OrderUnderWay(k), ~Ended'
               PROVE  OrderUnderWay(k)' \/ \E i \in DOMAIN driven' : driven'[i] = k
    OBVIOUS
  <2> QED  BY OrderStep DEF IInv
<1> QED  BY <1>1, Inductive, PTL DEF Spec, OrderNeverDropped

(* Nor is the acknowledgement dropped that is first of what comes back.  What *)
(* the bridge does, as long as neither of its threads ended.                 *)
LEMMA AckCarried ==
  ASSUME Shape, BridgeStep, ~Ended', NEW k, AckUnderWay(k)
  PROVE  AckUnderWay(k)'
<1> USE DEF socket, radio, panel, server
<1>0. UNCHANGED <<conn, session>>  BY DEF BridgeStep
<1>1. CASE SndRead
  <2>1. Back' = Back /\ up' = up  BY <1>1, BackRead DEF SndRead
  <2> QED  BY <1>0, <2>1 DEF AckUnderWay, Back
<1>2. CASE SndWrite
  <2>1. /\ msg \in Seq(Sent) /\ Len(msg) > 0 /\ Len(msg) \in Nat
        /\ Len(up) \in Nat /\ up' = Append(up, msg)
    BY <1>2, BackFacts DEF SndWrite, Shape, Filled
  <2> DEFINE W == Seq(Sent)
  <2>2. up \in Seq(W) /\ msg \in W  BY <2>1 DEF Shape, Buffers
  <2> HIDE DEF W
  <2>3. /\ up' \in Seq(W) /\ Len(up') = Len(up) + 1 /\ up'[Len(up) + 1] = msg
        /\ \A i \in 1 .. Len(up) : up'[i] = up[i]
    BY <2>1, <2>2, AppendProperties
  <2>4. up' # <<>>  BY <2>1, <2>3
  <2>5. CASE up = <<>>
    <3>1. up'[1] = msg  BY <2>3, <2>5
    <3>2. Back[1] = msg[1]
      <4>1. 1 \in 1 .. Len(msg)  BY <2>1
      <4> QED  BY <4>1, BackFacts
    <3> QED  BY <1>0, <2>4, <2>5, <3>1, <3>2 DEF AckUnderWay, Back
  <2>6. CASE up # <<>>
    <3>1. 1 \in 1 .. Len(up)  BY <2>1, <2>2, <2>6
    <3>2. up'[1] = up[1]  BY <2>3, <3>1
    <3> QED  BY <1>0, <2>4, <2>6, <3>2 DEF AckUnderWay
  <2> QED  BY <2>5, <2>6
<1>3. CASE SndReadNothing \/ SndReadError \/ SndWriteFails \/ SndWriteClosed
  <2>1. Ended'
    BY <1>3 DEF SndReadNothing, SndReadError, SndWriteFails, SndWriteClosed, Ended
  <2> QED  BY <2>1
<1>4. CASE recv_msg \/ Exit
  <2>1. UNCHANGED <<msg, btIn, up>>
    BY <1>4 DEF recv_msg, RecvCall, RecvRead, RecvEnd, RecvWrite, Exit
  <2> QED  BY <1>0, <2>1 DEF AckUnderWay
<1> QED  BY <1>1, <1>2, <1>3, <1>4 DEF BridgeStep, Bridge, send_msg

(* What the controller answers comes behind what comes back already. *)
LEMMA BackGrows == Shape /\ Receive => \E x \in Seq(Sent) : Back' = Back \o x
<1> SUFFICES ASSUME Shape, Receive PROVE \E x \in Seq(Sent) : Back' = Back \o x  OBVIOUS
<1>0. msg' = msg  BY DEF Receive, threads
<1>1. msg \in Seq(Sent) /\ btIn \in Seq(Sent)  BY BackFacts
<1>2. \E x \in Seq(Sent) : btIn' = btIn \o x
  <2>1. btIn = btIn \o <<>> /\ <<>> \in Seq(Sent)
    <3>1. btIn \in Seq(Sent)  BY <1>1
    <3> QED  BY ONLY <3>1, ConcatEmptySeq, EmptySeq
  <2>2. btOut[1] \in Sent  BY ReceiveFacts
  <2>3. btOut[1].text \in Text  BY <2>2, TextOf
  <2> DEFINE t == IF btOut[1].end THEN 0 ELSE btOut[1].text
  <2>4. t \in Text  BY <2>3, ZeroText
  <2>5. btIn' = btIn \/ btIn' = btIn \o Line(t)  BY ReceiveFacts
  <2> HIDE DEF t
  <2>6. Line(t) \in Seq(Sent)  BY <2>4, LineType
  <2> QED  BY <2>1, <2>5, <2>6
<1>3. PICK x \in Seq(Sent) : btIn' = btIn \o x  BY <1>2
<1>4. Back' = Back \o x
  <2>1. msg \in Seq(Sent) /\ btIn \in Seq(Sent) /\ x \in Seq(Sent)  BY <1>1
  <2>2. (msg \o btIn) \o x = msg \o (btIn \o x)  BY ONLY <2>1, ConcatAssociative
  <2> QED  BY <1>0, <1>3, <2>2 DEF Back
<1> QED  BY <1>4

LEMMA AckFollowed ==
  ASSUME Shape, Receive, NEW k, AckUnderWay(k)
  PROVE  AckUnderWay(k)'
<1>0. UNCHANGED <<conn, session, msg, up>>
  BY DEF Receive, threads, socket, panel, server
<1>1. CASE up # <<>>  BY <1>0, <1>1 DEF AckUnderWay
<1>2. CASE up = <<>>
  <2>1. /\ msg \in Seq(Sent) /\ btIn \in Seq(Sent) /\ Back \in Seq(Sent) /\ Len(Back) \in Nat
        /\ Back # <<>> /\ Back[1].text = k
    BY <1>2, BackFacts DEF AckUnderWay, Back
  <2>4. PICK x \in Seq(Sent) : Back' = Back \o x  BY BackGrows
  <2>5. Back' # <<>> /\ Back'[1] = Back[1]
    <3>1. Back \in Seq(Sent) /\ x \in Seq(Sent) /\ Len(Back) > 0 /\ Len(Back) \in Nat  BY <2>1
    <3> DEFINE w == Back
    <3> HIDE DEF w
    <3>2. w \in Seq(Sent) /\ Len(w) > 0  BY <3>1 DEF w
    <3>3. /\ w \o x \in Seq(Sent) /\ Len(w \o x) = Len(w) + Len(x)
          /\ \A i \in 1 .. Len(w) + Len(x) :
               (w \o x)[i] = IF i <= Len(w) THEN w[i] ELSE x[i - Len(w)]
      BY ONLY <3>1, <3>2, ConcatProperties
    <3>4. Len(w) \in Nat /\ Len(x) \in Nat  BY <3>1, <3>2
    <3>5. 1 \in 1 .. Len(w) + Len(x) /\ 1 <= Len(w)  BY <3>2, <3>4
    <3>6. (w \o x)[1] = w[1] /\ w \o x # <<>>  BY <3>2, <3>3, <3>4, <3>5
    <3> QED  BY <2>4, <3>6 DEF w
  <2> QED  BY <1>0, <1>2, <2>1, <2>5 DEF AckUnderWay, Back
<1> QED  BY <1>1, <1>2

LEMMA AckStepOn ==
  ASSUME Shape, PanelInv, [Next]_vars, ~Ended', conn' = "on",
         NEW k \in 1 .. MaxOrders, AckUnderWay(k)
  PROVE  AckUnderWay(k)' \/ \E i \in DOMAIN acked' : acked'[i] = k
<1> USE DEF bridgeVars, socket, radio, threads, panel, server, control, history
<1>0. k \in Text \ {0} /\ conn = "on" /\ session = "in"
  BY KioskConstants DEF Text, AckUnderWay
<1>1. CASE RelayAck
  <2>1. up # <<>>
    <3>1. PICK n \in 1 .. Len(up) : TRUE  BY <1>1 DEF RelayAck
    <3> QED  BY <3>1, UpFacts
  <2>2. up[1][1].text = k  BY <2>1 DEF AckUnderWay
  <2>3. acked' = Append(acked, k)  BY <1>0, <1>1, <2>2 DEF RelayAck
  <2> DEFINE T == Text \ {0}
  <2>4. acked \in Seq(T) /\ k \in T  BY <1>0 DEF Shape, Records
  <2> HIDE DEF T
  <2>5. /\ Len(acked') = Len(acked) + 1 /\ acked'[Len(acked) + 1] = k
        /\ DOMAIN acked' = 1 .. Len(acked') /\ Len(acked) \in Nat
    BY <2>3, <2>4
  <2>6. Len(acked) + 1 \in DOMAIN acked'  BY <2>5
  <2> QED  BY <2>5, <2>6
<1>2. CASE Receive  BY <1>2, AckFollowed
<1>3. CASE BridgeStep  BY <1>3, AckCarried
<1>4. CASE Panel \/ Login \/ RelayOrder \/ SessionEnds \/ ServerEnd \/ LinkEnd \/ LineError
           \/ Serve \/ Stop \/ UNCHANGED vars
  <2>1. UNCHANGED <<msg, btIn, up>>
    BY <1>4 DEF Panel, Connect, Connected, Lost, Abandon, Disconnect, Order, Login, RelayOrder,
       SessionEnds, ServerEnd, LinkEnd, LineError, Serve, Stop, vars
  <2>2. session' = "in"
    BY <1>0, <1>4 DEF Panel, Connect, Connected, Lost, Abandon, Disconnect, Order, Login,
       RelayOrder, SessionEnds, ServerEnd, LinkEnd, LineError, Serve, Stop, vars
  <2> QED  BY <1>0, <2>1, <2>2 DEF AckUnderWay
<1> QED  BY <1>1, <1>2, <1>3, <1>4 DEF Next, Server, Controller

(* No step drops an acknowledgement with none before it: however the link cuts *)
(* it and whatever follows it, it is under way until the panel has it, is gone, *)
(* or something ended.                                                         *)
THEOREM AcksReachPanel == Spec => AckNeverDropped
<1>1. IInv /\ [Next]_vars =>
        [\A k \in 1 .. MaxOrders :
           AckUnderWay(k) =>
             \/ AckUnderWay(k)' \/ Ended' \/ conn' # "on"
             \/ \E i \in DOMAIN acked' : acked'[i] = k]_vars
  <2> SUFFICES ASSUME IInv, [Next]_vars, NEW k \in 1 .. MaxOrders, AckUnderWay(k),
                      ~Ended', conn' = "on"
               PROVE  AckUnderWay(k)' \/ \E i \in DOMAIN acked' : acked'[i] = k
    OBVIOUS
  <2> QED  BY AckStepOn DEF IInv
<1> QED  BY <1>1, Inductive, PTL DEF Spec, AckNeverDropped

-----------------------------------------------------------------------------
(* The end of the bridge.  The thread that copies to the link resets the       *)
(* descriptor before it ends, and nothing sets it again.                       *)
ResetInv == rcvPc = "ended" => ~sockfd

LEMMA ResetAlways == Spec => []ResetInv
<1>1. Init => ResetInv  BY DEF Init, BridgeInit, ResetInv
<1>2. ResetInv /\ [Next]_vars => ResetInv'
  <2> SUFFICES ASSUME ResetInv, [Next]_vars PROVE ResetInv'  OBVIOUS
  <2> USE DEF bridgeVars, threads
  <2>1. CASE BridgeStep
    BY <2>1 DEF BridgeStep, Bridge, recv_msg, send_msg, RecvCall, RecvRead, RecvEnd, RecvWrite,
                SndRead, SndReadNothing, SndReadError, SndWrite, SndWriteFails, SndWriteClosed,
                Exit, ResetInv
  <2>2. CASE Panel \/ Server \/ ServerEnd \/ LinkEnd \/ LineError \/ Receive \/ Serve \/ Stop
             \/ UNCHANGED vars
    <3>1. UNCHANGED <<rcvPc, sockfd>>
      BY <2>2 DEF Panel, Connect, Connected, Lost, Abandon, Disconnect, Order, Server, Login,
         RelayOrder, SessionEnds, RelayAck, ServerEnd, LinkEnd, LineError, Receive, Serve, Stop, vars
    <3> QED  BY <3>1 DEF ResetInv
  <2> QED  BY <2>1, <2>2 DEF Next, Controller
<1> QED  BY <1>1, <1>2, PTL DEF Spec

(* What the thread that assembles lines does of that end. *)
LEMMA EndCarried ==
  ASSUME Shape, ResetInv, BridgeStep, alive', EndUnderWay
  PROVE  EndUnderWay'
<1> USE DEF socket, radio
<1>0. rcvPc = "ended" /\ ~sockfd  BY DEF EndUnderWay, ResetInv
<1>1. rcvPc' = "ended"
  BY <1>0 DEF BridgeStep, Bridge, recv_msg, send_msg, RecvCall, RecvRead, RecvEnd, RecvWrite,
              SndRead, SndReadNothing, SndReadError, SndWrite, SndWriteFails, SndWriteClosed, Exit
<1>2. CASE SndRead
  <2>1. sndPc = "select"  BY <1>2 DEF SndRead
  <2>2. \E i \in DOMAIN Back : Back[i].end  BY <2>1 DEF EndUnderWay, Back
  <2>3. Back' = Back  BY <1>2, BackRead
  <2> QED  BY <1>1, <2>2, <2>3 DEF EndUnderWay, Back
<1>3. CASE SndReadNothing \/ SndWriteFails
  BY <1>1, <1>3 DEF SndReadNothing, SndWriteFails, EndUnderWay
<1>4. CASE SndReadError
  <2>1. UNCHANGED <<msg, btIn>> /\ sndPc = "select"  BY <1>4 DEF SndReadError
  <2> QED  BY <1>1, <2>1 DEF EndUnderWay
<1>5. ~SndWrite /\ ~SndWriteClosed  BY <1>0 DEF SndWrite, SndWriteClosed
<1>6. ~recv_msg /\ ~Exit
  BY <1>0 DEF recv_msg, RecvCall, RecvRead, RecvEnd, RecvWrite, Exit
<1> QED  BY <1>2, <1>3, <1>4, <1>5, <1>6 DEF BridgeStep, Bridge, send_msg

LEMMA EndStep ==
  ASSUME Shape, ResetInv, [Next]_vars, alive', EndUnderWay
  PROVE  EndUnderWay'
<1> USE DEF bridgeVars, socket, radio, threads
<1>1. CASE BridgeStep  BY <1>1, EndCarried
<1>2. CASE Receive
  <2>1. UNCHANGED <<rcvPc, sndPc, msg>>  BY <1>2 DEF Receive
  <2>2. ASSUME NEW i \in DOMAIN Back, Back[i].end
        PROVE  \E j \in DOMAIN Back' : Back'[j].end
    <3>1. PICK x \in Seq(Sent) : Back' = Back \o x  BY <1>2, BackGrows
    <3>2. Back \in Seq(Sent) /\ i \in 1 .. Len(Back) /\ Len(Back) \in Nat  BY BackFacts
    <3> DEFINE w == Back
    <3> HIDE DEF w
    <3>3. w \in Seq(Sent) /\ i \in 1 .. Len(w)  BY <3>2 DEF w
    <3>4. /\ w \o x \in Seq(Sent) /\ Len(w \o x) = Len(w) + Len(x)
          /\ \A j \in 1 .. Len(w) + Len(x) :
               (w \o x)[j] = IF j <= Len(w) THEN w[j] ELSE x[j - Len(w)]
      BY ONLY <3>1, <3>3, ConcatProperties
    <3>5. Len(w) \in Nat /\ Len(x) \in Nat  BY <3>1, <3>3
    <3>6. i \in 1 .. Len(w) + Len(x) /\ i <= Len(w)  BY <3>3, <3>5
    <3>7. i \in DOMAIN (w \o x) /\ (w \o x)[i] = w[i]  BY <3>4, <3>6
    <3> QED  BY <2>2, <3>1, <3>7 DEF w
  <2> QED  BY <2>1, <2>2 DEF EndUnderWay, Back
<1>3. CASE Panel \/ Server \/ ServerEnd \/ LinkEnd \/ LineError \/ Serve \/ Stop
           \/ UNCHANGED vars
  <2>1. UNCHANGED <<rcvPc, sndPc, msg, btIn>>
    BY <1>3 DEF Panel, Connect, Connected, Lost, Abandon, Disconnect, Order, Server, Login,
       RelayOrder, SessionEnds, RelayAck, ServerEnd, LinkEnd, LineError, Serve, Stop, vars
  <2> QED  BY <2>1 DEF EndUnderWay
<1> QED  BY <1>1, <1>2, <1>3 DEF Next, Controller

(* The line that ends the bridge once its other thread ended is not taken away *)
(* by any step before it has: the process does not go on as a sender of lines  *)
(* that nobody receives.                                                       *)
THEOREM BridgeFollows == Spec => EndNeverDropped
<1>1. IInv /\ ResetInv /\ [Next]_vars => [EndUnderWay => EndUnderWay' \/ ~alive']_vars
  <2> SUFFICES ASSUME IInv, ResetInv, [Next]_vars, EndUnderWay, alive' PROVE EndUnderWay'
    OBVIOUS
  <2> QED  BY EndStep DEF IInv
<1> QED  BY <1>1, Inductive, ResetAlways, PTL DEF Spec, EndNeverDropped

=============================================================================
