------------------------ MODULE VendingFirmwareProofs ------------------------
(* Theorems about VendingFirmware, for every number of motors, every length *)
(* of the vote and of the queue, and every number and choice of lines.      *)
EXTENDS VendingFirmware, SequenceTheorems, FiniteSetTheorems, TLAPS

(* The wire carries whole tails of lines in their order: a piece other than *)
(* the end of a line is followed by another of the same line, and what is   *)
(* assembled in btData belongs to the line that arrives next.               *)
WireInv ==
    /\ \A i \in 1 .. Len(wire) : wire[i].line \in 1 .. Len(lines)
    /\ \A i \in 1 .. Len(wire) :
         wire[i].part # "end" => i < Len(wire) /\ wire[i + 1].line = wire[i].line
    /\ \A i, j \in 1 .. Len(wire) :
         i < j => /\ wire[i].line <= wire[j].line
                  /\ wire[i].part = "end" => wire[i].line < wire[j].line
    /\ \A i \in 1 .. Len(bt) : wire # <<>> /\ bt[i].line = wire[1].line

(* A line that has a verdict has left the wire before every one still on it. *)
HandledInv ==
    \A q \in 1 .. Len(verdict) : \A i \in 1 .. Len(wire) :
      verdict[q] # "none" => q < wire[i].line

AckInv ==
    \A j \in 1 .. Len(acks) :
      acks[j].line \in 1 .. Len(verdict) /\ verdict[acks[j].line] # "none"

Shape == TypeOK /\ WireInv
IInv == Shape /\ HandledInv /\ AckInv /\ OrdersInOrder /\ AcksMatchLines

USE DEF vars, link, task, ir, readings

-----------------------------------------------------------------------------
LEMMA ConstantFacts ==
  /\ Need \in Nat /\ Lows \in Nat /\ Highs \in Nat
  /\ Motor \subseteq Arg /\ Valid \subseteq Order
  /\ SAMPLE_COUNT \in Nat /\ SAMPLE_COUNT >= 1
<1>1. /\ SAMPLE_COUNT \in Nat /\ SAMPLE_COUNT >= 1 /\ NUM_MOTOR_PINS \in Nat
  BY FirmwareConstants
<1>2. Need \in Nat /\ Need <= SAMPLE_COUNT
  BY <1>1 DEF Need
<1>3. Lows \in Nat /\ Highs \in Nat
  BY <1>1, <1>2 DEF Lows, Highs
<1>4. Motor \subseteq Arg
  BY <1>1 DEF Motor, Arg
<1>5. Valid \subseteq Order
  BY <1>4 DEF Valid, Order
<1> QED  BY <1>1, <1>2, <1>3, <1>4, <1>5

LEMMA ShapeInit == Init => Shape
<1> SUFFICES ASSUME Init PROVE Shape  OBVIOUS
<1>1. TypeOK
  <2>1. since \in [Motor -> 0 .. Lows + Highs] /\ idx \in [Motor -> 0 .. SAMPLE_COUNT - 1]
    BY ConstantFacts DEF Init
  <2> QED  BY <2>1, FirmwareConstants DEF Init, TypeOK
<1>2. WireInv  BY DEF Init, WireInv
<1> QED  BY <1>1, <1>2 DEF Shape

(* A line is appended to the wire whole, behind all the others. *)
LEMMA ShapeSend ==
  ASSUME Shape, NEW l \in Lines, Send(l) PROVE Shape'
<1> DEFINE K == Len(lines) + 1
<1>1. l \in Line /\ lines \in Seq(Line) /\ wire \in Seq(Piece) /\ verdict \in Seq(Verdict)
  BY FirmwareConstants DEF Shape, TypeOK
<1>2. /\ Pieces(K) \in Seq(Piece) /\ Len(Pieces(K)) = 4
      /\ \A i \in 1 .. 4 : Pieces(K)[i].line = K /\ (Pieces(K)[i].part = "end" <=> i = 4)
  BY <1>1 DEF Pieces, Piece, Part
<1>3. /\ wire' \in Seq(Piece) /\ Len(wire') = Len(wire) + 4 /\ Len(wire) \in Nat
      /\ \A i \in 1 .. Len(wire) : wire'[i] = wire[i]
      /\ \A i \in 1 .. 4 : wire'[Len(wire) + i] = Pieces(K)[i]
  <2> DEFINE P == Pieces(K)
  <2>1. wire' = wire \o P /\ P \in Seq(Piece) /\ Len(P) = 4
    BY <1>2 DEF Send
  <2> HIDE DEF P
  <2>2. /\ wire \o P \in Seq(Piece) /\ Len(wire \o P) = Len(wire) + Len(P)
        /\ \A i \in 1 .. Len(wire) + Len(P) :
             (wire \o P)[i] = IF i <= Len(wire) THEN wire[i] ELSE P[i - Len(wire)]
    BY <2>1, <1>1, ConcatProperties
  <2>3. Len(wire) \in Nat
    BY <1>1
  <2>4. \A i \in 1 .. Len(wire) : wire'[i] = wire[i]
    BY <2>1, <2>2, <2>3
  <2>5. \A i \in 1 .. 4 : wire'[Len(wire) + i] = P[i]
    <3> TAKE i \in 1 .. 4
    <3>1. Len(wire) + i \in 1 .. Len(wire) + Len(P) /\ ~(Len(wire) + i <= Len(wire))
          /\ (Len(wire) + i) - Len(wire) = i
      BY <2>1, <2>3
    <3> QED  BY <2>1, <2>2, <3>1
  <2> QED  BY <2>1, <2>2, <2>3, <2>4, <2>5 DEF P
<1>4. lines' \in Seq(Line) /\ Len(lines') = K /\ K <= MaxLines /\ Len(lines) \in Nat
  BY <1>1, FirmwareConstants DEF Send
<1>5. verdict' \in Seq(Verdict) /\ Len(verdict') = Len(lines')
  BY <1>1, <1>4 DEF Send, Shape, TypeOK, Verdict
<1>6. TypeOK'
  BY <1>3, <1>4, <1>5 DEF Send, Shape, TypeOK
<1>7. \A i \in 1 .. Len(wire') :
        \/ i \in 1 .. Len(wire) /\ wire'[i] = wire[i] /\ wire[i].line \in 1 .. Len(lines)
        \/ /\ i > Len(wire) /\ wire'[i].line = K
           /\ wire'[i].part = "end" <=> i = Len(wire')
  <2> SUFFICES ASSUME NEW i \in 1 .. Len(wire'), i > Len(wire)
               PROVE  wire'[i].line = K /\ (wire'[i].part = "end" <=> i = Len(wire'))
    BY <1>3 DEF Shape, WireInv
  <2>1. i - Len(wire) \in 1 .. 4 /\ i = Len(wire) + (i - Len(wire))
    BY <1>3
  <2>2. wire'[i] = Pieces(K)[i - Len(wire)]
    BY <2>1, <1>3
  <2>3. /\ Pieces(K)[i - Len(wire)].line = K
        /\ Pieces(K)[i - Len(wire)].part = "end" <=> i - Len(wire) = 4
    BY <2>1, <1>2
  <2>4. i - Len(wire) = 4 <=> i = Len(wire')
    BY <2>1, <1>3
  <2> QED  BY <2>2, <2>3, <2>4
<1>8. WireInv'
  <2>1. \A i \in 1 .. Len(wire') : wire'[i].line \in 1 .. Len(lines')
    BY <1>7, <1>4
  <2>2. \A i \in 1 .. Len(wire') :
          wire'[i].part # "end" => i < Len(wire') /\ wire'[i + 1].line = wire'[i].line
    <3> SUFFICES ASSUME NEW i \in 1 .. Len(wire'), wire'[i].part # "end"
                 PROVE  i < Len(wire') /\ wire'[i + 1].line = wire'[i].line
      OBVIOUS
    <3>1. CASE i \in 1 .. Len(wire)
      <4>1. i < Len(wire) /\ wire[i + 1].line = wire[i].line
        BY <3>1, <1>3 DEF Shape, WireInv
      <4>2. i + 1 \in 1 .. Len(wire)
        BY <4>1, <1>3, <3>1
      <4> QED  BY <4>1, <4>2, <1>3, <3>1
    <3>2. CASE i > Len(wire)
      <4>1. i < Len(wire') /\ wire'[i].line = K
        BY <3>2, <1>3, <1>7
      <4>2. i + 1 \in 1 .. Len(wire') /\ i + 1 > Len(wire)
        BY <4>1, <3>2, <1>3
      <4>3. wire'[i + 1].line = K
        BY <4>2, <1>7, <1>3
      <4> QED  BY <4>1, <4>3
    <3> QED  BY <3>1, <3>2, <1>3
  <2>3. \A i, j \in 1 .. Len(wire') :
          i < j => /\ wire'[i].line <= wire'[j].line
                   /\ wire'[i].part = "end" => wire'[i].line < wire'[j].line
    <3> SUFFICES ASSUME NEW i \in 1 .. Len(wire'), NEW j \in 1 .. Len(wire'), i < j
                 PROVE  /\ wire'[i].line <= wire'[j].line
                        /\ wire'[i].part = "end" => wire'[i].line < wire'[j].line
      OBVIOUS
    <3>1. CASE j \in 1 .. Len(wire)
      <4>1. i \in 1 .. Len(wire)  BY <3>1, <1>3
      <4> QED  BY <3>1, <4>1, <1>3 DEF Shape, WireInv
    <3>2. CASE j > Len(wire) /\ i \in 1 .. Len(wire)
      <4>1. wire'[j].line = K /\ wire'[i].line \in 1 .. Len(lines)
        BY <3>2, <1>7, <1>3 DEF Shape, WireInv
      <4> QED  BY <4>1, <1>4
    <3>3. CASE j > Len(wire) /\ i > Len(wire)
      <4>1. wire'[j].line = K /\ wire'[i].line = K /\ wire'[i].part # "end"
        BY <3>3, <1>7, <1>3
      <4> QED  BY <4>1, <1>4
    <3> QED  BY <3>1, <3>2, <3>3, <1>3
  <2>4. \A i \in 1 .. Len(bt') : wire' # <<>> /\ bt'[i].line = wire'[1].line
    <3> SUFFICES ASSUME NEW i \in 1 .. Len(bt') PROVE wire' # <<>> /\ bt'[i].line = wire'[1].line
      OBVIOUS
    <3>1. bt' = bt /\ wire # <<>> /\ bt[i].line = wire[1].line
      BY DEF Send, Shape, WireInv
    <3>2. Len(wire) >= 1
      BY <3>1, <1>1
    <3> QED  BY <3>1, <3>2, <1>3
  <2> QED  BY <2>1, <2>2, <2>3, <2>4 DEF WireInv
<1> QED  BY <1>6, <1>8 DEF Shape

(* A byte that is not the end of its line is followed by one that belongs to *)
(* the same line.                                                            *)
LEMMA ShapeAccumulate ==
  ASSUME Shape, Accumulate PROVE Shape'
<1>1. wire \in Seq(Piece) /\ bt \in Seq(Piece) /\ wire # <<>> /\ Head(wire) = wire[1]
  BY DEF Shape, TypeOK, Accumulate
<1>2. /\ wire' \in Seq(Piece) /\ Len(wire') = Len(wire) - 1 /\ Len(wire) \in Nat \ {0}
      /\ \A i \in 1 .. Len(wire') : wire'[i] = wire[i + 1]
  BY <1>1 DEF Accumulate
<1>3. bt' \in Seq(Piece) /\ \A i \in 1 .. Len(bt') : bt'[i] = wire[1] \/ \E j \in 1 .. Len(bt) : bt'[i] = bt[j]
  BY <1>1 DEF Accumulate
<1>4. wire[1].part # "end" /\ 1 < Len(wire) /\ wire[2].line = wire[1].line
  BY <1>1, <1>2 DEF Accumulate, Shape, WireInv
<1>5. TypeOK'
  BY <1>2, <1>3 DEF Accumulate, Shape, TypeOK
<1>6. WireInv'
  <2>1. lines' = lines /\ \A i \in 1 .. Len(wire') : i + 1 \in 1 .. Len(wire)
    BY <1>2 DEF Accumulate
  <2>2. \A i \in 1 .. Len(wire') : wire'[i].line \in 1 .. Len(lines')
    BY <2>1, <1>2 DEF Shape, WireInv
  <2>3. \A i \in 1 .. Len(wire') :
          wire'[i].part # "end" => i < Len(wire') /\ wire'[i + 1].line = wire'[i].line
    <3> SUFFICES ASSUME NEW i \in 1 .. Len(wire'), wire'[i].part # "end"
                 PROVE  i < Len(wire') /\ wire'[i + 1].line = wire'[i].line
      OBVIOUS
    <3>1. i + 1 < Len(wire) /\ wire[i + 2].line = wire[i + 1].line
      BY <2>1, <1>2 DEF Shape, WireInv
    <3>2. i + 1 \in 1 .. Len(wire')
      BY <3>1, <1>2
    <3> QED  BY <3>1, <3>2, <1>2
  <2>4. \A i, j \in 1 .. Len(wire') :
          i < j => /\ wire'[i].line <= wire'[j].line
                   /\ wire'[i].part = "end" => wire'[i].line < wire'[j].line
    <3> SUFFICES ASSUME NEW i \in 1 .. Len(wire'), NEW j \in 1 .. Len(wire'), i < j
                 PROVE  /\ wire'[i].line <= wire'[j].line
                        /\ wire'[i].part = "end" => wire'[i].line < wire'[j].line
      OBVIOUS
    <3>1. i + 1 \in 1 .. Len(wire) /\ j + 1 \in 1 .. Len(wire) /\ i + 1 < j + 1
      BY <2>1
    <3>2. wire'[i] = wire[i + 1] /\ wire'[j] = wire[j + 1]
      BY <1>2
    <3> QED  BY <3>1, <3>2 DEF Shape, WireInv
  <2>5. wire' # <<>> /\ wire'[1].line = wire[1].line
    BY <1>2, <1>4
  <2>6. \A i \in 1 .. Len(bt') : bt'[i].line = wire[1].line
    BY <1>3 DEF Shape, WireInv
  <2> QED  BY <2>2, <2>3, <2>4, <2>5, <2>6 DEF WireInv
<1> QED  BY <1>5, <1>6 DEF Shape

(* The end of a line: what is left of the wire is a tail of it. *)
LEMMA EndOfLineWire ==
  ASSUME Shape, NEW lost \in Nat, AtEndOfLine(lost), EndOfLine(lost)
  PROVE  /\ wire' \in Seq(Piece) /\ bt' \in Seq(Piece) /\ WireInv'
         /\ lines' = lines /\ rx' = rx
         /\ Len(wire) >= 1 /\ wire[1].line \in 1 .. Len(lines)
         /\ \A i \in 1 .. Len(wire') : wire'[i].line > wire[1].line
         /\ \A i \in 1 .. Len(wire') : \E j \in 1 .. Len(wire) : wire'[i] = wire[j]
<1>1. wire \in Seq(Piece) /\ wire # <<>> /\ Head(wire) = wire[1] /\ lost < Len(wire)
  BY DEF Shape, TypeOK, AtEndOfLine
<1>2. /\ Len(wire) \in Nat \ {0} /\ wire[1].part = "end"
      /\ Tail(wire) \in Seq(Piece) /\ Len(Tail(wire)) = Len(wire) - 1
      /\ \A i \in 1 .. Len(wire) - 1 : Tail(wire)[i] = wire[i + 1]
  BY <1>1 DEF AtEndOfLine
<1>3. /\ wire' = SubSeq(Tail(wire), lost + 1, Len(wire) - 1)
      /\ lines' = lines /\ rx' = rx /\ bt' = <<>>
  BY DEF EndOfLine
<1>4. /\ wire' \in Seq(Piece) /\ Len(wire') = Len(wire) - 1 - lost
      /\ \A i \in 1 .. Len(wire') : wire'[i] = Tail(wire)[lost + i]
  <2> DEFINE t == Tail(wire)  n == Len(wire) - 1  m == lost + 1
  <2>1. /\ t \in Seq(Piece) /\ n \in Int /\ m \in Int /\ Len(t) = n /\ wire' = SubSeq(t, m, n)
        /\ m >= 1 /\ n >= 0 /\ m <= n + 1
    BY <1>1, <1>2, <1>3
  <2> HIDE DEF t, n, m
  <2>2. \A i \in m .. n : t[i] \in Piece
    BY <2>1
  <2>3. /\ SubSeq(t, m, n) \in Seq(Piece)
        /\ Len(SubSeq(t, m, n)) = IF m <= n THEN n - m + 1 ELSE 0
        /\ \A i \in 1 .. n - m + 1 : SubSeq(t, m, n)[i] = t[m + i - 1]
    BY <2>1, <2>2, SubSeqProperties
  <2>4. Len(wire') = n - m + 1
    BY <2>1, <2>3
  <2>5. wire' \in Seq(Piece) /\ \A i \in 1 .. Len(wire') : wire'[i] = t[m + i - 1]
    BY <2>1, <2>3, <2>4
  <2>6. n - m + 1 = Len(wire) - 1 - lost /\ Len(wire') \in Nat
    BY <1>2, <2>5 DEF n, m
  <2>7. ASSUME NEW i \in 1 .. Len(wire') PROVE wire'[i] = t[lost + i]
    <3>1. m + i - 1 = lost + i  BY <2>6 DEF m
    <3> QED  BY <3>1, <2>5
  <2> QED  BY <2>4, <2>5, <2>6, <2>7 DEF t
<1>6. \A i \in 1 .. Len(wire') : wire'[i] = wire[lost + i + 1] /\ lost + i + 1 \in 2 .. Len(wire)
  <2> TAKE i \in 1 .. Len(wire')
  <2>0. Len(wire) \in Nat /\ Len(wire') = Len(wire) - 1 - lost
    BY <1>2, <1>4
  <2>1. lost + i \in 1 .. Len(wire) - 1 /\ lost + i + 1 \in 2 .. Len(wire)
    BY <2>0
  <2> QED  BY <2>1, <1>2, <1>4
<1>7. \A i \in 1 .. Len(wire') : wire'[i].line > wire[1].line /\ wire'[i].line \in 1 .. Len(lines)
  BY <1>1, <1>2, <1>6 DEF Shape, WireInv
<1>8. WireInv'
  <2>1. \A i \in 1 .. Len(wire') :
          wire'[i].part # "end" => i < Len(wire') /\ wire'[i + 1].line = wire'[i].line
    <3> SUFFICES ASSUME NEW i \in 1 .. Len(wire'), wire'[i].part # "end"
                 PROVE  i < Len(wire') /\ wire'[i + 1].line = wire'[i].line
      OBVIOUS
    <3> DEFINE k == lost + i + 1
    <3>0. k \in 1 .. Len(wire) /\ wire'[i] = wire[k] /\ Len(wire) \in Nat
      BY <1>2, <1>6
    <3>1. k < Len(wire) /\ wire[k + 1].line = wire[k].line
      <4> HIDE DEF k
      <4> QED  BY <3>0 DEF Shape, WireInv
    <3>2. i < Len(wire') /\ i + 1 \in 1 .. Len(wire') /\ lost + (i + 1) + 1 = k + 1
      <4>1. Len(wire') = Len(wire) - 1 - lost
        BY <1>4
      <4> QED  BY <4>1, <3>0, <3>1
    <3>3. wire'[i + 1] = wire[k + 1]
      BY <3>2, <1>6
    <3> QED  BY <3>0, <3>1, <3>2, <3>3
  <2>2. \A i, j \in 1 .. Len(wire') :
          i < j => /\ wire'[i].line <= wire'[j].line
                   /\ wire'[i].part = "end" => wire'[i].line < wire'[j].line
    <3> SUFFICES ASSUME NEW i \in 1 .. Len(wire'), NEW j \in 1 .. Len(wire'), i < j
                 PROVE  /\ wire'[i].line <= wire'[j].line
                        /\ wire'[i].part = "end" => wire'[i].line < wire'[j].line
      OBVIOUS
    <3>1. /\ lost + i + 1 \in 1 .. Len(wire) /\ lost + j + 1 \in 1 .. Len(wire)
          /\ lost + i + 1 < lost + j + 1
      BY <1>6, <1>2
    <3> QED  BY <3>1, <1>6 DEF Shape, WireInv
  <2>3. \A i \in 1 .. Len(wire') : wire'[i].line \in 1 .. Len(lines')
    BY <1>3, <1>7
  <2>4. \A i \in 1 .. Len(bt') : wire' # <<>> /\ bt'[i].line = wire'[1].line
    BY <1>3
  <2> QED  BY <2>1, <2>2, <2>3, <2>4 DEF WireInv
<1>9. \A i \in 1 .. Len(wire') : \E j \in 1 .. Len(wire) : wire'[i] = wire[j]
  BY <1>2, <1>6
<1>10. Len(wire) >= 1 /\ wire[1].line \in 1 .. Len(lines)
  BY <1>2 DEF Shape, WireInv
<1>11. bt' \in Seq(Piece)
  BY <1>3
<1> QED  BY <1>3, <1>4, <1>7, <1>8, <1>9, <1>10, <1>11

(* The command in btData is one line that was sent, the one that just ended. *)
LEMMA CommandFacts ==
  ASSUME Shape, NEW k \in Text
  PROVE  /\ wire # <<>> /\ wire[1].line \in 1 .. Len(lines)
         /\ bt[k].line = wire[1].line
         /\ Command(k) \in Order /\ Command(k).line = wire[1].line
         /\ Command(k).motor = lines[wire[1].line].arg
         /\ ReplyTo(k) \in {lines[wire[1].line].from, Cut}
         /\ lines[wire[1].line] \in Line
<1>1. bt \in Seq(Piece) /\ wire \in Seq(Piece) /\ lines \in Seq(Line)
  BY DEF Shape, TypeOK
<1>2. k \in {2, 3} /\ k \in 1 .. Len(bt)
  BY <1>1 DEF Text, TextAt
<1>3. 1 \in 1 .. Len(bt) /\ Len(bt) \in Nat
  BY <1>1, <1>2
<1>4. wire # <<>> /\ bt[k].line = wire[1].line /\ bt[1].line = wire[1].line
  BY <1>2, <1>3 DEF Shape, WireInv
<1>5. Len(wire) \in Nat /\ 1 \in 1 .. Len(wire)
  BY <1>1, <1>4
<1>6. wire[1].line \in 1 .. Len(lines)
  BY <1>5 DEF Shape, WireInv
<1>7. lines[wire[1].line] \in Line /\ wire[1].line \in Nat
  BY <1>1, <1>6
<1>8. /\ Command(k) \in Order /\ Command(k).line = wire[1].line
      /\ Command(k).motor = lines[wire[1].line].arg
  BY <1>4, <1>7 DEF Command, Order, Line
<1>9. ReplyTo(k) \in {lines[wire[1].line].from, Cut}
  BY <1>4 DEF ReplyTo
<1> QED  BY <1>4, <1>6, <1>7, <1>8, <1>9

(* osMessagePut: the order is behind the others, or refused. *)
LEMMA PutFacts ==
  ASSUME Shape, NEW o \in Order, o.line \in 1 .. Len(lines), PutMotor(o)
  PROVE  /\ queue' \in Seq(Valid) /\ Len(queue') <= QUEUE_LEN
         /\ verdict' \in Seq(Verdict) /\ Len(verdict') = Len(verdict)
         /\ \A q \in 1 .. Len(verdict) : q # o.line => verdict'[q] = verdict[q]
         /\ verdict'[o.line] # "none"
         /\ \/ o \in Valid /\ queue' = Append(queue, o) /\ verdict'[o.line] = "queued"
            \/ queue' = queue /\ verdict'[o.line] # "queued"
<1>1. /\ verdict \in Seq(Verdict) /\ Len(verdict) = Len(lines) /\ queue \in Seq(Valid)
      /\ Len(queue) <= QUEUE_LEN /\ o.line \in 1 .. Len(verdict)
  BY DEF Shape, TypeOK
<1>2. ASSUME NEW v \in Verdict \ {"none"}, verdict' = [verdict EXCEPT ![o.line] = v]
      PROVE  /\ verdict' \in Seq(Verdict) /\ Len(verdict') = Len(verdict)
             /\ \A q \in 1 .. Len(verdict) : q # o.line => verdict'[q] = verdict[q]
             /\ verdict'[o.line] = v /\ v # "none"
  <2>1. v \in Verdict  OBVIOUS
  <2> QED  BY <1>1, <1>2, <2>1, ExceptSeq
<1>3. CASE o.motor \notin Motor
  <2>1. verdict' = [verdict EXCEPT ![o.line] = "invalid"] /\ queue' = queue
    BY <1>3 DEF PutMotor
  <2>2. "invalid" \in Verdict \ {"none"}  BY DEF Verdict
  <2> QED  BY <1>1, <1>2, <2>1, <2>2
<1>4. CASE o.motor \in Motor /\ Room
  <2>1. verdict' = [verdict EXCEPT ![o.line] = "queued"] /\ queue' = Append(queue, o)
    BY <1>4 DEF PutMotor
  <2>2. "queued" \in Verdict \ {"none"}  BY DEF Verdict
  <2>3. o \in Valid  BY <1>4 DEF Valid, Order
  <2>4. queue' \in Seq(Valid) /\ Len(queue') = Len(queue) + 1 /\ Len(queue) \in Nat
    BY <1>1, <2>1, <2>3
  <2>5. Len(queue') <= QUEUE_LEN
    BY <1>4, <2>4, FirmwareConstants DEF Room
  <2>6. verdict' \in Seq(Verdict) /\ verdict'[o.line] = "queued"
    BY <1>2, <2>1, <2>2
  <2>7. /\ Len(verdict') = Len(verdict)
        /\ \A q \in 1 .. Len(verdict) : q # o.line => verdict'[q] = verdict[q]
    BY <1>2, <2>1, <2>2
  <2> QED  BY <2>1, <2>3, <2>4, <2>5, <2>6, <2>7
<1>5. CASE o.motor \in Motor /\ ~Room
  <2>1. verdict' = [verdict EXCEPT ![o.line] = "full"] /\ queue' = queue
    BY <1>5 DEF PutMotor
  <2>2. "full" \in Verdict \ {"none"}  BY DEF Verdict
  <2> QED  BY <1>1, <1>2, <2>1, <2>2
<1> QED  BY <1>3, <1>4, <1>5

(* The ack that goes out for a command. *)
Answered(k) == acks' = Append(acks, [line |-> bt[k].line, to |-> ReplyTo(k),
                                     motor |-> Command(k).motor])

LEMMA AckFacts ==
  ASSUME Shape, NEW k \in Text, Answered(k)
  PROVE  /\ acks' \in Seq(Ack) /\ Len(acks') = Len(acks) + 1 /\ Len(acks) \in Nat
         /\ \A j \in 1 .. Len(acks) : acks'[j] = acks[j]
         /\ acks'[Len(acks) + 1].line = wire[1].line
         /\ acks'[Len(acks) + 1].motor = lines[wire[1].line].arg
         /\ acks'[Len(acks) + 1].to \in {lines[wire[1].line].from, Cut}
<1> DEFINE a == [line |-> bt[k].line, to |-> ReplyTo(k), motor |-> Command(k).motor]
<1>1. a \in Ack
  BY CommandFacts DEF Ack, Order, Line
<1>2. /\ a.line = wire[1].line /\ a.motor = lines[wire[1].line].arg
      /\ a.to \in {lines[wire[1].line].from, Cut}
  BY CommandFacts
<1>3. acks' = Append(acks, a) /\ acks \in Seq(Ack)
  BY DEF Answered, Shape, TypeOK
<1> HIDE DEF a
<1>4. Len(acks) \in Nat
  BY <1>3
<1> QED  BY <1>1, <1>2, <1>3, <1>4, AppendProperties

-----------------------------------------------------------------------------
(* The interrupt at the end of a line *)

LEMMA ShapeBluetooth ==
  ASSUME Shape, NEW lost \in Nat,
         BluetoothCommand(lost) \/ BluetoothTooEarly(lost) \/ BluetoothOther(lost)
  PROVE  Shape'
<1>1. CASE BluetoothCommand(lost)
  <2>1. PICK k \in Text : PutMotor(Command(k)) /\ Answered(k)
    BY <1>1 DEF BluetoothCommand, Answered
  <2>2. /\ queue' \in Seq(Valid) /\ Len(queue') <= QUEUE_LEN
        /\ verdict' \in Seq(Verdict) /\ Len(verdict') = Len(verdict)
    BY <2>1, CommandFacts, PutFacts
  <2>3. acks' \in Seq(Ack)
    BY <2>1, AckFacts
  <2>4. wire' \in Seq(Piece) /\ bt' \in Seq(Piece) /\ WireInv' /\ lines' = lines /\ rx' = rx
    BY <1>1, EndOfLineWire DEF BluetoothCommand
  <2>5. TypeOK'
    BY <1>1, <2>2, <2>3, <2>4 DEF BluetoothCommand, Shape, TypeOK
  <2> QED  BY <2>4, <2>5 DEF Shape
<1>2. CASE BluetoothTooEarly(lost)
  <2>1. PICK k \in Text :
          IF Command(k).motor \in Motor
          THEN phase' = "hung" /\ UNCHANGED <<link, acks, verdict>>
          ELSE /\ verdict' = [verdict EXCEPT ![bt[k].line] = "invalid"]
               /\ Answered(k) /\ EndOfLine(lost) /\ UNCHANGED phase
    BY <1>2 DEF BluetoothTooEarly, Answered
  <2>2. CASE Command(k).motor \in Motor
    <3>1. phase' = "hung" /\ UNCHANGED <<link, acks, verdict, queue, task, motor, ir, driven, readings>>
      BY <1>2, <2>1, <2>2 DEF BluetoothTooEarly
    <3>2. TypeOK'   BY <3>1 DEF Shape, TypeOK
    <3>3. WireInv'  BY <3>1 DEF Shape, WireInv
    <3> QED  BY <3>2, <3>3 DEF Shape
  <2>3. CASE Command(k).motor \notin Motor
    <3>1. PutMotor(Command(k)) /\ queue' = queue
      BY <1>2, <2>1, <2>3, CommandFacts DEF BluetoothTooEarly, PutMotor
    <3>2. verdict' \in Seq(Verdict) /\ Len(verdict') = Len(verdict)
      BY <3>1, CommandFacts, PutFacts
    <3>3. acks' \in Seq(Ack) /\ phase' = phase
      BY <2>1, <2>3, AckFacts
    <3>4. wire' \in Seq(Piece) /\ bt' \in Seq(Piece) /\ WireInv' /\ lines' = lines /\ rx' = rx
      BY <1>2, <2>1, <2>3, EndOfLineWire DEF BluetoothTooEarly
    <3>5. TypeOK'
      BY <1>2, <3>1, <3>2, <3>3, <3>4 DEF BluetoothTooEarly, Shape, TypeOK
    <3> QED  BY <3>4, <3>5 DEF Shape
  <2> QED  BY <2>2, <2>3
<1>3. CASE BluetoothOther(lost)
  <2>1. wire' \in Seq(Piece) /\ bt' \in Seq(Piece) /\ WireInv' /\ lines' = lines /\ rx' = rx
    BY <1>3, EndOfLineWire DEF BluetoothOther
  <2>2. TypeOK'
    BY <1>3, <2>1 DEF BluetoothOther, Shape, TypeOK
  <2> QED  BY <2>1, <2>2 DEF Shape
<1> QED  BY <1>1, <1>2, <1>3

(* The tasks, and what changes nothing on the wire. *)
LEMMA ShapeTasks ==
  ASSUME Shape, LineError \/ Start \/ UartTask \/ IrTask
  PROVE  Shape'
<1>1. UNCHANGED <<lines, wire, bt>>
  BY DEF LineError, Start, UartTask, Get, Drive, Wake, IrTask, Sample
<1>2. WireInv'
  BY <1>1 DEF Shape, WireInv
<1>3. CASE LineError  BY <1>2, <1>3 DEF LineError, Shape, TypeOK
<1>4. CASE Start      BY <1>2, <1>4 DEF Start, Shape, TypeOK
<1>5. CASE Get
  <2>1. queue \in Seq(Valid) /\ queue # <<>> /\ Len(queue) <= QUEUE_LEN
    BY <1>5 DEF Get, Shape, TypeOK
  <2>2. /\ Head(queue) \in Valid /\ Tail(queue) \in Seq(Valid)
        /\ Len(Tail(queue)) = Len(queue) - 1 /\ Len(queue) \in Nat
    BY <2>1
  <2>3. Len(queue') <= QUEUE_LEN /\ queue' \in Seq(Valid)
    BY <1>5, <2>1, <2>2, FirmwareConstants DEF Get
  <2>4. held' \in Seq(Valid) /\ Len(held') = 1 /\ uart' = "drive"
    BY <1>5, <2>2 DEF Get
  <2> QED  BY <1>2, <1>5, <2>3, <2>4 DEF Get, Shape, TypeOK
<1>6. CASE Drive
  <2>1. held \in Seq(Valid) /\ Len(held) = 1
    BY <1>6 DEF Drive, Shape, TypeOK
  <2>2. held[1] \in Valid
    BY <2>1
  <2>5. held[1].motor \in Motor
    BY <2>2 DEF Valid
  <2>6. /\ motor \in [Motor -> BOOLEAN] /\ driven \in Seq(Valid)
        /\ since \in [Motor -> 0 .. Lows + Highs]
    BY DEF Shape, TypeOK
  <2>3. /\ motor' \in [Motor -> BOOLEAN] /\ driven' \in Seq(Valid)
        /\ since' \in [Motor -> 0 .. Lows + Highs]
    <3>1. /\ motor' = [motor EXCEPT ![held[1].motor] = TRUE]
          /\ driven' = Append(driven, held[1])
          /\ since' = [since EXCEPT ![held[1].motor] = 0]
      BY <1>6, <2>5 DEF Drive, TurnOn
    <3>2. 0 \in 0 .. Lows + Highs
      BY ConstantFacts
    <3>3. since' \in [Motor -> 0 .. Lows + Highs]
      BY <2>5, <2>6, <3>1, <3>2
    <3>4. motor' \in [Motor -> BOOLEAN]
      BY <2>6, <3>1
    <3>5. driven' \in Seq(Valid)
      BY <2>2, <2>6, <3>1
    <3> QED  BY <3>3, <3>4, <3>5
  <2>4. held' \in Seq(Valid) /\ Len(held') = 0 /\ uart' = "delay"
    BY <1>6 DEF Drive
  <2> QED  BY <1>2, <1>6, <2>3, <2>4 DEF Drive, Shape, TypeOK
<1>7. CASE Wake       BY <1>2, <1>7 DEF Wake, Shape, TypeOK
<1>8. ASSUME NEW r \in [Motor -> BOOLEAN], Sample(r) PROVE Shape'
  <2>1. samples' \in [Motor -> [0 .. SAMPLE_COUNT - 1 -> BOOLEAN]]
    BY <1>8 DEF Sample, Shape, TypeOK
  <2>2. idx' \in [Motor -> 0 .. SAMPLE_COUNT - 1]
    <3>1. \A n \in Motor : (idx[n] + 1) % SAMPLE_COUNT \in 0 .. SAMPLE_COUNT - 1
      <4>1. \A n \in Motor : idx[n] \in Nat  BY ConstantFacts DEF Shape, TypeOK
      <4> TAKE n \in Motor
      <4>2. (idx[n] + 1) \in Nat  BY <4>1
      <4> QED  BY ONLY <4>2, ConstantFacts
    <3> QED  BY <1>8, <3>1 DEF Sample
  <2>3. current' \in [Motor -> BOOLEAN]
    <3>1. \A n \in Motor : current[n] \in BOOLEAN
      BY DEF Shape, TypeOK
    <3>2. \A n \in Motor : majorityVote(samples'[n]) \in BOOLEAN
      BY DEF majorityVote
    <3> QED  BY <1>8, <3>1, <3>2 DEF Sample
  <2>4. motor' \in [Motor -> BOOLEAN]
    BY <1>8 DEF Sample
  <2>5. seen' \in [Motor -> Seq(BOOLEAN)]
    <3>1. ASSUME NEW n \in Motor PROVE Newest(<<r[n]>> \o seen[n]) \in Seq(BOOLEAN)
      <4> DEFINE t == <<r[n]>> \o seen[n]
      <4>1. t \in Seq(BOOLEAN)
        BY DEF Shape, TypeOK
      <4> HIDE DEF t
      <4> DEFINE m == IF Len(t) < Lows + Highs THEN Len(t) ELSE Lows + Highs
      <4>2. m \in Nat /\ m <= Len(t)
        BY <4>1, ConstantFacts
      <4> HIDE DEF m
      <4>3. \A i \in 1 .. m : t[i] \in BOOLEAN
        BY <4>1, <4>2
      <4>4. SubSeq(t, 1, m) \in Seq(BOOLEAN)
        BY <4>2, <4>3, SubSeqProperties
      <4> QED  BY <4>4 DEF m, t, Newest
    <3> QED  BY <1>8, <3>1 DEF Sample
  <2>6. since' \in [Motor -> 0 .. Lows + Highs]
    BY <1>8, ConstantFacts DEF Sample, Shape, TypeOK
  <2>7. TypeOK'
    BY <1>8, <2>1, <2>2, <2>3, <2>4, <2>5, <2>6 DEF Sample, Shape, TypeOK
  <2> QED  BY <1>2, <2>7 DEF Shape
<1> QED  BY <1>3, <1>4, <1>5, <1>6, <1>7, <1>8 DEF UartTask, IrTask

LEMMA ShapeNext ==
  ASSUME Shape, [Next]_vars PROVE Shape'
<1>1. CASE UNCHANGED vars
  <2>1. TypeOK'   BY <1>1 DEF Shape, TypeOK
  <2>2. WireInv'  BY <1>1 DEF Shape, WireInv
  <2> QED  BY <2>1, <2>2 DEF Shape
<1>2. CASE \E l \in Lines : Send(l)
  BY <1>2, ShapeSend
<1>3. CASE RxCplt
  <2>1. \A lost \in 0 .. 4 * MaxLines : lost \in Nat
    BY FirmwareConstants
  <2> QED  BY <1>3, <2>1, ShapeAccumulate, ShapeBluetooth DEF RxCplt
<1>4. CASE LineError \/ Start \/ UartTask \/ IrTask
  BY <1>4, ShapeTasks
<1> QED  BY <1>1, <1>2, <1>3, <1>4 DEF Next

(* The types of the firmware's state, whatever the length of the queue and    *)
(* the vote: in particular the queue never exceeds its length, and UART_Task  *)
(* is never handed a motor that does not exist (TypeOK).                      *)
THEOREM TypeCorrect == Spec => []TypeOK
<1>1. Init => Shape
  BY ShapeInit
<1>2. Shape /\ [Next]_vars => Shape'
  BY ShapeNext
<1>3. Shape => TypeOK
  BY DEF Shape
<1> QED  BY <1>1, <1>2, <1>3, PTL DEF Spec

-----------------------------------------------------------------------------
(* The orders, from the wire to the pins *)

LEMMA FlowType ==
  ASSUME Shape
  PROVE  Flow \in Seq(Valid) /\ Len(Flow) \in Nat /\ DOMAIN Flow = 1 .. Len(Flow)
<1>1. driven \in Seq(Valid) /\ held \in Seq(Valid) /\ queue \in Seq(Valid)
  BY DEF Shape, TypeOK
<1>2. driven \o held \in Seq(Valid)
  BY <1>1, ConcatProperties
<1>3. Flow \in Seq(Valid)
  BY <1>1, <1>2, ConcatProperties DEF Flow
<1> QED  BY <1>3

(* UART_Task moves an order along, it neither drops nor repeats one. *)
LEMMA FlowMoves ==
  ASSUME Shape, Get \/ Drive PROVE Flow' = Flow
<1>1. /\ driven \in Seq(Valid) /\ held \in Seq(Valid) /\ queue \in Seq(Valid)
      /\ Len(held) = (IF uart = "drive" THEN 1 ELSE 0)
  BY DEF Shape, TypeOK
<1>2. CASE Get
  <2> DEFINE h == Head(queue)  t == Tail(queue)
  <2>1. /\ queue # <<>> /\ held = <<>> /\ driven' = driven /\ held' = <<h>> /\ queue' = t
    BY <1>1, <1>2 DEF Get
  <2>2. h \in Valid /\ t \in Seq(Valid) /\ <<h>> \in Seq(Valid)
    BY <1>1, <2>1
  <2>3. <<h>> \o t = queue
    <3>1. /\ Len(t) = Len(queue) - 1 /\ h = queue[1] /\ Len(queue) \in Nat
          /\ \A i \in 1 .. Len(t) : t[i] = queue[i + 1]
      BY <1>1, <2>1
    <3> HIDE DEF h, t
    <3>2. /\ <<h>> \o t \in Seq(Valid) /\ Len(<<h>> \o t) = 1 + Len(t)
          /\ \A i \in 1 .. 1 + Len(t) : (<<h>> \o t)[i] = IF i <= 1 THEN h ELSE t[i - 1]
      BY <2>2, ConcatProperties
    <3>3. Len(<<h>> \o t) = Len(queue)
      BY <3>1, <3>2
    <3>4. ASSUME NEW i \in 1 .. Len(<<h>> \o t) PROVE (<<h>> \o t)[i] = queue[i]
      <4>1. CASE i = 1
        BY <3>1, <3>2, <4>1
      <4>2. CASE i > 1
        <5>1. i - 1 \in 1 .. Len(t) /\ (i - 1) + 1 = i /\ ~(i <= 1)
          BY <3>1, <3>2, <4>2
        <5>2. t[i - 1] = queue[i]
          BY <3>1, <5>1
        <5> QED  BY <3>1, <3>2, <5>1, <5>2
      <4> QED  BY <4>1, <4>2
    <3> QED  BY <1>1, <3>2, <3>3, <3>4, SeqEqual
  <2> HIDE DEF h, t
  <2>4. Flow = driven \o queue
    BY <1>1, <2>1, ConcatEmptySeq DEF Flow
  <2>5. Flow' = driven \o (<<h>> \o t)
    BY <1>1, <2>1, <2>2, ConcatAssociative DEF Flow
  <2> QED  BY <2>3, <2>4, <2>5
<1>3. CASE Drive
  <2> DEFINE o == held[1]
  <2>0. Len(held) = 1
    BY <1>1, <1>3 DEF Drive
  <2>1. Len(held) = 1 /\ o \in Valid
    <3>1. held \in Seq(Valid)
      BY <1>1
    <3>2. held[1] \in Valid
      BY <2>0, <3>1
    <3> QED  BY <2>0, <3>2
  <2>2. o.motor \in Motor
    BY <2>1 DEF Valid
  <2>3. held = <<o>>
    BY <1>1, <2>1
  <2>4. driven' = Append(driven, o) /\ held' = <<>> /\ queue' = queue
    BY <1>3, <2>2 DEF Drive, TurnOn
  <2> HIDE DEF o
  <2>5. driven' = driven \o held
    BY <1>1, <2>1, <2>3, <2>4, AppendIsConcat
  <2>6. driven \o held \in Seq(Valid)
    BY <1>1, ConcatProperties
  <2> QED  BY <2>4, <2>5, <2>6, ConcatEmptySeq DEF Flow
<1> QED  BY <1>2, <1>3

LEMMA FlowGrows ==
  ASSUME Shape, NEW o \in Valid, queue' = Append(queue, o), UNCHANGED <<driven, held>>
  PROVE  Flow' = Append(Flow, o)
<1>1. /\ driven \o held \in Seq(Valid) /\ queue \in Seq(Valid)
  BY ConcatProperties DEF Shape, TypeOK
<1>2. Flow \in Seq(Valid)
  BY FlowType
<1>3. queue' = queue \o <<o>> /\ <<o>> \in Seq(Valid)
  BY <1>1, AppendIsConcat
<1>4. Flow' = (driven \o held) \o (queue \o <<o>>)
  BY <1>3 DEF Flow
<1>5. Flow' = Flow \o <<o>>
  BY <1>1, <1>3, <1>4, ConcatAssociative DEF Flow
<1> QED  BY <1>2, <1>5, AppendIsConcat

(* The lines and their verdicts grow, and nothing queued changes. *)
LEMMA OrdersKept ==
  ASSUME IInv, Shape', Flow' = Flow,
         \A q \in 1 .. Len(lines) : q \in 1 .. Len(lines') /\ lines'[q] = lines[q],
         Queued' = Queued
  PROVE  OrdersInOrder'
<1>1. /\ \A j \in DOMAIN Flow : Flow[j].line \in Queued /\ Flow[j].motor = lines[Flow[j].line].arg
      /\ \A j, k \in DOMAIN Flow : j < k => Flow[j].line < Flow[k].line
      /\ {Flow[j].line : j \in DOMAIN Flow} = Queued
  BY DEF IInv, OrdersInOrder
<1>2. Queued \subseteq 1 .. Len(lines)
  BY DEF Queued, IInv, Shape, TypeOK
<1>3. \A j \in DOMAIN Flow : Flow[j].motor = lines'[Flow[j].line].arg
  BY <1>1, <1>2
<1> QED  BY <1>1, <1>3 DEF OrdersInOrder

LEMMA OrdersGrow ==
  ASSUME IInv, Shape', NEW o \in Valid, Flow' = Append(Flow, o), lines' = lines,
         o.line \in 1 .. Len(lines), o.motor = lines[o.line].arg,
         \A q \in Queued : q < o.line,
         Queued' = Queued \cup {o.line}
  PROVE  OrdersInOrder'
<1>1. /\ \A j \in DOMAIN Flow : Flow[j].line \in Queued /\ Flow[j].motor = lines[Flow[j].line].arg
      /\ \A j, k \in DOMAIN Flow : j < k => Flow[j].line < Flow[k].line
      /\ {Flow[j].line : j \in DOMAIN Flow} = Queued
  BY DEF IInv, OrdersInOrder
<1> DEFINE n == Len(Flow)
<1>2. Flow \in Seq(Valid) /\ n \in Nat /\ DOMAIN Flow = 1 .. n
  BY FlowType DEF IInv
<1>3. /\ Flow' \in Seq(Valid) /\ DOMAIN Flow' = 1 .. n + 1
      /\ \A j \in 1 .. n : Flow'[j] = Flow[j]
      /\ Flow'[n + 1] = o
  <2>1. /\ Append(Flow, o) \in Seq(Valid) /\ Len(Append(Flow, o)) = n + 1
        /\ \A j \in 1 .. n : Append(Flow, o)[j] = Flow[j]
        /\ Append(Flow, o)[n + 1] = o
    BY <1>2, AppendProperties
  <2> QED  BY <2>1
<1> HIDE DEF n
<1>4. \A j \in DOMAIN Flow' : j \in 1 .. n \/ j = n + 1
  BY <1>2, <1>3
<1>5. \A j \in DOMAIN Flow' : Flow'[j].motor = lines'[Flow'[j].line].arg
  BY <1>1, <1>2, <1>3, <1>4
<1>6. \A j, k \in DOMAIN Flow' : j < k => Flow'[j].line < Flow'[k].line
  <2> SUFFICES ASSUME NEW j \in DOMAIN Flow', NEW k \in DOMAIN Flow', j < k
               PROVE  Flow'[j].line < Flow'[k].line
    OBVIOUS
  <2>1. j \in 1 .. n
    BY <1>2, <1>3
  <2>2. CASE k \in 1 .. n
    BY <1>1, <1>2, <1>3, <2>1, <2>2
  <2>3. CASE k = n + 1
    BY <1>1, <1>2, <1>3, <2>1, <2>3
  <2> QED  BY <1>4, <2>2, <2>3
<1>7. {Flow'[j].line : j \in DOMAIN Flow'} = Queued'
  <2>1. n + 1 \in DOMAIN Flow' /\ \A j \in 1 .. n : j \in DOMAIN Flow'
    BY <1>2, <1>3
  <2>2. \A q \in Queued : \E j \in 1 .. n : Flow[j].line = q
    BY <1>1, <1>2
  <2>3. Queued' \subseteq {Flow'[j].line : j \in DOMAIN Flow'}
    BY <1>3, <2>1, <2>2
  <2>4. \A j \in DOMAIN Flow' : Flow'[j].line \in Queued'
    BY <1>1, <1>2, <1>3, <1>4
  <2> QED  BY <2>3, <2>4
<1> QED  BY <1>5, <1>6, <1>7 DEF OrdersInOrder

-----------------------------------------------------------------------------
(* One command handled: what it does to the verdicts, the orders, the acks *)

LEMMA CommandStep ==
  ASSUME IInv, Shape', NEW lost \in Nat, NEW k \in Text,
         AtEndOfLine(lost), EndOfLine(lost),
         PutMotor(Command(k)), Answered(k), UNCHANGED <<driven, held>>
  PROVE  HandledInv' /\ AckInv' /\ OrdersInOrder' /\ AcksMatchLines'
<1> DEFINE L == wire[1].line  o == Command(k)
<1>1. /\ L \in 1 .. Len(lines) /\ o \in Order /\ o.line = L /\ o.motor = lines[L].arg
      /\ wire # <<>>
  BY CommandFacts DEF IInv
<1>2. /\ verdict \in Seq(Verdict) /\ Len(verdict) = Len(lines) /\ Len(lines) \in Nat
      /\ DOMAIN verdict = 1 .. Len(verdict) /\ Len(wire) \in Nat /\ 1 \in 1 .. Len(wire)
  <2>1. /\ verdict \in Seq(Verdict) /\ Len(verdict) = Len(lines)
        /\ lines \in Seq(Line) /\ wire \in Seq(Piece)
    BY DEF IInv, Shape, TypeOK
  <2>2. /\ Len(lines) \in Nat /\ Len(wire) \in Nat /\ 1 \in 1 .. Len(wire)
        /\ DOMAIN verdict = 1 .. Len(verdict)
    BY ONLY <2>1, <1>1
  <2> QED  BY <2>1, <2>2
<1>3. /\ verdict' \in Seq(Verdict) /\ Len(verdict') = Len(verdict)
      /\ \A q \in 1 .. Len(verdict) : q # L => verdict'[q] = verdict[q]
      /\ verdict'[L] # "none"
      /\ \/ o \in Valid /\ queue' = Append(queue, o) /\ verdict'[L] = "queued"
         \/ queue' = queue /\ verdict'[L] # "queued"
  <2>1. Shape /\ o.line \in 1 .. Len(lines)
    BY <1>1 DEF IInv
  <2> QED  BY <1>1, <2>1, PutFacts
<1>4. /\ lines' = lines /\ wire' \in Seq(Piece)
      /\ \A i \in 1 .. Len(wire') : wire'[i].line > L
      /\ \A i \in 1 .. Len(wire') : \E j \in 1 .. Len(wire) : wire'[i] = wire[j]
  BY EndOfLineWire DEF IInv
<1>5. /\ acks \in Seq(Ack) /\ acks' \in Seq(Ack) /\ Len(acks') = Len(acks) + 1 /\ Len(acks) \in Nat
      /\ DOMAIN acks = 1 .. Len(acks) /\ DOMAIN acks' = 1 .. Len(acks) + 1
      /\ \A j \in 1 .. Len(acks) : acks'[j] = acks[j]
      /\ acks'[Len(acks) + 1].line = L /\ acks'[Len(acks) + 1].motor = lines[L].arg
      /\ acks'[Len(acks) + 1].to \in {lines[L].from, Cut}
  <2>1. /\ acks' \in Seq(Ack) /\ Len(acks') = Len(acks) + 1 /\ Len(acks) \in Nat
        /\ \A j \in 1 .. Len(acks) : acks'[j] = acks[j]
        /\ acks'[Len(acks) + 1].line = L /\ acks'[Len(acks) + 1].motor = lines[L].arg
        /\ acks'[Len(acks) + 1].to \in {lines[L].from, Cut}
    BY AckFacts DEF IInv
  <2>2. acks \in Seq(Ack)
    BY DEF IInv, Shape, TypeOK
  <2> QED  BY <2>1, <2>2
<1>6. \A q \in 1 .. Len(verdict) : verdict[q] # "none" => q < L
  BY <1>2 DEF IInv, HandledInv
<1> HIDE DEF L, o
<1>7. HandledInv'
  <2> SUFFICES ASSUME NEW q \in 1 .. Len(verdict'), NEW i \in 1 .. Len(wire'), verdict'[q] # "none"
               PROVE  q < wire'[i].line
    BY DEF HandledInv
  <2>0. wire'[i] \in Piece
    BY <1>4
  <2>1. wire'[i].line > L /\ wire'[i].line \in Nat /\ L \in Nat
    BY <2>0, <1>1, <1>2, <1>4 DEF Piece
  <2>2. q = L \/ q < L
    BY <1>3, <1>6
  <2> QED  BY <1>3, <1>2, <2>1, <2>2
<1>8. AckInv'
  <2> SUFFICES ASSUME NEW j \in 1 .. Len(acks')
               PROVE  acks'[j].line \in 1 .. Len(verdict') /\ verdict'[acks'[j].line] # "none"
    BY DEF AckInv
  <2>1. CASE j \in 1 .. Len(acks)
    <3>1. acks'[j] = acks[j] /\ acks[j].line \in 1 .. Len(verdict) /\ verdict[acks[j].line] # "none"
      BY <1>5, <2>1 DEF IInv, AckInv
    <3> QED  BY <3>1, <1>3
  <2>2. CASE j = Len(acks) + 1
    BY <1>1, <1>2, <1>3, <1>5, <2>2
  <2> QED  BY <1>5, <2>1, <2>2
<1>9. AcksMatchLines'
  <2>1. \A j \in 1 .. Len(acks) : acks[j].line < L
    BY <1>6 DEF IInv, AckInv
  <2>2. \A j \in DOMAIN acks' : j \in DOMAIN acks \/ j = Len(acks) + 1
    BY <1>5
  <2>3. \A j \in DOMAIN acks' : /\ acks'[j].motor = lines'[acks'[j].line].arg
                                /\ acks'[j].to \in {lines'[acks'[j].line].from, Cut}
    BY <1>4, <1>5, <2>2 DEF IInv, AcksMatchLines
  <2>4. \A i, j \in DOMAIN acks' : i < j => acks'[i].line < acks'[j].line
    <3> SUFFICES ASSUME NEW i \in DOMAIN acks', NEW j \in DOMAIN acks', i < j
                 PROVE  acks'[i].line < acks'[j].line
      OBVIOUS
    <3>1. i \in DOMAIN acks
      BY <1>5
    <3>2. CASE j \in DOMAIN acks
      BY <1>5, <3>1, <3>2 DEF IInv, AcksMatchLines
    <3>3. CASE j = Len(acks) + 1
      BY <1>5, <2>1, <3>1, <3>3
    <3> QED  BY <2>2, <3>2, <3>3
  <2> QED  BY <2>3, <2>4 DEF AcksMatchLines
<1>10. OrdersInOrder'
  <2>1. \A q \in Queued : q < L
    BY <1>2, <1>6 DEF Queued
  <2>2. Queued' = {q \in 1 .. Len(verdict) : verdict'[q] = "queued"}
    BY <1>3 DEF Queued
  <2>3. L \notin Queued /\ L \in 1 .. Len(verdict) /\ L \in Nat
    BY <1>1, <1>2, <2>1
  <2>4. CASE o \in Valid /\ queue' = Append(queue, o) /\ verdict'[L] = "queued"
    <3>1. Queued' = Queued \cup {L}
      BY <1>2, <1>3, <2>2, <2>3, <2>4 DEF Queued
    <3>2. Flow' = Append(Flow, o)
      BY <2>4, FlowGrows DEF IInv
    <3> QED  BY <1>1, <1>4, <2>1, <2>4, <3>1, <3>2, OrdersGrow
  <2>5. CASE queue' = queue /\ verdict'[L] # "queued"
    <3>1. Queued' = Queued
      BY <1>2, <1>3, <2>2, <2>3, <2>5 DEF Queued
    <3>2. Flow' = Flow
      BY <2>5 DEF Flow
    <3> QED  BY <1>4, <3>1, <3>2, OrdersKept
  <2> QED  BY <1>3, <2>4, <2>5
<1> QED  BY <1>7, <1>8, <1>9, <1>10

(* Steps that decide nothing about a line. *)
LEMMA QuietStep ==
  ASSUME IInv, Shape', UNCHANGED <<verdict, acks, lines>>, Flow' = Flow,
         \A i \in 1 .. Len(wire') : \E j \in 1 .. Len(wire) : wire'[i] = wire[j]
  PROVE  IInv'
<1>1. HandledInv'
  BY DEF IInv, HandledInv
<1>2. AckInv'
  BY DEF IInv, AckInv
<1>3. OrdersInOrder'
  BY OrdersKept DEF Queued
<1>4. AcksMatchLines'
  BY DEF IInv, AcksMatchLines
<1> QED  BY <1>1, <1>2, <1>3, <1>4 DEF IInv

LEMMA SendStep ==
  ASSUME IInv, Shape', NEW l \in Lines, Send(l) PROVE IInv'
<1> DEFINE K == Len(lines) + 1
<1>1. /\ lines \in Seq(Line) /\ verdict \in Seq(Verdict) /\ wire \in Seq(Piece) /\ acks \in Seq(Ack)
      /\ Len(verdict) = Len(lines) /\ Len(lines) \in Nat /\ l \in Line
  BY FirmwareConstants DEF IInv, Shape, TypeOK
<1>2. /\ lines' \in Seq(Line) /\ Len(lines') = K
      /\ \A q \in 1 .. Len(lines) : lines'[q] = lines[q]
  BY <1>1 DEF Send
<1>3. /\ verdict' \in Seq(Verdict) /\ Len(verdict') = K /\ verdict'[K] = "none"
      /\ \A q \in 1 .. Len(verdict) : verdict'[q] = verdict[q]
      /\ DOMAIN verdict = 1 .. Len(lines) /\ DOMAIN verdict' = 1 .. K
  <2>1. verdict' = Append(verdict, "none") /\ "none" \in Verdict
    BY DEF Send, Verdict
  <2>2. /\ verdict' \in Seq(Verdict) /\ Len(verdict') = Len(verdict) + 1
        /\ verdict'[Len(verdict) + 1] = "none"
        /\ \A q \in 1 .. Len(verdict) : verdict'[q] = verdict[q]
    BY <1>1, <2>1, AppendProperties
  <2> QED  BY <1>1, <2>2
<1>4. \A i \in 1 .. Len(wire') : wire'[i].line = K \/ \E j \in 1 .. Len(wire) : wire'[i] = wire[j]
  <2> DEFINE P == Pieces(K)
  <2>1. P \in Seq(Piece) /\ Len(P) = 4 /\ \A i \in 1 .. 4 : P[i].line = K
    BY <1>1 DEF Pieces, Piece, Part
  <2>2. wire' = wire \o P
    BY DEF Send
  <2> HIDE DEF P, K
  <2>3. /\ Len(wire') = Len(wire) + 4 /\ Len(wire) \in Nat
        /\ \A i \in 1 .. Len(wire) + 4 : wire'[i] = IF i <= Len(wire) THEN wire[i] ELSE P[i - Len(wire)]
    <3>1. /\ Len(wire \o P) = Len(wire) + Len(P)
          /\ \A i \in 1 .. Len(wire) + Len(P) :
               (wire \o P)[i] = IF i <= Len(wire) THEN wire[i] ELSE P[i - Len(wire)]
      <4>1. wire \in Seq(Piece) /\ P \in Seq(Piece)
        BY <1>1, <2>1
      <4> QED  BY ONLY <4>1, ConcatProperties
    <3>2. Len(wire) \in Nat
      BY <1>1
    <3> QED  BY <2>1, <2>2, <3>1, <3>2
  <2> SUFFICES ASSUME NEW i \in 1 .. Len(wire')
               PROVE  wire'[i].line = K \/ \E j \in 1 .. Len(wire) : wire'[i] = wire[j]
    OBVIOUS
  <2>4. CASE i <= Len(wire)
    BY <2>3, <2>4
  <2>5. CASE i > Len(wire)
    <3>1. i - Len(wire) \in 1 .. 4 /\ ~(i <= Len(wire)) /\ i \in 1 .. Len(wire) + 4
      BY <2>3, <2>5
    <3>2. wire'[i] = P[i - Len(wire)]
      BY <2>3, <3>1
    <3> QED  BY <2>1, <3>1, <3>2
  <2> QED  BY <2>3, <2>4, <2>5
<1>5. HandledInv'
  <2> SUFFICES ASSUME NEW q \in 1 .. Len(verdict'), NEW i \in 1 .. Len(wire'), verdict'[q] # "none"
               PROVE  q < wire'[i].line
    BY DEF HandledInv
  <2>1. q \in 1 .. Len(verdict) /\ verdict[q] # "none" /\ q < K
    BY <1>1, <1>3
  <2>2. \A j \in 1 .. Len(wire) : q < wire[j].line
    BY <2>1 DEF IInv, HandledInv
  <2> QED  BY <1>4, <2>1, <2>2
<1>6. AckInv'
  <2>1. acks' = acks
    BY DEF Send
  <2>2. \A j \in 1 .. Len(acks) : acks[j].line \in 1 .. Len(verdict) /\ verdict[acks[j].line] # "none"
    BY DEF IInv, AckInv
  <2>3. \A q \in 1 .. Len(verdict) : q \in 1 .. Len(verdict')
    BY <1>1, <1>3
  <2> QED  BY <1>3, <2>1, <2>2, <2>3 DEF AckInv
<1>7. OrdersInOrder'
  <2>1. Flow' = Flow
    BY DEF Send, Flow
  <2>2. Queued' = Queued
    <3>1. \A q \in 1 .. K : q \in 1 .. Len(lines) \/ q = K
      BY <1>1
    <3>2. \A q \in 1 .. Len(lines) : q \in 1 .. K
      BY <1>1
    <3> HIDE DEF K
    <3> QED  BY <1>1, <1>3, <3>1, <3>2 DEF Queued
  <2>3. \A q \in 1 .. Len(lines) : q \in 1 .. Len(lines') /\ lines'[q] = lines[q]
    BY <1>1, <1>2
  <2> QED  BY <2>1, <2>2, <2>3, OrdersKept
<1>8. AcksMatchLines'
  <2>1. acks' = acks /\ DOMAIN acks = 1 .. Len(acks)
    BY <1>1 DEF Send
  <2>2. \A j \in DOMAIN acks : acks[j].line \in 1 .. Len(lines)
    BY <1>1, <2>1 DEF IInv, AckInv
  <2>3. \A j \in DOMAIN acks : lines'[acks[j].line] = lines[acks[j].line]
    BY <1>2, <2>2
  <2> QED  BY <2>1, <2>3 DEF IInv, AcksMatchLines
<1> QED  BY <1>5, <1>6, <1>7, <1>8 DEF IInv

LEMMA IInvNext ==
  ASSUME IInv, [Next]_vars PROVE IInv'
<1>0. Shape'
  BY ShapeNext DEF IInv
<1> USE <1>0
<1>1. CASE UNCHANGED vars
  <2>1. Flow' = Flow  BY <1>1 DEF Flow
  <2> QED  BY <1>1, <2>1, QuietStep
<1>2. ASSUME NEW l \in Lines, Send(l) PROVE IInv'
  BY <1>2, SendStep
<1>3. CASE LineError \/ Start \/ Wake
  <2>1. UNCHANGED <<verdict, acks, lines, wire>> /\ Flow' = Flow
    BY <1>3 DEF LineError, Start, Wake, Flow
  <2> QED  BY <2>1, QuietStep
<1>4. CASE Get \/ Drive
  <2>1. UNCHANGED <<verdict, acks, lines, wire>>
    BY <1>4 DEF Get, Drive
  <2>2. Flow' = Flow
    BY <1>4, FlowMoves DEF IInv
  <2> QED  BY <2>1, <2>2, QuietStep
<1>5. ASSUME NEW r \in [Motor -> BOOLEAN], Sample(r) PROVE IInv'
  <2>1. UNCHANGED <<verdict, acks, lines, wire>> /\ Flow' = Flow
    BY <1>5 DEF Sample, Flow
  <2> QED  BY <2>1, QuietStep
<1>6. CASE Accumulate
  <2>1. UNCHANGED <<verdict, acks, lines>> /\ Flow' = Flow /\ wire' = Tail(wire) /\ wire # <<>>
    BY <1>6 DEF Accumulate, Flow
  <2>2. wire \in Seq(Piece)
    BY DEF IInv, Shape, TypeOK
  <2>3. \A i \in 1 .. Len(wire') : \E j \in 1 .. Len(wire) : wire'[i] = wire[j]
    <3>1. /\ Len(wire') = Len(wire) - 1 /\ Len(wire) \in Nat
          /\ \A i \in 1 .. Len(wire') : wire'[i] = wire[i + 1]
      BY <2>1, <2>2
    <3>2. \A i \in 1 .. Len(wire') : i + 1 \in 1 .. Len(wire)
      BY <3>1
    <3> QED  BY <3>1, <3>2
  <2> QED  BY <2>1, <2>3, QuietStep
<1>7. ASSUME NEW lost \in Nat, BluetoothCommand(lost) PROVE IInv'
  <2>1. PICK k \in Text : PutMotor(Command(k)) /\ Answered(k)
    BY <1>7 DEF BluetoothCommand, Answered
  <2>2. AtEndOfLine(lost) /\ EndOfLine(lost) /\ UNCHANGED <<driven, held>>
    BY <1>7 DEF BluetoothCommand
  <2> QED  BY <2>1, <2>2, CommandStep DEF IInv
<1>8. ASSUME NEW lost \in Nat, BluetoothTooEarly(lost) PROVE IInv'
  <2>1. PICK k \in Text :
          IF Command(k).motor \in Motor
          THEN phase' = "hung" /\ UNCHANGED <<link, acks, verdict>>
          ELSE /\ verdict' = [verdict EXCEPT ![bt[k].line] = "invalid"]
               /\ Answered(k) /\ EndOfLine(lost) /\ UNCHANGED phase
    BY <1>8 DEF BluetoothTooEarly, Answered
  <2>2. AtEndOfLine(lost) /\ UNCHANGED <<queue, driven, held>>
    BY <1>8 DEF BluetoothTooEarly
  <2>3. CASE Command(k).motor \in Motor
    <3>1. UNCHANGED <<verdict, acks, lines, wire>> /\ Flow' = Flow
      BY <2>1, <2>2, <2>3 DEF Flow
    <3> QED  BY <3>1, QuietStep
  <2>4. CASE Command(k).motor \notin Motor
    <3>1. PutMotor(Command(k))
      BY <2>1, <2>2, <2>4, CommandFacts DEF PutMotor, Command
    <3> QED  BY <2>1, <2>2, <2>4, <3>1, CommandStep DEF IInv
  <2> QED  BY <2>3, <2>4
<1>9. ASSUME NEW lost \in Nat, BluetoothOther(lost) PROVE IInv'
  <2>1. UNCHANGED <<verdict, acks>> /\ Flow' = Flow /\ AtEndOfLine(lost) /\ EndOfLine(lost)
    BY <1>9 DEF BluetoothOther, Flow
  <2>2. /\ lines' = lines
        /\ \A i \in 1 .. Len(wire') : \E j \in 1 .. Len(wire) : wire'[i] = wire[j]
    BY <2>1, EndOfLineWire DEF IInv
  <2> QED  BY <2>1, <2>2, QuietStep
<1>10. \A lost \in 0 .. 4 * MaxLines : lost \in Nat
  BY FirmwareConstants
<1> QED
  BY <1>1, <1>2, <1>3, <1>4, <1>5, <1>6, <1>7, <1>8, <1>9, <1>10 DEF Next, RxCplt, UartTask, IrTask

LEMMA IInvInit == Init => IInv
<1> SUFFICES ASSUME Init PROVE IInv  OBVIOUS
<1>1. Shape
  BY ShapeInit
<1>2. HandledInv /\ AckInv
  BY DEF Init, HandledInv, AckInv
<1>3. Flow = <<>>
  BY DEF Init, Flow
<1>4. OrdersInOrder
  BY <1>3 DEF Init, OrdersInOrder, Queued
<1>5. AcksMatchLines
  BY DEF Init, AcksMatchLines
<1> QED  BY <1>1, <1>2, <1>4, <1>5 DEF IInv

THEOREM Invariance == Spec => []IInv
<1> QED  BY IInvInit, IInvNext, PTL DEF Spec

(* Orders are neither lost, repeated, reordered nor mixed up between the wire *)
(* and the pins, however many bytes the interrupt loses (OrdersInOrder).      *)
THEOREM OrdersReachPins == Spec => []OrdersInOrder
<1>1. IInv => OrdersInOrder
  BY DEF IInv
<1> QED  BY <1>1, Invariance, PTL

(* Every ack repeats a line that was sent, once and in order (AcksMatchLines). *)
THEOREM AcksAreHonest == Spec => []AcksMatchLines
<1>1. IInv => AcksMatchLines
  BY DEF IInv
<1> QED  BY <1>1, Invariance, PTL

-----------------------------------------------------------------------------
(* The refinement of Dispenser *)

LEMMA WaitingType ==
  ASSUME Shape
  PROVE  /\ Waiting \in Seq(Valid) /\ Len(Waiting) \in Nat
         /\ Len(Waiting) = Len(held) + Len(queue)
         /\ Orders \in Seq(Motor) /\ Len(Orders) = Len(Waiting)
         /\ \A i \in 1 .. Len(Waiting) : Orders[i] = Waiting[i].motor
<1>1. held \in Seq(Valid) /\ queue \in Seq(Valid)
  BY DEF Shape, TypeOK
<1>2. Waiting \in Seq(Valid) /\ Len(Waiting) = Len(held) + Len(queue)
  BY <1>1, ConcatProperties DEF Waiting
<1>3. Len(Waiting) \in Nat /\ \A i \in 1 .. Len(Waiting) : Waiting[i] \in Valid
  BY <1>2
<1>4. \A i \in 1 .. Len(Waiting) : Waiting[i].motor \in Motor
  BY <1>3 DEF Valid
<1> QED  BY <1>2, <1>3, <1>4 DEF Orders

LEMMA StepTake ==
  ASSUME Shape, NEW o \in Valid, Room, queue' = Append(queue, o), UNCHANGED <<held, motor>>
  PROVE  D!Take(o.motor) /\ o.motor \in Motor
<1>1. /\ held \in Seq(Valid) /\ queue \in Seq(Valid) /\ <<o>> \in Seq(Valid)
      /\ Len(held) <= 1 /\ Len(held) \in Nat /\ Len(queue) \in Nat
  BY DEF Shape, TypeOK
<1>2. queue' = queue \o <<o>>
  BY <1>1, AppendIsConcat
<1>3. Waiting' = Waiting \o <<o>>
  BY <1>1, <1>2, ConcatAssociative DEF Waiting
<1>4. Waiting \in Seq(Valid) /\ Len(Waiting) = Len(held) + Len(queue) /\ Len(Waiting) \in Nat
      /\ Orders \in Seq(Motor) /\ Len(Orders) = Len(Waiting)
  BY WaitingType
<1>5. Waiting' = Append(Waiting, o)
  BY <1>3, <1>4, AppendIsConcat
<1>6. o.motor \in Motor
  BY DEF Valid
<1>7. Orders' = Append(Orders, o.motor)
  <2> DEFINE n == Len(Waiting)  W == Append(Waiting, o)
  <2>1. /\ W \in Seq(Valid) /\ Len(W) = n + 1 /\ W[n + 1] = o /\ n \in Nat
        /\ \A i \in 1 .. n : W[i] = Waiting[i]
    BY <1>4, AppendProperties
  <2>2. Orders' = [k \in 1 .. Len(W) |-> W[k].motor]
    BY <1>5 DEF Orders
  <2>3. /\ Append(Orders, o.motor) \in Seq(Motor) /\ Len(Append(Orders, o.motor)) = n + 1
        /\ Append(Orders, o.motor)[n + 1] = o.motor
        /\ \A i \in 1 .. n : Append(Orders, o.motor)[i] = Orders[i]
    BY <1>4, <1>6, AppendProperties
  <2>4. \A i \in 1 .. n : Orders[i] = Waiting[i].motor
    BY WaitingType
  <2> HIDE DEF W, n
  <2>5. \A i \in 1 .. n + 1 : i \in 1 .. n \/ i = n + 1
    BY <2>1
  <2>6. /\ DOMAIN Orders' = 1 .. n + 1
        /\ \A i \in 1 .. n + 1 : Orders'[i] = Append(Orders, o.motor)[i]
    BY <2>1, <2>2, <2>3, <2>4, <2>5
  <2>7. \A i \in 1 .. n + 1 : W[i] \in Valid
    BY <2>1
  <2>8. Orders' \in Seq(Motor) /\ Len(Orders') = n + 1
    BY <2>1, <2>2, <2>7 DEF Valid
  <2> QED  BY <2>3, <2>6, <2>8, SeqEqual
<1>8. Len(Orders) < QUEUE_LEN + 1
  BY <1>1, <1>4, FirmwareConstants DEF Room
<1>9. Running' = Running
  BY DEF Running
<1> QED  BY <1>6, <1>7, <1>8, <1>9 DEF D!Take

(* What is waiting does not change when UART_Task takes an order in hand. *)
LEMMA StepGet ==
  ASSUME Shape, Get PROVE Waiting' = Waiting /\ Running' = Running
<1> DEFINE h == Head(queue)  t == Tail(queue)
<1>1. /\ held \in Seq(Valid) /\ queue \in Seq(Valid) /\ Len(held) = 0
  BY DEF Get, Shape, TypeOK
<1>2. held = <<>> /\ queue # <<>> /\ held' = <<h>> /\ queue' = t /\ motor' = motor
  BY <1>1 DEF Get
<1>3. Waiting = queue
  BY <1>1, <1>2, ConcatEmptySeq DEF Waiting
<1>4. /\ h \in Valid /\ t \in Seq(Valid) /\ <<h>> \in Seq(Valid)
      /\ Len(t) = Len(queue) - 1 /\ h = queue[1] /\ Len(queue) \in Nat
      /\ \A i \in 1 .. Len(t) : t[i] = queue[i + 1]
  BY <1>1, <1>2
<1> HIDE DEF h, t
<1>5. /\ <<h>> \o t \in Seq(Valid) /\ Len(<<h>> \o t) = 1 + Len(t)
      /\ \A i \in 1 .. 1 + Len(t) : (<<h>> \o t)[i] = IF i <= 1 THEN h ELSE t[i - 1]
  BY <1>4, ConcatProperties
<1>6. Len(<<h>> \o t) = Len(queue)
  BY <1>4, <1>5
<1>7. ASSUME NEW i \in 1 .. Len(<<h>> \o t) PROVE (<<h>> \o t)[i] = queue[i]
  <2>1. CASE i = 1
    BY <1>4, <1>5, <2>1
  <2>2. CASE i > 1
    <3>1. i - 1 \in 1 .. Len(t) /\ (i - 1) + 1 = i /\ ~(i <= 1)
      BY <1>4, <1>5, <2>2
    <3>2. t[i - 1] = queue[i]
      BY <1>4, <3>1
    <3> QED  BY <1>4, <1>5, <3>1, <3>2
  <2> QED  BY <2>1, <2>2
<1>8. <<h>> \o t = queue
  BY <1>1, <1>5, <1>6, <1>7, SeqEqual
<1> QED  BY <1>2, <1>3, <1>8 DEF Waiting, Running

LEMMA StepServe ==
  ASSUME Shape, Drive PROVE D!Serve
<1> DEFINE o == held[1]
<1>1. held \in Seq(Valid) /\ queue \in Seq(Valid) /\ motor \in [Motor -> BOOLEAN]
  BY DEF Shape, TypeOK
<1>2. Len(held) = 1
  BY DEF Drive, Shape, TypeOK
<1>3. o \in Valid /\ held = <<o>>
  <2>1. 1 \in 1 .. Len(held)
    BY <1>2
  <2>2. o \in Valid
    BY <1>1, <2>1
  <2> HIDE DEF o
  <2>3. <<o>> \in Seq(Valid) /\ Len(<<o>>) = 1 /\ <<o>>[1] = o
    BY <2>2
  <2>4. held[1] = <<o>>[1]
    BY <2>3 DEF o
  <2>5. \A i \in 1 .. Len(held) : held[i] = <<o>>[i]
    BY <1>2, <2>4
  <2>6. held = <<o>>
    BY ONLY <1>1, <1>2, <2>3, <2>5, SeqEqual
  <2> QED  BY <2>2, <2>6
<1>4. o.motor \in Motor
  BY <1>3 DEF Valid
<1>5. motor' = [motor EXCEPT ![o.motor] = TRUE] /\ held' = <<>> /\ queue' = queue
  BY <1>4 DEF Drive, TurnOn
<1>6. Waiting' = queue
  BY <1>1, <1>5, ConcatEmptySeq DEF Waiting
<1>7. /\ Waiting \in Seq(Valid) /\ Len(Waiting) = 1 + Len(queue) /\ Len(queue) \in Nat
      /\ Waiting[1] = o /\ \A i \in 1 .. Len(queue) : Waiting[i + 1] = queue[i]
  <2>1. /\ Waiting \in Seq(Valid) /\ Len(Waiting) = Len(held) + Len(queue)
        /\ \A i \in 1 .. Len(held) + Len(queue) :
             Waiting[i] = IF i <= Len(held) THEN held[i] ELSE queue[i - Len(held)]
    BY <1>1, ConcatProperties DEF Waiting
  <2>2. Len(queue) \in Nat
    BY <1>1
  <2>3. Waiting[1] = o
    BY <1>2, <2>1, <2>2
  <2>4. ASSUME NEW i \in 1 .. Len(queue) PROVE Waiting[i + 1] = queue[i]
    <3>1. i + 1 \in 1 .. Len(held) + Len(queue) /\ ~(i + 1 <= Len(held)) /\ (i + 1) - Len(held) = i
      BY <1>2, <2>2
    <3> QED  BY <2>1, <3>1
  <2> QED  BY <1>2, <2>1, <2>2, <2>3, <2>4
<1>8. /\ Orders \in Seq(Motor) /\ Len(Orders) = 1 + Len(queue)
      /\ \A i \in 1 .. 1 + Len(queue) : Orders[i] = Waiting[i].motor
  BY <1>7, WaitingType
<1> HIDE DEF o
<1>9. Orders # <<>> /\ Head(Orders) = o.motor
  BY <1>7, <1>8
<1>10. Orders' = Tail(Orders)
  <2>1. Orders' = [k \in 1 .. Len(queue) |-> queue[k].motor]
    BY <1>6 DEF Orders
  <2>2. /\ Tail(Orders) \in Seq(Motor) /\ Len(Tail(Orders)) = Len(queue)
        /\ \A i \in 1 .. Len(queue) : Tail(Orders)[i] = Orders[i + 1]
    <3>1. /\ Tail(Orders) \in Seq(Motor) /\ Len(Tail(Orders)) = Len(Orders) - 1
          /\ \A i \in 1 .. Len(Tail(Orders)) : Tail(Orders)[i] = Orders[i + 1]
      BY <1>8, <1>9, HeadTailProperties
    <3> QED  BY <1>7, <1>8, <3>1
  <2>3. ASSUME NEW i \in 1 .. Len(queue) PROVE Tail(Orders)[i] = queue[i].motor
    <3>1. i + 1 \in 1 .. 1 + Len(queue)
      BY <1>7
    <3> QED  BY <1>7, <1>8, <2>2, <3>1
  <2>4. \A i \in 1 .. Len(queue) : queue[i].motor \in Motor
    <3>1. \A i \in 1 .. Len(queue) : queue[i] \in Valid
      BY <1>1
    <3> QED  BY ONLY <3>1 DEF Valid
  <2>5. Orders' \in Seq(Motor) /\ Len(Orders') = Len(queue)
    BY <1>7, <2>1, <2>4
  <2>6. \A i \in 1 .. Len(queue) : Orders'[i] = Tail(Orders)[i]
    BY <2>1, <2>3
  <2> QED  BY <2>2, <2>5, <2>6, SeqEqual
<1>11. Running' = Running \cup {Head(Orders)}
  BY <1>1, <1>4, <1>5, <1>9 DEF Running
<1> QED  BY <1>9, <1>10, <1>11 DEF D!Serve

LEMMA RefinementStep ==
  ASSUME Shape, Shape', [Next]_vars PROVE [D!Next]_(D!vars)
<1> DEFINE Same == Waiting' = Waiting /\ Running' = Running
<1>0. Same => UNCHANGED (D!vars)
  BY DEF Orders, D!vars
<1>1. CASE UNCHANGED vars
  <2>1. Same  BY <1>1 DEF Waiting, Running
  <2> QED  BY <1>0, <2>1
<1>2. CASE (\E l \in Lines : Send(l)) \/ LineError \/ Start \/ Wake \/ Accumulate
  <2>1. Same  BY <1>2 DEF Send, LineError, Start, Wake, Accumulate, Waiting, Running
  <2> QED  BY <1>0, <2>1
<1>3. CASE Get
  BY <1>0, <1>3, StepGet
<1>4. CASE Drive
  BY <1>4, StepServe DEF D!Next
<1>5. ASSUME NEW r \in [Motor -> BOOLEAN], Sample(r) PROVE D!Next
  <2>1. Waiting' = Waiting
    BY <1>5 DEF Sample, Waiting
  <2>2. Orders' = Orders
    BY <2>1 DEF Orders
  <2>3. Running' \subseteq Running
    BY <1>5 DEF Sample, Running
  <2> QED  BY <2>2, <2>3 DEF D!Next, D!Stop
<1>6. ASSUME NEW lost \in Nat, BluetoothCommand(lost) PROVE [D!Next]_(D!vars)
  <2>1. PICK k \in Text : PutMotor(Command(k))
    BY <1>6 DEF BluetoothCommand
  <2>2. UNCHANGED <<held, motor>>
    BY <1>6 DEF BluetoothCommand
  <2>3. CASE Command(k).motor \in Motor /\ Room
    <3>1. queue' = Append(queue, Command(k))
      BY <2>1, <2>3 DEF PutMotor
    <3>2. Command(k) \in Valid
      BY <2>3, CommandFacts DEF Valid, Order
    <3>3. D!Take(Command(k).motor) /\ Command(k).motor \in Motor
      BY <2>2, <2>3, <3>1, <3>2, StepTake
    <3> QED  BY <3>3 DEF D!Next
  <2>4. CASE ~(Command(k).motor \in Motor /\ Room)
    <3>1. queue' = queue
      BY <2>1, <2>4 DEF PutMotor
    <3>2. Same  BY <2>2, <3>1 DEF Waiting, Running
    <3> QED  BY <1>0, <3>2
  <2> QED  BY <2>3, <2>4
<1>7. ASSUME NEW lost \in Nat, BluetoothTooEarly(lost) \/ BluetoothOther(lost)
      PROVE  [D!Next]_(D!vars)
  <2>1. Same  BY <1>7 DEF BluetoothTooEarly, BluetoothOther, Waiting, Running
  <2> QED  BY <1>0, <2>1
<1>8. \A lost \in 0 .. 4 * MaxLines : lost \in Nat
  BY FirmwareConstants
<1> QED
  BY <1>1, <1>2, <1>3, <1>4, <1>5, <1>6, <1>7, <1>8 DEF Next, RxCplt, UartTask, IrTask

(* The controller, with its interrupt and its tasks, does nothing the abstract *)
(* dispenser does not: orders wait in a line of at most QUEUE_LEN + 1, each is *)
(* served in its turn, and nothing else turns a motor on (ImplementsDispenser). *)
THEOREM FirmwareRefinesDispenser == Spec => ImplementsDispenser
<1>1. Init => D!Init
  <2> SUFFICES ASSUME Init PROVE D!Init  OBVIOUS
  <2>1. Waiting = <<>>   BY DEF Init, Waiting
  <2>2. Orders = <<>>    BY <2>1 DEF Orders
  <2>3. Running = {}     BY DEF Init, Running
  <2> QED  BY <2>2, <2>3 DEF D!Init
<1>2. Shape /\ Shape' /\ [Next]_vars => [D!Next]_(D!vars)
  BY RefinementStep
<1>3. Init => Shape
  BY ShapeInit
<1>4. Shape /\ [Next]_vars => Shape'
  BY ShapeNext
<1> QED  BY <1>1, <1>2, <1>3, <1>4, PTL DEF Spec, ImplementsDispenser, D!Spec
-----------------------------------------------------------------------------
(* The queue and the orders it refuses *)

(* The size of an interval that is not below empty. *)
LEMMA IntervalSize ==
  ASSUME NEW a \in Int, NEW b \in Int, a <= b + 1
  PROVE  IsFiniteSet(a .. b) /\ Cardinality(a .. b) = b - a + 1
<1>1. /\ IsFiniteSet(a .. b)
      /\ Cardinality(a .. b) = IF a > b THEN 0 ELSE b - a + 1
  BY FS_Interval
<1>2. CASE a > b
  <2>1. b - a + 1 = 0
    BY <1>2
  <2> QED  BY <1>1, <1>2, <2>1
<1>3. CASE ~(a > b)
  BY <1>1, <1>3
<1> QED  BY <1>2, <1>3

LEMMA CountSize ==
  ASSUME NEW m \in Nat
  PROVE  IsFiniteSet(1 .. m) /\ Cardinality(1 .. m) = m
<1>1. 1 \in Int /\ m \in Int /\ 1 <= m + 1
  OBVIOUS
<1>2. IsFiniteSet(1 .. m) /\ Cardinality(1 .. m) = m - 1 + 1
  BY <1>1, IntervalSize
<1> QED  BY <1>2

(* The orders queued before line k. *)
Ahead(k) == {j \in Queued : j < k}

LEMMA AheadFinite ==
  ASSUME Shape, NEW k
  PROVE  IsFiniteSet(Ahead(k)) /\ Cardinality(Ahead(k)) \in Nat
<1>1. Len(verdict) \in Nat /\ DOMAIN verdict = 1 .. Len(verdict)
  BY DEF Shape, TypeOK
<1>2. IsFiniteSet(1 .. Len(verdict))
  BY <1>1, CountSize
<1>3. Ahead(k) \in SUBSET (1 .. Len(verdict))
  BY <1>1 DEF Ahead, Queued
<1>4. IsFiniteSet(Ahead(k))
  BY <1>2, <1>3, FS_Subset
<1> QED  BY <1>4, FS_CardinalityType

(* The lines of a full queue are QUEUE_LEN different ones, all queued. *)
LEMMA FullQueueAhead ==
  ASSUME IInv, ~Room, NEW k \in Nat, \A q \in Queued : q < k
  PROVE  Cardinality(Ahead(k)) >= QUEUE_LEN
<1> DEFINE before == driven \o held  n == Len(before)  S == 1 .. Len(queue)
           f == [i \in S |-> queue[i].line]
<1>1. /\ driven \in Seq(Valid) /\ held \in Seq(Valid) /\ queue \in Seq(Valid)
      /\ Len(queue) \in Nat /\ QUEUE_LEN \in Nat /\ Len(queue) >= QUEUE_LEN
  BY FirmwareConstants DEF IInv, Shape, TypeOK, Room
<1>2. before \in Seq(Valid) /\ n \in Nat
  BY <1>1, ConcatProperties
<1>3. Flow = before \o queue
  BY DEF Flow
<1> HIDE DEF before, n
<1>4. /\ Len(Flow) = Len(before) + Len(queue)
      /\ \A i \in 1 .. Len(before) + Len(queue) :
           Flow[i] = IF i <= Len(before) THEN before[i] ELSE queue[i - Len(before)]
  BY <1>1, <1>2, <1>3, ConcatProperties
<1>5. DOMAIN Flow = 1 .. Len(Flow)
  BY FlowType DEF IInv
<1>6. ASSUME NEW i \in S
      PROVE  n + i \in DOMAIN Flow /\ Flow[n + i] = queue[i]
  <2>1. n + i \in 1 .. Len(before) + Len(queue) /\ ~(n + i <= n) /\ (n + i) - n = i
    BY <1>1, <1>2 DEF n
  <2> QED  BY <1>4, <1>5, <2>1 DEF n
<1>7. \A i \in S : f[i] \in Ahead(k)
  BY <1>6 DEF IInv, OrdersInOrder, Ahead
<1>8. \A i, j \in S : i < j => f[i] < f[j]
  <2> SUFFICES ASSUME NEW i \in S, NEW j \in S, i < j PROVE f[i] < f[j]
    OBVIOUS
  <2>1. n + i < n + j
    BY <1>1, <1>2
  <2> QED  BY <1>6, <2>1 DEF IInv, OrdersInOrder
<1>9. \A i, j \in S : f[i] = f[j] => i = j
  <2>1. \A i \in S : f[i] \in Nat
    <3>1. \A i \in S : queue[i] \in Valid
      BY <1>1
    <3> QED  BY <3>1 DEF Valid
  <2> QED  BY <1>1, <1>8, <2>1
<1>10. f \in Injection(S, Ahead(k))
  BY <1>7, <1>9 DEF Injection, IsInjective
<1>11. IsFiniteSet(Ahead(k)) /\ Cardinality(Ahead(k)) \in Nat
  BY AheadFinite DEF IInv
<1>12. Cardinality(S) <= Cardinality(Ahead(k))
  BY <1>10, <1>11, FS_Injection
<1>13. Cardinality(S) = Len(queue)
  BY <1>1, CountSize
<1> QED  BY <1>1, <1>11, <1>12, <1>13

(* A verdict stays; an order refused by this step found the queue full, and *)
(* every order queued so far is of an earlier line.                         *)
VerdictsStay ==
    \A q \in DOMAIN verdict :
      verdict[q] # "none" => q \in DOMAIN verdict' /\ verdict'[q] = verdict[q]
RefusedWhenFull ==
    \A k \in DOMAIN verdict' :
      verdict'[k] = "full" =>
        \/ k \in DOMAIN verdict /\ verdict[k] = "full"
        \/ k \in Nat /\ ~Room /\ \A q \in Queued : q < k

LEMMA PutDecides ==
  ASSUME IInv, NEW k \in Text, PutMotor(Command(k))
  PROVE  VerdictsStay /\ RefusedWhenFull
<1> DEFINE L == wire[1].line  o == Command(k)
<1>1. L \in 1 .. Len(lines) /\ o \in Order /\ o.line = L /\ wire # <<>>
  BY CommandFacts DEF IInv
<1>2. /\ Len(verdict) = Len(lines) /\ Len(lines) \in Nat
      /\ DOMAIN verdict = 1 .. Len(verdict) /\ Len(wire) \in Nat /\ 1 \in 1 .. Len(wire)
  BY <1>1 DEF IInv, Shape, TypeOK
<1>3. /\ DOMAIN verdict' = DOMAIN verdict
      /\ \A q \in 1 .. Len(verdict) : q # L => verdict'[q] = verdict[q]
  <2>1. Shape /\ o.line \in 1 .. Len(lines) /\ PutMotor(o)
    BY <1>1 DEF IInv
  <2>2. /\ verdict' \in Seq(Verdict) /\ Len(verdict') = Len(verdict)
        /\ \A q \in 1 .. Len(verdict) : q # o.line => verdict'[q] = verdict[q]
    BY <1>1, <2>1, PutFacts
  <2> QED  BY <1>1, <1>2, <2>2
<1>4. \A q \in 1 .. Len(verdict) : verdict[q] # "none" => q < L
  BY <1>2 DEF IInv, HandledInv
<1>5. verdict'[L] = "full" => ~Room
  <2>1. CASE o.motor \notin Motor
    <3>1. verdict' = [verdict EXCEPT ![L] = "invalid"]
      BY <1>1, <2>1 DEF PutMotor
    <3>2. L \in DOMAIN verdict
      BY <1>1, <1>2
    <3> QED  BY <3>1, <3>2
  <2>2. CASE o.motor \in Motor /\ Room
    <3>1. verdict' = [verdict EXCEPT ![L] = "queued"]
      BY <1>1, <2>2 DEF PutMotor
    <3>2. L \in DOMAIN verdict
      BY <1>1, <1>2
    <3> QED  BY <3>1, <3>2
  <2> QED  BY <2>1, <2>2
<1> HIDE DEF L, o
<1>6. VerdictsStay
  <2> SUFFICES ASSUME NEW q \in DOMAIN verdict, verdict[q] # "none"
               PROVE  q \in DOMAIN verdict' /\ verdict'[q] = verdict[q]
    BY DEF VerdictsStay
  <2>1. q < L
    BY <1>2, <1>4
  <2> QED  BY <1>1, <1>2, <1>3, <2>1
<1>7. RefusedWhenFull
  <2> SUFFICES ASSUME NEW q \in DOMAIN verdict', verdict'[q] = "full",
                      ~(q \in DOMAIN verdict /\ verdict[q] = "full")
               PROVE  q \in Nat /\ ~Room /\ \A p \in Queued : p < q
    BY DEF RefusedWhenFull
  <2>1. q = L
    BY <1>2, <1>3
  <2>2. \A p \in Queued : p < L
    BY <1>2, <1>4 DEF Queued
  <2> QED  BY <1>1, <1>2, <1>5, <2>1, <2>2
<1> QED  BY <1>6, <1>7

LEMMA StepDecides ==
  ASSUME IInv, [Next]_vars PROVE VerdictsStay /\ RefusedWhenFull
<1>0. verdict' = verdict => VerdictsStay /\ RefusedWhenFull
  BY DEF VerdictsStay, RefusedWhenFull
<1>1. CASE UNCHANGED vars
  BY <1>0, <1>1
<1>2. ASSUME NEW l \in Lines, Send(l) PROVE VerdictsStay /\ RefusedWhenFull
  <2>1. verdict \in Seq(Verdict) /\ verdict' = Append(verdict, "none") /\ "none" \in Verdict
    BY <1>2 DEF Send, IInv, Shape, TypeOK, Verdict
  <2>2. /\ DOMAIN verdict = 1 .. Len(verdict) /\ DOMAIN verdict' = 1 .. Len(verdict) + 1
        /\ Len(verdict) \in Nat /\ verdict'[Len(verdict) + 1] = "none"
        /\ \A q \in 1 .. Len(verdict) : verdict'[q] = verdict[q]
    BY <2>1, AppendProperties
  <2> QED  BY <2>2 DEF VerdictsStay, RefusedWhenFull
<1>3. CASE LineError \/ Start \/ UartTask \/ IrTask \/ Accumulate
  BY <1>0, <1>3 DEF LineError, Start, UartTask, Get, Drive, Wake, IrTask, Sample, Accumulate
<1>4. ASSUME NEW lost \in Nat, BluetoothCommand(lost) PROVE VerdictsStay /\ RefusedWhenFull
  <2>1. PICK k \in Text : PutMotor(Command(k))
    BY <1>4 DEF BluetoothCommand
  <2> QED  BY <2>1, PutDecides
<1>5. ASSUME NEW lost \in Nat, BluetoothTooEarly(lost) PROVE VerdictsStay /\ RefusedWhenFull
  <2>1. PICK k \in Text :
          IF Command(k).motor \in Motor
          THEN UNCHANGED verdict
          ELSE verdict' = [verdict EXCEPT ![bt[k].line] = "invalid"]
    BY <1>5 DEF BluetoothTooEarly
  <2>2. CASE Command(k).motor \in Motor
    BY <1>0, <2>1, <2>2
  <2>3. CASE Command(k).motor \notin Motor
    <3>1. Command(k).line = bt[k].line
      BY DEF Command
    <3>2. queue' = queue
      BY <1>5 DEF BluetoothTooEarly
    <3>3. PutMotor(Command(k))
      BY <2>1, <2>3, <3>1, <3>2 DEF PutMotor
    <3> QED  BY <3>3, PutDecides
  <2> QED  BY <2>2, <2>3
<1>6. ASSUME NEW lost \in Nat, BluetoothOther(lost) PROVE VerdictsStay /\ RefusedWhenFull
  BY <1>0, <1>6 DEF BluetoothOther
<1>7. \A lost \in 0 .. 4 * MaxLines : lost \in Nat
  BY FirmwareConstants
<1> QED  BY <1>1, <1>2, <1>3, <1>4, <1>5, <1>6, <1>7 DEF Next, RxCplt

LEMMA BurstStep ==
  ASSUME IInv, BurstFits, [Next]_vars PROVE BurstFits'
<1>1. VerdictsStay /\ RefusedWhenFull
  BY StepDecides
<1>2. IInv'
  BY IInvNext
<1>3. Queued \subseteq Queued'
  BY <1>1 DEF VerdictsStay, Queued
<1> SUFFICES ASSUME NEW k \in DOMAIN verdict', verdict'[k] = "full"
             PROVE  Cardinality(Ahead(k)') >= QUEUE_LEN
  BY DEF BurstFits, Ahead
<1>4. Cardinality(Ahead(k)) >= QUEUE_LEN
  <2>1. CASE k \in DOMAIN verdict /\ verdict[k] = "full"
    BY <2>1 DEF BurstFits, Ahead
  <2>2. CASE k \in Nat /\ ~Room /\ \A q \in Queued : q < k
    BY <2>2, FullQueueAhead
  <2> QED  BY <1>1, <2>1, <2>2 DEF RefusedWhenFull
<1>5. Ahead(k) \in SUBSET Ahead(k)'
  BY <1>3 DEF Ahead
<1>6. IsFiniteSet(Ahead(k)') /\ Cardinality(Ahead(k)') \in Nat
  <2>1. Len(verdict') \in Nat /\ DOMAIN verdict' = 1 .. Len(verdict')
    BY <1>2 DEF IInv, Shape, TypeOK
  <2>2. IsFiniteSet(1 .. Len(verdict'))
    BY <2>1, CountSize
  <2>3. Ahead(k)' \in SUBSET (1 .. Len(verdict'))
    BY <2>1 DEF Ahead, Queued
  <2>4. IsFiniteSet(Ahead(k)')
    BY <2>2, <2>3, FS_Subset
  <2> QED  BY <2>4, FS_CardinalityType
<1>7. Cardinality(Ahead(k)) <= Cardinality(Ahead(k)')
  BY <1>5, <1>6, FS_Subset
<1>8. Cardinality(Ahead(k)) \in Nat /\ QUEUE_LEN \in Nat
  BY AheadFinite, FirmwareConstants DEF IInv
<1> QED  BY <1>4, <1>6, <1>7, <1>8

(* The controller refuses an order only behind QUEUE_LEN it took: a burst up to *)
(* the length of its queue is never cut short, whatever the tasks do (BurstFits). *)
THEOREM BurstsTaken == Spec => []BurstFits
<1>1. Init => BurstFits
  BY DEF Init, BurstFits
<1>2. IInv /\ BurstFits /\ [Next]_vars => BurstFits'
  BY BurstStep
<1> QED  BY <1>1, <1>2, Invariance, PTL DEF Spec
-----------------------------------------------------------------------------
(* The votes, and the passage of a product *)

(* The last readings of sensor n: h blocked ones after Lows clear ones. *)
Passing(n, h) ==
    /\ Len(seen[n]) >= h + Lows
    /\ \A k \in 1 .. h : seen[n][k]
    /\ \A k \in h + 1 .. h + Lows : ~seen[n][k]

(* The readings since the last vote are the first samples of the next one. *)
WindowInv ==
    \A n \in Motor :
      /\ idx[n] <= Len(seen[n])
      /\ \A j \in 0 .. idx[n] - 1 : samples[n][j] = seen[n][idx[n] - j]

(* current[n] is the vote over the SAMPLE_COUNT readings before those. *)
LastVote(n) == [j \in 0 .. SAMPLE_COUNT - 1 |-> seen[n][idx[n] + SAMPLE_COUNT - j]]
VoteInv ==
    \A n \in Motor :
      current[n] <=> /\ Len(seen[n]) >= idx[n] + SAMPLE_COUNT
                     /\ majorityVote(LastVote(n))

(* A motor that was running when its sensor was blocked is off from the first *)
(* vote with Need of the blocked readings on.                                 *)
PassageInv ==
    \A n \in Motor : \A h \in 0 .. Highs :
      Passing(n, h) /\ h - idx[n] >= Need /\ since[n] >= h => ~motor[n]

StopInv == WindowInv /\ VoteInv /\ PassageInv

LEMMA VoteConstants ==
  /\ SAMPLE_COUNT \in Nat /\ SAMPLE_COUNT >= 1
  /\ Need \in Nat /\ 1 <= Need /\ Need <= SAMPLE_COUNT /\ SAMPLE_COUNT \div 2 = Need - 1
  /\ Lows \in Nat /\ Lows = 2 * (SAMPLE_COUNT - Need) + 1
  /\ Highs \in Nat /\ Highs = SAMPLE_COUNT + Need - 1
  /\ Lows + Highs >= 2 * SAMPLE_COUNT
<1>1. SAMPLE_COUNT \in Nat /\ SAMPLE_COUNT >= 1
  BY FirmwareConstants
<1>2. Need \in Nat /\ 1 <= Need /\ Need <= SAMPLE_COUNT /\ SAMPLE_COUNT \div 2 = Need - 1
  BY <1>1 DEF Need
<1> QED  BY <1>1, <1>2 DEF Lows, Highs

(* A vote with Need blocked samples in a row is blocked, whatever the others are. *)
LEMMA VoteBlocked ==
  ASSUME NEW v \in [0 .. SAMPLE_COUNT - 1 -> BOOLEAN],
         NEW a \in 0 .. SAMPLE_COUNT - 1, NEW b \in 0 .. SAMPLE_COUNT - 1,
         b - a + 1 >= Need, \A j \in a .. b : v[j]
  PROVE  majorityVote(v)
<1> DEFINE T == {j \in DOMAIN v : v[j]}
<1>1. DOMAIN v = 0 .. SAMPLE_COUNT - 1 /\ a \in Int /\ b \in Int /\ a <= b + 1
  BY VoteConstants
<1>2. IsFiniteSet(0 .. SAMPLE_COUNT - 1)
  <2>1. 0 \in Int /\ SAMPLE_COUNT - 1 \in Int /\ 0 <= SAMPLE_COUNT - 1 + 1
    BY VoteConstants
  <2> QED  BY <2>1, IntervalSize
<1>3. T \in SUBSET (0 .. SAMPLE_COUNT - 1) /\ a .. b \in SUBSET T
  <2>1. a .. b \subseteq DOMAIN v
    BY <1>1, VoteConstants
  <2> QED  BY <1>1, <2>1
<1> HIDE DEF T
<1>4. IsFiniteSet(T) /\ Cardinality(T) \in Nat
  BY <1>2, <1>3, FS_Subset, FS_CardinalityType
<1>5. Cardinality(a .. b) = b - a + 1
  BY <1>1, IntervalSize
<1>6. Cardinality(a .. b) <= Cardinality(T)
  BY <1>3, <1>4, FS_Subset
<1>7. Cardinality(T) > SAMPLE_COUNT \div 2
  BY <1>4, <1>5, <1>6, <1>1, VoteConstants
<1> QED  BY <1>7 DEF majorityVote, T

(* A vote with more than SAMPLE_COUNT - Need clear samples in a row is clear. *)
LEMMA VoteClear ==
  ASSUME NEW v \in [0 .. SAMPLE_COUNT - 1 -> BOOLEAN],
         NEW a \in 0 .. SAMPLE_COUNT - 1, NEW b \in 0 .. SAMPLE_COUNT - 1,
         b - a >= SAMPLE_COUNT - Need, \A j \in a .. b : ~v[j]
  PROVE  ~majorityVote(v)
<1> DEFINE T == {j \in DOMAIN v : v[j]}  S == 0 .. SAMPLE_COUNT - 1
<1>1. DOMAIN v = S /\ a \in Int /\ b \in Int /\ a <= b + 1
  BY VoteConstants
<1>2. IsFiniteSet(S) /\ Cardinality(S) = SAMPLE_COUNT
  <2>1. 0 \in Int /\ SAMPLE_COUNT - 1 \in Int /\ 0 <= SAMPLE_COUNT - 1 + 1
    BY VoteConstants
  <2>2. IsFiniteSet(0 .. SAMPLE_COUNT - 1)
        /\ Cardinality(0 .. SAMPLE_COUNT - 1) = SAMPLE_COUNT - 1 - 0 + 1
    BY <2>1, IntervalSize
  <2> QED  BY <2>2, VoteConstants
<1>3. T \in SUBSET (S \ (a .. b)) /\ S \cap (a .. b) = a .. b
  <2>1. T \in SUBSET S /\ \A j \in T : v[j]
    BY <1>1
  <2>2. a .. b \subseteq S
    BY <1>1, VoteConstants
  <2> HIDE DEF T, S
  <2> QED  BY <2>1, <2>2
<1> HIDE DEF T, S
<1>4. /\ IsFiniteSet(S \ (a .. b))
      /\ Cardinality(S \ (a .. b)) = Cardinality(S) - Cardinality(S \cap (a .. b))
  BY <1>2, FS_Difference
<1>5. Cardinality(a .. b) = b - a + 1
  BY <1>1, IntervalSize
<1>6. IsFiniteSet(T) /\ Cardinality(T) <= Cardinality(S \ (a .. b))
  BY <1>3, <1>4, FS_Subset
<1>7. Cardinality(T) \in Nat
  BY <1>6, FS_CardinalityType
<1>8. Cardinality(S \ (a .. b)) = SAMPLE_COUNT - (b - a + 1)
  BY <1>2, <1>3, <1>4, <1>5
<1>9. ~(Cardinality(T) > SAMPLE_COUNT \div 2)
  BY <1>1, <1>6, <1>7, <1>8, VoteConstants
<1> QED  BY <1>9 DEF majorityVote, T

LEMMA SensorTypes ==
  ASSUME Shape, NEW n \in Motor
  PROVE  /\ idx[n] \in 0 .. SAMPLE_COUNT - 1 /\ idx[n] \in Nat
         /\ seen[n] \in Seq(BOOLEAN) /\ Len(seen[n]) \in Nat
         /\ \A k \in 1 .. Len(seen[n]) : seen[n][k] \in BOOLEAN
         /\ samples[n] \in [0 .. SAMPLE_COUNT - 1 -> BOOLEAN]
         /\ current[n] \in BOOLEAN /\ motor[n] \in BOOLEAN
         /\ since[n] \in 0 .. Lows + Highs /\ since[n] \in Nat
<1>1. /\ idx[n] \in 0 .. SAMPLE_COUNT - 1 /\ seen[n] \in Seq(BOOLEAN)
      /\ samples[n] \in [0 .. SAMPLE_COUNT - 1 -> BOOLEAN]
      /\ current[n] \in BOOLEAN /\ motor[n] \in BOOLEAN
      /\ since[n] \in 0 .. Lows + Highs
  BY DEF Shape, TypeOK
<1>2. Len(seen[n]) \in Nat /\ \A k \in 1 .. Len(seen[n]) : seen[n][k] \in BOOLEAN
  <2> DEFINE s == seen[n]
  <2>1. s \in Seq(BOOLEAN)
    BY <1>1
  <2> HIDE DEF s
  <2>2. Len(s) \in Nat /\ \A k \in 1 .. Len(s) : s[k] \in BOOLEAN
    BY <2>1, ElementOfSeq, LenProperties
  <2> QED  BY <2>2 DEF s
<1> QED  BY <1>1, <1>2, VoteConstants

(* The last vote is clear while at most SAMPLE_COUNT - Need clear readings of *)
(* the passage, or fewer than Need blocked ones, are on its far side.         *)
LEMMA ClearBeforePassage ==
  ASSUME Shape, VoteInv, NEW n \in Motor, NEW h \in 0 .. Highs,
         Passing(n, h), h - idx[n] < Need, idx[n] - h <= SAMPLE_COUNT - Need
  PROVE  ~current[n]
<1> DEFINE i == idx[n]  N == SAMPLE_COUNT
           top == IF i + N <= h + Lows THEN i + N ELSE h + Lows
           bot == IF i <= h THEN h ELSE i
           a == i + N - top
           b == i + N - bot - 1
<1>1. /\ i \in 0 .. N - 1 /\ h \in Nat /\ N \in Nat /\ N >= 1 /\ i \in Nat
      /\ Need \in Nat /\ 1 <= Need /\ Need <= N /\ Lows = 2 * (N - Need) + 1
  BY SensorTypes, VoteConstants
<1>2. SUFFICES ASSUME Len(seen[n]) >= i + N PROVE ~majorityVote(LastVote(n))
  BY DEF VoteInv
<1>3. top \in Nat /\ bot \in Nat /\ top - bot >= N - Need + 1
      /\ top <= i + N /\ i <= bot /\ h <= bot /\ top <= h + Lows
  BY <1>1
<1> HIDE DEF top, bot, N, i
<1>4. a \in 0 .. N - 1 /\ b \in 0 .. N - 1 /\ b - a >= N - Need
  BY <1>1, <1>3
<1>5. LastVote(n) \in [0 .. N - 1 -> BOOLEAN]
  <2>1. \A j \in 0 .. N - 1 : i + N - j \in 1 .. Len(seen[n])
    BY <1>1, <1>2, SensorTypes
  <2> QED  BY <2>1, SensorTypes DEF LastVote, N, i
<1>6. ASSUME NEW j \in a .. b PROVE ~LastVote(n)[j]
  <2>1. j \in 0 .. N - 1 /\ i + N - j \in h + 1 .. h + Lows
    BY <1>1, <1>3, <1>4
  <2>2. ~seen[n][i + N - j]
    BY <2>1 DEF Passing
  <2>3. LastVote(n)[j] = seen[n][i + N - j]
    BY <2>1 DEF LastVote, N, i
  <2> QED  BY <2>2, <2>3
<1> HIDE DEF a, b
<1> QED  BY <1>4, <1>5, <1>6, VoteClear DEF N
-----------------------------------------------------------------------------
(* One reading of a sensor *)

LEMMA NextIndex ==
  ASSUME NEW i \in 0 .. SAMPLE_COUNT - 1
  PROVE  (i + 1) % SAMPLE_COUNT = IF i = SAMPLE_COUNT - 1 THEN 0 ELSE i + 1
<1>1. SAMPLE_COUNT \in Nat /\ SAMPLE_COUNT >= 1
  BY VoteConstants
<1>2. CASE i = SAMPLE_COUNT - 1
  <2>1. i + 1 = SAMPLE_COUNT
    BY <1>1, <1>2
  <2>2. SAMPLE_COUNT % SAMPLE_COUNT = 0
    BY <1>1
  <2> QED  BY <1>2, <2>1, <2>2
<1>3. CASE i # SAMPLE_COUNT - 1
  <2>1. i + 1 \in Nat /\ i + 1 < SAMPLE_COUNT
    BY <1>1, <1>3
  <2>2. (i + 1) % SAMPLE_COUNT = i + 1
    BY <1>1, <2>1
  <2> QED  BY <1>3, <2>2
<1> QED  BY <1>2, <1>3

LEMMA NewestReading ==
  ASSUME NEW x \in BOOLEAN, NEW s \in Seq(BOOLEAN)
  PROVE  LET t == Newest(<<x>> \o s)
         IN  /\ Len(t) = IF Len(s) + 1 < Lows + Highs THEN Len(s) + 1 ELSE Lows + Highs
             /\ Len(t) \in Nat /\ Len(t) >= 1 /\ Len(t) <= Len(s) + 1
             /\ t[1] = x
             /\ \A k \in 2 .. Len(t) : t[k] = s[k - 1]
<1> DEFINE u == <<x>> \o s
           m == IF Len(u) < Lows + Highs THEN Len(u) ELSE Lows + Highs
           t == Newest(u)
<1>1. <<x>> \in Seq(BOOLEAN) /\ Len(<<x>>) = 1 /\ <<x>>[1] = x /\ Len(s) \in Nat
  OBVIOUS
<1>2. /\ u \in Seq(BOOLEAN) /\ Len(u) = 1 + Len(s)
      /\ \A k \in 1 .. 1 + Len(s) : u[k] = IF k <= 1 THEN <<x>>[k] ELSE s[k - 1]
  BY <1>1, ConcatProperties
<1> HIDE DEF u
<1>3. Lows + Highs \in Nat /\ Lows + Highs >= 1
  BY VoteConstants
<1>4. m \in Nat /\ m >= 1 /\ m <= Len(u)
  BY <1>1, <1>2, <1>3
<1>5. m = IF Len(s) + 1 < Lows + Highs THEN Len(s) + 1 ELSE Lows + Highs
  BY <1>1, <1>2, <1>3
<1>6. t = SubSeq(u, 1, m)
  BY DEF Newest
<1> HIDE DEF m, t
<1>7. \A k \in 1 .. m : u[k] \in BOOLEAN
  BY <1>2, <1>4, ElementOfSeq
<1>8. /\ Len(SubSeq(u, 1, m)) = IF 1 <= m THEN m - 1 + 1 ELSE 0
      /\ \A k \in 1 .. m - 1 + 1 : SubSeq(u, 1, m)[k] = u[1 + k - 1]
  BY <1>4, <1>7, SubSeqProperties
<1>9. Len(t) = m /\ \A k \in 1 .. m : t[k] = u[k]
  BY <1>4, <1>6, <1>8
<1>10. t[1] = x
  BY <1>1, <1>2, <1>4, <1>9
<1>11. \A k \in 2 .. m : t[k] = s[k - 1]
  BY <1>1, <1>2, <1>4, <1>9
<1> QED  BY <1>1, <1>2, <1>4, <1>5, <1>9, <1>10, <1>11 DEF t, u

(* What a pass over the sensors does to the window and the votes of one. *)
LEMMA SampleFacts ==
  ASSUME Shape, NEW r \in [Motor -> BOOLEAN], Sample(r), NEW n \in Motor
  PROVE  /\ idx'[n] = IF idx[n] = SAMPLE_COUNT - 1 THEN 0 ELSE idx[n] + 1
         /\ Len(seen'[n]) = IF Len(seen[n]) + 1 < Lows + Highs
                            THEN Len(seen[n]) + 1 ELSE Lows + Highs
         /\ Len(seen'[n]) \in Nat /\ Len(seen'[n]) >= 1 /\ Len(seen'[n]) <= Len(seen[n]) + 1
         /\ seen'[n][1] = r[n]
         /\ \A k \in 2 .. Len(seen'[n]) : seen'[n][k] = seen[n][k - 1]
         /\ samples'[n] \in [0 .. SAMPLE_COUNT - 1 -> BOOLEAN]
         /\ \A j \in 0 .. SAMPLE_COUNT - 1 :
              samples'[n][j] = IF j = idx[n] THEN r[n] ELSE samples[n][j]
         /\ current'[n] = IF idx'[n] = 0 THEN majorityVote(samples'[n]) ELSE current[n]
         /\ motor'[n] = (motor[n] /\ ~(idx'[n] = 0 /\ ~current[n] /\ current'[n]))
         /\ since'[n] = IF since[n] < Lows + Highs THEN since[n] + 1 ELSE since[n]
<1>1. /\ idx[n] \in 0 .. SAMPLE_COUNT - 1 /\ seen[n] \in Seq(BOOLEAN) /\ r[n] \in BOOLEAN
      /\ samples[n] \in [0 .. SAMPLE_COUNT - 1 -> BOOLEAN]
  BY SensorTypes
<1>2. idx'[n] = (idx[n] + 1) % SAMPLE_COUNT
  BY DEF Sample
<1>3. seen'[n] = Newest(<<r[n]>> \o seen[n])
  BY DEF Sample
<1>4. samples'[n] = [samples[n] EXCEPT ![idx[n]] = r[n]]
  BY DEF Sample
<1>5. /\ samples'[n] \in [0 .. SAMPLE_COUNT - 1 -> BOOLEAN]
      /\ \A j \in 0 .. SAMPLE_COUNT - 1 :
           samples'[n][j] = IF j = idx[n] THEN r[n] ELSE samples[n][j]
  BY <1>1, <1>4
<1>6. current'[n] = IF idx'[n] = 0 THEN majorityVote(samples'[n]) ELSE current[n]
  BY DEF Sample
<1>7. motor'[n] = (motor[n] /\ ~(idx'[n] = 0 /\ ~current[n] /\ current'[n]))
  BY DEF Sample, Edge
<1>8. since'[n] = IF since[n] < Lows + Highs THEN since[n] + 1 ELSE since[n]
  BY DEF Sample
<1>9. idx'[n] = IF idx[n] = SAMPLE_COUNT - 1 THEN 0 ELSE idx[n] + 1
  BY <1>1, <1>2, NextIndex
<1>10. /\ Len(seen'[n]) = IF Len(seen[n]) + 1 < Lows + Highs
                          THEN Len(seen[n]) + 1 ELSE Lows + Highs
       /\ Len(seen'[n]) \in Nat /\ Len(seen'[n]) >= 1 /\ Len(seen'[n]) <= Len(seen[n]) + 1
       /\ seen'[n][1] = r[n]
       /\ \A k \in 2 .. Len(seen'[n]) : seen'[n][k] = seen[n][k - 1]
  <2> DEFINE x == r[n]
             s == seen[n]
  <2>1. x \in BOOLEAN /\ s \in Seq(BOOLEAN) /\ seen'[n] = Newest(<<x>> \o s)
    BY <1>1, <1>3
  <2> HIDE DEF x, s
  <2>2. /\ Len(seen'[n]) = IF Len(s) + 1 < Lows + Highs THEN Len(s) + 1 ELSE Lows + Highs
        /\ Len(seen'[n]) \in Nat /\ Len(seen'[n]) >= 1 /\ Len(seen'[n]) <= Len(s) + 1
        /\ seen'[n][1] = x
        /\ \A k \in 2 .. Len(seen'[n]) : seen'[n][k] = s[k - 1]
    BY ONLY <2>1, NewestReading
  <2> QED  BY <2>2 DEF x, s
<1> QED  BY <1>5, <1>6, <1>7, <1>8, <1>9, <1>10
LEMMA SeenLength ==
  ASSUME Shape, NEW r \in [Motor -> BOOLEAN], Sample(r), NEW n \in Motor,
         NEW m \in Nat, m <= 2 * SAMPLE_COUNT
  PROVE  Len(seen'[n]) \in Nat /\ (Len(seen'[n]) >= m <=> Len(seen[n]) + 1 >= m)
<1>1. /\ Len(seen[n]) \in Nat /\ Len(seen'[n]) \in Nat
      /\ Len(seen'[n]) = IF Len(seen[n]) + 1 < Lows + Highs
                         THEN Len(seen[n]) + 1 ELSE Lows + Highs
  BY SampleFacts, SensorTypes
<1>2. Lows + Highs >= 2 * SAMPLE_COUNT /\ Lows + Highs \in Nat /\ SAMPLE_COUNT \in Nat
  BY VoteConstants
<1> DEFINE A == Len(seen[n])  B == Len(seen'[n])  C == Lows + Highs
<1> HIDE DEF A, B, C
<1>3. A \in Nat /\ B \in Nat /\ C \in Nat /\ B = (IF A + 1 < C THEN A + 1 ELSE C) /\ C >= m
  BY <1>1, <1>2 DEF A, B, C
<1>4. B >= m <=> A + 1 >= m
  BY ONLY <1>3, m \in Nat
<1> QED  BY <1>3, <1>4 DEF A, B

LEMMA WindowSample ==
  ASSUME Shape, WindowInv, NEW r \in [Motor -> BOOLEAN], Sample(r) PROVE WindowInv'
<1> SUFFICES ASSUME NEW n \in Motor
             PROVE  /\ idx'[n] <= Len(seen'[n])
                    /\ \A j \in 0 .. idx'[n] - 1 : samples'[n][j] = seen'[n][idx'[n] - j]
  BY DEF WindowInv
<1> DEFINE i == idx[n]
<1>1. /\ i \in 0 .. SAMPLE_COUNT - 1 /\ i \in Nat /\ Len(seen[n]) \in Nat
      /\ i <= Len(seen[n])
      /\ \A j \in 0 .. i - 1 : samples[n][j] = seen[n][i - j]
  BY SensorTypes DEF WindowInv
<1>2. /\ idx'[n] = IF i = SAMPLE_COUNT - 1 THEN 0 ELSE i + 1
      /\ Len(seen'[n]) \in Nat
      /\ seen'[n][1] = r[n]
      /\ \A k \in 2 .. Len(seen'[n]) : seen'[n][k] = seen[n][k - 1]
      /\ \A j \in 0 .. SAMPLE_COUNT - 1 :
           samples'[n][j] = IF j = i THEN r[n] ELSE samples[n][j]
  BY SampleFacts
<1> HIDE DEF i
<1>3. CASE i = SAMPLE_COUNT - 1
  <2>1. idx'[n] = 0 /\ \A j \in 0 .. 0 - 1 : FALSE
    BY <1>2, <1>3
  <2> QED  BY <1>2, <2>1
<1>4. CASE i # SAMPLE_COUNT - 1
  <2>1. idx'[n] = i + 1 /\ i + 1 <= Len(seen'[n]) /\ i + 1 <= SAMPLE_COUNT - 1
        /\ Len(seen'[n]) \in Nat
    <3>1. SAMPLE_COUNT \in Nat
      BY VoteConstants
    <3>2. i + 1 \in Nat /\ i + 1 <= SAMPLE_COUNT - 1 /\ i + 1 <= 2 * SAMPLE_COUNT
      BY <1>1, <1>4, <3>1
    <3>3. Len(seen[n]) + 1 >= i + 1
      BY <1>1
    <3>4. Len(seen'[n]) >= i + 1 <=> Len(seen[n]) + 1 >= i + 1
      BY <3>2, SeenLength
    <3> QED  BY <1>1, <1>2, <1>4, <3>2, <3>3, <3>4
  <2>2. ASSUME NEW j \in 0 .. i PROVE samples'[n][j] = seen'[n][i + 1 - j]
    <3>1. j \in 0 .. SAMPLE_COUNT - 1
      BY <1>1, <2>1, VoteConstants
    <3>2. CASE j = i
      <4>1. i + 1 - j = 1
        BY <1>1, <3>2
      <4> QED  BY <1>2, <3>1, <3>2, <4>1
    <3>3. CASE j # i
      <4>1. j \in 0 .. i - 1 /\ i + 1 - j \in 2 .. Len(seen'[n]) /\ (i + 1 - j) - 1 = i - j
        BY <1>1, <2>1, <3>3
      <4>2. samples'[n][j] = samples[n][j]
        BY <1>2, <3>1, <3>3
      <4>3. seen'[n][i + 1 - j] = seen[n][i - j]
        BY <1>2, <4>1
      <4> QED  BY <1>1, <4>1, <4>2, <4>3
    <3> QED  BY <3>2, <3>3
  <2> QED  BY <1>1, <2>1, <2>2
<1> QED  BY <1>3, <1>4

(* When a vote falls, the samples are the last SAMPLE_COUNT readings. *)
LEMMA SamplesVoted ==
  ASSUME Shape, WindowInv, NEW r \in [Motor -> BOOLEAN], Sample(r), NEW n \in Motor,
         idx[n] = SAMPLE_COUNT - 1
  PROVE  /\ idx'[n] = 0 /\ Len(seen'[n]) >= SAMPLE_COUNT
         /\ \A j \in 0 .. SAMPLE_COUNT - 1 : samples'[n][j] = seen'[n][SAMPLE_COUNT - j]
<1> DEFINE i == idx[n]
<1>1. /\ i = SAMPLE_COUNT - 1 /\ i \in Nat /\ Len(seen[n]) \in Nat /\ i <= Len(seen[n])
      /\ \A j \in 0 .. i - 1 : samples[n][j] = seen[n][i - j]
  BY SensorTypes DEF WindowInv
<1>2. /\ idx'[n] = 0
      /\ Len(seen'[n]) \in Nat
      /\ seen'[n][1] = r[n]
      /\ \A k \in 2 .. Len(seen'[n]) : seen'[n][k] = seen[n][k - 1]
      /\ \A j \in 0 .. SAMPLE_COUNT - 1 :
           samples'[n][j] = IF j = i THEN r[n] ELSE samples[n][j]
  BY SampleFacts
<1> HIDE DEF i
<1>3. Len(seen'[n]) >= SAMPLE_COUNT /\ Len(seen'[n]) \in Nat
  <2>1. SAMPLE_COUNT \in Nat /\ SAMPLE_COUNT <= 2 * SAMPLE_COUNT
    BY VoteConstants
  <2>2. Len(seen'[n]) >= SAMPLE_COUNT <=> Len(seen[n]) + 1 >= SAMPLE_COUNT
    BY <2>1, SeenLength
  <2> QED  BY <1>1, <1>2, <2>1, <2>2
<1>4. ASSUME NEW j \in 0 .. SAMPLE_COUNT - 1 PROVE samples'[n][j] = seen'[n][SAMPLE_COUNT - j]
  <2>1. CASE j = i
    <3>1. SAMPLE_COUNT - j = 1
      BY <1>1, <2>1, VoteConstants
    <3> QED  BY <1>2, <2>1, <3>1
  <2>2. CASE j # i
    <3>1. /\ j \in 0 .. i - 1 /\ SAMPLE_COUNT - j \in 2 .. Len(seen'[n])
          /\ (SAMPLE_COUNT - j) - 1 = i - j
      <4>1. SAMPLE_COUNT \in Nat /\ j \in Nat
        BY VoteConstants
      <4> QED  BY <1>1, <1>3, <2>2, <4>1
    <3>2. samples'[n][j] = samples[n][j]
      BY <1>2, <2>2
    <3>3. seen'[n][SAMPLE_COUNT - j] = seen[n][i - j]
      BY <1>2, <3>1
    <3> QED  BY <1>1, <3>1, <3>2, <3>3
  <2> QED  BY <2>1, <2>2
<1> QED  BY <1>2, <1>3, <1>4

LEMMA VoteSample ==
  ASSUME Shape, WindowInv, VoteInv, NEW r \in [Motor -> BOOLEAN], Sample(r) PROVE VoteInv'
<1> DEFINE N == SAMPLE_COUNT
<1> SUFFICES ASSUME NEW n \in Motor
             PROVE  current'[n] <=> /\ Len(seen'[n]) >= idx'[n] + N
                                    /\ majorityVote(LastVote(n)')
  BY DEF VoteInv, LastVote
<1> DEFINE i == idx[n]  last == [j \in 0 .. N - 1 |-> seen'[n][idx'[n] + N - j]]
<1>0. LastVote(n)' = last
  BY DEF LastVote
<1>1. /\ i \in 0 .. N - 1 /\ i \in Nat /\ Len(seen[n]) \in Nat /\ N \in Nat /\ N >= 1
      /\ current[n] <=> Len(seen[n]) >= i + N /\ majorityVote(LastVote(n))
  BY SensorTypes, VoteConstants DEF VoteInv
<1>2. CASE i = N - 1
  <2>1. /\ idx'[n] = 0 /\ Len(seen'[n]) >= N
        /\ \A j \in 0 .. N - 1 : samples'[n][j] = seen'[n][N - j]
    BY <1>2, SamplesVoted
  <2>2. current'[n] = majorityVote(samples'[n]) /\ samples'[n] \in [0 .. N - 1 -> BOOLEAN]
    BY <2>1, SampleFacts
  <2>3. \A j \in 0 .. N - 1 : idx'[n] + N - j = N - j
    BY <1>1, <2>1
  <2>4. last = samples'[n]
    <3>1. last = [j \in 0 .. N - 1 |-> samples'[n][j]]
      BY <2>1, <2>3
    <3> HIDE DEF last, N, i
    <3> QED  BY <2>2, <3>1
  <2>5. idx'[n] + N = N
    BY <1>1, <2>1
  <2> HIDE DEF last
  <2> QED  BY <1>0, <2>1, <2>2, <2>4, <2>5
<1>3. CASE i # N - 1
  <2>1. /\ idx'[n] = i + 1 /\ i + 1 # 0
        /\ Len(seen'[n]) \in Nat
        /\ \A k \in 2 .. Len(seen'[n]) : seen'[n][k] = seen[n][k - 1]
    BY <1>1, <1>3, SampleFacts
  <2>2. current'[n] = current[n]
    BY <2>1, SampleFacts
  <2>3. Len(seen'[n]) >= idx'[n] + N <=> Len(seen[n]) >= i + N
    <3>1. i + 1 + N \in Nat /\ i + 1 + N <= 2 * SAMPLE_COUNT
      BY <1>1, <1>3
    <3>2. Len(seen'[n]) >= i + 1 + N <=> Len(seen[n]) + 1 >= i + 1 + N
      BY <3>1, SeenLength
    <3> HIDE DEF i, N, last
    <3> QED  BY <1>1, <2>1, <3>2
  <2>4. ASSUME Len(seen[n]) >= i + N PROVE last = LastVote(n)
    <3>1. ASSUME NEW j \in 0 .. N - 1 PROVE seen'[n][idx'[n] + N - j] = seen[n][i + N - j]
      <4>1. idx'[n] + N - j \in 2 .. Len(seen'[n]) /\ (idx'[n] + N - j) - 1 = i + N - j
        <5> HIDE DEF i, N, last
        <5>1. Len(seen'[n]) >= i + 1 + N /\ idx'[n] = i + 1
          BY <2>1, <2>3, <2>4
        <5>2. i \in Nat /\ N \in Nat /\ j \in Nat /\ j < N
          BY <1>1
        <5>3. idx'[n] + N - j = i + 1 + N - j
          BY <5>1
        <5> QED  BY <2>1, <5>1, <5>2, <5>3
      <4> QED  BY <2>1, <4>1
    <3> QED  BY <3>1 DEF LastVote
  <2> HIDE DEF last, i, N
  <2> QED  BY <1>0, <1>1, <2>2, <2>3, <2>4
<1> QED  BY <1>2, <1>3

LEMMA PassageSample ==
  ASSUME Shape, WindowInv, VoteInv, PassageInv, NEW r \in [Motor -> BOOLEAN], Sample(r)
  PROVE  PassageInv'
<1> DEFINE N == SAMPLE_COUNT
<1> SUFFICES ASSUME NEW n \in Motor, NEW h \in 0 .. Highs,
                    Passing(n, h)', h - idx'[n] >= Need, since'[n] >= h
             PROVE  ~motor'[n]
  BY DEF PassageInv
<1> DEFINE i == idx[n]
<1>1. /\ i \in 0 .. N - 1 /\ i \in Nat /\ Len(seen[n]) \in Nat /\ since[n] \in 0 .. Lows + Highs
      /\ N \in Nat /\ N >= 1 /\ Need \in Nat /\ Need >= 1 /\ Need <= N /\ h \in Nat
      /\ Lows \in Nat /\ Highs = N + Need - 1
  BY SensorTypes, VoteConstants
<1>2. /\ idx'[n] = IF i = N - 1 THEN 0 ELSE i + 1
      /\ Len(seen'[n]) \in Nat /\ Len(seen'[n]) <= Len(seen[n]) + 1
      /\ \A k \in 2 .. Len(seen'[n]) : seen'[n][k] = seen[n][k - 1]
      /\ motor'[n] = (motor[n] /\ ~(idx'[n] = 0 /\ ~current[n] /\ current'[n]))
      /\ since'[n] = IF since[n] < Lows + Highs THEN since[n] + 1 ELSE since[n]
  BY SampleFacts
<1>3. /\ Len(seen'[n]) >= h + Lows
      /\ \A k \in 1 .. h : seen'[n][k]
      /\ \A k \in h + 1 .. h + Lows : ~seen'[n][k]
  BY DEF Passing
<1> HIDE DEF i, N
<1>4. h >= Need /\ h >= 1 /\ h - 1 \in 0 .. Highs
  BY <1>1, <1>2
<1>5. Passing(n, h - 1)
  <2>1. Len(seen[n]) >= (h - 1) + Lows
    <3> DEFINE A == Len(seen[n])
               B == Len(seen'[n])
    <3>1. A \in Nat /\ B \in Nat /\ h \in Nat /\ Lows \in Nat /\ B <= A + 1 /\ B >= h + Lows
      BY <1>1, <1>2, <1>3
    <3> HIDE DEF A, B
    <3>2. A >= (h - 1) + Lows  BY ONLY <3>1
    <3> QED  BY <3>2 DEF A
  <2>2. ASSUME NEW k \in 1 .. h - 1 PROVE seen[n][k]
    <3>1. k + 1 \in 2 .. Len(seen'[n]) /\ k + 1 \in 1 .. h /\ (k + 1) - 1 = k
      BY <1>1, <1>2, <1>3
    <3> QED  BY <1>2, <1>3, <3>1
  <2>3. ASSUME NEW k \in (h - 1) + 1 .. (h - 1) + Lows PROVE ~seen[n][k]
    <3>1. k + 1 \in 2 .. Len(seen'[n]) /\ k + 1 \in h + 1 .. h + Lows /\ (k + 1) - 1 = k
      BY <1>1, <1>2, <1>3, <1>4
    <3> QED  BY <1>2, <1>3, <3>1
  <2> QED  BY <2>1, <2>2, <2>3 DEF Passing
<1>6. since[n] >= h - 1
  BY <1>1, <1>2
<1>7. CASE (h - 1) - i >= Need
  <2>1. ~motor[n]
    BY <1>4, <1>5, <1>6, <1>7 DEF PassageInv, i
  <2> QED  BY <1>2, <2>1
<1>8. CASE ~((h - 1) - i >= Need)
  <2>1. i = N - 1 /\ idx'[n] = 0
    BY <1>1, <1>2, <1>4, <1>8
  <2>2. (h - 1) - i < Need /\ i - (h - 1) <= N - Need
    BY <1>1, <1>4, <1>8, <2>1
  <2>3. ~current[n]
    BY <1>4, <1>5, <2>2, ClearBeforePassage DEF i, N
  <2>4. current'[n] = majorityVote(samples'[n]) /\ samples'[n] \in [0 .. N - 1 -> BOOLEAN]
    BY <2>1, SampleFacts DEF N
  <2>5. \A j \in 0 .. N - 1 : samples'[n][j] = seen'[n][N - j]
    BY <2>1, SamplesVoted DEF i, N
  <2>6. \A j \in N - Need .. N - 1 : samples'[n][j]
    <3>1. \A j \in N - Need .. N - 1 : j \in 0 .. N - 1 /\ N - j \in 1 .. h
      BY <1>1, <1>4
    <3> QED  BY <1>3, <2>5, <3>1
  <2>7. majorityVote(samples'[n])
    <3>1. N - Need \in 0 .. N - 1 /\ N - 1 \in 0 .. N - 1 /\ (N - 1) - (N - Need) + 1 >= Need
      BY <1>1
    <3> QED  BY <2>4, <2>6, <3>1, VoteBlocked DEF N
  <2> QED  BY <1>2, <2>1, <2>3, <2>4, <2>7
<1> QED  BY <1>7, <1>8

-----------------------------------------------------------------------------
LEMMA StopInvInit == Init => StopInv
<1> SUFFICES ASSUME Init PROVE StopInv  OBVIOUS
<1>1. ASSUME NEW n \in Motor
      PROVE  idx[n] = 0 /\ Len(seen[n]) = 0 /\ ~current[n] /\ ~motor[n]
  BY DEF Init
<1>2. WindowInv
  <2>1. \A j \in 0 .. 0 - 1 : FALSE
    OBVIOUS
  <2> QED  BY <1>1, <2>1 DEF WindowInv
<1>3. VoteInv
  BY <1>1, VoteConstants DEF VoteInv
<1>4. PassageInv
  BY <1>1 DEF PassageInv
<1> QED  BY <1>2, <1>3, <1>4 DEF StopInv

LEMMA StopInvNext ==
  ASSUME IInv, StopInv, [Next]_vars PROVE StopInv'
<1>0. Shape /\ WindowInv /\ VoteInv /\ PassageInv
  BY DEF IInv, StopInv
<1>1. ASSUME UNCHANGED <<samples, idx, current, seen>> PROVE WindowInv' /\ VoteInv'
  BY <1>0, <1>1 DEF WindowInv, VoteInv, LastVote
<1>2. ASSUME UNCHANGED <<samples, idx, current, seen, since, motor>> PROVE StopInv'
  <2>1. PassageInv'
    BY <1>0, <1>2 DEF PassageInv, Passing
  <2> QED  BY <1>1, <1>2, <2>1 DEF StopInv
<1>3. CASE UNCHANGED vars
  BY <1>2, <1>3
<1>4. CASE (\E l \in Lines : Send(l)) \/ LineError \/ Start \/ RxCplt \/ Get \/ Wake
  BY <1>2, <1>4 DEF Send, LineError, Start, RxCplt, Accumulate, BluetoothCommand,
                    BluetoothTooEarly, BluetoothOther, Get, Wake
<1>5. CASE Drive
  <2>1. UNCHANGED <<samples, idx, current, seen>>
    BY <1>5 DEF Drive
  <2>2. ASSUME NEW n \in Motor
        PROVE  \/ since'[n] = 0
               \/ since'[n] = since[n] /\ motor'[n] = motor[n]
    BY <1>0, <1>5 DEF Drive, TurnOn, Shape, TypeOK
  <2>3. PassageInv'
    <3> SUFFICES ASSUME NEW n \in Motor, NEW h \in 0 .. Highs,
                        Passing(n, h), h - idx[n] >= Need, since'[n] >= h
                 PROVE  ~motor'[n]
      BY <2>1 DEF PassageInv, Passing
    <3>1. h >= 1
      <4>1. idx[n] \in Nat /\ Need \in Nat /\ Need >= 1 /\ h \in Nat
        BY <1>0, SensorTypes, VoteConstants
      <4> QED  BY <4>1
    <3>2. since'[n] # 0
      BY <3>1
    <3>3. since'[n] = since[n] /\ motor'[n] = motor[n]
      BY <2>2, <3>2
    <3> QED  BY <1>0, <3>3 DEF PassageInv
  <2> QED  BY <1>1, <2>1, <2>3 DEF StopInv
<1>6. ASSUME NEW r \in [Motor -> BOOLEAN], Sample(r) PROVE StopInv'
  BY <1>0, <1>6, WindowSample, VoteSample, PassageSample DEF StopInv
<1> QED  BY <1>3, <1>4, <1>5, <1>6 DEF Next, UartTask, IrTask

(* Wherever the votes fall, a motor that was on before the product blocked its *)
(* sensor is off after Highs blocked readings behind Lows clear ones, for      *)
(* every number of readings in a vote (StopsAtPassage).                        *)
THEOREM PassageStopsMotor == Spec => []StopsAtPassage
<1>1. IInv /\ StopInv => StopsAtPassage
  <2> SUFFICES ASSUME Shape, PassageInv, NEW n \in Motor,
                      Len(seen[n]) = Lows + Highs, since[n] >= Highs,
                      \A k \in DOMAIN seen[n] : seen[n][k] <=> k <= Highs
               PROVE  ~motor[n]
    BY DEF IInv, StopInv, StopsAtPassage
  <2>1. DOMAIN seen[n] = 1 .. Lows + Highs
    BY SensorTypes
  <2>2. Passing(n, Highs)
    <3>1. \A k \in 1 .. Highs : k \in 1 .. Lows + Highs /\ k <= Highs
      BY VoteConstants
    <3>2. \A k \in Highs + 1 .. Highs + Lows : k \in 1 .. Lows + Highs /\ ~(k <= Highs)
      BY VoteConstants
    <3>3. Lows + Highs >= Highs + Lows
      BY VoteConstants
    <3> QED  BY <2>1, <3>1, <3>2, <3>3 DEF Passing
  <2>3. Highs - idx[n] >= Need /\ Highs \in 0 .. Highs
    BY SensorTypes, VoteConstants
  <2> QED  BY <2>2, <2>3 DEF PassageInv
<1>2. IInv /\ StopInv /\ [Next]_vars => StopInv'
  BY StopInvNext
<1> QED  BY <1>1, <1>2, StopInvInit, Invariance, PTL DEF Spec

-----------------------------------------------------------------------------
(* What service needs beside the tasks' turns *)

(* The controller that was stopped before its queue existed took no order. *)
RunInv == phase # "run" => driven = <<>> /\ held = <<>> /\ queue = <<>>

LEMMA RunAlways == Spec => []RunInv
<1>1. Init => RunInv
  BY DEF Init, RunInv
<1>2. RunInv /\ [Next]_vars => RunInv'
  <2> SUFFICES ASSUME RunInv, [Next]_vars, phase' # "run"
               PROVE  driven' = <<>> /\ held' = <<>> /\ queue' = <<>>
    BY DEF RunInv
  <2>1. CASE (\E l \in Lines : Send(l)) \/ LineError \/ Start \/ RxCplt \/ UNCHANGED vars
    <3>1. phase # "run" /\ UNCHANGED <<driven, held, queue>>
      BY <2>1 DEF Send, LineError, Start, RxCplt, Accumulate, BluetoothCommand, BluetoothTooEarly,
                  BluetoothOther
    <3> QED  BY <3>1 DEF RunInv
  <2>2. ~UartTask /\ ~IrTask
    BY DEF UartTask, IrTask, Get, Drive, Wake, Sample
  <2> QED  BY <2>1, <2>2 DEF Next
<1> QED  BY <1>1, <1>2, PTL DEF Spec

(* An order that was queued is one a controller that runs will come to: the    *)
(* command that stops one, which comes before its queue, costs no order that   *)
(* was taken (with OrdersReachPins, the safety half of EveryOrderServed).      *)
THEOREM TakenOrdersRun == Spec => []OrdersWaitForRun
<1>1. IInv /\ RunInv => OrdersWaitForRun
  <2> SUFFICES ASSUME IInv, RunInv, phase # "run" PROVE Queued = {}
    BY DEF OrdersWaitForRun
  <2>1. driven = <<>> /\ held = <<>> /\ queue = <<>>
    BY DEF RunInv
  <2>2. Flow = <<>>
    BY <2>1 DEF Flow
  <2>3. {Flow[j].line : j \in DOMAIN Flow} = Queued
    BY DEF IInv, OrdersInOrder
  <2> QED  BY <2>2, <2>3
<1> QED  BY <1>1, Invariance, RunAlways, PTL

(* The sensor that is blocked for Highs readings is voted blocked, wherever    *)
(* the votes fall and whatever it read before.                                 *)
THEOREM BlockedSensorIsVoted == Spec => []BlockedIsVoted
<1>1. IInv /\ StopInv => BlockedIsVoted
  <2> SUFFICES ASSUME Shape, VoteInv, NEW n \in Motor, BlockedLong(n) PROVE current[n]
    BY DEF IInv, StopInv, BlockedIsVoted
  <2> DEFINE i == idx[n]  N == SAMPLE_COUNT
             a == IF i < Need THEN 0 ELSE i - Need + 1
             b == N - 1
  <2>1. /\ i \in 0 .. N - 1 /\ N \in Nat /\ N >= 1 /\ i \in Nat
        /\ Need \in Nat /\ 1 <= Need /\ Need <= N /\ Highs = N + Need - 1
        /\ Lows + Highs >= 2 * N /\ Lows \in Nat
    BY SensorTypes, VoteConstants
  <2>2. Len(seen[n]) = Lows + Highs /\ \A k \in 1 .. Highs : seen[n][k]
    BY DEF BlockedLong
  <2> HIDE DEF i, N
  <2>3. Len(seen[n]) >= i + N
    BY <2>1, <2>2
  <2>4. a \in 0 .. N - 1 /\ b \in 0 .. N - 1 /\ b - a + 1 >= Need
    BY <2>1
  <2>5. LastVote(n) \in [0 .. N - 1 -> BOOLEAN]
    <3>1. \A j \in 0 .. N - 1 : i + N - j \in 1 .. Len(seen[n])
      BY <2>1, <2>3, SensorTypes
    <3> QED  BY <3>1, SensorTypes DEF LastVote, N, i
  <2>6. ASSUME NEW j \in a .. b PROVE LastVote(n)[j]
    <3>1. j \in 0 .. N - 1 /\ i + N - j \in 1 .. Highs
      BY <2>1, <2>4
    <3>2. seen[n][i + N - j]
      BY <2>2, <3>1
    <3>3. LastVote(n)[j] = seen[n][i + N - j]
      BY <3>1 DEF LastVote, N, i
    <3> QED  BY <3>2, <3>3
  <2> HIDE DEF a, b
  <2>7. majorityVote(LastVote(n))
    BY <2>4, <2>5, <2>6, VoteBlocked DEF N
  <2> QED  BY <2>3, <2>7 DEF VoteInv, N, i
<1>2. Init => StopInv
  BY StopInvInit
<1>3. IInv /\ StopInv /\ [Next]_vars => StopInv'
  BY StopInvNext
<1> QED  BY <1>1, <1>2, <1>3, Invariance, PTL DEF Spec

(* And the vote stops the motor: no step, not the start of an order for the    *)
(* same motor either, leaves it on while its clear vote becomes a blocked one  *)
(* (with BlockedSensorIsVoted, StopsWhenBlocked but for the task's turns).     *)
THEOREM BlockedVoteStopsMotor == Spec => BlockedVoteStops
<1>1. IInv /\ [Next]_vars =>
        [\A n \in Motor : motor[n] /\ ~current[n] => ~current'[n] \/ ~motor'[n]]_vars
  <2> SUFFICES ASSUME Shape, [Next]_vars, NEW n \in Motor, motor[n], ~current[n], current'[n]
               PROVE  ~motor'[n]
    BY DEF IInv
  <2>1. PICK r \in [Motor -> BOOLEAN] : Sample(r)
    <3>1. current' # current
      OBVIOUS
    <3> QED
      BY <3>1 DEF Next, Send, LineError, Start, RxCplt, Accumulate, BluetoothCommand,
                  BluetoothTooEarly, BluetoothOther, UartTask, Get, Drive, Wake, IrTask
  <2>2. /\ current'[n] = IF idx'[n] = 0 THEN majorityVote(samples'[n]) ELSE current[n]
        /\ motor'[n] = (motor[n] /\ ~(idx'[n] = 0 /\ ~current[n] /\ current'[n]))
    BY <2>1, SampleFacts
  <2> QED  BY <2>2
<1> QED  BY <1>1, Invariance, PTL DEF Spec, BlockedVoteStops

=============================================================================
