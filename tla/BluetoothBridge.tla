--------------------------- MODULE BluetoothBridge ---------------------------
(***************************************************************************)
(* The bridge between the message server and the vending controller:       *)
(* Server/iot_client_Bluetooth/iot_client_bluetooth.c.  One thread copies   *)
(* what the server sends to the Bluetooth link, the other assembles what   *)
(* the link delivers into lines and writes them to the server.  Both use,  *)
(* and both reset, the descriptor dev_fd.sockfd; main waits for the second *)
(* only, and the process ends with it.                                     *)
(*                                                                         *)
(* A line is two pieces, its beginning and its end with the "\n": a read   *)
(* may return any number of pieces.  What the server and the link do is    *)
(* left to the module that composes the bridge with them.                  *)
(***************************************************************************)
EXTENDS Naturals, Sequences, SequencesExt

CONSTANT BUF_SIZE     \* the pieces msg holds, instead of its bytes

ASSUME BridgeConstants == BUF_SIZE \in Nat \ {0}

Piece(Text) == [text : Text, end : BOOLEAN]
Line(t) == <<[text |-> t, end |-> FALSE], [text |-> t, end |-> TRUE]>>

VARIABLES
    sockfd,    \* dev_fd.sockfd still is the socket; FALSE: it was set to -1
    alive,     \* the process has not ended
    sndPc,     \* send_msg: in "select", about to "write", or "ended"
    msg,       \* msg[0 .. total-1]
    rcvPc,     \* recv_msg: about to "call" read, in "read", about to "write", "ended"
    name_msg,  \* what the last read of recv_msg returned
    down,      \* pieces the server sent that the bridge has not read
    up,        \* writes of the bridge that the server has not read
    serverUp,  \* the server has not closed its end
    rst,       \* a write to the closed end was answered with a reset
    btOut,     \* pieces on the link towards the controller
    btIn,      \* pieces that arrived from it
    btLink     \* "up"; "lost": its error is not read yet; "closed"

socket  == <<down, up, serverUp, rst>>
radio   == <<btOut, btIn, btLink>>
bridgeVars == <<sockfd, alive, sndPc, msg, rcvPc, name_msg, socket, radio>>

BridgeInit ==
    /\ sockfd = TRUE /\ alive = TRUE
    /\ sndPc = "select" /\ msg = <<>>
    /\ rcvPc = "call" /\ name_msg = <<>>

-----------------------------------------------------------------------------
(* recv_msg: from the server to the link *)

(* The descriptor is read here; a thread that waits in read keeps it. *)
RecvCall ==
    /\ alive /\ rcvPc = "call" /\ sockfd
    /\ rcvPc' = "read"
    /\ UNCHANGED <<sockfd, alive, sndPc, msg, name_msg, socket, radio>>

RecvRead ==
    /\ alive /\ rcvPc = "read"
    /\ \E n \in 1 .. Len(down) :
         /\ name_msg' = SubSeq(down, 1, n)
         /\ down' = SubSeq(down, n + 1, Len(down))
    /\ rcvPc' = "write"
    /\ UNCHANGED <<sockfd, alive, sndPc, msg, up, serverUp, rst, radio>>

(* The end of the connection, or a read of descriptor -1. *)
RecvEndKeepsSocket ==                                               \* mutant
    /\ alive
    /\ \/ rcvPc = "call" /\ ~sockfd
       \/ rcvPc = "read" /\ down = <<>> /\ ~serverUp
    /\ rcvPc' = "ended"
    /\ UNCHANGED <<sockfd, alive, sndPc, msg, name_msg, socket, radio>>
RecvEnd ==
    /\ alive
    /\ \/ rcvPc = "call" /\ ~sockfd
       \/ rcvPc = "read" /\ down = <<>> /\ ~serverUp
    /\ sockfd' = FALSE
    /\ rcvPc' = "ended"
    /\ UNCHANGED <<alive, sndPc, msg, name_msg, socket, radio>>

(* What the write to the link returns is not looked at. *)
RecvWrite ==
    /\ alive /\ rcvPc = "write"
    /\ btOut' = IF btLink = "up" THEN btOut \o name_msg ELSE btOut
    /\ rcvPc' = "call"
    /\ name_msg' = <<>>
    /\ UNCHANGED <<sockfd, alive, sndPc, msg, socket, btIn, btLink>>

-----------------------------------------------------------------------------
(* send_msg: from the link to the server *)

SndReadAnyPiece ==                                                  \* mutant
    /\ alive /\ sndPc = "select"
    /\ \E n \in 1 .. Len(btIn) :
         /\ n <= BUF_SIZE - Len(msg)
         /\ msg' = msg \o SubSeq(btIn, 1, n)
         /\ btIn' = SubSeq(btIn, n + 1, Len(btIn))
    /\ sndPc' = "write"
    /\ UNCHANGED <<sockfd, alive, rcvPc, name_msg, socket, btOut, btLink>>
SndRead ==
    /\ alive /\ sndPc = "select"
    /\ \E n \in 1 .. Len(btIn) :
         /\ n <= BUF_SIZE - Len(msg)
         /\ msg' = msg \o SubSeq(btIn, 1, n)
         /\ btIn' = SubSeq(btIn, n + 1, Len(btIn))
    /\ sndPc' = IF Last(msg').end THEN "write" ELSE "select"
    /\ UNCHANGED <<sockfd, alive, rcvPc, name_msg, socket, btOut, btLink>>

(* read returns 0: the link was closed, or msg is full and there is no room *)
(* to read into.                                                            *)
GiveUpOnPart ==                                                     \* mutant
    /\ alive /\ sndPc = "select"
    /\ \/ btIn = <<>> /\ btLink = "closed"
       \/ btIn # <<>> /\ msg # <<>>
    /\ sockfd' = FALSE
    /\ sndPc' = "ended"
    /\ UNCHANGED <<alive, msg, rcvPc, name_msg, socket, radio>>
SndReadNothing ==
    /\ alive /\ sndPc = "select"
    /\ \/ btIn = <<>> /\ btLink = "closed"
       \/ btIn # <<>> /\ Len(msg) = BUF_SIZE
    /\ sockfd' = FALSE
    /\ sndPc' = "ended"
    /\ UNCHANGED <<alive, msg, rcvPc, name_msg, socket, radio>>

(* read returns -1, which nothing tests.  With msg empty the byte before it  *)
(* is compared with "\n": whatever is there.  When it happens to be one, the *)
(* empty line is written, 0 bytes, and the thread ends.                      *)
SndReadError ==
    /\ alive /\ sndPc = "select"
    /\ btIn = <<>> /\ btLink = "lost"
    /\ btLink' = "closed"
    /\ \/ UNCHANGED <<sockfd, sndPc>>
       \/ msg = <<>> /\ sockfd' = FALSE /\ sndPc' = "ended"
    /\ UNCHANGED <<alive, msg, rcvPc, name_msg, socket, btOut, btIn>>

(* The line, or lines, that msg holds go out in one write. *)
SndWrite ==
    /\ alive /\ sndPc = "write" /\ sockfd /\ serverUp
    /\ up' = Append(up, msg)
    /\ msg' = <<>>
    /\ sndPc' = "select"
    /\ UNCHANGED <<sockfd, alive, rcvPc, name_msg, down, serverUp, rst, radio>>

(* A write to descriptor -1, or one that finds the connection reset. *)
SndWriteFails ==
    /\ alive /\ sndPc = "write" /\ ~(sockfd /\ serverUp)
    /\ msg' = <<>>
    /\ sockfd' = FALSE
    /\ sndPc' = "ended"
    /\ UNCHANGED <<alive, rcvPc, name_msg, socket, radio>>

(* The first write after the server closed is lost; once it was answered, the *)
(* next one may raise SIGPIPE, for which nothing is installed.                *)
SndWriteClosed ==
    /\ alive /\ sndPc = "write" /\ sockfd /\ ~serverUp
    /\ msg' = <<>>
    /\ sndPc' = "select"
    /\ rst' = TRUE
    /\ alive' \in {TRUE, ~rst}
    /\ UNCHANGED <<sockfd, rcvPc, name_msg, down, up, serverUp, radio>>

(* main joins send_msg, closes and returns, which ends the other thread. *)
Exit ==
    /\ alive /\ sndPc = "ended"
    /\ alive' = FALSE
    /\ UNCHANGED <<sockfd, sndPc, msg, rcvPc, name_msg, socket, radio>>

recv_msg == RecvCall \/ RecvRead \/ RecvEnd \/ RecvWrite
send_msg ==
    \/ SndRead \/ SndReadNothing \/ SndReadError
    \/ SndWrite \/ SndWriteFails \/ SndWriteClosed
Bridge == recv_msg \/ send_msg \/ Exit

-----------------------------------------------------------------------------
(* Properties, of the bridge between any server and any link *)

BridgeTypeOK(Text) ==
    /\ sockfd \in BOOLEAN /\ alive \in BOOLEAN /\ serverUp \in BOOLEAN /\ rst \in BOOLEAN
    /\ sndPc \in {"select", "write", "ended"}
    /\ rcvPc \in {"call", "read", "write", "ended"}
    /\ btLink \in {"up", "lost", "closed"}
    /\ msg \in Seq(Piece(Text)) /\ Len(msg) <= BUF_SIZE
    /\ name_msg \in Seq(Piece(Text)) /\ down \in Seq(Piece(Text))
    /\ btOut \in Seq(Piece(Text)) /\ btIn \in Seq(Piece(Text))
    /\ up \in Seq(Seq(Piece(Text)))

(* Every write to the server is made of whole lines: however the link cuts   *)
(* what it delivers, the server never gets the beginning of a line without   *)
(* its end, which it would route by a name cut short.                        *)
Whole(w) ==
    /\ w # <<>> /\ Len(w) % 2 = 0
    /\ \A i \in DOMAIN w : /\ w[i].end <=> i % 2 = 0
                           /\ i % 2 = 0 => w[i].text = w[i - 1].text
WritesWholeLines == \A i \in DOMAIN up : Whole(up[i])

(* The thread that assembles lines gives up for one of three reasons only: the *)
(* link ended, the server ended, or the link delivered so much at once that    *)
(* msg filled up in the middle of a line.                                      *)
EndsForACause ==
    sndPc = "ended" =>
      \/ btLink # "up" \/ ~serverUp
      \/ Len(msg) = BUF_SIZE /\ ~Last(msg).end

(* The end of the server does not end the bridge by itself: select reports the *)
(* closed socket in every round, so that its timeout, where sockfd is tested,  *)
(* does not come.  What ends it is the next line from the link, once the other *)
(* thread has ended and reset the descriptor.                                  *)
EndsWithNextLine ==
    (rcvPc = "ended" /\ \E i \in DOMAIN btIn : btIn[i].end) ~> ~alive
=============================================================================
