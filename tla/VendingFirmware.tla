--------------------------- MODULE VendingFirmware ---------------------------
(***************************************************************************)
(* The motor controller: In_Progress/Vending_Machine/Core/Src, freertos.c  *)
(* with its reception in usart.c and its start in main.c.  A DMA interrupt *)
(* assembles the lines of the Bluetooth module byte by byte, parses each   *)
(* in the interrupt and puts the motor of "[from]MOTOR@n" in msgQueue;     *)
(* UART_Task takes motors from the queue and turns them on; IR_Task        *)
(* samples the sensors and turns a motor off when its product passes.      *)
(*                                                                         *)
(* The steps are those one processor with one interrupt level and two      *)
(* preemptive tasks can tell apart: the interrupt runs to its end, IR_Task *)
(* (the higher priority) runs a pass over the sensors to its end as far as *)
(* UART_Task sees, and UART_Task can be preempted between taking a motor   *)
(* and turning it on.  Times (the two osDelay) are not modelled: the tasks *)
(* interleave in every order.                                              *)
(***************************************************************************)
EXTENDS Integers, Sequences, FiniteSets

CONSTANTS
    NUM_MOTOR_PINS,  \* motors, and sensors: the product n falls past sensor n
    SAMPLE_COUNT,    \* readings of one majority vote
    QUEUE_LEN,       \* the length of msgQueue
    Sender,          \* the IDs a line may come from
    Cut,             \* the rest of an ID whose first bytes were lost
    Lines,           \* the lines the peer sends
    MaxLines         \* bound: lines the Bluetooth module receives

Motor == 1 .. NUM_MOTOR_PINS
Arg == 0 .. NUM_MOTOR_PINS + 1      \* what atoi can return: 0 and past the end too

(* A line "[from]MOTOR@arg", or another one: a notice of the server. *)
Line == [from : Sender, verb : {"MOTOR", "NOTICE"}, arg : Arg]

ASSUME FirmwareConstants ==
    /\ NUM_MOTOR_PINS \in Nat \ {0}
    /\ SAMPLE_COUNT \in Nat \ {0}
    /\ QUEUE_LEN \in Nat \ {0}
    /\ MaxLines \in Nat
    /\ Cut \notin Sender
    /\ Lines \subseteq Line

(* The bytes of a line, as far as losing them makes a difference: the first *)
(* bytes of the ID, the rest of it with "]", the text, and the "\n".        *)
Part == {"name", "rest", "body", "end"}
Piece == [line : Nat, part : Part]
Pieces(k) == <<[line |-> k, part |-> "name"], [line |-> k, part |-> "rest"],
               [line |-> k, part |-> "body"], [line |-> k, part |-> "end"]>>

Order == [line : Nat, motor : Arg]
Ack == [line : Nat, to : Sender \cup {Cut}, motor : Arg]
Verdict == {"none", "queued", "full", "invalid"}

(* The readings a passage takes: Lows clear ones and then Highs blocked ones *)
(* are seen however they fall into votes.                                    *)
Need  == SAMPLE_COUNT \div 2 + 1
Lows  == 2 * (SAMPLE_COUNT - Need) + 1
Highs == SAMPLE_COUNT + Need - 1

VARIABLES
    phase,    \* "boot": reception on, no queue yet; "run"; "hung": configASSERT failed
    lines,    \* the lines the peer sent
    wire,     \* their pieces that have not arrived
    rx,       \* reception by DMA is "armed", or "dead" after a line error
    bt,       \* btData[0 .. i-1]
    queue,    \* msgQueue
    uart,     \* UART_Task: "get", "drive" or "delay"
    held,     \* the event UART_Task took: empty, or one order
    motor,    \* motor[n]: its pin is SET
    samples,  \* samples[n]: sampleValues[n-1]
    idx,      \* idx[n]: sampleIndex[n-1]
    current,  \* current[n]: currentIrValues[n-1] is SET
    acks,     \* the answers transmitted on USART6
    verdict,  \* verdict[k]: what became of line k (history)
    driven,   \* the orders UART_Task turned a motor on for (history)
    seen,     \* seen[n]: the last readings of sensor n, newest first (history)
    since     \* since[n]: readings since motor n was turned on (history)

link    == <<lines, wire, rx, bt>>
task    == <<uart, held>>
ir      == <<samples, idx, current>>
readings == <<seen, since>>
vars == <<phase, link, queue, task, motor, ir, acks, verdict, driven, readings>>

Init ==
    /\ phase = "boot"
    /\ lines = <<>> /\ wire = <<>> /\ rx = "armed" /\ bt = <<>>
    /\ queue = <<>> /\ uart = "get" /\ held = <<>>
    /\ motor = [n \in Motor |-> FALSE]
    /\ samples = [n \in Motor |-> [j \in 0 .. SAMPLE_COUNT - 1 |-> FALSE]]
    /\ idx = [n \in Motor |-> 0]
    /\ current = [n \in Motor |-> FALSE]
    /\ acks = <<>> /\ verdict = <<>> /\ driven = <<>>
    /\ seen = [n \in Motor |-> <<>>]
    /\ since = [n \in Motor |-> Lows + Highs]

-----------------------------------------------------------------------------
(* The Bluetooth peer and the line *)

Send(l) ==
    /\ Len(lines) < MaxLines
    /\ lines' = Append(lines, l)
    /\ wire' = wire \o Pieces(Len(lines) + 1)
    /\ verdict' = Append(verdict, "none")
    /\ UNCHANGED <<phase, rx, bt, queue, task, motor, ir, acks, driven, readings>>

(* A framing or noise error while the DMA waits for a byte aborts the        *)
(* transfer; the error callback is the empty one of the HAL, so nothing arms *)
(* reception again.                                                          *)
LineError ==
    /\ phase # "hung" /\ rx = "armed" /\ wire # <<>>
    /\ rx' = "dead"
    /\ UNCHANGED <<phase, lines, wire, bt, queue, task, motor, ir, acks, verdict, driven, readings>>

-----------------------------------------------------------------------------
(* Reception: HAL_UART_RxCpltCallback and bluetooth_Event *)

(* MX_FREERTOS_Init and osKernelStart, with reception already on. *)
Start ==
    /\ phase = "boot"
    /\ phase' = "run"
    /\ UNCHANGED <<link, queue, task, motor, ir, acks, verdict, driven, readings>>

Accumulate ==
    /\ phase # "hung" /\ rx = "armed"
    /\ wire # <<>> /\ Head(wire).part # "end"
    /\ bt' = Append(bt, Head(wire))
    /\ wire' = Tail(wire)
    /\ UNCHANGED <<phase, lines, rx, queue, task, motor, ir, acks, verdict, driven, readings>>

(* strtok over "[@]": btData holds a command when its second token is the    *)
(* MOTOR of a line; with the whole ID lost, that token is the number.        *)
TextAt(k) ==
    /\ k \in DOMAIN bt
    /\ bt[k].part = "body" /\ bt[k - 1].part = "rest"
    /\ k = 3 => bt[1].part = "name"
Text == {k \in {2, 3} : TextAt(k) /\ lines[bt[k].line].verb = "MOTOR"}

Command(k) == [line |-> bt[k].line, motor |-> lines[bt[k].line].arg]
ReplyTo(k) == IF k = 2 THEN Cut ELSE lines[bt[1].line].from

RoomOffByOne == Len(queue) < QUEUE_LEN - 1                          \* mutant
Room == Len(queue) < QUEUE_LEN

(* osMessagePut with no wait: a full queue refuses, which is only printed.   *)
PutMotor(o) ==
    IF o.motor \notin Motor
    THEN /\ verdict' = [verdict EXCEPT ![o.line] = "invalid"] /\ UNCHANGED queue
    ELSE IF Room
    THEN /\ queue' = Append(queue, o)
         /\ verdict' = [verdict EXCEPT ![o.line] = "queued"]
    ELSE /\ verdict' = [verdict EXCEPT ![o.line] = "full"] /\ UNCHANGED queue

(* The bytes that arrive while the interrupt prints and transmits are lost:  *)
(* the first "lost" of those still on the wire, cleared with the overrun flag *)
(* when reception is armed again.                                            *)
EndOfLineKeepsIndex(lost) ==                                        \* mutant
    /\ wire' = SubSeq(Tail(wire), lost + 1, Len(wire) - 1)
    /\ UNCHANGED <<bt, lines, rx>>
EndOfLine(lost) ==
    /\ wire' = SubSeq(Tail(wire), lost + 1, Len(wire) - 1)
    /\ bt' = <<>>
    /\ UNCHANGED <<lines, rx>>

AtEndOfLine(lost) ==
    /\ phase # "hung" /\ rx = "armed"
    /\ wire # <<>> /\ Head(wire).part = "end"
    /\ lost < Len(wire)

(* A command: the motor is put in the queue and the ack goes out, whether or *)
(* not the queue took it.                                                    *)
BluetoothCommand(lost) ==
    /\ AtEndOfLine(lost) /\ phase = "run"
    /\ \E k \in Text :
         /\ PutMotor(Command(k))
         /\ acks' = Append(acks, [line |-> bt[k].line, to |-> ReplyTo(k),
                                  motor |-> Command(k).motor])
    /\ EndOfLine(lost)
    /\ UNCHANGED <<phase, task, motor, ir, driven, readings>>

(* The same before the queue exists: a valid motor fails configASSERT in     *)
(* xQueueGenericSendFromISR, which stops the processor.                      *)
BluetoothTooEarly(lost) ==
    /\ AtEndOfLine(lost) /\ phase = "boot"
    /\ \E k \in Text :
         IF Command(k).motor \in Motor
         THEN phase' = "hung" /\ UNCHANGED <<link, acks, verdict>>
         ELSE /\ verdict' = [verdict EXCEPT ![bt[k].line] = "invalid"]
              /\ acks' = Append(acks, [line |-> bt[k].line, to |-> ReplyTo(k),
                                       motor |-> Command(k).motor])
              /\ EndOfLine(lost)
              /\ UNCHANGED phase
    /\ UNCHANGED <<queue, task, motor, ir, driven, readings>>

(* Any other line: bluetooth_Event returns without an answer. *)
BluetoothOther(lost) ==
    /\ AtEndOfLine(lost) /\ Text = {}
    /\ EndOfLine(lost)
    /\ UNCHANGED <<phase, queue, task, motor, ir, acks, verdict, driven, readings>>

RxCplt ==
    \/ Accumulate
    \/ \E lost \in 0 .. 4 * MaxLines :
         BluetoothCommand(lost) \/ BluetoothTooEarly(lost) \/ BluetoothOther(lost)

-----------------------------------------------------------------------------
(* UART_Task *)

Get ==
    /\ phase = "run" /\ uart = "get" /\ queue # <<>>
    /\ held' = <<Head(queue)>>
    /\ queue' = Tail(queue)
    /\ uart' = "drive"
    /\ UNCHANGED <<phase, link, motor, ir, acks, verdict, driven, readings>>

TurnOnZeroBased(o) ==                                               \* mutant
    /\ motor' = [motor EXCEPT ![IF o.motor = 1 THEN NUM_MOTOR_PINS ELSE o.motor - 1] = TRUE]
    /\ driven' = Append(driven, o)
    /\ since' = [since EXCEPT ![o.motor] = 0]
TurnOnShort(o) ==                                                   \* mutant
    IF o.motor \in Motor \ {NUM_MOTOR_PINS}
    THEN /\ motor' = [motor EXCEPT ![o.motor] = TRUE]
         /\ driven' = Append(driven, o)
         /\ since' = [since EXCEPT ![o.motor] = 0]
    ELSE UNCHANGED <<motor, driven, since>>
TurnOn(o) ==
    IF o.motor \in Motor
    THEN /\ motor' = [motor EXCEPT ![o.motor] = TRUE]
         /\ driven' = Append(driven, o)
         /\ since' = [since EXCEPT ![o.motor] = 0]
    ELSE UNCHANGED <<motor, driven, since>>

Drive ==
    /\ phase = "run" /\ uart = "drive"
    /\ TurnOn(held[1])
    /\ held' = <<>>
    /\ uart' = "delay"
    /\ UNCHANGED <<phase, link, queue, ir, acks, verdict, seen>>

Wake ==
    /\ phase = "run" /\ uart = "delay"
    /\ uart' = "get"
    /\ UNCHANGED <<phase, link, queue, held, motor, ir, acks, verdict, driven, readings>>

UartTask == Get \/ Drive \/ Wake

-----------------------------------------------------------------------------
(* IR_Task *)

MajorityAll(v) == \A j \in DOMAIN v : v[j]                          \* mutant
majorityVote(v) == Cardinality({j \in DOMAIN v : v[j]}) > SAMPLE_COUNT \div 2

Newest(s) == SubSeq(s, 1, IF Len(s) < Lows + Highs THEN Len(s) ELSE Lows + Highs)

(* One pass over the sensors, which read r.  previousIrValues is read only    *)
(* where it was just assigned: it is the value of current before the step.   *)
EdgeFalling(n) == current[n] /\ ~current'[n]                        \* mutant
Edge(n) == ~current[n] /\ current'[n]

Sample(r) ==
    /\ phase = "run"
    /\ samples' = [n \in Motor |-> [samples[n] EXCEPT ![idx[n]] = r[n]]]
    /\ idx' = [n \in Motor |-> (idx[n] + 1) % SAMPLE_COUNT]
    /\ current' = [n \in Motor |-> IF idx'[n] = 0 THEN majorityVote(samples'[n]) ELSE current[n]]
    /\ motor' = [n \in Motor |-> motor[n] /\ ~(idx'[n] = 0 /\ Edge(n))]
    /\ seen' = [n \in Motor |-> Newest(<<r[n]>> \o seen[n])]
    /\ since' = [n \in Motor |-> IF since[n] < Lows + Highs THEN since[n] + 1 ELSE since[n]]
    /\ UNCHANGED <<phase, link, queue, task, acks, verdict, driven>>

IrTask == \E r \in [Motor -> BOOLEAN] : Sample(r)

-----------------------------------------------------------------------------
Next ==
    \/ \E l \in Lines : Send(l)
    \/ LineError
    \/ Start
    \/ RxCplt
    \/ UartTask
    \/ IrTask

Spec == Init /\ [][Next]_vars

(* The interrupt of a waiting byte is taken; IR_Task sleeps 50 ms in every  *)
(* round, so that UART_Task, below it, runs; nothing blocks either for good. *)
FairSpec == Spec /\ WF_vars(Start) /\ WF_vars(RxCplt) /\ WF_vars(UartTask) /\ WF_vars(IrTask)

-----------------------------------------------------------------------------
(* Properties *)

(* The types of the variables: the motors queued and held are ones that exist, *)
(* the queue is within its length, UART_Task holds an order exactly when it is *)
(* about to turn the motor on.                                                 *)
Valid == [line : Nat, motor : Motor]
TypeOK ==
    /\ phase \in {"boot", "run", "hung"}
    /\ lines \in Seq(Line) /\ Len(lines) <= MaxLines
    /\ wire \in Seq(Piece) /\ rx \in {"armed", "dead"} /\ bt \in Seq(Piece)
    /\ queue \in Seq(Valid) /\ Len(queue) <= QUEUE_LEN
    /\ uart \in {"get", "drive", "delay"}
    /\ held \in Seq(Valid) /\ Len(held) = (IF uart = "drive" THEN 1 ELSE 0)
    /\ motor \in [Motor -> BOOLEAN]
    /\ samples \in [Motor -> [0 .. SAMPLE_COUNT - 1 -> BOOLEAN]]
    /\ idx \in [Motor -> 0 .. SAMPLE_COUNT - 1]
    /\ current \in [Motor -> BOOLEAN]
    /\ acks \in Seq(Ack) /\ driven \in Seq(Valid)
    /\ verdict \in Seq(Verdict) /\ Len(verdict) = Len(lines)
    /\ seen \in [Motor -> Seq(BOOLEAN)]
    /\ since \in [Motor -> 0 .. Lows + Highs]

Flow == driven \o held \o queue
Queued == {k \in DOMAIN verdict : verdict[k] = "queued"}

(* From the wire to the pin: the orders turned on, held and queued are, in the *)
(* order they were sent and each once, the lines that were queued, with the    *)
(* motor the line named; bytes lost in the interrupt never join two lines.     *)
OrdersInOrder ==
    /\ \A j \in DOMAIN Flow : Flow[j].motor = lines[Flow[j].line].arg
    /\ \A j, k \in DOMAIN Flow : j < k => Flow[j].line < Flow[k].line
    /\ {Flow[j].line : j \in DOMAIN Flow} = Queued

(* An order is refused for a full queue only behind QUEUE_LEN others: a burst *)
(* of up to QUEUE_LEN orders is taken whole, however the tasks are scheduled. *)
BurstFits ==
    \A k \in DOMAIN verdict :
      verdict[k] = "full" => Cardinality({j \in Queued : j < k}) >= QUEUE_LEN

(* An ack repeats the motor of a line that was sent, comes once for a line and *)
(* in the order of the lines, and names its sender, or what was left of the    *)
(* name when the first bytes of it were lost.                                  *)
AcksMatchLines ==
    /\ \A j \in DOMAIN acks : /\ acks[j].motor = lines[acks[j].line].arg
                              /\ acks[j].to \in {lines[acks[j].line].from, Cut}
    /\ \A j, k \in DOMAIN acks : j < k => acks[j].line < acks[k].line

(* A product that passes slowly enough is seen wherever the votes fall: a motor *)
(* turned on before the sensor was blocked for Highs readings, after Lows clear *)
(* ones, is off.                                                                *)
StopsAtPassage ==
    \A n \in Motor :
      /\ Len(seen[n]) = Lows + Highs /\ since[n] >= Highs
      /\ \A k \in DOMAIN seen[n] : seen[n][k] <=> k <= Highs
      => ~motor[n]

(* The controller implements the abstract dispenser: what is held and queued  *)
(* is its line of orders, the pins that are SET are the motors it runs.       *)
Waiting == held \o queue
Orders == [k \in 1 .. Len(Waiting) |-> Waiting[k].motor]
Running == {n \in Motor : motor[n]}
D == INSTANCE Dispenser WITH
       Capacity <- QUEUE_LEN + 1, orders <- Orders, running <- Running
ImplementsDispenser == D!Spec

(* Under fairness too: an order taken is served, as long as the controller was *)
(* not stopped by a command that came before its queue.                        *)
EveryOrderServed ==
    \A k \in 1 .. MaxLines :
      (k \in Queued) ~> (\E j \in DOMAIN driven : driven[j].line = k)

(* A motor that runs while the last vote of its sensor was clear stops, if the *)
(* sensor is blocked from then on.                                             *)
BlockedNow(n) == seen[n] # <<>> /\ seen[n][1]
StopsWhenBlocked ==
    \A n \in Motor :
      (motor[n] /\ ~current[n] /\ []BlockedNow(n)) ~> ~motor[n]

(* What is queued was queued by a controller that runs, and none of it is lost *)
(* to the command that stops one: with OrdersInOrder, what EveryOrderServed    *)
(* needs beside the tasks' turns.                                              *)
OrdersWaitForRun == Queued # {} => phase = "run"

(* What StopsWhenBlocked needs beside them: the vote of a sensor that is       *)
(* blocked is blocked after Highs readings at the latest, wherever the votes   *)
(* fall, and no step leaves a motor on while its clear vote becomes a blocked  *)
(* one, not even the start of the next order.                                  *)
BlockedLong(n) == Len(seen[n]) = Lows + Highs /\ \A k \in 1 .. Highs : seen[n][k]
BlockedIsVoted == \A n \in Motor : BlockedLong(n) => current[n]
BlockedVoteStops ==
    [][\A n \in Motor : motor[n] /\ ~current[n] => ~current'[n] \/ ~motor'[n]]_vars
=============================================================================
