------------------------------- MODULE Ps2Mouse -------------------------------
(***************************************************************************)
(* The PS/2 mouse driver of src/driver_framework/drivers/ps2mouse.rs:      *)
(* start(), which polls the i8042 controller to turn the mouse on, and     *)
(* irq_handler, which collects the three bytes of a packet.  kernel_main   *)
(* runs start() with interrupts on, so the two share the data port.        *)
(*                                                                         *)
(* The controller and the mouse are the environment, modelled as the       *)
(* driver sees them through ports 0x60 and 0x64.  Polling loops give up    *)
(* after 10000 reads: `prompt` says whether an answer always comes sooner. *)
(***************************************************************************)
EXTENDS Naturals, Sequences

CONSTANTS
  Retries,   \* attempts to send 0xF4 (4 in the code)
  MaxMoves   \* bound: how many packets the mouse sends

ASSUME Bounds == Retries \in Nat \ {0} /\ MaxMoves \in Nat

VARIABLES
  pc, attempt,  \* start(), then main: the next step, and the attempt
  want,         \* the config byte that start() writes back
  success,      \* what send_mouse_cmd_with_ack returned
  drv,          \* the driver: pkt_state and pkt_buf
  queue,        \* MOUSE_QUEUE: is it initialised, and every packet pushed
  kbc,          \* the controller
  mouse,        \* the mouse: bytes to send, reporting, packets sent so far
  pending,      \* the interrupts the Local APIC holds for the CPU
  line,         \* the IOAPIC entries of interrupts 1 and 12 are unmasked
  lines0,       \* were they when start() began
  prompt

vars == <<pc, attempt, want, success, drv, queue, kbc, mouse, pending, line,
          lines0, prompt>>

driver == <<drv, queue>>
outside == <<mouse, pending, line, lines0, prompt>>   \* all but the controller
env == <<kbc, outside>>

(* A byte at the data port: what it is, and its packet if it is of one.    *)
Byte(kind, n) == [kind |-> kind, n |-> n]
Kinds == {"scancode", "config", "ack", "resend", "header", "x", "y"}

(* What bit 3 of a byte may be: it is set in 0xFA, in 0xFE and in headers. *)
Bit3(b) == IF b.kind \in {"ack", "resend", "header"} THEN {TRUE} ELSE BOOLEAN

(* A key pressed before the keyboard port was disabled may still be in the *)
(* output buffer.  The firmware may or may not have enabled interrupts.    *)
(* The mouse is as its reset leaves it, not reporting: start() takes that  *)
(* for granted (it sends no 0xF5), and were it to report already, its      *)
(* packets could be read as the config byte or as the acknowledgement.     *)
Init ==
  /\ pc = "enable_aux" /\ attempt = 1 /\ want = "kept" /\ success = FALSE
  /\ drv = [state |-> 0, buf |-> <<>>]
  /\ queue = [ready |-> FALSE, pushed |-> <<>>]
  /\ kbc \in [input : {<<>>}, next : {"none"}, aux : BOOLEAN,
              full : BOOLEAN, data : {Byte("scancode", 0)},
              kbd_irq : BOOLEAN, aux_irq : BOOLEAN, others : {"kept"}]
  /\ mouse = [out |-> <<>>, reporting |-> FALSE, moves |-> 0]
  /\ pending = {}
  /\ lines0 \in BOOLEAN /\ line = [k \in {1, 12} |-> lines0]
  /\ prompt \in BOOLEAN

-----------------------------------------------------------------------------
(* start().  The handler is registered and the instance set before the     *)
(* first port access.                                                      *)

Goto(label) == pc' = label

(* wait_input_clear, then a write; giving up if the buffer stays full.     *)
Write(byte, done, failed) ==
  \/ /\ kbc.input = <<>>
     /\ kbc' = [kbc EXCEPT !.input = <<byte>>]
     /\ Goto(done)
  \/ /\ kbc.input # <<>> /\ ~prompt
     /\ UNCHANGED kbc
     /\ Goto(failed)

(* wait_for_data up to the read.  With a prompt controller it only gives   *)
(* up when nothing is on its way.                                          *)
Coming == kbc.input # <<>> \/ (kbc.aux /\ mouse.out # <<>>)

Wait(done, failed) ==
  \/ kbc.full /\ Goto(done)
  \/ ~kbc.full /\ (prompt => ~Coming) /\ Goto(failed)

ReadData == kbc' = [kbc EXCEPT !.full = FALSE]

EnableAux ==
  /\ pc = "enable_aux"
  /\ Write("A8", "flush", "flush")
  /\ UNCHANGED <<attempt, want, success, driver, outside>>

(* Mutant of Flush: whatever is in the output buffer is left there.       *)
Flush_Missing ==
  /\ pc = "flush"
  /\ Goto("config_cmd")
  /\ UNCHANGED <<attempt, want, success, driver, env>>

Flush ==
  /\ pc = "flush"
  /\ \/ kbc.full /\ ReadData /\ UNCHANGED pc
     \/ ~kbc.full /\ UNCHANGED kbc /\ Goto("config_cmd")
  /\ UNCHANGED <<attempt, want, success, driver, outside>>

ConfigCmd ==
  /\ pc = "config_cmd"
  /\ Write("20", "config_wait", "mouse_cmd")
  /\ UNCHANGED <<attempt, want, success, driver, outside>>

ConfigWait ==
  /\ pc = "config_wait"
  /\ Wait("config_read", "mouse_cmd")
  /\ UNCHANGED <<attempt, want, success, driver, env>>

(* The byte read is taken for the config byte, whatever it is.             *)
ConfigRead ==
  /\ pc = "config_read"
  /\ ReadData
  /\ IF kbc.data.kind = "config"
     THEN /\ want' = "kept"
          /\ Goto(IF kbc.aux_irq THEN "mouse_cmd" ELSE "config_back")
     ELSE /\ want' = "junk"
          /\ \/ Goto("mouse_cmd")
             \/ Goto("config_back")
  /\ UNCHANGED <<attempt, success, driver, outside>>

ConfigBack ==
  /\ pc = "config_back"
  /\ Write("60", "config_data", "mouse_cmd")
  /\ UNCHANGED <<attempt, want, success, driver, outside>>

ConfigData ==
  /\ pc = "config_data"
  /\ Write(want, "mouse_cmd", "mouse_cmd")
  /\ UNCHANGED <<attempt, want, success, driver, outside>>

(* One attempt of send_mouse_cmd_with_ack(0xF4).                           *)
MouseCmd ==
  /\ pc = "mouse_cmd"
  /\ Write("D4", "mouse_data", "retry")
  /\ UNCHANGED <<attempt, want, success, driver, outside>>

MouseData ==
  /\ pc = "mouse_data"
  /\ Write("F4", "ack_wait", "retry")
  /\ UNCHANGED <<attempt, want, success, driver, outside>>

AckWait ==
  /\ pc = "ack_wait"
  /\ Wait("ack_read", "retry")
  /\ UNCHANGED <<attempt, want, success, driver, env>>

(* Mutant of AckRead: any answer but 0xFE counts as an acknowledgement.   *)
AckRead_AnyAnswer ==
  /\ pc = "ack_read"
  /\ ReadData
  /\ success' = (kbc.data.kind # "resend")
  /\ Goto(IF success' THEN "started" ELSE "retry")
  /\ UNCHANGED <<attempt, want, driver, outside>>

(* A scancode or a byte of a packet may have the value 0xFA.              *)
AckRead ==
  /\ pc = "ack_read"
  /\ ReadData
  /\ \/ /\ kbc.data.kind \in {"ack", "scancode", "header", "x", "y"}
        /\ success' = TRUE
        /\ Goto("started")
     \/ kbc.data.kind # "ack" /\ UNCHANGED success /\ Goto("retry")
  /\ UNCHANGED <<attempt, want, driver, outside>>

Retry ==
  /\ pc = "retry"
  /\ IF attempt < Retries
     THEN attempt' = attempt + 1 /\ Goto("mouse_cmd")
     ELSE UNCHANGED attempt /\ Goto("started")
  /\ UNCHANGED <<want, success, driver, env>>

(* main unmasks the mouse's GSI, or leaves it as it is when no IOAPIC has  *)
(* it or the Local APIC is not in use; the executor then polls the mouse   *)
(* task, which creates the queue.                                          *)
UnmaskGsi ==
  /\ pc = "started"
  /\ line' \in {line, [line EXCEPT ![12] = TRUE]}
  /\ Goto("spawn")
  /\ UNCHANGED <<attempt, want, success, driver, kbc, mouse, pending, lines0, prompt>>

FirstPoll ==
  /\ pc = "spawn"
  /\ queue' = [queue EXCEPT !.ready = TRUE]
  /\ Goto("run")
  /\ UNCHANGED <<attempt, want, success, drv, env>>

Kernel ==
  \/ EnableAux \/ Flush
  \/ ConfigCmd \/ ConfigWait \/ ConfigRead \/ ConfigBack \/ ConfigData
  \/ MouseCmd \/ MouseData \/ AckWait \/ AckRead \/ Retry
  \/ UnmaskGsi \/ FirstPoll

-----------------------------------------------------------------------------
(* The interrupt handlers.                                                 *)

(* The new packet state on byte b, and what is pushed.                     *)

(* Mutant of Collect: the state is not reset after the third byte.        *)
Collect_NoReset(b) ==
  \/ /\ drv.state = 0 /\ TRUE \in Bit3(b)
     /\ drv' = [state |-> 1, buf |-> <<b>>]
     /\ UNCHANGED queue
  \/ drv.state = 0 /\ FALSE \in Bit3(b) /\ UNCHANGED <<drv, queue>>
  \/ /\ drv.state = 1
     /\ drv' = [state |-> 2, buf |-> <<drv.buf[1], b>>]
     /\ UNCHANGED queue
  \/ /\ drv.state = 2
     /\ drv' = [state |-> 1, buf |-> <<drv.buf[1]>>]
     /\ queue' = IF queue.ready
                 THEN [queue EXCEPT !.pushed = Append(@, drv.buf \o <<b>>)]
                 ELSE queue

Collect(b) ==
  \/ /\ drv.state = 0 /\ TRUE \in Bit3(b)
     /\ drv' = [state |-> 1, buf |-> <<b>>]
     /\ UNCHANGED queue
  \/ drv.state = 0 /\ FALSE \in Bit3(b) /\ UNCHANGED <<drv, queue>>
  \/ /\ drv.state = 1
     /\ drv' = [state |-> 2, buf |-> <<drv.buf[1], b>>]
     /\ UNCHANGED queue
  \/ /\ drv.state = 2
     /\ drv' = [state |-> 0, buf |-> <<>>]
     /\ queue' = IF queue.ready
                 THEN [queue EXCEPT !.pushed = Append(@, drv.buf \o <<b>>)]
                 ELSE queue

(* Mutant of MouseIrq: a byte nobody waits for is not read.               *)
MouseIrq_ReadsLate ==
  /\ 12 \in pending
  /\ pending' = pending \ {12}
  /\ IF queue.ready THEN ReadData /\ Collect(kbc.data)
                    ELSE UNCHANGED <<kbc, drv, queue>>
  /\ UNCHANGED <<pc, attempt, want, success, mouse, line, lines0, prompt>>

MouseIrq ==
  /\ 12 \in pending
  /\ pending' = pending \ {12}
  /\ ReadData
  /\ Collect(kbc.data)
  /\ UNCHANGED <<pc, attempt, want, success, mouse, line, lines0, prompt>>

(* The keyboard driver's handler takes the byte for a scancode.            *)
KbdIrq ==
  /\ 1 \in pending
  /\ pending' = pending \ {1}
  /\ ReadData
  /\ UNCHANGED <<pc, attempt, want, success, driver, mouse, line, lines0, prompt>>

-----------------------------------------------------------------------------
(* The controller.  Its own bytes raise interrupt 1, the mouse's interrupt *)
(* 12, if the config byte enables it; the IOAPIC drops the edge when the   *)
(* entry is masked.                                                        *)

Raise(k, enabled) ==
  pending' = IF enabled /\ line[k] THEN pending \cup {k} ELSE pending

(* A byte written to port 0x64 is a command and drops an unfinished one.   *)
Command ==
  /\ kbc.input # <<>>
  /\ LET c == Head(kbc.input)
         k == [kbc EXCEPT !.input = <<>>, !.next = "none"]
     IN \/ c = "A8" /\ kbc' = [k EXCEPT !.aux = TRUE] /\ UNCHANGED pending
        \/ c = "60" /\ kbc' = [k EXCEPT !.next = "config"] /\ UNCHANGED pending
        \/ c = "D4" /\ kbc' = [k EXCEPT !.next = "mouse"] /\ UNCHANGED pending
        \/ /\ c = "20" /\ ~kbc.full
           /\ kbc' = [k EXCEPT !.full = TRUE, !.data = Byte("config", 0)]
           /\ Raise(1, kbc.kbd_irq)
  /\ UNCHANGED <<pc, attempt, want, success, driver, mouse, line, lines0, prompt>>

NewConfig ==
  /\ kbc.input \in {<<"kept">>, <<"junk">>} /\ kbc.next = "config"
  /\ kbc' = [kbc EXCEPT !.input = <<>>, !.next = "none",
                        !.aux_irq = TRUE, !.others = Head(kbc.input)]
  /\ UNCHANGED <<pc, attempt, want, success, driver, outside>>

(* The mouse gets 0xF4: it starts reporting and acknowledges, or asks for  *)
(* the byte again.                                                         *)
ToMouse ==
  /\ kbc.input = <<"F4">> /\ kbc.next = "mouse"
  /\ kbc' = [kbc EXCEPT !.input = <<>>, !.next = "none"]
  /\ \/ mouse' = [mouse EXCEPT !.reporting = TRUE, !.out = Append(@, Byte("ack", 0))]
     \/ mouse' = [mouse EXCEPT !.out = Append(@, Byte("resend", 0))]
  /\ UNCHANGED <<pc, attempt, want, success, driver, pending, line, lines0, prompt>>

MouseSend ==
  /\ ~kbc.full /\ kbc.aux /\ mouse.out # <<>>
  /\ kbc' = [kbc EXCEPT !.full = TRUE, !.data = Head(mouse.out)]
  /\ mouse' = [mouse EXCEPT !.out = Tail(@)]
  /\ Raise(12, kbc.aux_irq)
  /\ UNCHANGED <<pc, attempt, want, success, driver, line, lines0, prompt>>

MouseMove ==
  /\ mouse.reporting /\ mouse.moves < MaxMoves
  /\ mouse' = [mouse EXCEPT
       !.moves = @ + 1,
       !.out = @ \o <<Byte("header", mouse.moves), Byte("x", mouse.moves),
                      Byte("y", mouse.moves)>>]
  /\ UNCHANGED <<pc, attempt, want, success, driver, kbc, pending, line, lines0, prompt>>

Hardware == Command \/ NewConfig \/ ToMouse \/ MouseSend

Next == Kernel \/ MouseIrq \/ KbdIrq \/ Hardware \/ MouseMove

Spec == Init /\ [][Next]_vars

(* Kernel code runs on, pending interrupts are taken, the hardware answers. *)
FairSpec ==
  /\ Spec
  /\ WF_vars(Kernel) /\ WF_vars(MouseIrq) /\ WF_vars(KbdIrq) /\ WF_vars(Hardware)

-----------------------------------------------------------------------------
(* Properties.                                                             *)

(* When start() has seen its acknowledgement the mouse does report: no     *)
(* leftover or late byte of an earlier exchange is taken for the answer.   *)
SuccessMeansReporting == success => mouse.reporting

(* The config byte keeps every bit but the mouse interrupt's: start()      *)
(* writes back the byte the controller sent and no other that was in the   *)
(* output buffer.                                                          *)
ConfigKept == kbc.others = "kept"

Aligned(p) == \E n \in 0 .. MaxMoves : p = <<Byte("header", n), Byte("x", n), Byte("y", n)>>

(* If both lines were masked while start() polled and every answer came in *)
(* time, each packet that reaches the queue is a packet the mouse sent,    *)
(* and packets arrive in the order they were sent.                         *)
QuietStartKeepsPackets ==
  ~lines0 /\ prompt =>
    /\ \A k \in DOMAIN queue.pushed : Aligned(queue.pushed[k])
    /\ \A j, k \in DOMAIN queue.pushed :
         j < k => queue.pushed[j][1].n < queue.pushed[k][1].n

(* The types of the state.                                                 *)
Bytes == [kind : Kinds, n : Nat]
Polling == {"enable_aux", "flush", "config_cmd", "config_wait", "config_read",
            "config_back", "config_data", "mouse_cmd", "mouse_data", "ack_wait",
            "ack_read", "retry"}
Commands == {"A8", "20", "60", "kept", "junk", "D4", "F4"}
Controllers ==
  [input : {<<>>} \cup {<<c>> : c \in Commands}, next : {"none", "config", "mouse"},
   aux : BOOLEAN, full : BOOLEAN, data : Bytes, kbd_irq : BOOLEAN,
   aux_irq : BOOLEAN, others : {"kept", "junk"}]

TypeOK ==
  /\ pc \in Polling \cup {"started", "spawn", "run"} /\ attempt \in 1 .. Retries
  /\ want \in {"kept", "junk"} /\ success \in BOOLEAN
  /\ drv \in [state : 0 .. 2, buf : Seq(Bytes)] /\ Len(drv.buf) = drv.state
  /\ queue \in [ready : BOOLEAN, pushed : Seq(Seq(Bytes))]
  /\ kbc \in Controllers
  /\ mouse \in [out : Seq(Bytes), reporting : BOOLEAN, moves : 0 .. MaxMoves]
  /\ pending \subseteq {1, 12} /\ line \in [{1, 12} -> BOOLEAN]
  /\ lines0 \in BOOLEAN /\ prompt \in BOOLEAN

(* The inductive invariant behind SuccessMeansReporting and ConfigKept: a  *)
(* byte that start() may take for an answer is one, because the leftover   *)
(* of the keyboard is gone before the first wait, and the mouse is silent  *)
(* until it gets 0xF4.                                                     *)
Leftover(b) == b.kind = "scancode"
Telling(b) == b.kind \in {"ack", "header", "x", "y"}

AnswerInv ==
  /\ success => mouse.reporting
  /\ Telling(kbc.data) => mouse.reporting
  /\ \A k \in DOMAIN mouse.out :
       /\ mouse.out[k].kind \notin {"scancode", "config"}
       /\ Telling(mouse.out[k]) => mouse.reporting
  /\ kbc.full /\ pc \notin {"enable_aux", "flush"} => ~Leftover(kbc.data)
  /\ pc \in {"config_read", "ack_read"} => ~Leftover(kbc.data)
  /\ pc \in {"enable_aux", "flush", "config_cmd", "config_wait", "config_read",
             "config_back", "config_data"} =>
       /\ mouse.out = <<>> /\ ~mouse.reporting
       /\ kbc.data.kind \in {"scancode", "config"} /\ kbc.input # <<"F4">>
  /\ want = "kept" /\ kbc.input # <<"junk">> /\ kbc.others = "kept"

(* What the mouse sends from the 0xF4 it accepts on: the acknowledgement,  *)
(* then its packets.                                                       *)
StreamByte(j) ==
  IF j = 0 THEN Byte("ack", 0)
  ELSE Byte(<<"header", "x", "y">>[((j - 1) % 3) + 1], (j - 1) \div 3)

Packet(n) == <<Byte("header", n), Byte("x", n), Byte("y", n)>>

(* How many bytes of the stream have been read from the data port.         *)
InPort == IF kbc.full THEN 1 ELSE 0
Consumed == (3 * mouse.moves + 1) - (Len(mouse.out) + InPort)

(* A mouse that does not report yet: one answer at a time is on its way.   *)
SilentInv ==
  /\ mouse.moves = 0 /\ queue.pushed = <<>> /\ drv.state = 0 /\ pending = {}
  /\ pc \notin {"ack_wait", "ack_read"} => mouse.out = <<>> /\ kbc.input # <<"F4">>
  /\ pc = "config_wait" => \/ kbc.input = <<"20">> /\ ~kbc.full
                           \/ kbc.input = <<>> /\ kbc.full
  /\ pc = "config_read" => kbc.input = <<>> /\ kbc.full
  /\ pc \notin {"enable_aux", "flush", "config_wait", "config_read", "ack_wait",
                "ack_read"} => ~kbc.full
  /\ pc # "config_wait" => kbc.input # <<"20">>
  /\ pc = "ack_wait" =>
       \/ kbc.input = <<"F4">> /\ ~kbc.full /\ mouse.out = <<>>
       \/ /\ kbc.input = <<>> /\ kbc.full /\ mouse.out = <<>>
          /\ kbc.data = Byte("resend", 0)
       \/ kbc.input = <<>> /\ ~kbc.full /\ mouse.out = <<Byte("resend", 0)>>
  /\ pc = "ack_read" => /\ kbc.input = <<>> /\ kbc.full /\ mouse.out = <<>>
                        /\ kbc.data = Byte("resend", 0)
  /\ pc \in {"retry", "started", "spawn", "run"} => kbc.input = <<>>

(* A mouse that reports: what is in the driver's buffer, at the port and   *)
(* still with the mouse are consecutive parts of the stream, and start()   *)
(* read the acknowledgement and nothing else of it.                        *)
StreamInv ==
  /\ pc \in {"ack_wait", "ack_read", "started", "spawn", "run"}
  /\ pc = "ack_read" => kbc.full
  /\ kbc.input = <<>>
  /\ Consumed \in Nat
  /\ Consumed = 0 <=> pc \in {"ack_wait", "ack_read"}
  /\ \A k \in DOMAIN mouse.out : mouse.out[k] = StreamByte(Consumed + InPort + k - 1)
  /\ kbc.full => kbc.data = StreamByte(Consumed)
  /\ Consumed = 0 => drv.state = 0 /\ queue.pushed = <<>>
  /\ Consumed > 0 =>
       /\ drv.state = (Consumed - 1) % 3
       /\ \A k \in 1 .. drv.state : drv.buf[k] = StreamByte(Consumed - drv.state + k - 1)
  /\ \A k \in DOMAIN queue.pushed :
       \E n \in 0 .. mouse.moves : 3 * n + 4 <= Consumed /\ queue.pushed[k] = Packet(n)
  /\ \A j, k \in DOMAIN queue.pushed :
       j < k => queue.pushed[j][1].n < queue.pushed[k][1].n

(* The inductive invariant behind QuietStartKeepsPackets.                  *)
QuietInv ==
  ~lines0 /\ prompt =>
    /\ ~line[1] /\ (line[12] => pc \in {"spawn", "run"})
    /\ pending \subseteq {12}
    /\ pending # {} => kbc.full /\ pc \in {"spawn", "run"}
    /\ pc # "enable_aux" => kbc.aux \/ kbc.input = <<"A8">>
    /\ ~mouse.reporting => SilentInv
    /\ mouse.reporting => StreamInv

(* If the lines were open from the beginning and answers come in time, no  *)
(* byte blocks the data port for good once mouse interrupts are enabled.   *)
PortDrains == (lines0 /\ prompt /\ kbc.full /\ kbc.aux_irq) ~> ~kbc.full

(* What the driver's comments say it does, "collect 3-byte PS/2 packets"   *)
(* with states "0 = expect header, 1 = X, 2 = Y", however start() went.    *)
PacketsAligned == \A k \in DOMAIN queue.pushed : Aligned(queue.pushed[k])

=============================================================================
