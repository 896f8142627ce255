------------------------------- MODULE HostLink --------------------------------
(***************************************************************************)
(* The PC program's end of the serial port, MainFrm.pas: the GUI thread    *)
(* asks (SendBlk, ReadBlk and the handlers that call them), the port       *)
(* thread runs QueryPort, and the two share buftx, lentx, errtx, wait_id,  *)
(* wait_cnt, bufrx, lenrx and purge_com without any synchronisation.       *)
(* Beyond the port is the device: it answers commands in order, and sends  *)
(* data frames between the answers while started.                          *)
(*                                                                         *)
(* A packet is two units, its head (length byte and command) and the rest; *)
(* ReadFile may return a stream of them cut at any unit.  A time-out is a  *)
(* step that may always be taken: answers may be arbitrarily late.         *)
(***************************************************************************)
EXTENDS Integers, Sequences

CONSTANTS
  CHUNK,       \* units one ReadFile returns at most
  BUFCOM,      \* units bufcom has room for
  LIMIT,       \* 3, foreign packets + 1 after which QueryPort gives up
  BUFRX,       \* 64, bytes bufrx has room for
  LENGTHS,     \* lengths, up to MAX_BLK_CNT, that a misread packet begins with
  COMMANDS,    \* bound: commands the GUI asks
  FRAMES       \* bound: data frames the device sends

ASSUME LinkAssumption ==
  /\ {CHUNK, BUFCOM, LIMIT} \subseteq Nat \ {0} /\ CHUNK <= BUFCOM
  /\ BUFRX \in Nat /\ BUFRX >= 8 /\ LENGTHS \subseteq Nat
  /\ COMMANDS \in Nat /\ FRAMES \in Nat

VARIABLES
  wire,        \* commands on their way to the device
  port,        \* units on their way to the PC, or in its driver
  streaming,   \* the device is started
  frames,      \* data frames sent so far
  purge_com, buftx, lentx, errtx, wait_id, wait_cnt, bufrx, lenrx,
  work_adc, SamplesEna,
  gui,         \* where the GUI thread is
  asked,       \* number of the command it is at
  thr,         \* where QueryPort is
  written,     \* local of QueryPort: ByteWrited
  bufcom,      \* bufcom up to ByteReaded
  idx_bufcom,
  due,         \* ghost: the frame to be stored next, 0 for any
  mishaps,     \* ghost: what happened, see below
  gap          \* ghost: samples were stored that do not go on

device == <<wire, port, streaming, frames>>
txvars == <<buftx, lentx, errtx>>
rxvars == <<wait_id, wait_cnt, bufrx, lenrx>>
flags  == <<purge_com, work_adc, SamplesEna>>
input  == <<bufcom, idx_bufcom>>
ghosts == <<due, mishaps, gap>>
vars   == <<device, txvars, rxvars, flags, gui, asked, thr, written, input, ghosts>>

(* late: the GUI gave up waiting for an answer, or for the port thread;    *)
(* purged: PurgeComm dropped an answer that had come;                      *)
(* short: ReadFile returned bytes that completed no packet, and QueryPort  *)
(* forgot them;                                                            *)
(* cut: PurgeComm, a failed ReadFile or a full bufcom dropped a packet in  *)
(* part, or might have;                                                    *)
(* overrun: a misread answer was moved into bufrx, which it does not fit.  *)
Mishaps == {"late", "purged", "short", "cut", "overrun"}

(* What the handlers ask, with the command's number and size: ReadStatus,  *)
(* SetAdcIniCfg(1), and StopReadDevice (3) or SetAdcIniCfg(0) (8).         *)
Kinds      == {"status", "start", "stop"}
Id(kind)   == IF kind = "status" THEN "STA" ELSE "CAD"
Sizes(kind) == CASE kind = "status" -> {2} [] kind = "start" -> {8} [] kind = "stop" -> {3, 8}

Command(no, kind) == [no |-> no, kind |-> kind]
Reply(c) == [no |-> c.no, id |-> Id(c.kind)]
Frame(n) == [no |-> n, id |-> "ADC"]
Nothing  == [no |-> 0, id |-> "none"]

(* The payload: 8 bytes of status, 6 of settings; and what is asked of it. *)
LenOf(packet)   == CASE packet.id = "STA" -> 8 [] packet.id = "CAD" -> 6 [] OTHER -> 0
LenOk(kind, n)  == IF kind = "status" THEN n = 8 ELSE n >= 6

Units(packet) == <<[of |-> packet, part |-> 1], [of |-> packet, part |-> 2]>>

(* A whole packet is at the front of the stream s. *)
Whole(s)  == Len(s) >= 2 /\ s[1].part = 1 /\ s[2] = [s[1] EXCEPT !.part = 2]

(* The front of s is no packet's: the rest of one, or a head with another  *)
(* packet's bytes behind it.                                               *)
Broken(s) == \/ Len(s) >= 1 /\ s[1].part = 2
             \/ Len(s) >= 2 /\ ~ Whole(s)

HasReply(s) == \E i \in 1 .. Len(s) : s[i].of.id # "ADC"

Drop(s, n) == SubSeq(s, n + 1, Len(s))

-------------------------------------------------------------------------------
(* The port is open, the device found and stopped. *)
Init ==
  /\ wire = << >> /\ port = << >> /\ streaming = FALSE /\ frames = 0
  /\ purge_com = FALSE /\ buftx = Command(0, "status") /\ lentx = 0 /\ errtx = 0
  /\ wait_id = [id |-> "none", err |-> FALSE] /\ wait_cnt = 0
  /\ bufrx = Nothing /\ lenrx = 0
  /\ work_adc = FALSE /\ SamplesEna = FALSE
  /\ gui = "idle" /\ asked = 0
  /\ thr = "top" /\ written = 0 /\ bufcom = << >> /\ idx_bufcom = 0
  /\ due = 0 /\ mishaps = {} /\ gap = FALSE

-------------------------------------------------------------------------------
(* The device obeys a command and answers it. *)
DeviceAnswers ==
  /\ wire # << >>
  /\ wire' = Tail(wire)
  /\ port' = port \o Units(Reply(Head(wire)))
  /\ streaming' = CASE Head(wire).kind = "start" -> TRUE
                    [] Head(wire).kind = "stop"  -> FALSE
                    [] OTHER -> streaming
  /\ UNCHANGED <<frames, txvars, rxvars, flags, gui, asked, thr, written, input, ghosts>>

DeviceFrame ==
  /\ streaming /\ frames < FRAMES
  /\ frames' = frames + 1
  /\ port' = port \o Units(Frame(frames + 1))
  /\ UNCHANGED <<wire, streaming, txvars, rxvars, flags, gui, asked, thr, written,
                 input, ghosts>>

-------------------------------------------------------------------------------
(* A handler of the GUI begins with a command; ena: whether samples are    *)
(* still to be stored, purge: whether the port is purged first.            *)
Ask(kind, ena, purge) ==
  /\ gui = "idle" /\ asked < COMMANDS
  /\ buftx' = Command(asked + 1, kind)
  /\ SamplesEna' = ena /\ purge_com' = (purge_com \/ purge)
  /\ asked' = asked + 1
  /\ gui' = "enter"
  /\ UNCHANGED <<device, lentx, errtx, rxvars, work_adc, thr, written, input, ghosts>>

ButtonStartADC == Ask("start", FALSE, TRUE)

(* The status is asked first; storing has stopped before. *)
ButtonStop == Ask("status", FALSE, FALSE) \/ Ask("stop", FALSE, FALSE)

(* StopReadDevice, which the timer also begins when the device reports an  *)
(* error.                                                                  *)
StopReadDevice == Ask("stop", TRUE, TRUE)

(* AddCrfSamples: samples are stored until the device has obeyed. *)
EndOfChart == SamplesEna /\ (Ask("status", TRUE, FALSE) \/ StopReadDevice)

(* ButtonClrGrf: the chart is emptied and the port purged.                 *)
ClearChart ==
  /\ gui = "idle"
  /\ purge_com' = TRUE /\ due' = 0
  /\ UNCHANGED <<device, txvars, rxvars, work_adc, SamplesEna, gui, asked, thr,
                 written, input, mishaps, gap>>

(* SendBlk: wait until nothing is left to be sent, set wait_id, ...        *)
SetWaitId ==
  /\ gui = "enter" /\ lentx = 0
  /\ wait_id' = [id |-> Id(buftx.kind), err |-> FALSE]
  /\ gui' = "armed"
  /\ UNCHANGED <<device, txvars, wait_cnt, bufrx, lenrx, flags, asked, thr, written,
                 input, ghosts>>

(* ... wait_cnt, ... *)
SetWaitCnt ==
  /\ gui = "armed"
  /\ wait_cnt' = 1
  /\ gui' = "ready"
  /\ UNCHANGED <<device, txvars, wait_id, bufrx, lenrx, flags, asked, thr, written,
                 input, ghosts>>

(* ... and lentx, which has the port thread send; ... *)
SetLenTx ==
  /\ gui = "ready"
  /\ lentx' \in Sizes(buftx.kind)
  /\ gui' = "sending"
  /\ UNCHANGED <<device, buftx, errtx, rxvars, flags, asked, thr, written, input, ghosts>>

(* ... and wait for that. *)
Sent ==
  /\ gui = "sending" /\ lentx = 0
  /\ gui' = IF errtx = 0 THEN "waiting" ELSE "idle"
  /\ UNCHANGED <<device, txvars, rxvars, flags, asked, thr, written, input, ghosts>>

SendTimeout ==
  /\ gui \in {"enter", "sending"}
  /\ gui = "enter" => lentx # 0
  /\ lentx' = 0
  /\ gui' = "idle"
  /\ mishaps' = mishaps \cup {"late"}
  /\ UNCHANGED <<device, buftx, errtx, rxvars, flags, asked, thr, written, input, due, gap>>

(* seeded fault: the wait is over before the answer has come. *)
AnsweredSoon == wait_cnt <= 1

(* ReadBlk waits for this. *)
Answered == wait_cnt = 0

ReadBlk ==
  /\ gui = "waiting" /\ Answered
  /\ gui' = IF wait_id.err \/ ~ LenOk(buftx.kind, lenrx) THEN "idle" ELSE "accept"
  /\ UNCHANGED <<device, txvars, rxvars, flags, asked, thr, written, input, ghosts>>

ReadTimeout ==
  /\ gui = "waiting"
  /\ wait_cnt' = 0
  /\ gui' = "idle"
  /\ mishaps' = mishaps \cup {"late"}
  /\ UNCHANGED <<device, txvars, wait_id, bufrx, lenrx, flags, asked, thr, written,
                 input, due, gap>>

(* seeded fault: the program forgets that frames may come from now on. *)
AcceptedOnly ==
  /\ gui = "accept" /\ gui' = "idle"
  /\ UNCHANGED <<device, txvars, rxvars, flags, asked, thr, written, input, ghosts>>

(* The handler goes on after an answer. *)
Accepted ==
  /\ gui = "accept"
  /\ gui' = "idle"
  /\ work_adc' = (work_adc \/ buftx.kind = "start")
  /\ SamplesEna' = CASE buftx.kind = "start" -> TRUE
                     [] buftx.kind = "stop"  -> FALSE
                     [] OTHER -> SamplesEna
  /\ purge_com' = (purge_com \/ buftx.kind = "stop")
  /\ due' = IF buftx.kind = "start" THEN 0 ELSE due
  /\ UNCHANGED <<device, txvars, rxvars, asked, thr, written, input, mishaps, gap>>

Gui ==
  \/ ButtonStartADC \/ ButtonStop \/ EndOfChart \/ ClearChart \/ SetWaitId \/ SetWaitCnt \/ SetLenTx \/ Sent \/ SendTimeout
  \/ ReadBlk \/ ReadTimeout \/ Accepted

-------------------------------------------------------------------------------
(* QueryPort: PurgeComm drops what has arrived, which may be any part of   *)
(* what is on its way.                                                     *)
Purge ==
  /\ thr = "top"
  /\ \/ /\ purge_com
        /\ purge_com' = FALSE
        /\ \E n \in 0 .. Len(port) :
             /\ port' = Drop(port, n)
             /\ mishaps' = mishaps \cup (IF Broken(port') THEN {"cut"} ELSE {})
                                   \cup (IF HasReply(SubSeq(port, 1, n)) THEN {"purged"} ELSE {})
        /\ bufcom' = << >> /\ idx_bufcom' = 0
        /\ due' = 0
     \/ ~ purge_com /\ UNCHANGED <<purge_com, port, input, mishaps, due>>
  /\ thr' = "write"
  /\ UNCHANGED <<wire, streaming, frames, txvars, rxvars, work_adc, SamplesEna, gui,
                 asked, written, gap>>

CheckTx ==
  /\ thr = "write"
  /\ thr' = IF lentx # 0 THEN "writefile" ELSE "read"
  /\ UNCHANGED <<device, txvars, rxvars, flags, gui, asked, written, input, ghosts>>

(* WriteFile sends what buftx and lentx now are, or fails. *)
WriteFile ==
  /\ thr = "writefile"
  /\ \/ lentx # 0 /\ wire' = Append(wire, buftx) /\ written' = lentx
     \/ written' = 0 /\ UNCHANGED wire
  /\ thr' = "written"
  /\ UNCHANGED <<port, streaming, frames, txvars, rxvars, flags, gui, asked, input, ghosts>>

(* errtx: 1 from a failed WriteFile, 2 from a short one; the GUI only asks *)
(* whether it is 0.                                                        *)
Written ==
  /\ thr = "written"
  /\ errtx' = IF written # 0 /\ lentx = written THEN 0 ELSE 1
  /\ lentx' = 0
  /\ thr' = "read" /\ written' = 0
  /\ UNCHANGED <<device, buftx, rxvars, flags, gui, asked, input, ghosts>>

(* ReadFile returns as much as has come within its time-out; the new bytes *)
(* are put behind the idx_bufcom old ones, or in their place if they do    *)
(* not fit.                                                                *)
ReadFile ==
  /\ thr = "read"
  /\ \E n \in 1 .. CHUNK :
       LET old == IF n + idx_bufcom > BUFCOM THEN << >> ELSE bufcom IN
         /\ n <= Len(port)
         /\ bufcom' = old \o SubSeq(port, 1, n) /\ idx_bufcom' = Len(old)
         /\ port' = Drop(port, n)
         /\ mishaps' = mishaps \cup IF old = bufcom THEN {} ELSE {"cut"}
  /\ thr' = "packets"
  /\ UNCHANGED <<wire, streaming, frames, txvars, rxvars, flags, gui, asked, written,
                 due, gap>>

ReadNothing ==
  /\ thr = "read"
  /\ thr' = "top"
  /\ UNCHANGED <<device, txvars, rxvars, flags, gui, asked, written, input, ghosts>>

(* An error of the port: what was buffered is forgotten. *)
ReadFails ==
  /\ thr = "read"
  /\ bufcom' = << >> /\ idx_bufcom' = 0
  /\ mishaps' = mishaps \cup IF bufcom = << >> THEN {} ELSE {"cut"}
  /\ thr' = "top"
  /\ UNCHANGED <<device, txvars, rxvars, flags, gui, asked, written, due, gap>>

(* seeded fault: a packet taken off the buffer takes the rest with it. *)
ConsumeAll == bufcom' = << >> /\ idx_bufcom' = 0

(* The packet is taken off the front, and idx_bufcom set. *)
Consume == bufcom' = Drop(bufcom, 2) /\ idx_bufcom' = Len(bufcom) - 2

(* QueryPort returns: idx_bufcom is what it was after the last packet      *)
(* taken off, so bytes read since are not kept.                            *)
Return ==
  /\ bufcom' = SubSeq(bufcom, 1, idx_bufcom)
  /\ mishaps' = mishaps \cup IF Len(bufcom) > idx_bufcom THEN {"short"} ELSE {}
  /\ thr' = "top"
  /\ UNCHANGED idx_bufcom

NoMorePackets ==
  /\ thr = "packets" /\ ~ Whole(bufcom) /\ ~ Broken(bufcom)
  /\ Return
  /\ UNCHANGED <<device, txvars, rxvars, flags, gui, asked, written, due, gap>>

(* A frame of samples, for the chart if they are wanted. *)
IsSamples(packet) == work_adc /\ packet.id = "ADC"

(* seeded fault: no samples are stored while an answer is awaited. *)
StoredIdle == SamplesEna /\ wait_cnt = 0

Stored == SamplesEna

TakeFrame ==
  /\ thr = "packets" /\ Whole(bufcom) /\ IsSamples(bufcom[1].of)
  /\ LET n == bufcom[1].of.no IN
       \/ Stored   /\ due' = n + 1 /\ gap' = (gap \/ due \notin {0, n})
       \/ ~ Stored /\ UNCHANGED <<due, gap>>
  /\ Consume
  /\ UNCHANGED <<device, txvars, rxvars, flags, gui, asked, thr, written, mishaps>>

(* Another packet: skipped unless an answer is awaited. *)
Skip ==
  /\ thr = "packets" /\ Whole(bufcom) /\ ~ IsSamples(bufcom[1].of)
  /\ \/ wait_cnt = 0 /\ Consume /\ UNCHANGED thr
     \/ wait_cnt > 0 /\ thr' = "compare" /\ UNCHANGED input
  /\ UNCHANGED <<device, txvars, rxvars, flags, gui, asked, written, ghosts>>

Matches == bufcom[1].of.id = wait_id.id /\ ~ wait_id.err

Compare ==
  /\ thr = "compare"
  /\ thr' = IF Matches THEN "answer" ELSE "foreign"
  /\ UNCHANGED <<device, txvars, rxvars, flags, gui, asked, written, input, ghosts>>

Answer ==
  /\ thr = "answer"
  /\ bufrx' = bufcom[1].of /\ lenrx' = LenOf(bufcom[1].of)
  /\ thr' = "clear"
  /\ UNCHANGED <<device, txvars, wait_id, wait_cnt, flags, gui, asked, written, input, ghosts>>

Clear ==
  /\ thr = "clear"
  /\ wait_cnt' = 0
  /\ Consume
  /\ thr' = "packets"
  /\ UNCHANGED <<device, txvars, wait_id, bufrx, lenrx, flags, gui, asked, written, ghosts>>

(* seeded fault: foreign packets are counted and that is all. *)
ForeignOnly ==
  /\ thr = "foreign"
  /\ wait_cnt' = wait_cnt + 1
  /\ Consume /\ thr' = "packets"
  /\ UNCHANGED <<device, txvars, wait_id, bufrx, lenrx, flags, gui, asked, written, ghosts>>

(* A foreign packet while an answer is awaited; with the third one the     *)
(* answer is given up, and QueryPort left with the packet in the buffer.   *)
Foreign ==
  /\ thr = "foreign"
  /\ \/ /\ wait_cnt + 1 <= LIMIT
        /\ wait_cnt' = wait_cnt + 1
        /\ Consume /\ thr' = "packets"
        /\ UNCHANGED lenrx
     \/ /\ wait_cnt + 1 > LIMIT
        /\ wait_cnt' = 0 /\ lenrx' = 0
        /\ thr' = "giveup"
        /\ UNCHANGED input
  /\ UNCHANGED <<device, txvars, wait_id, bufrx, flags, gui, asked, written, ghosts>>

GiveUp ==
  /\ thr = "giveup"
  /\ wait_id' = [wait_id EXCEPT !.err = TRUE]
  /\ Return
  /\ UNCHANGED <<device, txvars, wait_cnt, bufrx, lenrx, flags, gui, asked, written, due, gap>>

(* The answer awaited, as far as the bytes tell: of any length, its error  *)
(* bit set or not; it is moved into bufrx whatever its length.             *)
GarbledAnswer ==
  /\ wait_cnt > 0 /\ ~ wait_id.err
  /\ \E error \in BOOLEAN : wait_id' = [wait_id EXCEPT !.err = error]
  /\ bufrx' = Nothing /\ lenrx' \in LENGTHS
  /\ wait_cnt' = 0
  /\ mishaps' = mishaps \cup IF lenrx' > BUFRX THEN {"overrun"} ELSE {}
  /\ UNCHANGED gap

GarbledForeign ==
  /\ wait_cnt > 0 /\ wait_cnt + 1 <= LIMIT
  /\ wait_cnt' = wait_cnt + 1
  /\ UNCHANGED <<wait_id, bufrx, lenrx, mishaps, gap>>

(* Samples that are none, or a packet that nothing waits for. *)
GarbledOther ==
  /\ \/ work_adc /\ gap' \in {gap, gap \/ SamplesEna}
     \/ wait_cnt = 0 /\ UNCHANGED gap
  /\ UNCHANGED <<rxvars, mishaps>>

(* What is at the front is taken for a packet, of any length and any kind: *)
(* a length beyond MAX_BLK_CNT, more than there is, the third foreign      *)
(* packet, or one to be taken off.                                         *)
Garbled ==
  /\ thr = "packets" /\ Broken(bufcom)
  /\ \/ ConsumeAll /\ thr' = "top" /\ UNCHANGED <<rxvars, mishaps, gap>>
     \/ Return /\ UNCHANGED <<rxvars, gap>>
     \/ /\ wait_cnt > 0 /\ wait_cnt + 1 > LIMIT
        /\ wait_cnt' = 0 /\ lenrx' = 0
        /\ thr' = "giveup"
        /\ UNCHANGED <<wait_id, bufrx, input, mishaps, gap>>
     \/ \E n \in 1 .. Len(bufcom) :
          /\ bufcom' = Drop(bufcom, n) /\ idx_bufcom' = Len(bufcom) - n
          /\ GarbledAnswer \/ GarbledForeign \/ GarbledOther
          /\ UNCHANGED thr
  /\ UNCHANGED <<device, txvars, flags, gui, asked, written, due>>

QueryPort ==
  \/ Purge \/ CheckTx \/ WriteFile \/ Written \/ ReadFile \/ ReadNothing \/ ReadFails
  \/ NoMorePackets \/ TakeFrame \/ Skip \/ Compare \/ Answer \/ Clear \/ Foreign
  \/ GiveUp \/ Garbled

(* bufrx overrun: lenrx, wait_id, wait_cnt and bufcom lie behind it, and   *)
(* what the program does with them from here on is not modelled.           *)
Defined   == "overrun" \notin mishaps
Undefined == ~ Defined /\ UNCHANGED vars

Next == (Defined /\ (DeviceAnswers \/ DeviceFrame \/ Gui \/ QueryPort)) \/ Undefined

Spec == Init /\ [][Next]_vars

-------------------------------------------------------------------------------
(* Types, and what QueryPort relies on: idx_bufcom never points beyond the *)
(* bytes there are, wait_cnt stays within its limit and lenrx within       *)
(* bufrx.  Once a misread answer has overrun bufrx (the move into it       *)
(* checks no length) nothing of this is claimed.                           *)
TypeOK ==
  /\ mishaps \subseteq Mishaps
  /\ Defined =>
       /\ Len(wire) <= COMMANDS /\ frames \in 0 .. FRAMES
       /\ lentx \in {0} \cup UNION {Sizes(k) : k \in Kinds} /\ errtx \in {0, 1}
       /\ wait_id.id \in {"none"} \cup {Id(k) : k \in Kinds} /\ wait_id.err \in BOOLEAN
       /\ wait_cnt \in 0 .. LIMIT /\ lenrx \in 0 .. BUFRX
       /\ gui \in {"idle", "enter", "armed", "ready", "sending", "waiting", "accept"}
       /\ thr \in {"top", "write", "writefile", "written", "read", "packets", "compare",
                   "answer", "clear", "foreign", "giveup"}
       /\ idx_bufcom \in 0 .. Len(bufcom) /\ Len(bufcom) <= BUFCOM
       /\ thr \in {"top", "write", "read"} => idx_bufcom = Len(bufcom)

Misread == mishaps \cap {"short", "cut"} # {}

(* The port thread sees packets where the device began them: what is       *)
(* buffered and what is still to come never gets out of step, unless a     *)
(* packet was dropped in part.                                             *)
FramingKept == Broken(bufcom) => Misread

(* "buffer the input" (QueryPort): packets that come in pieces are put     *)
(* together, so that only a purge can cut one.  It is not so: idx_bufcom   *)
(* is only advanced after a whole packet.                                  *)
InputIsBuffered == "short" \notin mishaps

(* An answer accepted is the device's answer to the command just asked,    *)
(* unless an earlier one had been given up or purged, or a packet was lost *)
(* in part.                                                                *)
AnswerIsOurs == gui = "accept" /\ bufrx.no # asked => mishaps # {}

(* The samples stored follow each other, across whatever is asked in the   *)
(* meantime, from the first after a start or a purge.                      *)
SamplesGoOn == gap => Misread

(* QueryPort only gives an answer up for foreign packets when an earlier   *)
(* answer was late or purged: else the frames it would count are known for *)
(* samples.                                                                *)
GivenUpOnlyAfterMishap == wait_id.err => mishaps # {}
================================================================================
