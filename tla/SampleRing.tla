------------------------------ MODULE SampleRing --------------------------------
(***************************************************************************)
(* The ring of samples in the PC program, MainFrm.pas: the port thread     *)
(* stores frames (QueryPort), the timer of the GUI thread charts them      *)
(* (TimerTimer, AddCrfSamples), and buttons, the end of the chart and the  *)
(* port thread's own purge set the two indices back, without any           *)
(* synchronisation.  How a command is asked and answered is in HostLink;   *)
(* here it is a hand-over with the port thread, and may fail at any time.  *)
(*                                                                         *)
(* Samples are numbered as they are stored; with two channels, the odd     *)
(* ones are currents and the even ones voltages.  When the port thread is  *)
(* out of step with the packets (HostLink) it may take other bytes for a   *)
(* frame, of any length: such samples have no number, 0.                   *)
(***************************************************************************)
EXTENDS Integers

CONSTANTS
  SIZE,        \* SMP_BUF_CNT + 1
  FRAME,       \* samples in a frame of the device
  MISREAD,     \* numbers of samples that misread packets are taken to hold
  WIDTH,       \* samples a point of the chart takes: CHART_UI_MASK, 2
  MAXSAMPLES,  \* points of the chart
  TOTAL        \* bound: samples ever stored, FRAME for a misread packet

ASSUME RingAssumption ==
  /\ {SIZE, FRAME, WIDTH, MAXSAMPLES} \subseteq Nat \ {0} /\ TOTAL \in Nat
  /\ SIZE % 2 = 0 /\ FRAME < SIZE
  /\ MISREAD \subseteq 0 .. SIZE - 1

VARIABLES
  bufsmp, ismprx, ismptx,
  purge_com, SamplesEna, SamplesAutoStop,
  ask,      \* the command of the GUI: none, asked, sent, answered
  thr,      \* where QueryPort is
  itx,      \* its local index
  left,     \* samples of the frame still to be stored
  noise,    \* the frame is none of the device's
  gui,      \* where the GUI thread is
  irx, end, \* irx and itx of AddCrfSamples
  task,     \* the handler that asks or clears, and tmp1 of ButtonClrGrf
  shown,    \* SamplesCount
  stored,   \* ghost: samples stored so far
  charted,  \* ghost: [last: charted last, next: to come next, 0 for any, wrong]
  overrun,  \* ghost: the GUI was a whole ring behind
  raced,    \* ghost: an index was set back under the other thread's hands
  misreads, \* ghost: misread packets stored so far
  odd       \* ghost: one of them was of an odd number of samples

ring   == <<bufsmp, ismprx, ismptx>>
flags  == <<purge_com, SamplesEna, SamplesAutoStop>>
thread == <<thr, itx, left, noise>>
local  == <<irx, end, task>>
misread == <<misreads, odd>>
ghosts == <<stored, charted, overrun, raced, misread>>
vars   == <<ring, flags, ask, thread, gui, local, shown, ghosts>>

Init ==
  /\ bufsmp = [i \in 0 .. SIZE - 1 |-> 0] /\ ismprx = 0 /\ ismptx = 0
  /\ purge_com = FALSE /\ SamplesEna = FALSE /\ SamplesAutoStop = FALSE
  /\ ask = "none"
  /\ thr = "top" /\ itx = 0 /\ left = 0 /\ noise = FALSE
  /\ gui = "idle" /\ irx = 0 /\ end = 0 /\ task = [name |-> "none", ena |-> FALSE]
  /\ shown = 0
  /\ stored = 0 /\ charted = [last |-> 0, next |-> 0, wrong |-> FALSE]
  /\ overrun = FALSE /\ raced = FALSE /\ misreads = 0 /\ odd = FALSE

(* Whatever was stored before and not charted is not to come any more. *)
Restart == charted' = [charted EXCEPT !.next = 0]

-------------------------------------------------------------------------------
(* AddCrfSamples is under way, and the chart not yet full. *)
AddingSamples == gui \in {"load", "chart", "publish"} /\ shown < MAXSAMPLES

(* QueryPort: the purge, ... *)
CheckPurge ==
  /\ thr = "top"
  /\ thr' = IF purge_com THEN "purge" ELSE "write"
  /\ purge_com' = FALSE
  /\ UNCHANGED <<ring, SamplesEna, SamplesAutoStop, ask, itx, left, noise, gui, local, shown, ghosts>>

PurgeTx ==
  /\ thr = "purge"
  /\ ismptx' = 0 /\ thr' = "purge rx"
  /\ Restart /\ raced' = (raced \/ AddingSamples)
  /\ UNCHANGED <<bufsmp, ismprx, flags, ask, itx, left, noise, gui, local, shown, stored, overrun, misread>>

PurgeRx ==
  /\ thr = "purge rx"
  /\ ismprx' = 0 /\ thr' = "write"
  /\ raced' = (raced \/ AddingSamples)
  /\ UNCHANGED <<bufsmp, ismptx, flags, ask, itx, left, noise, gui, local, shown, stored,
                 charted, overrun, misread>>

(* ... the command to be sent, ... *)
Send ==
  /\ thr = "write"
  /\ ask' = IF ask = "asked" THEN "sent" ELSE ask
  /\ thr' = "packets"
  /\ UNCHANGED <<ring, flags, itx, left, noise, gui, local, shown, ghosts>>

(* ... and what has come: the answer, ... *)
TakeAnswer ==
  /\ thr = "packets" /\ ask = "sent"
  /\ ask' = "answered"
  /\ UNCHANGED <<ring, flags, thread, gui, local, shown, ghosts>>

(* seeded fault: the count of samples is off by one. *)
SamplesShort == FRAME - 1
Samples == FRAME

(* seeded fault: the mask that is used everywhere else. *)
BeginAnywhere(i) == i

(* Where a frame begins: this mask clears the lowest bit, not what is over *)
(* the end of the ring.                                                    *)
Begin(i) == (i \div 2) * 2

RoomForMore == stored + FRAME * (misreads + 1) <= TOTAL

(* ... or a frame, ...                                                     *)
StartFrame ==
  /\ thr = "packets" /\ SamplesEna /\ RoomForMore
  /\ itx' = Begin(ismptx) /\ left' = Samples /\ noise' = FALSE
  /\ thr' = "frame"
  /\ UNCHANGED <<ring, flags, ask, gui, local, shown, ghosts>>

(* ... or what is taken for one: its length is not looked at.              *)
StartMisread ==
  /\ thr = "packets" /\ SamplesEna /\ RoomForMore
  /\ itx' = Begin(ismptx) /\ left' \in MISREAD /\ noise' = TRUE
  /\ thr' = "frame"
  /\ misreads' = misreads + 1 /\ odd' = (odd \/ left' % 2 = 1)
  /\ UNCHANGED <<ring, flags, ask, gui, local, shown, stored, charted, overrun, raced>>

(* seeded fault: the mask is one short of the ring. *)
AfterOver(i) == (i + 1) % (SIZE + 1)
After(i) == (i + 1) % SIZE

StoreSample ==
  /\ thr = "frame" /\ left > 0
  /\ \/ noise   /\ bufsmp' = [bufsmp EXCEPT ![itx] = 0] /\ UNCHANGED stored
     \/ ~ noise /\ bufsmp' = [bufsmp EXCEPT ![itx] = stored + 1] /\ stored' = stored + 1
  /\ itx' = After(itx) /\ left' = left - 1
  /\ overrun' = (overrun \/ After(itx) = ismprx)
  /\ UNCHANGED <<ismprx, ismptx, flags, ask, thr, noise, gui, local, shown, charted, raced,
                 misread>>

PublishTx ==
  /\ thr = "frame" /\ left = 0
  /\ ismptx' = itx /\ thr' = "packets"
  /\ UNCHANGED <<bufsmp, ismprx, flags, ask, itx, left, noise, gui, local, shown, ghosts>>

NoMorePackets ==
  /\ thr = "packets" /\ thr' = "top"
  /\ UNCHANGED <<ring, flags, ask, itx, left, noise, gui, local, shown, ghosts>>

QueryPort ==
  \/ CheckPurge \/ PurgeTx \/ PurgeRx \/ Send \/ TakeAnswer \/ StartFrame
  \/ StartMisread \/ StoreSample \/ PublishTx \/ NoMorePackets

-------------------------------------------------------------------------------
(* TimerTimer with something to chart; a full chart takes no more. *)
Timer ==
  /\ gui = "idle" /\ SamplesEna /\ ismptx # ismprx
  /\ \/ shown < MAXSAMPLES /\ irx' = ismprx /\ gui' = "load" /\ UNCHANGED SamplesAutoStop
     \/ shown >= MAXSAMPLES /\ SamplesAutoStop' = TRUE /\ UNCHANGED <<irx, gui>>
  /\ raced' = (raced \/ thr = "purge rx")
  /\ UNCHANGED <<ring, purge_com, SamplesEna, ask, thread, end, task, shown, stored,
                 charted, overrun, misread>>

LoadTx ==
  /\ gui = "load"
  /\ end' = ismptx /\ gui' = "chart"
  /\ UNCHANGED <<ring, flags, ask, thread, irx, task, shown, ghosts>>

(* The samples of a point are in order, and go on from the one before. *)
GoesOn(first) ==
  /\ first = charted.next \/ (charted.next = 0 /\ first > charted.last)
  /\ \A k \in 1 .. WIDTH - 1 : bufsmp[(irx + k) % SIZE] = first + k

(* A point is not counted while a trigger is waited for. *)
ChartPoint ==
  /\ gui = "chart" /\ irx # end
  /\ LET first == bufsmp[irx] IN
       charted' = [last  |-> first + WIDTH - 1, next |-> first + WIDTH,
                   wrong |-> charted.wrong \/ ~ GoesOn(first)]
  /\ irx' = (irx + WIDTH) % SIZE
  /\ shown' = shown + 1 \/ (shown = 0 /\ shown' = 0)
  /\ gui' = IF shown' >= MAXSAMPLES THEN "full" ELSE "chart"
  /\ UNCHANGED <<ring, flags, ask, thread, end, task, stored, overrun, raced, misread>>

ChartDone ==
  /\ gui = "chart" /\ irx = end
  /\ gui' = "publish"
  /\ UNCHANGED <<ring, flags, ask, thread, local, shown, ghosts>>

(* seeded fault: what came meanwhile counts as charted. *)
PublishAll ==
  /\ gui = "publish"
  /\ ismprx' = ismptx /\ gui' = "idle"
  /\ UNCHANGED <<bufsmp, ismptx, flags, ask, thread, local, shown, ghosts>>
PublishRx ==
  /\ gui = "publish"
  /\ ismprx' = irx /\ gui' = "idle"
  /\ UNCHANGED <<bufsmp, ismptx, flags, ask, thread, local, shown, ghosts>>

-------------------------------------------------------------------------------
(* A handler asks the device: whether storing goes on, whether the port is *)
(* purged first.                                                           *)
Ask(name, ena, purge) ==
  /\ ask' = "asked" /\ gui' = "ask"
  /\ task' = [name |-> name, ena |-> ena]
  /\ SamplesEna' = ena /\ purge_com' = (purge_com \/ purge)
  /\ UNCHANGED <<ring, SamplesAutoStop, thread, irx, end, shown, ghosts>>

ButtonStartADC == gui = "idle" /\ Ask("start", FALSE, TRUE)
ButtonStop     == gui = "idle" /\ Ask("stop", FALSE, FALSE)
(* StopReadDevice, at the end of the chart or after the device's error. *)
EndOfChart     == gui = "full" /\ Ask("end", SamplesEna, TRUE)
DeviceError    == gui = "idle" /\ SamplesEna /\ Ask("error", TRUE, TRUE)

(* Nothing comes in time, or the status that is asked before StopReadDevice. *)
Fails ==
  /\ gui \in {"ask", "full"}
  /\ ask' = "none"
  /\ gui' = IF gui = "full" \/ task.name = "end" THEN "publish" ELSE "idle"
  /\ SamplesAutoStop' = (SamplesAutoStop \/ gui = "full" \/ task.name \in {"end", "error"})
  /\ UNCHANGED <<ring, purge_com, SamplesEna, thread, local, shown, ghosts>>

(* StopReadDevice asks up to six times. *)
Again ==
  /\ gui = "ask" /\ task.name \in {"end", "error"}
  /\ Ask(task.name, SamplesEna, TRUE)

(* seeded fault: the indices are set back without waiting. *)
AnsweredAtOnce == TRUE
Answered == ask = "answered"

(* The end of the chart goes on behind the loop of AddCrfSamples, with     *)
(* indices that the purge may have set back.                               *)
Stopped ==
  /\ gui = "ask" /\ Answered /\ task.name \in {"end", "error"}
  /\ ask' = "none"
  /\ SamplesEna' = FALSE /\ purge_com' = TRUE /\ SamplesAutoStop' = TRUE
  /\ gui' = IF task.name = "end" THEN "publish" ELSE "idle"
  /\ UNCHANGED <<ring, thread, local, shown, ghosts>>

(* The chart is emptied at a start only after an automatic stop. *)
Accepted ==
  /\ gui = "ask" /\ Answered /\ task.name \in {"start", "stop"}
  /\ ask' = "none"
  /\ purge_com' = (purge_com \/ task.name = "stop")
  /\ task' = [task EXCEPT !.ena = task.name = "start"]
  /\ \/ task.name = "start" /\ SamplesAutoStop /\ SamplesAutoStop' = FALSE /\ shown' = 0
     \/ ~ (task.name = "start" /\ SamplesAutoStop) /\ UNCHANGED <<SamplesAutoStop, shown>>
  /\ gui' = "zero"
  /\ UNCHANGED <<ring, SamplesEna, thread, irx, end, ghosts>>

ButtonClrGrf ==
  /\ gui = "idle"
  /\ task' = [name |-> "clear", ena |-> SamplesEna]
  /\ SamplesEna' = FALSE /\ purge_com' = TRUE
  /\ gui' = "zero"
  /\ UNCHANGED <<ring, SamplesAutoStop, ask, thread, irx, end, shown, ghosts>>

(* The indices are set back; the chart may be cleared amid a frame. *)
ZeroTx ==
  /\ gui = "zero"
  /\ ismptx' = 0 /\ gui' = "zero rx"
  /\ Restart /\ raced' = (raced \/ (task.name = "clear" /\ thr = "frame"))
  /\ UNCHANGED <<bufsmp, ismprx, flags, ask, thread, local, shown, stored, overrun, misread>>

ZeroRx ==
  /\ gui = "zero rx"
  /\ ismprx' = 0 /\ gui' = "resume"
  /\ UNCHANGED <<bufsmp, ismptx, flags, ask, thread, local, shown, ghosts>>

Resume ==
  /\ gui = "resume"
  /\ SamplesEna' = task.ena /\ gui' = "idle"
  /\ shown' = IF task.name = "clear" THEN 0 ELSE shown
  /\ UNCHANGED <<ring, purge_com, SamplesAutoStop, ask, thread, local, ghosts>>

Handlers ==
  \/ ButtonStartADC \/ ButtonStop \/ EndOfChart \/ DeviceError \/ Fails \/ Again
  \/ Stopped \/ Accepted \/ ButtonClrGrf \/ ZeroTx \/ ZeroRx \/ Resume

Charting == Timer \/ LoadTx \/ ChartPoint \/ ChartDone \/ PublishRx

Next == QueryPort \/ Charting \/ Handlers
Spec == Init /\ [][Next]_vars

(* The GUI thread goes on with what it is doing, and its waits end. *)
FairSpec == Spec /\ WF_vars(LoadTx \/ ChartPoint \/ ChartDone \/ PublishRx)
                 /\ WF_vars(EndOfChart \/ Fails)

-------------------------------------------------------------------------------
(* Every index stays in the ring, and every variable of its type. *)
TypeOK ==
  /\ {ismprx, ismptx, itx, irx, end} \subseteq 0 .. SIZE - 1
  /\ bufsmp \in [0 .. SIZE - 1 -> 0 .. TOTAL]
  /\ {purge_com, SamplesEna, SamplesAutoStop, noise, overrun, raced, odd} \subseteq BOOLEAN
  /\ ask \in {"none", "asked", "sent", "answered"}
  /\ thr \in {"top", "purge", "purge rx", "write", "packets", "frame"}
  /\ left \in 0 .. SIZE - 1 /\ stored \in 0 .. TOTAL /\ misreads \in Nat
  /\ gui \in {"idle", "load", "chart", "publish", "full", "ask", "zero", "zero rx", "resume"}
  /\ task \in [name : {"none", "start", "stop", "end", "error", "clear"}, ena : BOOLEAN]
  /\ shown \in 0 .. MAXSAMPLES

(* The chart goes on from sample to sample; what an answered command, a    *)
(* purge or a full chart sets back comes neither again nor in part.  That  *)
(* needs a GUI less than a ring behind (there is no test for it), no       *)
(* clearing or purging under the other thread's hands, and no packet       *)
(* misread for samples.                                                    *)
ChartInOrder == ~ overrun /\ ~ raced /\ misreads = 0 => ~ charted.wrong

(* With two channels a current is never charted as a voltage, whatever was *)
(* lost, overrun, set back or misread: the device's samples keep their     *)
(* places and the chart begins its points at a current.  Where a frame     *)
(* ends is another matter: ismptx, and AddCrfSamples' copy of it, are odd  *)
(* after a misread packet of an odd number of samples, and only then.      *)
PairsKept ==
  /\ \A i \in 0 .. SIZE - 1 : bufsmp[i] # 0 => bufsmp[i] % 2 # i % 2
  /\ ismprx % 2 = 0 /\ irx % 2 = 0
  /\ ismptx % 2 # 0 \/ end % 2 # 0 => odd

(* The GUI comes back from AddCrfSamples: its loop, which tests for itx    *)
(* between points only, meets it, unless a misread packet left an odd one. *)
ChartEnds ==
  gui \in {"load", "chart"} ~> gui = "idle" \/ (odd /\ gui = "chart" /\ end % 2 = 1)
===============================================================================
