---------------------------- MODULE HostLink_proofs -----------------------------
(***************************************************************************)
(* The PC program's end of the port, for any sizes of the buffers, any     *)
(* limit and any number of commands and frames.                            *)
(*                                                                         *)
(* TypeCorrect needs where idx_bufcom is while the packets are looked at   *)
(* (PlaceInv, WholeInv), that no command is sent twice (CountInv) and that *)
(* lenrx is a length that bufrx has room for (FitInv).                     *)
(* The other theorems are about the stream, what is buffered followed by   *)
(* what is still to be read: as long as no packet was dropped in part it   *)
(* consists of packets, and the frames in it are the last that were sent,  *)
(* from the one that is due (StreamInv); as long as nothing came late or   *)
(* was purged either, at most one command or answer is under way, and both *)
(* threads agree on where it is (TalkInv).                                 *)
(***************************************************************************)
EXTENDS HostLink, SequenceTheorems, TLAPS

(* A command asked: by ButtonStartADC, ButtonStop, or the end of the chart *)
(* while samples are stored.                                               *)
Asking ==
  \E kind \in Kinds, ena \in {FALSE, SamplesEna}, purge \in BOOLEAN : Ask(kind, ena, purge)

Unit   == [of : [no : Nat, id : {"STA", "CAD", "ADC", "none"}], part : {1, 2}]
Packet == [no : Nat, id : {"STA", "CAD", "ADC", "none"}]
Asked  == [no : Nat, kind : Kinds]

WordsOK ==
  /\ gui \in {"idle", "enter", "armed", "ready", "sending", "waiting", "accept"}
  /\ thr \in {"top", "write", "writefile", "written", "read", "packets", "compare",
              "answer", "clear", "foreign", "giveup"}
  /\ streaming \in BOOLEAN /\ purge_com \in BOOLEAN /\ work_adc \in BOOLEAN
  /\ SamplesEna \in BOOLEAN /\ gap \in BOOLEAN
  /\ wait_id \in [id : {"none", "STA", "CAD"}, err : BOOLEAN]
  /\ mishaps \subseteq Mishaps

CommandsOK ==
  /\ wire \in Seq(Asked) /\ buftx \in Asked
  /\ asked \in 0 .. COMMANDS /\ buftx.no = asked

StreamsOK ==
  /\ port \in Seq(Unit) /\ bufcom \in Seq(Unit) /\ bufrx \in Packet
  /\ lenrx \in {0, 6, 8} \cup LENGTHS

NumbersOK ==
  /\ lentx \in {0, 2, 3, 8} /\ written \in {0, 2, 3, 8} /\ errtx \in {0, 1}
  /\ wait_cnt \in 0 .. LIMIT /\ frames \in 0 .. FRAMES /\ due \in Nat

TypesOK == WordsOK /\ CommandsOK /\ StreamsOK /\ NumbersOK

LEMMA Limits ==
  /\ CHUNK \in Nat \ {0} /\ BUFCOM \in Nat \ {0} /\ LIMIT \in Nat \ {0} /\ CHUNK <= BUFCOM
  /\ COMMANDS \in Nat /\ FRAMES \in Nat
  /\ BUFRX \in Nat /\ BUFRX >= 8 /\ LENGTHS \subseteq Nat
BY LinkAssumption

LEMMA SizesAre ==
  /\ Sizes("status") = {2} /\ Sizes("start") = {8} /\ Sizes("stop") = {3, 8}
  /\ Kinds = {"status", "start", "stop"}
BY DEF Sizes, Kinds

LEMMA IdsAre ==
  /\ Id("status") = "STA" /\ Id("start") = "CAD" /\ Id("stop") = "CAD"
BY DEF Id

LEMMA AskedWhen ==
  ASSUME WordsOK, ButtonStartADC \/ ButtonStop \/ EndOfChart
  PROVE  Asking
<1>1. CASE ButtonStartADC
  <2>1. Ask("start", FALSE, TRUE)  BY <1>1 DEF ButtonStartADC
  <2>2. QED  BY <2>1 DEF Asking, Kinds
<1>2. CASE ButtonStop
  <2>1. Ask("status", FALSE, FALSE) \/ Ask("stop", FALSE, FALSE)  BY <1>2 DEF ButtonStop
  <2>2. QED  BY <2>1 DEF Asking, Kinds
<1>3. CASE EndOfChart
  <2>1. SamplesEna = TRUE  BY <1>3 DEF EndOfChart, WordsOK
  <2>2. Ask("status", SamplesEna, FALSE) \/ Ask("stop", SamplesEna, TRUE)
    BY <1>3, <2>1 DEF EndOfChart, StopReadDevice
  <2>3. QED  BY <2>2 DEF Asking, Kinds
<1>4. QED  BY <1>1, <1>2, <1>3

LEMMA Steps ==
  ASSUME WordsOK, [Next]_vars
  PROVE  \/ DeviceAnswers \/ DeviceFrame \/ Asking \/ ClearChart \/ SetWaitId \/ SetWaitCnt
         \/ SetLenTx \/ Sent \/ SendTimeout \/ ReadBlk \/ ReadTimeout \/ Accepted \/ Purge
         \/ CheckTx \/ WriteFile \/ Written \/ ReadFile \/ ReadNothing \/ ReadFails
         \/ NoMorePackets \/ TakeFrame \/ Skip \/ Compare \/ Answer \/ Clear \/ Foreign
         \/ GiveUp \/ Garbled \/ UNCHANGED vars
<1>1. CASE Undefined  BY <1>1 DEF Undefined
<1>2. CASE DeviceAnswers \/ DeviceFrame \/ Gui \/ QueryPort  BY <1>2, AskedWhen DEF Gui, QueryPort
<1>3. QED  BY <1>1, <1>2 DEF Next

(* What the bytes taken for a packet may do.                               *)
LEMMA GarbledIs ==
  ASSUME WordsOK, Garbled
  PROVE  /\ wait_id' \in [id : {"none", "STA", "CAD"}, err : BOOLEAN]
         /\ mishaps' \subseteq mishaps \cup {"short", "overrun"} /\ mishaps \subseteq mishaps'
         /\ gap' \in BOOLEAN
         /\ thr = "packets" /\ thr' \in {"top", "packets", "giveup"}
         /\ wait_cnt' \in {0, wait_cnt} \/ (wait_cnt' = wait_cnt + 1 /\ wait_cnt + 1 <= LIMIT)
         /\ bufrx' \in {bufrx, Nothing} /\ lenrx' \in {0, lenrx} \cup LENGTHS
         /\ lenrx' \in {0, lenrx} \/ (lenrx' > BUFRX => "overrun" \in mishaps')
<1>1. CASE UNCHANGED <<rxvars, mishaps, gap>> /\ thr' = "top"
  BY <1>1 DEF Garbled, WordsOK, rxvars
<1>2. CASE Return /\ UNCHANGED <<rxvars, gap>>
  BY <1>2 DEF Garbled, Return, WordsOK, rxvars
<1>3. CASE /\ wait_cnt' = 0 /\ lenrx' = 0 /\ thr' = "giveup"
           /\ UNCHANGED <<wait_id, bufrx, input, mishaps, gap>>
  BY <1>3 DEF Garbled, WordsOK
<1>4. CASE GarbledAnswer /\ thr' = thr
  <2>1. PICK error \in BOOLEAN : wait_id' = [wait_id EXCEPT !.err = error]
    BY <1>4 DEF GarbledAnswer
  <2>2. wait_id' \in [id : {"none", "STA", "CAD"}, err : BOOLEAN]  BY <2>1 DEF WordsOK
  <2>3. /\ mishaps' \subseteq mishaps \cup {"overrun"} /\ mishaps \subseteq mishaps'
        /\ lenrx' > BUFRX => "overrun" \in mishaps'
    BY <1>4 DEF GarbledAnswer
  <2>4. gap' = gap /\ bufrx' = Nothing /\ lenrx' \in LENGTHS /\ wait_cnt' = 0
    BY <1>4 DEF GarbledAnswer
  <2>5. QED  BY <1>4, <2>2, <2>3, <2>4 DEF Garbled, WordsOK
<1>5. CASE GarbledForeign /\ thr' = thr
  BY <1>5 DEF Garbled, GarbledForeign, WordsOK
<1>6. CASE GarbledOther /\ thr' = thr
  <2>1. gap' \in BOOLEAN  BY <1>6 DEF GarbledOther, WordsOK
  <2>2. QED  BY <1>6, <2>1 DEF Garbled, GarbledOther, WordsOK, rxvars
<1>7. QED  BY <1>1, <1>2, <1>3, <1>4, <1>5, <1>6 DEF Garbled

LEMMA GarbledLeaves ==
  ASSUME Garbled
  PROVE  /\ wire' = wire /\ port' = port /\ streaming' = streaming /\ frames' = frames
         /\ buftx' = buftx /\ lentx' = lentx /\ errtx' = errtx
         /\ purge_com' = purge_com /\ work_adc' = work_adc /\ SamplesEna' = SamplesEna
         /\ gui' = gui /\ asked' = asked /\ written' = written /\ due' = due
BY DEF Garbled, device, txvars, flags

LEMMA GarbledInput ==
  ASSUME Garbled
  PROVE  \/ ConsumeAll \/ Return \/ (UNCHANGED input /\ thr' = "giveup")
         \/ \E n \in 1 .. Len(bufcom) :
              bufcom' = Drop(bufcom, n) /\ idx_bufcom' = Len(bufcom) - n /\ thr' = thr
BY DEF Garbled

(* What a step that answers, or takes an answer, touches of them.          *)
LEMMA WordsSet ==
  ASSUME WordsOK,
         gui' \in {gui, "idle"}, thr' = thr, streaming' \in BOOLEAN, purge_com' \in BOOLEAN,
         work_adc' \in BOOLEAN, SamplesEna' \in BOOLEAN, gap' = gap, wait_id' = wait_id,
         mishaps' = mishaps
  PROVE  WordsOK'
<1>1. gui' \in {"idle", "enter", "armed", "ready", "sending", "waiting", "accept"}  BY DEF WordsOK
<1>2. QED  BY <1>1 DEF WordsOK

LEMMA WordsKept ==
  ASSUME WordsOK, CommandsOK, [Next]_vars
  PROVE  WordsOK'
<1>1. CASE DeviceAnswers
  <2>1. streaming' \in BOOLEAN
    <3>1. streaming' = CASE Head(wire).kind = "start" -> TRUE
                         [] Head(wire).kind = "stop"  -> FALSE
                         [] OTHER -> streaming
      BY <1>1 DEF DeviceAnswers
    <3>2. QED  BY <3>1 DEF WordsOK
  <2>2. /\ gui' = gui /\ thr' = thr /\ purge_com' = purge_com /\ work_adc' = work_adc
        /\ SamplesEna' = SamplesEna /\ gap' = gap /\ wait_id' = wait_id /\ mishaps' = mishaps
    BY <1>1 DEF DeviceAnswers, txvars, rxvars, flags, input, ghosts
  <2>3. purge_com \in BOOLEAN /\ work_adc \in BOOLEAN /\ SamplesEna \in BOOLEAN  BY DEF WordsOK
  <2>4. QED  BY <2>1, <2>2, <2>3, WordsSet
<1>2. CASE DeviceFrame
  BY <1>2 DEF DeviceFrame, WordsOK, Mishaps, device, txvars, rxvars, flags, input, ghosts
<1>3. CASE Asking
  BY <1>3 DEF Asking, Ask, WordsOK, Mishaps, device, txvars, rxvars, flags, input, ghosts
<1>4. CASE ClearChart
  BY <1>4 DEF ClearChart, WordsOK, Mishaps, device, txvars, rxvars, flags, input, ghosts
<1>5. CASE SetWaitId
  <2>1. wait_id' = [id |-> Id(buftx.kind), err |-> FALSE]  BY <1>5 DEF SetWaitId
  <2>2. Id(buftx.kind) \in {"STA", "CAD"}  BY DEF Id
  <2>3. wait_id' \in [id : {"none", "STA", "CAD"}, err : BOOLEAN]  BY <2>1, <2>2
  <2>4. QED  BY <1>5, <2>3 DEF SetWaitId, WordsOK, device, txvars, rxvars, flags, input, ghosts
<1>6. CASE SetWaitCnt
  BY <1>6 DEF SetWaitCnt, WordsOK, Mishaps, device, txvars, rxvars, flags, input, ghosts
<1>7. CASE SetLenTx
  BY <1>7 DEF SetLenTx, WordsOK, Mishaps, device, txvars, rxvars, flags, input, ghosts
<1>8. CASE Sent
  BY <1>8 DEF Sent, WordsOK, Mishaps, device, txvars, rxvars, flags, input, ghosts
<1>9. CASE SendTimeout
  BY <1>9 DEF SendTimeout, WordsOK, Mishaps, device, txvars, rxvars, flags, input, ghosts
<1>10. CASE ReadBlk
  BY <1>10 DEF ReadBlk, WordsOK, Mishaps, device, txvars, rxvars, flags, input, ghosts
<1>11. CASE ReadTimeout
  BY <1>11 DEF ReadTimeout, WordsOK, Mishaps, device, txvars, rxvars, flags, input, ghosts
<1>12. CASE Accepted
  <2>1. SamplesEna' \in BOOLEAN
    <3>1. SamplesEna' = CASE buftx.kind = "start" -> TRUE
                          [] buftx.kind = "stop"  -> FALSE
                          [] OTHER -> SamplesEna
      BY <1>12 DEF Accepted
    <3>2. QED  BY <3>1 DEF WordsOK
  <2>2. /\ gui' = "idle" /\ thr' = thr /\ gap' = gap /\ wait_id' = wait_id /\ mishaps' = mishaps
        /\ purge_com' = (purge_com \/ buftx.kind = "stop")
        /\ work_adc' = (work_adc \/ buftx.kind = "start") /\ streaming' = streaming
    BY <1>12 DEF Accepted, device, txvars, rxvars, input
  <2>3. purge_com' \in BOOLEAN /\ work_adc' \in BOOLEAN /\ streaming' \in BOOLEAN
    BY <2>2 DEF WordsOK
  <2>4. QED  BY <2>1, <2>2, <2>3, WordsSet
<1>13. CASE Purge
  <2>1. /\ gui' = gui /\ streaming' = streaming /\ work_adc' = work_adc
        /\ SamplesEna' = SamplesEna /\ wait_id' = wait_id /\ gap' = gap
        /\ purge_com' \in {FALSE, purge_com} /\ thr' = "write"
    BY <1>13 DEF Purge, device, txvars, rxvars, flags, input, ghosts
  <2>2. mishaps' \subseteq mishaps \cup {"cut", "purged"}
    BY <1>13 DEF Purge, ghosts
  <2>3. {"cut", "purged"} \subseteq Mishaps  BY DEF Mishaps
  <2>4. mishaps' \subseteq Mishaps /\ purge_com' \in BOOLEAN  BY <2>1, <2>2, <2>3 DEF WordsOK
  <2>5. QED  BY <2>1, <2>4 DEF WordsOK
<1>14. CASE CheckTx
  BY <1>14 DEF CheckTx, WordsOK, Mishaps, device, txvars, rxvars, flags, input, ghosts
<1>15. CASE WriteFile
  BY <1>15 DEF WriteFile, WordsOK, Mishaps, device, txvars, rxvars, flags, input, ghosts
<1>16. CASE Written
  BY <1>16 DEF Written, WordsOK, Mishaps, device, txvars, rxvars, flags, input, ghosts
<1>17. CASE ReadFile
  BY <1>17 DEF ReadFile, WordsOK, Mishaps, device, txvars, rxvars, flags, input, ghosts
<1>18. CASE ReadNothing
  BY <1>18 DEF ReadNothing, WordsOK, Mishaps, device, txvars, rxvars, flags, input, ghosts
<1>19. CASE ReadFails
  BY <1>19 DEF ReadFails, WordsOK, Mishaps, device, txvars, rxvars, flags, input, ghosts
<1>20. CASE NoMorePackets
  BY <1>20 DEF NoMorePackets, Return, WordsOK, Mishaps, device, txvars, rxvars, flags, input, ghosts
<1>21. CASE TakeFrame
  BY <1>21 DEF TakeFrame, Consume, WordsOK, Mishaps, device, txvars, rxvars, flags, input, ghosts
<1>22. CASE Skip
  BY <1>22 DEF Skip, Consume, WordsOK, Mishaps, device, txvars, rxvars, flags, input, ghosts
<1>23. CASE Compare
  BY <1>23 DEF Compare, WordsOK, Mishaps, device, txvars, rxvars, flags, input, ghosts
<1>24. CASE Answer
  BY <1>24 DEF Answer, WordsOK, Mishaps, device, txvars, rxvars, flags, input, ghosts
<1>25. CASE Clear
  BY <1>25 DEF Clear, Consume, WordsOK, Mishaps, device, txvars, rxvars, flags, input, ghosts
<1>26. CASE Foreign
  BY <1>26 DEF Foreign, Consume, WordsOK, Mishaps, device, txvars, rxvars, flags, input, ghosts
<1>27. CASE GiveUp
  BY <1>27 DEF GiveUp, Return, WordsOK, Mishaps, device, txvars, rxvars, flags, input, ghosts
<1>28. CASE Garbled
  <2>1. mishaps' \subseteq Mishaps  BY <1>28, GarbledIs DEF WordsOK, Mishaps
  <2>2. QED  BY <1>28, <2>1, GarbledIs, GarbledLeaves DEF WordsOK
<1>29. CASE UNCHANGED vars
  BY <1>29 DEF WordsOK, vars, device, txvars, rxvars, flags, input, ghosts
<1>30. QED
  BY <1>1, <1>2, <1>3, <1>4, <1>5, <1>6, <1>7, <1>8, <1>9, <1>10,
     <1>11, <1>12, <1>13, <1>14, <1>15, <1>16, <1>17, <1>18, <1>19, <1>20,
     <1>21, <1>22, <1>23, <1>24, <1>25, <1>26, <1>27, <1>28, <1>29, Steps

LEMMA CommandsKept ==
  ASSUME WordsOK, CommandsOK, [Next]_vars
  PROVE  CommandsOK'
<1>1. CASE DeviceAnswers
  <2>1. wire' = Tail(wire) /\ buftx' = buftx /\ asked' = asked /\ wire # << >>
    BY <1>1 DEF DeviceAnswers, txvars
  <2>2. wire' \in Seq(Asked)  BY <2>1 DEF CommandsOK
  <2>3. QED  BY <2>1, <2>2 DEF CommandsOK
<1>2. CASE DeviceFrame
  BY <1>2 DEF DeviceFrame, CommandsOK, device, txvars, rxvars, flags, input, ghosts
<1>3. CASE Asking
  <2>1. PICK kind \in Kinds, ena \in {FALSE, SamplesEna}, purge \in BOOLEAN : Ask(kind, ena, purge)
    BY <1>3 DEF Asking
  <2>2. /\ asked < COMMANDS /\ asked' = asked + 1 /\ wire' = wire
        /\ buftx' = [no |-> asked + 1, kind |-> kind]
    BY <2>1 DEF Ask, Command, device
  <2>3. asked' \in 0 .. COMMANDS /\ asked + 1 \in Nat  BY <2>2, Limits DEF CommandsOK
  <2>4. buftx' \in Asked /\ buftx'.no = asked'  BY <2>2, <2>3 DEF Asked
  <2>5. QED  BY <2>2, <2>3, <2>4 DEF CommandsOK
<1>4. CASE ClearChart
  BY <1>4 DEF ClearChart, CommandsOK, device, txvars, rxvars, flags, input, ghosts
<1>5. CASE SetWaitId
  BY <1>5 DEF SetWaitId, CommandsOK, device, txvars, rxvars, flags, input, ghosts
<1>6. CASE SetWaitCnt
  BY <1>6 DEF SetWaitCnt, CommandsOK, device, txvars, rxvars, flags, input, ghosts
<1>7. CASE SetLenTx
  BY <1>7 DEF SetLenTx, CommandsOK, device, txvars, rxvars, flags, input, ghosts
<1>8. CASE Sent
  BY <1>8 DEF Sent, CommandsOK, device, txvars, rxvars, flags, input, ghosts
<1>9. CASE SendTimeout
  BY <1>9 DEF SendTimeout, CommandsOK, device, txvars, rxvars, flags, input, ghosts
<1>10. CASE ReadBlk
  BY <1>10 DEF ReadBlk, CommandsOK, device, txvars, rxvars, flags, input, ghosts
<1>11. CASE ReadTimeout
  BY <1>11 DEF ReadTimeout, CommandsOK, device, txvars, rxvars, flags, input, ghosts
<1>12. CASE Accepted
  BY <1>12 DEF Accepted, CommandsOK, device, txvars, rxvars, flags, input, ghosts
<1>13. CASE Purge
  BY <1>13 DEF Purge, CommandsOK, device, txvars, rxvars, flags, input, ghosts
<1>14. CASE CheckTx
  BY <1>14 DEF CheckTx, CommandsOK, device, txvars, rxvars, flags, input, ghosts
<1>15. CASE WriteFile
  <2>1. buftx' = buftx /\ asked' = asked  BY <1>15 DEF WriteFile, txvars
  <2>2. wire' = Append(wire, buftx) \/ wire' = wire  BY <1>15 DEF WriteFile
  <2>3. wire' \in Seq(Asked)  BY <2>2 DEF CommandsOK
  <2>4. QED  BY <2>1, <2>3 DEF CommandsOK
<1>16. CASE Written
  BY <1>16 DEF Written, CommandsOK, device, txvars, rxvars, flags, input, ghosts
<1>17. CASE ReadFile
  BY <1>17 DEF ReadFile, CommandsOK, device, txvars, rxvars, flags, input, ghosts
<1>18. CASE ReadNothing
  BY <1>18 DEF ReadNothing, CommandsOK, device, txvars, rxvars, flags, input, ghosts
<1>19. CASE ReadFails
  BY <1>19 DEF ReadFails, CommandsOK, device, txvars, rxvars, flags, input, ghosts
<1>20. CASE NoMorePackets
  BY <1>20 DEF NoMorePackets, Return, CommandsOK, device, txvars, rxvars, flags, input, ghosts
<1>21. CASE TakeFrame
  BY <1>21 DEF TakeFrame, Consume, CommandsOK, device, txvars, rxvars, flags, input, ghosts
<1>22. CASE Skip
  BY <1>22 DEF Skip, Consume, CommandsOK, device, txvars, rxvars, flags, input, ghosts
<1>23. CASE Compare
  BY <1>23 DEF Compare, CommandsOK, device, txvars, rxvars, flags, input, ghosts
<1>24. CASE Answer
  BY <1>24 DEF Answer, CommandsOK, device, txvars, rxvars, flags, input, ghosts
<1>25. CASE Clear
  BY <1>25 DEF Clear, Consume, CommandsOK, device, txvars, rxvars, flags, input, ghosts
<1>26. CASE Foreign
  BY <1>26 DEF Foreign, Consume, CommandsOK, device, txvars, rxvars, flags, input, ghosts
<1>27. CASE GiveUp
  BY <1>27 DEF GiveUp, Return, CommandsOK, device, txvars, rxvars, flags, input, ghosts
<1>28. CASE Garbled
  BY <1>28, GarbledLeaves DEF CommandsOK
<1>29. CASE UNCHANGED vars
  BY <1>29 DEF vars, CommandsOK, device, txvars, rxvars, flags, input, ghosts
<1>30. QED
  BY <1>1, <1>2, <1>3, <1>4, <1>5, <1>6, <1>7, <1>8, <1>9, <1>10,
     <1>11, <1>12, <1>13, <1>14, <1>15, <1>16, <1>17, <1>18, <1>19, <1>20,
     <1>21, <1>22, <1>23, <1>24, <1>25, <1>26, <1>27, <1>28, <1>29, Steps

LEMMA NumbersKept ==
  ASSUME WordsOK, StreamsOK, NumbersOK, CommandsOK, [Next]_vars
  PROVE  NumbersOK'
<1>1. CASE DeviceAnswers
  BY <1>1 DEF DeviceAnswers, NumbersOK, device, txvars, rxvars, flags, input, ghosts
<1>2. CASE DeviceFrame
  <2>1. /\ lentx' = lentx /\ written' = written /\ errtx' = errtx /\ wait_cnt' = wait_cnt
        /\ due' = due /\ frames < FRAMES /\ frames' = frames + 1
    BY <1>2 DEF DeviceFrame, txvars, rxvars, ghosts
  <2>2. frames' \in 0 .. FRAMES  BY <2>1, Limits DEF NumbersOK
  <2>3. QED  BY <2>1, <2>2 DEF NumbersOK
<1>3. CASE Asking
  BY <1>3 DEF Asking, Ask, NumbersOK, device, txvars, rxvars, flags, input, ghosts
<1>4. CASE ClearChart
  BY <1>4 DEF ClearChart, NumbersOK, device, txvars, rxvars, flags, input, ghosts
<1>5. CASE SetWaitId
  BY <1>5 DEF SetWaitId, NumbersOK, device, txvars, rxvars, flags, input, ghosts
<1>6. CASE SetWaitCnt
  <2>1. 1 \in 0 .. LIMIT  BY Limits
  <2>2. QED  BY <1>6, <2>1 DEF SetWaitCnt, NumbersOK, device, txvars, rxvars, flags, input, ghosts
<1>7. CASE SetLenTx
  <2>1. lentx' \in Sizes(buftx.kind)  BY <1>7 DEF SetLenTx
  <2>2. buftx.kind \in Kinds  BY DEF CommandsOK, Asked
  <2>3. lentx' \in {0, 2, 3, 8}  BY <2>1, <2>2, SizesAre
  <2>4. QED  BY <1>7, <2>3 DEF SetLenTx, NumbersOK, device, txvars, rxvars, flags, input, ghosts
<1>8. CASE Sent
  BY <1>8 DEF Sent, NumbersOK, device, txvars, rxvars, flags, input, ghosts
<1>9. CASE SendTimeout
  BY <1>9 DEF SendTimeout, NumbersOK, device, txvars, rxvars, flags, input, ghosts
<1>10. CASE ReadBlk
  BY <1>10 DEF ReadBlk, NumbersOK, device, txvars, rxvars, flags, input, ghosts
<1>11. CASE ReadTimeout
  <2>1. 0 \in 0 .. LIMIT  BY Limits
  <2>2. QED  BY <1>11, <2>1 DEF ReadTimeout, NumbersOK, device, txvars, rxvars, flags, input, ghosts
<1>12. CASE Accepted
  BY <1>12 DEF Accepted, NumbersOK, device, txvars, rxvars, flags, input, ghosts
<1>13. CASE Purge
  BY <1>13 DEF Purge, NumbersOK, device, txvars, rxvars, flags, input, ghosts
<1>14. CASE CheckTx
  BY <1>14 DEF CheckTx, NumbersOK, device, txvars, rxvars, flags, input, ghosts
<1>15. CASE WriteFile
  BY <1>15 DEF WriteFile, NumbersOK, device, txvars, rxvars, flags, input, ghosts
<1>16. CASE Written
  BY <1>16 DEF Written, NumbersOK, device, txvars, rxvars, flags, input, ghosts
<1>17. CASE ReadFile
  BY <1>17 DEF ReadFile, NumbersOK, device, txvars, rxvars, flags, input, ghosts
<1>18. CASE ReadNothing
  BY <1>18 DEF ReadNothing, NumbersOK, device, txvars, rxvars, flags, input, ghosts
<1>19. CASE ReadFails
  BY <1>19 DEF ReadFails, NumbersOK, device, txvars, rxvars, flags, input, ghosts
<1>20. CASE NoMorePackets
  BY <1>20 DEF NoMorePackets, Return, NumbersOK, device, txvars, rxvars, flags, input, ghosts
<1>21. CASE TakeFrame
  <2>1. /\ lentx' = lentx /\ written' = written /\ errtx' = errtx /\ frames' = frames
        /\ wait_cnt' = wait_cnt /\ due' \in {due, bufcom[1].of.no + 1} /\ Len(bufcom) >= 2
    BY <1>21 DEF TakeFrame, Whole, device, txvars, rxvars
  <2>2. bufcom[1] \in Unit  BY <2>1 DEF StreamsOK
  <2>3. bufcom[1].of.no + 1 \in Nat  BY <2>2 DEF Unit
  <2>4. QED  BY <2>1, <2>3 DEF NumbersOK
<1>22. CASE Skip
  BY <1>22 DEF Skip, Consume, NumbersOK, device, txvars, rxvars, flags, input, ghosts
<1>23. CASE Compare
  BY <1>23 DEF Compare, NumbersOK, device, txvars, rxvars, flags, input, ghosts
<1>24. CASE Answer
  BY <1>24 DEF Answer, NumbersOK, device, txvars, rxvars, flags, input, ghosts
<1>25. CASE Clear
  <2>1. 0 \in 0 .. LIMIT  BY Limits
  <2>2. QED  BY <1>25, <2>1 DEF Clear, NumbersOK, device, txvars, rxvars, flags, input, ghosts
<1>26. CASE Foreign
  <2>1. /\ lentx' = lentx /\ written' = written /\ errtx' = errtx /\ frames' = frames
        /\ due' = due
        /\ wait_cnt' = 0 \/ (wait_cnt' = wait_cnt + 1 /\ wait_cnt + 1 <= LIMIT)
    BY <1>26 DEF Foreign, device, txvars, ghosts
  <2>2. wait_cnt' \in 0 .. LIMIT  BY <2>1, Limits DEF NumbersOK
  <2>3. QED  BY <2>1, <2>2 DEF NumbersOK
<1>27. CASE GiveUp
  BY <1>27 DEF GiveUp, Return, NumbersOK, device, txvars, rxvars, flags, input, ghosts
<1>28. CASE Garbled
  <2>1. /\ lentx' = lentx /\ written' = written /\ errtx' = errtx /\ frames' = frames
        /\ due' = due
        /\ wait_cnt' \in {0, wait_cnt} \/ (wait_cnt' = wait_cnt + 1 /\ wait_cnt + 1 <= LIMIT)
    BY <1>28, GarbledIs, GarbledLeaves
  <2>2. wait_cnt' \in 0 .. LIMIT  BY <2>1, Limits DEF NumbersOK
  <2>3. QED  BY <2>1, <2>2 DEF NumbersOK
<1>29. CASE UNCHANGED vars
  BY <1>29 DEF vars, NumbersOK, device, txvars, rxvars, flags, input, ghosts
<1>30. QED
  BY <1>1, <1>2, <1>3, <1>4, <1>5, <1>6, <1>7, <1>8, <1>9, <1>10,
     <1>11, <1>12, <1>13, <1>14, <1>15, <1>16, <1>17, <1>18, <1>19, <1>20,
     <1>21, <1>22, <1>23, <1>24, <1>25, <1>26, <1>27, <1>28, <1>29, Steps

LEMMA DropIs ==
  ASSUME NEW s \in Seq(Unit), NEW n \in 0 .. Len(s)
  PROVE  /\ Drop(s, n) \in Seq(Unit) /\ Len(Drop(s, n)) = Len(s) - n
         /\ \A i \in 1 .. Len(s) - n : Drop(s, n)[i] = s[i + n]
BY DEF Drop

LEMMA JoinIs ==
  ASSUME NEW s \in Seq(Unit), NEW t \in Seq(Unit)
  PROVE  /\ s \o t \in Seq(Unit) /\ Len(s \o t) = Len(s) + Len(t)
         /\ \A i \in 1 .. Len(s) : (s \o t)[i] = s[i]
         /\ \A i \in 1 .. Len(t) : (s \o t)[Len(s) + i] = t[i]
<1>1. /\ s \o t \in Seq(Unit) /\ Len(s \o t) = Len(s) + Len(t)
      /\ \A i \in 1 .. Len(s) + Len(t) :
           (s \o t)[i] = IF i <= Len(s) THEN s[i] ELSE t[i - Len(s)]
  BY ConcatProperties
<1>2. Len(s) \in Nat /\ Len(t) \in Nat  OBVIOUS
<1>3. \A i \in 1 .. Len(s) : (s \o t)[i] = s[i]  BY <1>1, <1>2
<1>4. \A i \in 1 .. Len(t) : (s \o t)[Len(s) + i] = t[i]
  <2> SUFFICES ASSUME NEW i \in 1 .. Len(t) PROVE (s \o t)[Len(s) + i] = t[i]  OBVIOUS
  <2>1. Len(s) + i \in 1 .. Len(s) + Len(t) /\ ~ (Len(s) + i <= Len(s))
        /\ (Len(s) + i) - Len(s) = i
    BY <1>2
  <2>2. QED  BY <1>1, <2>1
<1>5. QED  BY <1>1, <1>3, <1>4

LEMMA SentIs ==
  ASSUME NEW packet \in Packet, NEW s \in Seq(Unit)
  PROVE  LET t == s \o Units(packet) IN
         /\ t \in Seq(Unit) /\ Len(t) = Len(s) + 2
         /\ \A i \in 1 .. Len(s) : t[i] = s[i]
         /\ t[Len(s) + 1] = [of |-> packet, part |-> 1]
         /\ t[Len(s) + 2] = [of |-> packet, part |-> 2]
<1>1. [of |-> packet, part |-> 1] \in Unit /\ [of |-> packet, part |-> 2] \in Unit
  BY DEF Unit, Packet
<1>2. Units(packet) \in Seq(Unit) /\ Len(Units(packet)) = 2
      /\ Units(packet)[1] = [of |-> packet, part |-> 1]
      /\ Units(packet)[2] = [of |-> packet, part |-> 2]
  BY <1>1 DEF Units
<1> DEFINE u == Units(packet)
<1> HIDE DEF u
<1>3. u \in Seq(Unit) /\ Len(u) = 2  BY <1>2 DEF u
<1>4. /\ s \o u \in Seq(Unit) /\ Len(s \o u) = Len(s) + 2
      /\ \A i \in 1 .. Len(s) : (s \o u)[i] = s[i]
      /\ (s \o u)[Len(s) + 1] = u[1] /\ (s \o u)[Len(s) + 2] = u[2]
  BY <1>3, JoinIs
<1>5. QED  BY <1>2, <1>4 DEF u

LEMMA ReplyIs ==
  ASSUME NEW c \in Asked
  PROVE  Reply(c) \in Packet /\ Reply(c).no = c.no /\ Reply(c).id = Id(c.kind)
         /\ Id(c.kind) \in {"STA", "CAD"}
BY DEF Asked, Packet, Reply, Id

LEMMA FrameIs ==
  ASSUME NEW n \in Nat
  PROVE  Frame(n) \in Packet /\ Frame(n).no = n /\ Frame(n).id = "ADC"
BY DEF Packet, Frame

(* Outside the loop over the packets, idx_bufcom is the end of what is     *)
(* buffered; inside it, it may be behind.                                  *)
PlaceInv ==
  /\ idx_bufcom \in 0 .. Len(bufcom) /\ Len(bufcom) <= BUFCOM
  /\ thr \in {"top", "write", "writefile", "written", "read"} => idx_bufcom = Len(bufcom)

(* A packet that is being looked at is there as a whole. *)
WholeInv ==
  thr \in {"compare", "answer", "clear", "foreign"} => Whole(bufcom)

LEMMA ReturnIs ==
  ASSUME StreamsOK, PlaceInv, Return
  PROVE  /\ bufcom' \in Seq(Unit) /\ Len(bufcom') = idx_bufcom /\ idx_bufcom' = idx_bufcom
         /\ thr' = "top" /\ (Len(bufcom) <= idx_bufcom => bufcom' = bufcom)
         /\ mishaps' = mishaps \cup IF Len(bufcom) > idx_bufcom THEN {"short"} ELSE {}
<1>1. bufcom \in Seq(Unit) /\ idx_bufcom \in 0 .. Len(bufcom) /\ bufcom' = SubSeq(bufcom, 1, idx_bufcom)
  BY DEF StreamsOK, PlaceInv, Return
<1>2. bufcom' \in Seq(Unit) /\ Len(bufcom') = idx_bufcom  BY <1>1
<1>3. Len(bufcom) <= idx_bufcom => bufcom' = bufcom
  <2> SUFFICES ASSUME Len(bufcom) <= idx_bufcom PROVE bufcom' = bufcom  OBVIOUS
  <2>1. idx_bufcom = Len(bufcom)  BY <1>1
  <2>2. SubSeq(bufcom, 1, Len(bufcom)) = bufcom  BY <1>1
  <2>3. QED  BY <1>1, <2>1, <2>2
<1>4. QED  BY <1>2, <1>3 DEF Return

LEMMA ConsumeIs ==
  ASSUME StreamsOK, Whole(bufcom), Consume
  PROVE  /\ bufcom' \in Seq(Unit) /\ Len(bufcom') = Len(bufcom) - 2 /\ Len(bufcom) >= 2
         /\ idx_bufcom' = Len(bufcom')
         /\ \A i \in 1 .. Len(bufcom) - 2 : bufcom'[i] = bufcom[i + 2]
<1>1. bufcom \in Seq(Unit) /\ 2 \in 0 .. Len(bufcom) /\ bufcom' = Drop(bufcom, 2)
      /\ idx_bufcom' = Len(bufcom) - 2
  BY DEF StreamsOK, Whole, Consume
<1>2. /\ Drop(bufcom, 2) \in Seq(Unit) /\ Len(Drop(bufcom, 2)) = Len(bufcom) - 2
      /\ \A i \in 1 .. Len(bufcom) - 2 : Drop(bufcom, 2)[i] = bufcom[i + 2]
  BY <1>1, DropIs
<1>3. QED  BY <1>1, <1>2

(* ReadFile puts n units of the port behind the old ones, or instead.      *)
LEMMA ReadFileIs ==
  ASSUME StreamsOK, PlaceInv, ReadFile
  PROVE  \E n \in 1 .. CHUNK :
           /\ n <= Len(port)
           /\ port' = Drop(port, n) /\ idx_bufcom' \in 0 .. Len(bufcom')
           /\ Len(bufcom') <= BUFCOM
           /\ bufcom' \in Seq(Unit)
           /\ \/ mishaps' = mishaps \cup {"cut"}
              \/ /\ mishaps' = mishaps /\ Len(bufcom') = Len(bufcom) + n
                 /\ \A i \in 1 .. Len(bufcom) : bufcom'[i] = bufcom[i]
                 /\ \A i \in 1 .. n : bufcom'[Len(bufcom) + i] = port[i]
<1>1. PICK n \in 1 .. CHUNK :
        LET old == IF n + idx_bufcom > BUFCOM THEN << >> ELSE bufcom IN
          /\ n <= Len(port)
          /\ bufcom' = old \o SubSeq(port, 1, n) /\ idx_bufcom' = Len(old)
          /\ port' = Drop(port, n)
          /\ mishaps' = mishaps \cup IF old = bufcom THEN {} ELSE {"cut"}
  BY DEF ReadFile
<1> DEFINE old == IF n + idx_bufcom > BUFCOM THEN << >> ELSE bufcom
           new == SubSeq(port, 1, n)
<1>2. bufcom' = old \o new /\ idx_bufcom' = Len(old) /\ port' = Drop(port, n) /\ n <= Len(port)
      /\ mishaps' = mishaps \cup IF old = bufcom THEN {} ELSE {"cut"}
  BY <1>1
<1>3. bufcom \in Seq(Unit) /\ port \in Seq(Unit) /\ idx_bufcom = Len(bufcom) /\ n \in Nat
      /\ Len(bufcom) \in Nat /\ BUFCOM \in Nat /\ CHUNK \in Nat /\ CHUNK <= BUFCOM
  BY Limits DEF StreamsOK, PlaceInv, ReadFile
<1>4. new \in Seq(Unit) /\ Len(new) = n /\ \A i \in 1 .. n : new[i] = port[i]
  BY <1>2, <1>3
<1>5. old \in Seq(Unit) /\ Len(old) + n <= BUFCOM
  <2>1. CASE n + idx_bufcom > BUFCOM
    <3>1. old = << >>  BY <2>1
    <3>2. QED  BY <1>3, <3>1
  <2>2. CASE ~ (n + idx_bufcom > BUFCOM)
    <3>1. old = bufcom  BY <2>2
    <3>2. QED  BY <1>3, <2>2, <3>1
  <2>3. QED  BY <2>1, <2>2
<1> HIDE DEF old, new
<1>6. /\ old \o new \in Seq(Unit) /\ Len(old \o new) = Len(old) + n
      /\ \A i \in 1 .. Len(old) : (old \o new)[i] = old[i]
      /\ \A i \in 1 .. n : (old \o new)[Len(old) + i] = new[i]
  BY <1>4, <1>5, JoinIs
<1>7. idx_bufcom' \in 0 .. Len(bufcom') /\ Len(bufcom') <= BUFCOM /\ bufcom' \in Seq(Unit)
  BY <1>2, <1>3, <1>5, <1>6
<1>8. CASE old = bufcom
  <2>1. mishaps' = mishaps  BY <1>2, <1>8
  <2>2. /\ Len(bufcom') = Len(bufcom) + n
        /\ \A i \in 1 .. Len(bufcom) : bufcom'[i] = bufcom[i]
        /\ \A i \in 1 .. n : bufcom'[Len(bufcom) + i] = port[i]
    BY <1>2, <1>4, <1>6, <1>8
  <2>3. QED  BY <1>2, <1>7, <2>1, <2>2
<1>9. CASE old # bufcom
  <2>1. mishaps' = mishaps \cup {"cut"}  BY <1>2, <1>9
  <2>2. QED  BY <1>2, <1>7, <2>1
<1>10. QED  BY <1>8, <1>9

LEMMA StreamsKept ==
  ASSUME TypesOK, PlaceInv, WholeInv, [Next]_vars
  PROVE  StreamsOK'
<1> USE DEF TypesOK
<1>1. CASE DeviceAnswers
  <2>1. wire # << >> /\ port' = port \o Units(Reply(Head(wire))) /\ bufcom' = bufcom
        /\ bufrx' = bufrx /\ lenrx' = lenrx
    BY <1>1 DEF DeviceAnswers, rxvars, input
  <2>2. Head(wire) \in Asked  BY <2>1 DEF CommandsOK
  <2>3. port' \in Seq(Unit)  BY <2>1, <2>2, ReplyIs, SentIs DEF StreamsOK
  <2>4. QED  BY <2>1, <2>3 DEF StreamsOK
<1>2. CASE DeviceFrame
  <2>1. port' = port \o Units(Frame(frames + 1)) /\ bufcom' = bufcom
        /\ bufrx' = bufrx /\ lenrx' = lenrx
    BY <1>2 DEF DeviceFrame, rxvars, input
  <2>2. frames + 1 \in Nat  BY Limits DEF NumbersOK
  <2>3. port' \in Seq(Unit)  BY <2>1, <2>2, FrameIs, SentIs DEF StreamsOK
  <2>4. QED  BY <2>1, <2>3 DEF StreamsOK
<1>3. CASE Asking
  BY <1>3 DEF Asking, Ask, StreamsOK, device, txvars, rxvars, flags, input, ghosts
<1>4. CASE ClearChart
  BY <1>4 DEF ClearChart, StreamsOK, device, txvars, rxvars, flags, input, ghosts
<1>5. CASE SetWaitId
  BY <1>5 DEF SetWaitId, StreamsOK, device, txvars, rxvars, flags, input, ghosts
<1>6. CASE SetWaitCnt
  BY <1>6 DEF SetWaitCnt, StreamsOK, device, txvars, rxvars, flags, input, ghosts
<1>7. CASE SetLenTx
  BY <1>7 DEF SetLenTx, StreamsOK, device, txvars, rxvars, flags, input, ghosts
<1>8. CASE Sent
  BY <1>8 DEF Sent, StreamsOK, device, txvars, rxvars, flags, input, ghosts
<1>9. CASE SendTimeout
  BY <1>9 DEF SendTimeout, StreamsOK, device, txvars, rxvars, flags, input, ghosts
<1>10. CASE ReadBlk
  BY <1>10 DEF ReadBlk, StreamsOK, device, txvars, rxvars, flags, input, ghosts
<1>11. CASE ReadTimeout
  BY <1>11 DEF ReadTimeout, StreamsOK, device, txvars, rxvars, flags, input, ghosts
<1>12. CASE Accepted
  BY <1>12 DEF Accepted, StreamsOK, device, txvars, rxvars, flags, input, ghosts
<1>13. CASE Purge
  <2>1. bufrx' = bufrx /\ lenrx' = lenrx  BY <1>13 DEF Purge, rxvars
  <2>2. CASE ~ purge_com  BY <1>13, <2>1, <2>2 DEF Purge, StreamsOK, input
  <2>3. CASE purge_com
    <3>1. PICK n \in 0 .. Len(port) : port' = Drop(port, n)  BY <1>13, <2>3 DEF Purge
    <3>2. port' \in Seq(Unit)  BY <3>1, DropIs DEF StreamsOK
    <3>3. bufcom' = << >>  BY <1>13, <2>3 DEF Purge
    <3>4. bufcom' \in Seq(Unit)  BY <3>3
    <3>5. QED  BY <2>1, <3>2, <3>4 DEF StreamsOK
  <2>4. QED  BY <2>2, <2>3
<1>14. CASE CheckTx
  BY <1>14 DEF CheckTx, StreamsOK, device, txvars, rxvars, flags, input, ghosts
<1>15. CASE WriteFile
  BY <1>15 DEF WriteFile, StreamsOK, device, txvars, rxvars, flags, input, ghosts
<1>16. CASE Written
  BY <1>16 DEF Written, StreamsOK, device, txvars, rxvars, flags, input, ghosts
<1>17. CASE ReadFile
  <2>1. bufrx' = bufrx /\ lenrx' = lenrx  BY <1>17 DEF ReadFile, rxvars
  <2>2. PICK n \in 1 .. CHUNK : n <= Len(port) /\ port' = Drop(port, n) /\ bufcom' \in Seq(Unit)
    BY <1>17, ReadFileIs
  <2>3. n \in 0 .. Len(port)  BY <2>2, Limits DEF StreamsOK
  <2>4. port' \in Seq(Unit)  BY <2>2, <2>3, DropIs DEF StreamsOK
  <2>5. QED  BY <2>1, <2>2, <2>4 DEF StreamsOK
<1>18. CASE ReadNothing
  BY <1>18 DEF ReadNothing, StreamsOK, device, txvars, rxvars, flags, input, ghosts
<1>19. CASE ReadFails
  <2>1. bufcom' = << >> /\ port' = port /\ bufrx' = bufrx /\ lenrx' = lenrx
    BY <1>19 DEF ReadFails, device, rxvars
  <2>2. bufcom' \in Seq(Unit)  BY <2>1
  <2>3. QED  BY <2>1, <2>2 DEF StreamsOK
<1>20. CASE NoMorePackets
  <2>1. Return /\ port' = port /\ bufrx' = bufrx /\ lenrx' = lenrx
    BY <1>20 DEF NoMorePackets, device, rxvars
  <2>2. bufcom' \in Seq(Unit)  BY <2>1, ReturnIs
  <2>3. QED  BY <2>1, <2>2 DEF StreamsOK
<1>21. CASE TakeFrame
  <2>1. Consume /\ Whole(bufcom) /\ port' = port /\ bufrx' = bufrx /\ lenrx' = lenrx
    BY <1>21 DEF TakeFrame, device, rxvars
  <2>2. bufcom' \in Seq(Unit)  BY <2>1, ConsumeIs
  <2>3. QED  BY <2>1, <2>2 DEF StreamsOK
<1>22. CASE Skip
  <2>1. Consume \/ bufcom' = bufcom  BY <1>22 DEF Skip, input
  <2>2. Whole(bufcom) /\ port' = port /\ bufrx' = bufrx /\ lenrx' = lenrx
    BY <1>22 DEF Skip, device, rxvars
  <2>3. bufcom' \in Seq(Unit)  BY <2>1, <2>2, ConsumeIs DEF StreamsOK
  <2>4. QED  BY <2>2, <2>3 DEF StreamsOK
<1>23. CASE Compare
  BY <1>23 DEF Compare, StreamsOK, device, txvars, rxvars, flags, input, ghosts
<1>24. CASE Answer
  <2>1. bufrx' = bufcom[1].of /\ lenrx' = LenOf(bufcom[1].of) /\ port' = port /\ bufcom' = bufcom
        /\ thr = "answer"
    BY <1>24 DEF Answer, device, input
  <2>2. Len(bufcom) >= 2  BY <2>1 DEF WholeInv, Whole
  <2>3. bufcom[1] \in Unit  BY <2>2 DEF StreamsOK
  <2>4. bufcom[1].of \in Packet  BY <2>3 DEF Unit, Packet
  <2>5. LenOf(bufcom[1].of) \in {0, 6, 8}  BY DEF LenOf
  <2>6. QED  BY <2>1, <2>4, <2>5 DEF StreamsOK
<1>25. CASE Clear
  <2>1. Consume /\ thr = "clear" /\ port' = port /\ bufrx' = bufrx /\ lenrx' = lenrx
    BY <1>25 DEF Clear, device
  <2>2. bufcom' \in Seq(Unit)  BY <2>1, ConsumeIs DEF WholeInv
  <2>3. QED  BY <2>1, <2>2 DEF StreamsOK
<1>26. CASE Foreign
  <2>1. Consume \/ bufcom' = bufcom  BY <1>26 DEF Foreign, input
  <2>2. thr = "foreign" /\ port' = port /\ bufrx' = bufrx /\ lenrx' \in {0, lenrx}
    BY <1>26 DEF Foreign, device
  <2>3. bufcom' \in Seq(Unit)  BY <2>1, <2>2, ConsumeIs DEF WholeInv, StreamsOK
  <2>4. QED  BY <2>2, <2>3 DEF StreamsOK
<1>27. CASE GiveUp
  <2>1. Return /\ port' = port /\ bufrx' = bufrx /\ lenrx' = lenrx
    BY <1>27 DEF GiveUp, device, rxvars
  <2>2. bufcom' \in Seq(Unit)  BY <2>1, ReturnIs
  <2>3. QED  BY <2>1, <2>2 DEF StreamsOK
<1>28. CASE Garbled
  <2>1. port' = port /\ bufrx' \in {bufrx, Nothing} /\ lenrx' \in {0, lenrx} \cup LENGTHS
    BY <1>28, GarbledIs, GarbledLeaves DEF TypesOK
  <2>2. Nothing \in Packet  BY DEF Nothing, Packet
  <2>3. bufcom' \in Seq(Unit)
    <3>1. CASE bufcom' = << >>  BY <3>1
    <3>2. CASE Return  BY <3>2, ReturnIs
    <3>3. CASE \E n \in 1 .. Len(bufcom) : bufcom' = Drop(bufcom, n)
      <4>1. PICK n \in 0 .. Len(bufcom) : bufcom' = Drop(bufcom, n)  BY <3>3 DEF StreamsOK
      <4>2. QED  BY <4>1, DropIs DEF StreamsOK
    <3>4. CASE UNCHANGED input  BY <3>4 DEF StreamsOK, input
    <3>5. QED  BY <1>28, <3>1, <3>2, <3>3, <3>4, GarbledInput DEF ConsumeAll
  <2>4. bufrx' \in Packet /\ lenrx' \in {0, 6, 8} \cup LENGTHS  BY <2>1, <2>2 DEF StreamsOK
  <2>5. QED  BY <2>1, <2>3, <2>4 DEF StreamsOK
<1>29. CASE UNCHANGED vars
  BY <1>29 DEF vars, StreamsOK, device, txvars, rxvars, flags, input, ghosts
<1>30. QED
  BY <1>1, <1>2, <1>3, <1>4, <1>5, <1>6, <1>7, <1>8, <1>9, <1>10,
     <1>11, <1>12, <1>13, <1>14, <1>15, <1>16, <1>17, <1>18, <1>19, <1>20,
     <1>21, <1>22, <1>23, <1>24, <1>25, <1>26, <1>27, <1>28, <1>29, Steps

LEMMA PlaceKept ==
  ASSUME TypesOK, PlaceInv, WholeInv, [Next]_vars
  PROVE  PlaceInv'
<1> USE DEF TypesOK
<1>1. CASE DeviceAnswers
  BY <1>1 DEF DeviceAnswers, PlaceInv, device, txvars, rxvars, flags, input, ghosts
<1>2. CASE DeviceFrame
  BY <1>2 DEF DeviceFrame, PlaceInv, device, txvars, rxvars, flags, input, ghosts
<1>3. CASE Asking
  BY <1>3 DEF Asking, Ask, PlaceInv, device, txvars, rxvars, flags, input, ghosts
<1>4. CASE ClearChart
  BY <1>4 DEF ClearChart, PlaceInv, device, txvars, rxvars, flags, input, ghosts
<1>5. CASE SetWaitId
  BY <1>5 DEF SetWaitId, PlaceInv, device, txvars, rxvars, flags, input, ghosts
<1>6. CASE SetWaitCnt
  BY <1>6 DEF SetWaitCnt, PlaceInv, device, txvars, rxvars, flags, input, ghosts
<1>7. CASE SetLenTx
  BY <1>7 DEF SetLenTx, PlaceInv, device, txvars, rxvars, flags, input, ghosts
<1>8. CASE Sent
  BY <1>8 DEF Sent, PlaceInv, device, txvars, rxvars, flags, input, ghosts
<1>9. CASE SendTimeout
  BY <1>9 DEF SendTimeout, PlaceInv, device, txvars, rxvars, flags, input, ghosts
<1>10. CASE ReadBlk
  BY <1>10 DEF ReadBlk, PlaceInv, device, txvars, rxvars, flags, input, ghosts
<1>11. CASE ReadTimeout
  BY <1>11 DEF ReadTimeout, PlaceInv, device, txvars, rxvars, flags, input, ghosts
<1>12. CASE Accepted
  BY <1>12 DEF Accepted, PlaceInv, device, txvars, rxvars, flags, input, ghosts
<1>13. CASE Purge
  <2>1. CASE ~ purge_com
    <3>1. bufcom' = bufcom /\ idx_bufcom' = idx_bufcom /\ thr = "top"  BY <1>13, <2>1 DEF Purge, input
    <3>2. QED  BY <3>1 DEF PlaceInv
  <2>2. CASE purge_com
    <3>1. bufcom' = << >> /\ idx_bufcom' = 0  BY <1>13, <2>2 DEF Purge
    <3>2. Len(bufcom') = 0  BY <3>1
    <3>3. QED  BY <3>1, <3>2, Limits DEF PlaceInv
  <2>3. QED  BY <2>1, <2>2
<1>14. CASE CheckTx
  BY <1>14 DEF CheckTx, PlaceInv, device, txvars, rxvars, flags, input, ghosts
<1>15. CASE WriteFile
  BY <1>15 DEF WriteFile, PlaceInv, device, txvars, rxvars, flags, input, ghosts
<1>16. CASE Written
  BY <1>16 DEF Written, PlaceInv, device, txvars, rxvars, flags, input, ghosts
<1>17. CASE ReadFile
  <2>1. idx_bufcom' \in 0 .. Len(bufcom') /\ Len(bufcom') <= BUFCOM  BY <1>17, ReadFileIs
  <2>2. thr' = "packets"  BY <1>17 DEF ReadFile
  <2>3. QED  BY <2>1, <2>2 DEF PlaceInv
<1>18. CASE ReadNothing
  BY <1>18 DEF ReadNothing, PlaceInv, device, txvars, rxvars, flags, input, ghosts
<1>19. CASE ReadFails
  <2>1. bufcom' = << >> /\ idx_bufcom' = 0  BY <1>19 DEF ReadFails
  <2>2. Len(bufcom') = 0  BY <2>1
  <2>3. QED  BY <2>1, <2>2, Limits DEF PlaceInv
<1>20. CASE NoMorePackets
  <2>1. Return  BY <1>20 DEF NoMorePackets
  <2>2. Len(bufcom') = idx_bufcom /\ idx_bufcom' = idx_bufcom  BY <2>1, ReturnIs
  <2>3. QED  BY <2>2, Limits DEF PlaceInv
<1>21. CASE TakeFrame
  <2>1. Len(bufcom') = Len(bufcom) - 2 /\ Len(bufcom) >= 2 /\ idx_bufcom' = Len(bufcom')
    BY <1>21, ConsumeIs DEF TakeFrame, WholeInv
  <2>2. Len(bufcom) \in Nat  BY DEF StreamsOK
  <2>3. Len(bufcom) <= BUFCOM /\ BUFCOM \in Nat  BY Limits DEF PlaceInv
  <2>4. idx_bufcom' \in 0 .. Len(bufcom') /\ Len(bufcom') <= BUFCOM  BY <2>1, <2>2, <2>3
  <2>5. QED  BY <2>1, <2>4 DEF PlaceInv
<1>22. CASE Skip
  <2>1. CASE Consume
    <3>1. Len(bufcom') = Len(bufcom) - 2 /\ Len(bufcom) >= 2 /\ idx_bufcom' = Len(bufcom')
      BY <1>22, <2>1, ConsumeIs DEF Skip
    <3>2. Len(bufcom) \in Nat  BY DEF StreamsOK
    <3>3. Len(bufcom) <= BUFCOM /\ BUFCOM \in Nat  BY Limits DEF PlaceInv
    <3>4. idx_bufcom' \in 0 .. Len(bufcom') /\ Len(bufcom') <= BUFCOM  BY <3>1, <3>2, <3>3
    <3>5. QED  BY <3>1, <3>4 DEF PlaceInv
  <2>2. CASE thr' = "compare" /\ UNCHANGED input  BY <2>2 DEF PlaceInv, input
  <2>3. QED  BY <1>22, <2>1, <2>2 DEF Skip
<1>23. CASE Compare
  BY <1>23 DEF Compare, PlaceInv, device, txvars, rxvars, flags, input, ghosts
<1>24. CASE Answer
  BY <1>24 DEF Answer, PlaceInv, device, txvars, rxvars, flags, input, ghosts
<1>25. CASE Clear
  <2>1. Len(bufcom') = Len(bufcom) - 2 /\ Len(bufcom) >= 2 /\ idx_bufcom' = Len(bufcom')
    BY <1>25, ConsumeIs DEF Clear, WholeInv
  <2>2. Len(bufcom) \in Nat  BY DEF StreamsOK
  <2>3. Len(bufcom) <= BUFCOM /\ BUFCOM \in Nat  BY Limits DEF PlaceInv
  <2>4. idx_bufcom' \in 0 .. Len(bufcom') /\ Len(bufcom') <= BUFCOM  BY <2>1, <2>2, <2>3
  <2>5. QED  BY <2>1, <2>4 DEF PlaceInv
<1>26. CASE Foreign
  <2>1. CASE Consume
    <3>1. Len(bufcom') = Len(bufcom) - 2 /\ Len(bufcom) >= 2 /\ idx_bufcom' = Len(bufcom')
      BY <1>26, <2>1, ConsumeIs DEF Foreign, WholeInv
    <3>2. Len(bufcom) \in Nat  BY DEF StreamsOK
    <3>3. Len(bufcom) <= BUFCOM /\ BUFCOM \in Nat  BY Limits DEF PlaceInv
    <3>4. idx_bufcom' \in 0 .. Len(bufcom') /\ Len(bufcom') <= BUFCOM  BY <3>1, <3>2, <3>3
    <3>5. QED  BY <3>1, <3>4 DEF PlaceInv
  <2>2. CASE thr' = "giveup" /\ UNCHANGED input  BY <2>2 DEF PlaceInv, input
  <2>3. QED  BY <1>26, <2>1, <2>2 DEF Foreign
<1>27. CASE GiveUp
  <2>1. Return  BY <1>27 DEF GiveUp
  <2>2. Len(bufcom') = idx_bufcom /\ idx_bufcom' = idx_bufcom  BY <2>1, ReturnIs
  <2>3. QED  BY <2>2, Limits DEF PlaceInv
<1>28. CASE Garbled
  <2>1. Len(bufcom) \in Nat /\ bufcom \in Seq(Unit)  BY DEF StreamsOK
  <2>2. CASE ConsumeAll
    <3>1. bufcom' = << >> /\ idx_bufcom' = 0  BY <2>2 DEF ConsumeAll
    <3>2. Len(bufcom') = 0  BY <3>1
    <3>3. QED  BY <3>1, <3>2, Limits DEF PlaceInv
  <2>3. CASE Return
    <3>1. Len(bufcom') = idx_bufcom /\ idx_bufcom' = idx_bufcom  BY <2>3, ReturnIs
    <3>2. QED  BY <3>1, Limits DEF PlaceInv
  <2>4. CASE \E n \in 1 .. Len(bufcom) :
               bufcom' = Drop(bufcom, n) /\ idx_bufcom' = Len(bufcom) - n /\ thr' = thr
    <3>1. PICK n \in 0 .. Len(bufcom) :
            bufcom' = Drop(bufcom, n) /\ idx_bufcom' = Len(bufcom) - n
      BY <2>1, <2>4
    <3>2. Len(bufcom') = Len(bufcom) - n  BY <2>1, <3>1, DropIs
    <3>3. QED  BY <2>1, <3>1, <3>2, Limits DEF PlaceInv
  <2>5. CASE UNCHANGED input /\ thr' = "giveup"  BY <2>5 DEF PlaceInv, input
  <2>6. QED  BY <1>28, <2>2, <2>3, <2>4, <2>5, GarbledInput
<1>29. CASE UNCHANGED vars
  BY <1>29 DEF vars, PlaceInv, device, txvars, rxvars, flags, input, ghosts
<1>30. QED
  BY <1>1, <1>2, <1>3, <1>4, <1>5, <1>6, <1>7, <1>8, <1>9, <1>10,
     <1>11, <1>12, <1>13, <1>14, <1>15, <1>16, <1>17, <1>18, <1>19, <1>20,
     <1>21, <1>22, <1>23, <1>24, <1>25, <1>26, <1>27, <1>28, <1>29, Steps

LEMMA WholeKept ==
  ASSUME WholeInv, [Next]_vars, WordsOK
  PROVE  WholeInv'
<1>1. CASE DeviceAnswers
  BY <1>1 DEF DeviceAnswers, WholeInv, device, txvars, rxvars, flags, input, ghosts
<1>2. CASE DeviceFrame
  BY <1>2 DEF DeviceFrame, WholeInv, device, txvars, rxvars, flags, input, ghosts
<1>3. CASE Asking
  BY <1>3 DEF Asking, Ask, WholeInv, device, txvars, rxvars, flags, input, ghosts
<1>4. CASE ClearChart
  BY <1>4 DEF ClearChart, WholeInv, device, txvars, rxvars, flags, input, ghosts
<1>5. CASE SetWaitId
  BY <1>5 DEF SetWaitId, WholeInv, device, txvars, rxvars, flags, input, ghosts
<1>6. CASE SetWaitCnt
  BY <1>6 DEF SetWaitCnt, WholeInv, device, txvars, rxvars, flags, input, ghosts
<1>7. CASE SetLenTx
  BY <1>7 DEF SetLenTx, WholeInv, device, txvars, rxvars, flags, input, ghosts
<1>8. CASE Sent
  BY <1>8 DEF Sent, WholeInv, device, txvars, rxvars, flags, input, ghosts
<1>9. CASE SendTimeout
  BY <1>9 DEF SendTimeout, WholeInv, device, txvars, rxvars, flags, input, ghosts
<1>10. CASE ReadBlk
  BY <1>10 DEF ReadBlk, WholeInv, device, txvars, rxvars, flags, input, ghosts
<1>11. CASE ReadTimeout
  BY <1>11 DEF ReadTimeout, WholeInv, device, txvars, rxvars, flags, input, ghosts
<1>12. CASE Accepted
  BY <1>12 DEF Accepted, WholeInv, device, txvars, rxvars, flags, input, ghosts
<1>13. CASE Purge
  BY <1>13 DEF Purge, WholeInv, device, txvars, rxvars, flags, input, ghosts
<1>14. CASE CheckTx
  BY <1>14 DEF CheckTx, WholeInv, device, txvars, rxvars, flags, input, ghosts
<1>15. CASE WriteFile
  BY <1>15 DEF WriteFile, WholeInv, device, txvars, rxvars, flags, input, ghosts
<1>16. CASE Written
  BY <1>16 DEF Written, WholeInv, device, txvars, rxvars, flags, input, ghosts
<1>17. CASE ReadFile
  BY <1>17 DEF ReadFile, WholeInv, device, txvars, rxvars, flags, input, ghosts
<1>18. CASE ReadNothing
  BY <1>18 DEF ReadNothing, WholeInv, device, txvars, rxvars, flags, input, ghosts
<1>19. CASE ReadFails
  BY <1>19 DEF ReadFails, WholeInv, device, txvars, rxvars, flags, input, ghosts
<1>20. CASE NoMorePackets
  BY <1>20 DEF NoMorePackets, Return, WholeInv, device, txvars, rxvars, flags, input, ghosts
<1>21. CASE TakeFrame
  BY <1>21 DEF TakeFrame, Consume, WholeInv, device, txvars, rxvars, flags, input, ghosts
<1>22. CASE Skip
  BY <1>22 DEF Skip, Consume, WholeInv, device, txvars, rxvars, flags, input, ghosts
<1>23. CASE Compare
  BY <1>23 DEF Compare, WholeInv, device, txvars, rxvars, flags, input, ghosts
<1>24. CASE Answer
  BY <1>24 DEF Answer, WholeInv, device, txvars, rxvars, flags, input, ghosts
<1>25. CASE Clear
  BY <1>25 DEF Clear, Consume, WholeInv, device, txvars, rxvars, flags, input, ghosts
<1>26. CASE Foreign
  BY <1>26 DEF Foreign, Consume, WholeInv, device, txvars, rxvars, flags, input, ghosts
<1>27. CASE GiveUp
  BY <1>27 DEF GiveUp, Return, WholeInv, device, txvars, rxvars, flags, input, ghosts
<1>28. CASE Garbled
  BY <1>28, GarbledIs DEF WholeInv, TypesOK
<1>29. CASE UNCHANGED vars
  BY <1>29 DEF vars, WholeInv, device, txvars, rxvars, flags, input, ghosts
<1>30. QED
  BY <1>1, <1>2, <1>3, <1>4, <1>5, <1>6, <1>7, <1>8, <1>9, <1>10,
     <1>11, <1>12, <1>13, <1>14, <1>15, <1>16, <1>17, <1>18, <1>19, <1>20,
     <1>21, <1>22, <1>23, <1>24, <1>25, <1>26, <1>27, <1>28, <1>29, Steps

-------------------------------------------------------------------------------
(* A command asked is still to be sent, in lentx, or sent; none twice.     *)
Unsent == IF gui \in {"enter", "armed", "ready"} THEN 1 ELSE 0
Unwritten == IF lentx # 0 /\ thr # "written" THEN 1 ELSE 0
CountInv == Len(wire) + Unsent + Unwritten <= asked

LEMMA CountLeftAlone ==
  ASSUME CommandsOK, CountInv, wire' = wire, asked' = asked, lentx' \in {lentx, 0},
         thr # "written" \/ thr' = thr,
         gui' = gui \/ gui \in {"enter", "armed", "ready"} \/ gui' \notin {"enter", "armed", "ready"}
  PROVE  CountInv'
<1>1. Len(wire) \in Nat /\ asked \in Nat  BY Limits DEF CommandsOK
<1>2. Unsent' <= Unsent /\ Unsent \in {0, 1} /\ Unsent' \in {0, 1}  BY DEF Unsent
<1>3. Unwritten' <= Unwritten /\ Unwritten \in {0, 1} /\ Unwritten' \in {0, 1}  BY DEF Unwritten
<1>4. QED  BY <1>1, <1>2, <1>3 DEF CountInv

LEMMA CountKept ==
  ASSUME TypesOK, CountInv, [Next]_vars
  PROVE  CountInv'
<1> USE DEF TypesOK
<1> Len(wire) \in Nat /\ asked \in Nat  BY Limits DEF CommandsOK
<1>1. CASE DeviceAnswers
  <2>1. /\ wire # << >> /\ wire' = Tail(wire) /\ asked' = asked /\ lentx' = lentx /\ thr' = thr
        /\ gui' = gui
    BY <1>1 DEF DeviceAnswers, txvars
  <2>2. Len(wire') = Len(wire) - 1  BY <2>1 DEF CommandsOK
  <2>3. Unsent' = Unsent /\ Unwritten' = Unwritten  BY <2>1 DEF Unsent, Unwritten
  <2>4. Unsent \in {0, 1} /\ Unwritten \in {0, 1}  BY DEF Unsent, Unwritten
  <2>5. QED  BY <2>1, <2>2, <2>3, <2>4 DEF CountInv
<1>2. CASE DeviceFrame
  BY <1>2, CountLeftAlone DEF DeviceFrame, device, txvars, rxvars, flags, input, ghosts
<1>3. CASE Asking
  <2>1. /\ gui = "idle" /\ gui' = "enter" /\ asked' = asked + 1 /\ wire' = wire
        /\ lentx' = lentx /\ thr' = thr
    BY <1>3 DEF Asking, Ask, device
  <2>2. Unsent = 0 /\ Unsent' = 1 /\ Unwritten' = Unwritten  BY <2>1 DEF Unsent, Unwritten
  <2>3. Unwritten \in {0, 1}  BY DEF Unwritten
  <2>4. QED  BY <2>1, <2>2, <2>3 DEF CountInv
<1>4. CASE ClearChart
  BY <1>4, CountLeftAlone DEF ClearChart, device, txvars, rxvars, flags, input, ghosts
<1>5. CASE SetWaitId
  BY <1>5, CountLeftAlone DEF SetWaitId, device, txvars, rxvars, flags, input, ghosts
<1>6. CASE SetWaitCnt
  BY <1>6, CountLeftAlone DEF SetWaitCnt, device, txvars, rxvars, flags, input, ghosts
<1>7. CASE SetLenTx
  <2>1. gui = "ready" /\ gui' = "sending" /\ wire' = wire /\ asked' = asked
    BY <1>7 DEF SetLenTx, device
  <2>2. Unsent = 1 /\ Unsent' = 0  BY <2>1 DEF Unsent
  <2>3. Unwritten \in {0, 1} /\ Unwritten' \in {0, 1}  BY DEF Unwritten
  <2>4. QED  BY <2>1, <2>2, <2>3 DEF CountInv
<1>8. CASE Sent
  BY <1>8, CountLeftAlone DEF Sent, device, txvars, rxvars, flags, input, ghosts
<1>9. CASE SendTimeout
  BY <1>9, CountLeftAlone DEF SendTimeout, device, txvars, rxvars, flags, input, ghosts
<1>10. CASE ReadBlk
  BY <1>10, CountLeftAlone DEF ReadBlk, device, txvars, rxvars, flags, input, ghosts
<1>11. CASE ReadTimeout
  BY <1>11, CountLeftAlone DEF ReadTimeout, device, txvars, rxvars, flags, input, ghosts
<1>12. CASE Accepted
  BY <1>12, CountLeftAlone DEF Accepted, device, txvars, rxvars, flags, input, ghosts
<1>13. CASE Purge
  BY <1>13, CountLeftAlone DEF Purge, device, txvars, rxvars, flags, input, ghosts
<1>14. CASE CheckTx
  BY <1>14, CountLeftAlone DEF CheckTx, device, txvars, rxvars, flags, input, ghosts
<1>15. CASE WriteFile
  <2>1. /\ thr = "writefile" /\ thr' = "written" /\ gui' = gui /\ asked' = asked
        /\ (lentx # 0 /\ wire' = Append(wire, buftx)) \/ wire' = wire
    BY <1>15 DEF WriteFile
  <2>2. Unsent' = Unsent /\ Unwritten' = 0  BY <2>1 DEF Unsent, Unwritten
  <2>3. CASE lentx # 0 /\ wire' = Append(wire, buftx)
    <3>1. Unwritten = 1  BY <2>1, <2>3 DEF Unwritten
    <3>2. Len(wire') = Len(wire) + 1  BY <2>3 DEF CommandsOK
    <3>3. Unsent \in {0, 1}  BY DEF Unsent
    <3>4. QED  BY <2>1, <2>2, <3>1, <3>2, <3>3 DEF CountInv
  <2>4. CASE wire' = wire
    <3>1. Unwritten \in {0, 1} /\ Unsent \in {0, 1}  BY DEF Unsent, Unwritten
    <3>2. QED  BY <2>1, <2>2, <2>4, <3>1 DEF CountInv
  <2>5. QED  BY <2>1, <2>3, <2>4
<1>16. CASE Written
  <2>1. lentx' = 0 /\ wire' = wire /\ asked' = asked /\ gui' = gui
    BY <1>16 DEF Written, device
  <2>2. Unsent' = Unsent /\ Unwritten' = 0  BY <2>1 DEF Unsent, Unwritten
  <2>3. Unwritten \in {0, 1} /\ Unsent \in {0, 1}  BY DEF Unsent, Unwritten
  <2>4. QED  BY <2>1, <2>2, <2>3 DEF CountInv
<1>17. CASE ReadFile
  BY <1>17, CountLeftAlone DEF ReadFile, device, txvars, rxvars, flags, input, ghosts
<1>18. CASE ReadNothing
  BY <1>18, CountLeftAlone DEF ReadNothing, device, txvars, rxvars, flags, input, ghosts
<1>19. CASE ReadFails
  BY <1>19, CountLeftAlone DEF ReadFails, device, txvars, rxvars, flags, input, ghosts
<1>20. CASE NoMorePackets
  BY <1>20, CountLeftAlone DEF NoMorePackets, Return, device, txvars, rxvars, flags, input, ghosts
<1>21. CASE TakeFrame
  BY <1>21, CountLeftAlone DEF TakeFrame, Consume, device, txvars, rxvars, flags, input, ghosts
<1>22. CASE Skip
  BY <1>22, CountLeftAlone DEF Skip, Consume, device, txvars, rxvars, flags, input, ghosts
<1>23. CASE Compare
  BY <1>23, CountLeftAlone DEF Compare, device, txvars, rxvars, flags, input, ghosts
<1>24. CASE Answer
  BY <1>24, CountLeftAlone DEF Answer, device, txvars, rxvars, flags, input, ghosts
<1>25. CASE Clear
  BY <1>25, CountLeftAlone DEF Clear, Consume, device, txvars, rxvars, flags, input, ghosts
<1>26. CASE Foreign
  BY <1>26, CountLeftAlone DEF Foreign, Consume, device, txvars, rxvars, flags, input, ghosts
<1>27. CASE GiveUp
  BY <1>27, CountLeftAlone DEF GiveUp, Return, device, txvars, rxvars, flags, input, ghosts
<1>28. CASE Garbled
  BY <1>28, CountLeftAlone, GarbledIs, GarbledLeaves
<1>29. CASE UNCHANGED vars
  BY <1>29, CountLeftAlone DEF vars, device, txvars, rxvars, flags, input, ghosts
<1>30. QED
  BY <1>1, <1>2, <1>3, <1>4, <1>5, <1>6, <1>7, <1>8, <1>9, <1>10,
     <1>11, <1>12, <1>13, <1>14, <1>15, <1>16, <1>17, <1>18, <1>19, <1>20,
     <1>21, <1>22, <1>23, <1>24, <1>25, <1>26, <1>27, <1>28, <1>29, Steps

LEMMA MishapsGrow ==
  ASSUME WordsOK, [Next]_vars
  PROVE  mishaps \subseteq mishaps'
<1>1. CASE DeviceAnswers
  BY <1>1 DEF DeviceAnswers, device, txvars, rxvars, flags, input, ghosts
<1>2. CASE DeviceFrame
  BY <1>2 DEF DeviceFrame, device, txvars, rxvars, flags, input, ghosts
<1>3. CASE Asking
  BY <1>3 DEF Asking, Ask, device, txvars, rxvars, flags, input, ghosts
<1>4. CASE ClearChart
  BY <1>4 DEF ClearChart, device, txvars, rxvars, flags, input, ghosts
<1>5. CASE SetWaitId
  BY <1>5 DEF SetWaitId, device, txvars, rxvars, flags, input, ghosts
<1>6. CASE SetWaitCnt
  BY <1>6 DEF SetWaitCnt, device, txvars, rxvars, flags, input, ghosts
<1>7. CASE SetLenTx
  BY <1>7 DEF SetLenTx, device, txvars, rxvars, flags, input, ghosts
<1>8. CASE Sent  BY <1>8 DEF Sent, device, txvars, rxvars, flags, input, ghosts
<1>9. CASE SendTimeout
  BY <1>9 DEF SendTimeout, device, txvars, rxvars, flags, input, ghosts
<1>10. CASE ReadBlk
  BY <1>10 DEF ReadBlk, device, txvars, rxvars, flags, input, ghosts
<1>11. CASE ReadTimeout
  BY <1>11 DEF ReadTimeout, device, txvars, rxvars, flags, input, ghosts
<1>12. CASE Accepted
  BY <1>12 DEF Accepted, device, txvars, rxvars, flags, input, ghosts
<1>13. CASE Purge  BY <1>13 DEF Purge, device, txvars, rxvars, flags, input, ghosts
<1>14. CASE CheckTx
  BY <1>14 DEF CheckTx, device, txvars, rxvars, flags, input, ghosts
<1>15. CASE WriteFile
  BY <1>15 DEF WriteFile, device, txvars, rxvars, flags, input, ghosts
<1>16. CASE Written
  BY <1>16 DEF Written, device, txvars, rxvars, flags, input, ghosts
<1>17. CASE ReadFile
  BY <1>17 DEF ReadFile, device, txvars, rxvars, flags, input, ghosts
<1>18. CASE ReadNothing
  BY <1>18 DEF ReadNothing, device, txvars, rxvars, flags, input, ghosts
<1>19. CASE ReadFails
  BY <1>19 DEF ReadFails, device, txvars, rxvars, flags, input, ghosts
<1>20. CASE NoMorePackets
  BY <1>20 DEF NoMorePackets, Return, device, txvars, rxvars, flags, input, ghosts
<1>21. CASE TakeFrame
  BY <1>21 DEF TakeFrame, Consume, device, txvars, rxvars, flags, input, ghosts
<1>22. CASE Skip
  BY <1>22 DEF Skip, Consume, device, txvars, rxvars, flags, input, ghosts
<1>23. CASE Compare
  BY <1>23 DEF Compare, device, txvars, rxvars, flags, input, ghosts
<1>24. CASE Answer
  BY <1>24 DEF Answer, device, txvars, rxvars, flags, input, ghosts
<1>25. CASE Clear
  BY <1>25 DEF Clear, Consume, device, txvars, rxvars, flags, input, ghosts
<1>26. CASE Foreign
  BY <1>26 DEF Foreign, Consume, device, txvars, rxvars, flags, input, ghosts
<1>27. CASE GiveUp
  BY <1>27 DEF GiveUp, Return, device, txvars, rxvars, flags, input, ghosts
<1>28. CASE Garbled
  BY <1>28, GarbledIs
<1>29. CASE UNCHANGED vars
  BY <1>29 DEF vars, device, txvars, rxvars, flags, input, ghosts
<1>30. QED
  BY <1>1, <1>2, <1>3, <1>4, <1>5, <1>6, <1>7, <1>8, <1>9, <1>10,
     <1>11, <1>12, <1>13, <1>14, <1>15, <1>16, <1>17, <1>18, <1>19, <1>20,
     <1>21, <1>22, <1>23, <1>24, <1>25, <1>26, <1>27, <1>28, <1>29, Steps

(* lenrx is within bufrx, unless a misread answer was moved over its end.  *)
FitInv == Defined => lenrx <= BUFRX

LEMMA LengthSet ==
  ASSUME WordsOK, [Next]_vars
  PROVE  \/ lenrx' \in {0, 6, 8, lenrx}
         \/ lenrx' > BUFRX => "overrun" \in mishaps'
<1>1. CASE DeviceAnswers  BY <1>1 DEF DeviceAnswers, rxvars
<1>2. CASE DeviceFrame  BY <1>2 DEF DeviceFrame, rxvars
<1>3. CASE Asking  BY <1>3 DEF Asking, Ask, rxvars
<1>4. CASE ClearChart  BY <1>4 DEF ClearChart, rxvars
<1>5. CASE SetWaitId  BY <1>5 DEF SetWaitId, rxvars
<1>6. CASE SetWaitCnt  BY <1>6 DEF SetWaitCnt, rxvars
<1>7. CASE SetLenTx  BY <1>7 DEF SetLenTx, rxvars
<1>8. CASE Sent  BY <1>8 DEF Sent, rxvars
<1>9. CASE SendTimeout  BY <1>9 DEF SendTimeout, rxvars
<1>10. CASE ReadBlk  BY <1>10 DEF ReadBlk, rxvars
<1>11. CASE ReadTimeout  BY <1>11 DEF ReadTimeout, rxvars
<1>12. CASE Accepted  BY <1>12 DEF Accepted, rxvars
<1>13. CASE Purge  BY <1>13 DEF Purge, rxvars
<1>14. CASE CheckTx  BY <1>14 DEF CheckTx, rxvars
<1>15. CASE WriteFile  BY <1>15 DEF WriteFile, rxvars
<1>16. CASE Written  BY <1>16 DEF Written, rxvars
<1>17. CASE ReadFile  BY <1>17 DEF ReadFile, rxvars
<1>18. CASE ReadNothing  BY <1>18 DEF ReadNothing, rxvars
<1>19. CASE ReadFails  BY <1>19 DEF ReadFails, rxvars
<1>20. CASE NoMorePackets  BY <1>20 DEF NoMorePackets, rxvars
<1>21. CASE TakeFrame  BY <1>21 DEF TakeFrame, rxvars
<1>22. CASE Skip  BY <1>22 DEF Skip, rxvars
<1>23. CASE Compare  BY <1>23 DEF Compare, rxvars
<1>24. CASE Answer
  <2>1. lenrx' = LenOf(bufcom[1].of)  BY <1>24 DEF Answer
  <2>2. LenOf(bufcom[1].of) \in {0, 6, 8}  BY DEF LenOf
  <2>3. QED  BY <2>1, <2>2
<1>25. CASE Clear  BY <1>25 DEF Clear, rxvars
<1>26. CASE Foreign  BY <1>26 DEF Foreign, rxvars
<1>27. CASE GiveUp  BY <1>27 DEF GiveUp, rxvars
<1>28. CASE Garbled  BY <1>28, GarbledIs
<1>29. CASE UNCHANGED vars  BY <1>29 DEF vars, rxvars
<1>30. QED
  BY <1>1, <1>2, <1>3, <1>4, <1>5, <1>6, <1>7, <1>8, <1>9, <1>10,
     <1>11, <1>12, <1>13, <1>14, <1>15, <1>16, <1>17, <1>18, <1>19, <1>20,
     <1>21, <1>22, <1>23, <1>24, <1>25, <1>26, <1>27, <1>28, <1>29, Steps

LEMMA FitKept ==
  ASSUME TypesOK, FitInv, [Next]_vars, StreamsOK'
  PROVE  FitInv'
<1> SUFFICES ASSUME Defined' PROVE lenrx' <= BUFRX  BY DEF FitInv
<1>1. Defined  BY MishapsGrow DEF Defined, TypesOK
<1>2. lenrx <= BUFRX  BY <1>1 DEF FitInv
<1>3. lenrx' \in Nat /\ BUFRX \in Nat /\ BUFRX >= 8  BY Limits DEF StreamsOK
<1>4. \/ lenrx' \in {0, 6, 8, lenrx}
      \/ lenrx' > BUFRX => "overrun" \in mishaps'
  BY LengthSet DEF TypesOK
<1>5. QED  BY <1>1, <1>2, <1>3, <1>4 DEF Defined

LEMMA InitTyped == Init => TypesOK /\ PlaceInv /\ WholeInv /\ CountInv /\ FitInv
<1> SUFFICES ASSUME Init PROVE TypesOK /\ PlaceInv /\ WholeInv /\ CountInv /\ FitInv  OBVIOUS
<1>1. WordsOK  BY DEF Init, WordsOK, Mishaps
<1>2. CommandsOK  BY Limits DEF Init, CommandsOK, Command, Asked, Kinds
<1>3. StreamsOK  BY DEF Init, StreamsOK, Nothing, Packet
<1>4. NumbersOK  BY Limits DEF Init, NumbersOK
<1>5. PlaceInv /\ WholeInv  BY Limits DEF Init, PlaceInv, WholeInv
<1>6. CountInv  BY DEF Init, CountInv, Unsent, Unwritten
<1>7. FitInv  BY Limits DEF Init, FitInv
<1>8. QED  BY <1>1, <1>2, <1>3, <1>4, <1>5, <1>6, <1>7 DEF TypesOK

(* The two threads never take idx_bufcom out of what is buffered, nor      *)
(* bufcom over its size, wait_cnt never passes the limit and lenrx never   *)
(* bufrx, whatever the other thread has set meanwhile and whatever bytes   *)
(* were taken for packets, until a misread answer overruns bufrx.          *)
THEOREM TypeCorrect == Spec => []TypeOK
<1>1. TypesOK /\ PlaceInv /\ WholeInv /\ CountInv /\ FitInv /\ [Next]_vars
        => (TypesOK /\ PlaceInv /\ WholeInv /\ CountInv /\ FitInv)'
  BY WordsKept, CommandsKept, NumbersKept, StreamsKept, PlaceKept, WholeKept, CountKept, FitKept
     DEF TypesOK
<1>2. TypesOK /\ PlaceInv /\ CountInv /\ FitInv => TypeOK
  <2> SUFFICES ASSUME TypesOK, PlaceInv, CountInv, FitInv PROVE TypeOK  OBVIOUS
  <2>1. Len(wire) <= COMMANDS
    <3>1. Len(wire) \in Nat /\ asked \in 0 .. COMMANDS  BY DEF TypesOK, CommandsOK
    <3>2. Unsent \in {0, 1} /\ Unwritten \in {0, 1}  BY DEF Unsent, Unwritten
    <3>3. QED  BY <3>1, <3>2, Limits DEF CountInv
  <2>2. lentx \in {0} \cup UNION {Sizes(k) : k \in Kinds}
    <3>1. lentx \in {0, 2, 3, 8}  BY DEF TypesOK, NumbersOK
    <3>2. QED  BY <3>1, SizesAre
  <2>3. wait_id.id \in {"none"} \cup {Id(k) : k \in Kinds} /\ wait_id.err \in BOOLEAN
    <3>1. wait_id.id \in {"none", "STA", "CAD"} /\ wait_id.err \in BOOLEAN  BY DEF TypesOK, WordsOK
    <3>2. QED  BY <3>1, IdsAre DEF Kinds
  <2>4. /\ frames \in 0 .. FRAMES /\ errtx \in {0, 1} /\ wait_cnt \in 0 .. LIMIT
        /\ Defined => lenrx \in 0 .. BUFRX
    BY Limits DEF TypesOK, NumbersOK, StreamsOK, FitInv
  <2>5. /\ gui \in {"idle", "enter", "armed", "ready", "sending", "waiting", "accept"}
        /\ thr \in {"top", "write", "writefile", "written", "read", "packets", "compare",
                    "answer", "clear", "foreign", "giveup"}
        /\ mishaps \subseteq Mishaps
    BY DEF TypesOK, WordsOK
  <2>6. /\ idx_bufcom \in 0 .. Len(bufcom) /\ Len(bufcom) <= BUFCOM
        /\ thr \in {"top", "write", "read"} => idx_bufcom = Len(bufcom)
    BY DEF PlaceInv
  <2>7. QED  BY <2>1, <2>2, <2>3, <2>4, <2>5, <2>6 DEF TypeOK
<1>3. QED  BY <1>1, <1>2, InitTyped, PTL DEF Spec

-------------------------------------------------------------------------------
(* The stream: what is buffered, and behind it what is still to be read.   *)
Stream == bufcom \o port

Odd(i)        == i % 2 = 1
IsFrame(unit) == unit.of.id = "ADC"

(* It consists of packets, ...                                             *)
Paired(s) ==
  /\ Len(s) % 2 = 0
  /\ \A i \in 1 .. Len(s) : s[i].part = IF Odd(i) THEN 1 ELSE 2
  /\ \A i \in 1 .. Len(s) : Odd(i) => s[i + 1].of = s[i].of

(* ... the frames in it are the last of the n that were sent, in order, ...*)
LastFrames(s, n) ==
  /\ \A i \in 1 .. Len(s) : IsFrame(s[i]) => s[i].of.no \in 1 .. n
  /\ \A i, j \in 1 .. Len(s) :
       Odd(i) /\ Odd(j) /\ i < j /\ IsFrame(s[i]) /\ IsFrame(s[j]) => s[i].of.no < s[j].of.no
  /\ \A i \in 1 .. Len(s) : Odd(i) /\ IsFrame(s[i]) =>
       \A m \in s[i].of.no + 1 .. n :
         \E j \in i + 1 .. Len(s) : Odd(j) /\ IsFrame(s[j]) /\ s[j].of.no = m

(* ... and the first of them is frame d, or there is none.                 *)
FirstIs(s, n, d) ==
  /\ d <= n + 1
  /\ \A i \in 1 .. Len(s) : IsFrame(s[i]) => s[i].of.no >= d
  /\ d <= n => \E i \in 1 .. Len(s) : Odd(i) /\ IsFrame(s[i]) /\ s[i].of.no = d

(* While samples are stored, that is the one due.                          *)
FrameDue ==
  SamplesEna =>
    /\ work_adc
    /\ due # 0 => FirstIs(Stream, frames, due)
    /\ due # 0 /\ thr \in {"compare", "answer", "clear", "foreign"} => ~ IsFrame(Stream[1])

StreamInv == Misread \/ (Paired(Stream) /\ LastFrames(Stream, frames) /\ FrameDue /\ ~ gap)

(* t is what remains of s behind its first k units.                        *)
Behind(t, s, k) ==
  /\ Len(s) = Len(t) + k
  /\ \A i \in 1 .. Len(t) : t[i] = s[i + k]

LEMMA OddShift ==
  ASSUME NEW i \in Int, NEW k \in Int, k % 2 = 0
  PROVE  (Odd(i + k) <=> Odd(i)) /\ (Odd(i - k) <=> Odd(i))
BY DEF Odd

(* Adding an even number, and the next of an odd place before an even end. *)
LEMMA EvenRest ==
  ASSUME NEW i \in Int, NEW k \in Int, k % 2 = 0, (i + k) % 2 = 0
  PROVE  i % 2 = 0
OBVIOUS

LEMMA NextOfOdd ==
  ASSUME NEW n \in Nat, n % 2 = 0, NEW i \in 1 .. n, Odd(i)
  PROVE  i + 1 \in 1 .. n
<1>1. i # n  BY DEF Odd
<1>2. QED  BY <1>1

LEMMA BehindPaired ==
  ASSUME NEW s \in Seq(Unit), NEW t \in Seq(Unit), NEW k \in Nat, k % 2 = 0,
         Behind(t, s, k), Paired(s)
  PROVE  Paired(t)
<1>1. Len(s) \in Nat /\ Len(t) \in Nat /\ Len(s) = Len(t) + k  BY DEF Behind
<1>2. Len(t) % 2 = 0
  <2>1. (Len(t) + k) % 2 = 0  BY <1>1 DEF Paired
  <2>2. Len(t) \in Int /\ k \in Int  BY <1>1
  <2>3. QED  BY <2>1, <2>2, EvenRest
<1>3. ASSUME NEW i \in 1 .. Len(t)
      PROVE  t[i].part = IF Odd(i) THEN 1 ELSE 2
  <2>1. i + k \in 1 .. Len(s) /\ t[i] = s[i + k]  BY <1>1 DEF Behind
  <2>2. i \in Int /\ k \in Int  BY <1>1
  <2>3. Odd(i + k) <=> Odd(i)  BY <2>2, OddShift
  <2>4. QED  BY <2>1, <2>3 DEF Paired
<1>4. ASSUME NEW i \in 1 .. Len(t), Odd(i)
      PROVE  t[i + 1].of = t[i].of
  <2>1. i + 1 \in 1 .. Len(t)  BY <1>1, <1>2, <1>4, NextOfOdd
  <2>2. i + k \in 1 .. Len(s) /\ t[i] = s[i + k] /\ t[i + 1] = s[(i + k) + 1]
    <3>1. t[i] = s[i + k] /\ t[i + 1] = s[(i + 1) + k]  BY <2>1 DEF Behind
    <3>2. i + k \in 1 .. Len(s) /\ (i + 1) + k = (i + k) + 1  BY <1>1
    <3>3. QED  BY <3>1, <3>2
  <2>3. i \in Int /\ k \in Int  BY <1>1
  <2>4. Odd(i + k)  BY <1>4, <2>3, OddShift
  <2>5. QED  BY <2>2, <2>4 DEF Paired
<1>5. QED  BY <1>2, <1>3, <1>4 DEF Paired

LEMMA BehindFrames ==
  ASSUME NEW s \in Seq(Unit), NEW t \in Seq(Unit), NEW k \in Nat, k % 2 = 0, NEW n \in Nat,
         Behind(t, s, k), LastFrames(s, n)
  PROVE  LastFrames(t, n)
<1>1. Len(s) \in Nat /\ Len(t) \in Nat /\ Len(s) = Len(t) + k  BY DEF Behind
<1>2. ASSUME NEW i \in 1 .. Len(t)
      PROVE  i + k \in 1 .. Len(s) /\ t[i] = s[i + k] /\ (Odd(i + k) <=> Odd(i))
  <2>1. i \in Int /\ k \in Int /\ i + k \in 1 .. Len(s) /\ t[i] = s[i + k]  BY <1>1 DEF Behind
  <2>2. Odd(i + k) <=> Odd(i)  BY <2>1, OddShift
  <2>3. QED  BY <2>1, <2>2
<1>3. ASSUME NEW i \in 1 .. Len(t), IsFrame(t[i])
      PROVE  t[i].of.no \in 1 .. n
  BY <1>2, <1>3 DEF LastFrames
<1>4. ASSUME NEW i \in 1 .. Len(t), NEW j \in 1 .. Len(t), Odd(i), Odd(j), i < j,
             IsFrame(t[i]), IsFrame(t[j])
      PROVE  t[i].of.no < t[j].of.no
  <2>1. i + k < j + k  BY <1>4
  <2>2. QED  BY <1>2, <1>4, <2>1 DEF LastFrames
<1>5. ASSUME NEW i \in 1 .. Len(t), Odd(i), IsFrame(t[i]), NEW m \in t[i].of.no + 1 .. n
      PROVE  \E j \in i + 1 .. Len(t) : Odd(j) /\ IsFrame(t[j]) /\ t[j].of.no = m
  <2>1. i + k \in 1 .. Len(s) /\ t[i] = s[i + k] /\ Odd(i + k)  BY <1>2, <1>5
  <2>2. PICK j \in (i + k) + 1 .. Len(s) : Odd(j) /\ IsFrame(s[j]) /\ s[j].of.no = m
    BY <1>5, <2>1 DEF LastFrames
  <2>3. j - k \in i + 1 .. Len(t) /\ (j - k) + k = j  BY <1>1, <2>2
  <2>4. j - k \in 1 .. Len(t)  BY <1>1, <2>3
  <2>5. t[j - k] = s[j]  BY <2>3, <2>4 DEF Behind
  <2>6. j \in Int /\ k \in Int  BY <1>1, <2>3
  <2>7. Odd(j - k)  BY <2>2, <2>6, OddShift
  <2>8. QED  BY <2>2, <2>3, <2>5, <2>7
<1>6. QED  BY <1>3, <1>4, <1>5 DEF LastFrames

LEMMA BehindFirst ==
  ASSUME NEW s \in Seq(Unit), NEW t \in Seq(Unit), NEW k \in Nat, k % 2 = 0, NEW n \in Nat,
         NEW d \in Nat, Behind(t, s, k), \A i \in 1 .. k : ~ IsFrame(s[i]), FirstIs(s, n, d)
  PROVE  FirstIs(t, n, d)
<1>1. Len(s) \in Nat /\ Len(t) \in Nat /\ Len(s) = Len(t) + k  BY DEF Behind
<1>2. ASSUME NEW i \in 1 .. Len(t), IsFrame(t[i])
      PROVE  t[i].of.no >= d
  <2>1. i + k \in 1 .. Len(s) /\ t[i] = s[i + k]  BY <1>1 DEF Behind
  <2>2. QED  BY <1>2, <2>1 DEF FirstIs
<1>3. ASSUME d <= n
      PROVE  \E i \in 1 .. Len(t) : Odd(i) /\ IsFrame(t[i]) /\ t[i].of.no = d
  <2>1. PICK i \in 1 .. Len(s) : Odd(i) /\ IsFrame(s[i]) /\ s[i].of.no = d
    BY <1>3 DEF FirstIs
  <2>2. i \notin 1 .. k  BY <2>1
  <2>3. i - k \in 1 .. Len(t) /\ (i - k) + k = i  BY <1>1, <2>1, <2>2
  <2>4. t[i - k] = s[i]  BY <2>3 DEF Behind
  <2>5. Odd(i - k)  BY <2>1, OddShift
  <2>6. QED  BY <2>1, <2>3, <2>4, <2>5
<1>4. QED  BY <1>2, <1>3 DEF FirstIs

(* The packet put behind a stream.                                         *)
Put(s, packet, t) ==
  /\ Len(t) = Len(s) + 2
  /\ \A i \in 1 .. Len(s) : t[i] = s[i]
  /\ t[Len(s) + 1] = [of |-> packet, part |-> 1]
  /\ t[Len(s) + 2] = [of |-> packet, part |-> 2]

LEMMA PutPaired ==
  ASSUME NEW s \in Seq(Unit), NEW t \in Seq(Unit), NEW packet \in Packet, Put(s, packet, t),
         Paired(s)
  PROVE  Paired(t)
<1>1. Len(s) \in Nat /\ Len(t) = Len(s) + 2 /\ Len(s) % 2 = 0  BY DEF Put, Paired
<1>2. Len(t) % 2 = 0 /\ Odd(Len(s) + 1) /\ ~ Odd(Len(s) + 2)  BY <1>1 DEF Odd
<1>3. \A i \in 1 .. Len(t) : i \in 1 .. Len(s) \/ i = Len(s) + 1 \/ i = Len(s) + 2  BY <1>1
<1>4. ASSUME NEW i \in 1 .. Len(t)
      PROVE  t[i].part = IF Odd(i) THEN 1 ELSE 2
  <2>1. CASE i \in 1 .. Len(s)
    <3>1. t[i] = s[i]  BY <2>1 DEF Put
    <3>2. QED  BY <2>1, <3>1 DEF Paired
  <2>2. CASE i = Len(s) + 1  BY <1>2, <2>2 DEF Put
  <2>3. CASE i = Len(s) + 2  BY <1>2, <2>3 DEF Put
  <2>4. QED  BY <1>3, <2>1, <2>2, <2>3
<1>5. ASSUME NEW i \in 1 .. Len(t), Odd(i)
      PROVE  t[i + 1].of = t[i].of
  <2>1. CASE i \in 1 .. Len(s)
    <3>1. i + 1 \in 1 .. Len(s)  BY <1>1, <1>5, <2>1 DEF Odd
    <3>2. t[i] = s[i] /\ t[i + 1] = s[i + 1]  BY <2>1, <3>1 DEF Put
    <3>3. QED  BY <1>5, <2>1, <3>2 DEF Paired
  <2>2. CASE i = Len(s) + 1
    <3>1. i + 1 = Len(s) + 2  BY <1>1, <2>2
    <3>2. t[i] = [of |-> packet, part |-> 1] /\ t[i + 1] = [of |-> packet, part |-> 2]
      BY <2>2, <3>1 DEF Put
    <3>3. QED  BY <3>2
  <2>3. CASE i = Len(s) + 2  BY <1>2, <1>5, <2>3
  <2>4. QED  BY <1>3, <2>1, <2>2, <2>3
<1>6. QED  BY <1>2, <1>4, <1>5 DEF Paired

LEMMA PutAt ==
  ASSUME NEW s \in Seq(Unit), NEW t \in Seq(Unit), NEW packet \in Packet, Put(s, packet, t),
         NEW i \in 1 .. Len(t)
  PROVE  \/ i \in 1 .. Len(s) /\ t[i] = s[i]
         \/ i \in {Len(s) + 1, Len(s) + 2} /\ t[i].of = packet
<1>1. Len(s) \in Nat /\ Len(t) = Len(s) + 2  BY DEF Put
<1>2. CASE i \in 1 .. Len(s)  BY <1>2 DEF Put
<1>3. CASE i = Len(s) + 1  BY <1>3 DEF Put
<1>4. CASE i = Len(s) + 2  BY <1>4 DEF Put
<1>5. QED  BY <1>1, <1>2, <1>3, <1>4

LEMMA PutReply ==
  ASSUME NEW s \in Seq(Unit), NEW t \in Seq(Unit), NEW packet \in Packet, Put(s, packet, t),
         packet.id # "ADC", NEW n \in Nat
  PROVE  /\ LastFrames(s, n) => LastFrames(t, n)
         /\ \A d \in Nat : FirstIs(s, n, d) => FirstIs(t, n, d)
<1>1. Len(s) \in Nat /\ Len(t) = Len(s) + 2 /\ \A i \in 1 .. Len(s) : i \in 1 .. Len(t) /\ t[i] = s[i]
  BY DEF Put
<1>2. \A i \in 1 .. Len(t) : IsFrame(t[i]) => i \in 1 .. Len(s) /\ t[i] = s[i]
  BY PutAt DEF IsFrame
<1>3. ASSUME LastFrames(s, n) PROVE LastFrames(t, n)
  <2>1. ASSUME NEW i \in 1 .. Len(t), Odd(i), IsFrame(t[i]), NEW m \in t[i].of.no + 1 .. n
        PROVE  \E j \in i + 1 .. Len(t) : Odd(j) /\ IsFrame(t[j]) /\ t[j].of.no = m
    <3>1. i \in 1 .. Len(s) /\ t[i] = s[i]  BY <1>2, <2>1
    <3>2. PICK j \in i + 1 .. Len(s) : Odd(j) /\ IsFrame(s[j]) /\ s[j].of.no = m
      BY <1>3, <2>1, <3>1 DEF LastFrames
    <3>3. j \in 1 .. Len(s) /\ j \in i + 1 .. Len(t)  BY <1>1, <3>1, <3>2
    <3>4. QED  BY <1>1, <3>2, <3>3
  <2>2. \A i \in 1 .. Len(t) : IsFrame(t[i]) => t[i].of.no \in 1 .. n
    BY <1>2, <1>3 DEF LastFrames
  <2>3. \A i, j \in 1 .. Len(t) :
          Odd(i) /\ Odd(j) /\ i < j /\ IsFrame(t[i]) /\ IsFrame(t[j]) => t[i].of.no < t[j].of.no
    BY <1>2, <1>3 DEF LastFrames
  <2>4. QED  BY <2>1, <2>2, <2>3 DEF LastFrames
<1>4. ASSUME NEW d \in Nat, FirstIs(s, n, d) PROVE FirstIs(t, n, d)
  BY <1>1, <1>2, <1>4 DEF FirstIs
<1>5. QED  BY <1>3, <1>4

LEMMA PutFrame ==
  ASSUME NEW s \in Seq(Unit), NEW t \in Seq(Unit), NEW n \in Nat, Put(s, Frame(n + 1), t), Paired(s)
  PROVE  /\ LastFrames(s, n) => LastFrames(t, n + 1)
         /\ \A d \in Nat : FirstIs(s, n, d) => FirstIs(t, n + 1, d)
<1>1. Len(s) \in Nat /\ Len(t) = Len(s) + 2 /\ \A i \in 1 .. Len(s) : i \in 1 .. Len(t) /\ t[i] = s[i]
  BY DEF Put
<1>2. n + 1 \in Nat /\ Frame(n + 1) \in Packet /\ Frame(n + 1).no = n + 1 /\ Frame(n + 1).id = "ADC"
  BY FrameIs
<1>3. \A i \in 1 .. Len(t) : \/ i \in 1 .. Len(s) /\ t[i] = s[i]
                             \/ i \in {Len(s) + 1, Len(s) + 2} /\ t[i].of.no = n + 1
  BY <1>2, PutAt
<1>4. /\ Len(s) + 1 \in 1 .. Len(t) /\ Odd(Len(s) + 1) /\ ~ Odd(Len(s) + 2)
      /\ IsFrame(t[Len(s) + 1]) /\ t[Len(s) + 1].of.no = n + 1
  <2>1. t[Len(s) + 1].of = Frame(n + 1)  BY DEF Put
  <2>2. \A k \in Nat : k % 2 = 0 => (k + 1) % 2 = 1 /\ (k + 2) % 2 # 1  OBVIOUS
  <2>3. Len(s) % 2 = 0  BY DEF Paired
  <2>4. Len(s) \in Nat  BY <1>1
  <2>5. Odd(Len(s) + 1) /\ ~ Odd(Len(s) + 2)  BY <2>2, <2>3, <2>4 DEF Odd
  <2>6. QED  BY <1>1, <1>2, <2>1, <2>5 DEF IsFrame
<1>5. ASSUME LastFrames(s, n) PROVE LastFrames(t, n + 1)
  <2>1. ASSUME NEW i \in 1 .. Len(t), IsFrame(t[i])
        PROVE  t[i].of.no \in 1 .. n + 1
    <3>1. CASE i \in 1 .. Len(s) /\ t[i] = s[i]
      <4>1. s[i].of.no \in 1 .. n  BY <1>5, <2>1, <3>1 DEF LastFrames
      <4>2. QED  BY <3>1, <4>1
    <3>2. CASE t[i].of.no = n + 1  BY <3>2
    <3>3. QED  BY <1>3, <3>1, <3>2
  <2>2. ASSUME NEW i \in 1 .. Len(t), NEW j \in 1 .. Len(t), Odd(i), Odd(j), i < j,
               IsFrame(t[i]), IsFrame(t[j])
        PROVE  t[i].of.no < t[j].of.no
    <3>1. i \in 1 .. Len(s) /\ t[i] = s[i]
      <4>1. i # Len(s) + 2  BY <1>4, <2>2
      <4>2. i # Len(s) + 1
        <5> SUFFICES ASSUME i = Len(s) + 1 PROVE FALSE  OBVIOUS
        <5>1. j = Len(s) + 2  BY <1>1, <2>2
        <5>2. QED  BY <1>4, <2>2, <5>1
      <4>3. QED  BY <1>3, <4>1, <4>2
    <3>2. CASE j \in 1 .. Len(s) /\ t[j] = s[j]
      BY <1>5, <2>2, <3>1, <3>2 DEF LastFrames
    <3>3. CASE t[j].of.no = n + 1
      <4>1. t[i].of.no \in 1 .. n  BY <1>5, <2>2, <3>1 DEF LastFrames
      <4>2. QED  BY <3>3, <4>1
    <3>4. QED  BY <1>3, <3>2, <3>3
  <2>3. ASSUME NEW i \in 1 .. Len(t), Odd(i), IsFrame(t[i]), NEW m \in t[i].of.no + 1 .. n + 1
        PROVE  \E j \in i + 1 .. Len(t) : Odd(j) /\ IsFrame(t[j]) /\ t[j].of.no = m
    <3>1. t[i].of.no \in Int  BY <2>1, <2>3
    <3>2. i \in 1 .. Len(s) /\ t[i] = s[i]
      <4>1. t[i].of.no # n + 1  BY <2>3, <3>1
      <4>2. QED  BY <1>3, <4>1
    <3>3. CASE m = n + 1
      <4>1. Len(s) + 1 \in i + 1 .. Len(t)  BY <1>1, <3>2
      <4>2. QED  BY <1>4, <3>3, <4>1
    <3>4. CASE m # n + 1
      <4>1. m \in s[i].of.no + 1 .. n  BY <2>3, <3>1, <3>2, <3>4
      <4>2. PICK j \in i + 1 .. Len(s) : Odd(j) /\ IsFrame(s[j]) /\ s[j].of.no = m
        BY <1>5, <2>3, <3>2, <4>1 DEF LastFrames
      <4>3. j \in 1 .. Len(s) /\ j \in i + 1 .. Len(t)  BY <1>1, <3>2, <4>2
      <4>4. QED  BY <1>1, <4>2, <4>3
    <3>5. QED  BY <3>3, <3>4
  <2>4. QED  BY <2>1, <2>2, <2>3 DEF LastFrames
<1>6. ASSUME NEW d \in Nat, FirstIs(s, n, d) PROVE FirstIs(t, n + 1, d)
  <2>1. d <= n + 1 /\ d <= (n + 1) + 1  BY <1>6 DEF FirstIs
  <2>2. ASSUME NEW i \in 1 .. Len(t), IsFrame(t[i]) PROVE t[i].of.no >= d
    <3>1. CASE i \in 1 .. Len(s) /\ t[i] = s[i]  BY <1>6, <2>2, <3>1 DEF FirstIs
    <3>2. CASE t[i].of.no = n + 1  BY <2>1, <3>2
    <3>3. QED  BY <1>3, <3>1, <3>2
  <2>3. \E i \in 1 .. Len(t) : Odd(i) /\ IsFrame(t[i]) /\ t[i].of.no = d
    <3>1. CASE d <= n
      <4>1. PICK i \in 1 .. Len(s) : Odd(i) /\ IsFrame(s[i]) /\ s[i].of.no = d
        BY <1>6, <3>1 DEF FirstIs
      <4>2. QED  BY <1>1, <4>1
    <3>2. CASE ~ (d <= n)
      <4>1. d = n + 1  BY <2>1, <3>2
      <4>2. QED  BY <1>4, <4>1
    <3>3. QED  BY <3>1, <3>2
  <2>4. QED  BY <2>1, <2>2, <2>3 DEF FirstIs
<1>7. QED  BY <1>5, <1>6

(* The frame at the front is taken: it was the one due, the next is due.   *)
LEMMA TakenIsFirst ==
  ASSUME NEW s \in Seq(Unit), NEW t \in Seq(Unit), NEW n \in Nat, Behind(t, s, 2), Paired(s),
         LastFrames(s, n), IsFrame(s[1]), Len(s) >= 2
  PROVE  /\ s[1].of.no \in 1 .. n
         /\ FirstIs(t, n, s[1].of.no + 1)
         /\ \A d \in Nat : FirstIs(s, n, d) => d = s[1].of.no
<1>1. Len(s) \in Nat /\ Len(t) \in Nat /\ Len(s) = Len(t) + 2 /\ 1 \in 1 .. Len(s) /\ Odd(1)
  BY DEF Behind, Odd
<1>2. s[1].of.no \in 1 .. n  BY <1>1 DEF LastFrames
<1> DEFINE no == s[1].of.no
<1>3. ASSUME NEW i \in 1 .. Len(s), Odd(i), i > 1, IsFrame(s[i]) PROVE s[i].of.no > no
  BY <1>1, <1>2, <1>3 DEF LastFrames
<1>4. ASSUME NEW i \in 1 .. Len(t), IsFrame(t[i]) PROVE t[i].of.no >= no + 1
  <2>1. i + 2 \in 1 .. Len(s) /\ t[i] = s[i + 2]  BY <1>1 DEF Behind
  <2>2. s[i + 2].of.no \in 1 .. n  BY <1>4, <2>1 DEF LastFrames
  <2>3. s[i + 2].of.no > no
    <3>1. CASE Odd(i)
      <4>1. Odd(i + 2) /\ i + 2 > 1  BY <3>1 DEF Odd
      <4>2. QED  BY <1>3, <1>4, <2>1, <4>1
    <3>2. CASE ~ Odd(i)
      <4>1. i + 1 \in 1 .. Len(s) /\ Odd(i + 1) /\ i + 1 > 1 /\ (i + 1) + 1 = i + 2
        BY <1>1, <3>2 DEF Odd
      <4>2. s[i + 2].of = s[i + 1].of  BY <4>1 DEF Paired
      <4>3. IsFrame(s[i + 1])  BY <1>4, <2>1, <4>2 DEF IsFrame
      <4>4. s[i + 1].of.no > no  BY <1>3, <4>1, <4>3
      <4>5. QED  BY <4>2, <4>4
    <3>3. QED  BY <3>1, <3>2
  <2>4. QED  BY <1>2, <2>1, <2>2, <2>3
<1>5. ASSUME no + 1 <= n
      PROVE  \E i \in 1 .. Len(t) : Odd(i) /\ IsFrame(t[i]) /\ t[i].of.no = no + 1
  <2>1. no + 1 \in s[1].of.no + 1 .. n  BY <1>2, <1>5
  <2>2. PICK j \in 1 + 1 .. Len(s) : Odd(j) /\ IsFrame(s[j]) /\ s[j].of.no = no + 1
    BY <1>1, <2>1 DEF LastFrames
  <2>3. j - 2 \in 1 .. Len(t) /\ (j - 2) + 2 = j /\ Odd(j - 2)  BY <1>1, <2>2 DEF Odd
  <2>4. t[j - 2] = s[j]  BY <2>3 DEF Behind
  <2>5. QED  BY <2>2, <2>3, <2>4
<1>6. FirstIs(t, n, no + 1)
  <2>1. no + 1 <= n + 1  BY <1>2
  <2>2. QED  BY <1>4, <1>5, <2>1 DEF FirstIs
<1>7. ASSUME NEW d \in Nat, FirstIs(s, n, d) PROVE d = no
  <2>1. no >= d  BY <1>1, <1>7 DEF FirstIs
  <2>2. PICK i \in 1 .. Len(s) : Odd(i) /\ IsFrame(s[i]) /\ s[i].of.no = d
    BY <1>2, <1>7, <2>1 DEF FirstIs
  <2>3. ~ (i > 1)
    <3> SUFFICES ASSUME i > 1 PROVE FALSE  OBVIOUS
    <3>1. s[i].of.no > no  BY <1>3, <2>2
    <3>2. QED  BY <1>2, <2>1, <2>2, <3>1
  <2>4. i = 1  BY <1>1, <2>3
  <2>5. QED  BY <2>2, <2>4
<1>8. QED  BY <1>2, <1>6, <1>7

LEMMA StreamIs ==
  ASSUME NEW b \in Seq(Unit), NEW p \in Seq(Unit)
  PROVE  /\ b \o p \in Seq(Unit) /\ Len(b \o p) = Len(b) + Len(p)
         /\ Len(b) \in Nat /\ Len(p) \in Nat
         /\ \A i \in 1 .. Len(b) : (b \o p)[i] = b[i]
         /\ \A i \in 1 .. Len(b) + Len(p) : i > Len(b) => (b \o p)[i] = p[i - Len(b)]
<1>1. Len(b) \in Nat /\ Len(p) \in Nat  OBVIOUS
<1>2. ASSUME NEW i \in 1 .. Len(b) + Len(p), i > Len(b)
      PROVE  (b \o p)[i] = p[i - Len(b)]
  <2>1. i - Len(b) \in 1 .. Len(p) /\ Len(b) + (i - Len(b)) = i  BY <1>1, <1>2
  <2>2. (b \o p)[Len(b) + (i - Len(b))] = p[i - Len(b)]  BY <2>1, JoinIs
  <2>3. QED  BY <2>1, <2>2
<1>3. QED  BY <1>1, <1>2, JoinIs

(* What the device sends is put behind the stream.                         *)
LEMMA StreamPut ==
  ASSUME NEW b \in Seq(Unit), NEW p \in Seq(Unit), NEW packet \in Packet
  PROVE  Put(b \o p, packet, b \o (p \o Units(packet)))
<1> DEFINE q == p \o Units(packet)
<1>1. /\ q \in Seq(Unit) /\ Len(q) = Len(p) + 2
      /\ \A i \in 1 .. Len(p) : q[i] = p[i]
      /\ q[Len(p) + 1] = [of |-> packet, part |-> 1]
      /\ q[Len(p) + 2] = [of |-> packet, part |-> 2]
  BY SentIs
<1> HIDE DEF q
<1> DEFINE s == b \o p
           t == b \o q
<1>2. /\ Len(s) = Len(b) + Len(p) /\ Len(b) \in Nat /\ Len(p) \in Nat
      /\ \A i \in 1 .. Len(b) : s[i] = b[i]
      /\ \A i \in 1 .. Len(b) + Len(p) : i > Len(b) => s[i] = p[i - Len(b)]
  BY StreamIs
<1>3. /\ Len(t) = Len(b) + Len(q)
      /\ \A i \in 1 .. Len(b) : t[i] = b[i]
      /\ \A i \in 1 .. Len(b) + Len(q) : i > Len(b) => t[i] = q[i - Len(b)]
  BY <1>1, StreamIs
<1> HIDE DEF s, t
<1>4. Len(t) = Len(s) + 2  BY <1>1, <1>2, <1>3
<1>5. ASSUME NEW i \in 1 .. Len(s) PROVE t[i] = s[i]
  <2>1. CASE i \in 1 .. Len(b)  BY <1>2, <1>3, <2>1
  <2>2. CASE i > Len(b)
    <3>1. i - Len(b) \in 1 .. Len(p) /\ i \in 1 .. Len(b) + Len(q)  BY <1>1, <1>2, <2>2
    <3>2. t[i] = q[i - Len(b)] /\ s[i] = p[i - Len(b)]  BY <1>2, <1>3, <2>2, <3>1
    <3>3. QED  BY <1>1, <3>1, <3>2
  <2>3. QED  BY <1>2, <2>1, <2>2
<1>6. t[Len(s) + 1] = [of |-> packet, part |-> 1] /\ t[Len(s) + 2] = [of |-> packet, part |-> 2]
  <2>1. /\ Len(s) + 1 \in 1 .. Len(b) + Len(q) /\ Len(s) + 1 > Len(b)
        /\ Len(s) + 2 \in 1 .. Len(b) + Len(q) /\ Len(s) + 2 > Len(b)
        /\ (Len(s) + 1) - Len(b) = Len(p) + 1 /\ (Len(s) + 2) - Len(b) = Len(p) + 2
    BY <1>1, <1>2
  <2>2. QED  BY <1>1, <1>3, <2>1
<1>7. Put(s, packet, t)  BY <1>4, <1>5, <1>6 DEF Put
<1>8. QED  BY <1>7 DEF s, t, q

(* A packet taken off the buffer is one taken off the stream.              *)
LEMMA StreamConsume ==
  ASSUME NEW b \in Seq(Unit), NEW p \in Seq(Unit), NEW c \in Seq(Unit),
         Len(b) >= 2, Len(c) = Len(b) - 2, \A i \in 1 .. Len(b) - 2 : c[i] = b[i + 2]
  PROVE  Behind(c \o p, b \o p, 2)
<1> DEFINE s == b \o p
           t == c \o p
<1>1. /\ Len(s) = Len(b) + Len(p) /\ Len(b) \in Nat /\ Len(p) \in Nat
      /\ \A i \in 1 .. Len(b) : s[i] = b[i]
      /\ \A i \in 1 .. Len(b) + Len(p) : i > Len(b) => s[i] = p[i - Len(b)]
  BY StreamIs
<1>2. /\ Len(t) = Len(c) + Len(p)
      /\ \A i \in 1 .. Len(c) : t[i] = c[i]
      /\ \A i \in 1 .. Len(c) + Len(p) : i > Len(c) => t[i] = p[i - Len(c)]
  BY StreamIs
<1> HIDE DEF s, t
<1>3. Len(s) = Len(t) + 2  BY <1>1, <1>2
<1>4. ASSUME NEW i \in 1 .. Len(t) PROVE t[i] = s[i + 2]
  <2>1. CASE i <= Len(c)
    <3>1. i \in 1 .. Len(c) /\ i \in 1 .. Len(b) - 2 /\ i + 2 \in 1 .. Len(b)  BY <1>1, <2>1
    <3>2. t[i] = c[i] /\ c[i] = b[i + 2] /\ s[i + 2] = b[i + 2]  BY <1>1, <1>2, <3>1
    <3>3. QED  BY <3>2
  <2>2. CASE i > Len(c)
    <3>1. /\ i \in 1 .. Len(c) + Len(p) /\ i + 2 \in 1 .. Len(b) + Len(p) /\ i + 2 > Len(b)
          /\ (i + 2) - Len(b) = i - Len(c)
      BY <1>1, <1>2, <2>2
    <3>2. t[i] = p[i - Len(c)]  BY <1>2, <2>2, <3>1
    <3>3. s[i + 2] = p[(i + 2) - Len(b)]  BY <1>1, <3>1
    <3>4. QED  BY <3>1, <3>2, <3>3
  <2>3. QED  BY <1>1, <1>2, <2>1, <2>2
<1>5. QED  BY <1>3, <1>4 DEF Behind, s, t

(* What is read moves within the stream.                                   *)
LEMMA StreamRead ==
  ASSUME NEW b \in Seq(Unit), NEW p \in Seq(Unit), NEW c \in Seq(Unit), NEW n \in 0 .. Len(p),
         Len(c) = Len(b) + n, \A i \in 1 .. Len(b) : c[i] = b[i],
         \A i \in 1 .. n : c[Len(b) + i] = p[i]
  PROVE  Behind(c \o Drop(p, n), b \o p, 0)
<1> DEFINE q == Drop(p, n)
<1>1. q \in Seq(Unit) /\ Len(q) = Len(p) - n /\ \A i \in 1 .. Len(p) - n : q[i] = p[i + n]
  BY DropIs
<1> HIDE DEF q
<1> DEFINE s == b \o p
           t == c \o q
<1>2. /\ Len(s) = Len(b) + Len(p) /\ Len(b) \in Nat /\ Len(p) \in Nat
      /\ \A i \in 1 .. Len(b) : s[i] = b[i]
      /\ \A i \in 1 .. Len(b) + Len(p) : i > Len(b) => s[i] = p[i - Len(b)]
  BY StreamIs
<1>3. /\ Len(t) = Len(c) + Len(q)
      /\ \A i \in 1 .. Len(c) : t[i] = c[i]
      /\ \A i \in 1 .. Len(c) + Len(q) : i > Len(c) => t[i] = q[i - Len(c)]
  BY <1>1, StreamIs
<1> HIDE DEF s, t
<1>4. Len(s) = Len(t) + 0  BY <1>1, <1>2, <1>3
<1>5. ASSUME NEW i \in 1 .. Len(t) PROVE t[i] = s[i + 0]
  <2>0. i + 0 = i /\ i \in 1 .. Len(b) + Len(p)  BY <1>2, <1>4
  <2>1. CASE i <= Len(b)
    <3>1. i \in 1 .. Len(b) /\ i \in 1 .. Len(c)  BY <1>2, <2>1
    <3>2. QED  BY <1>2, <1>3, <2>0, <3>1
  <2>2. CASE i > Len(b) /\ i <= Len(c)
    <3>1. i \in 1 .. Len(c) /\ i - Len(b) \in 1 .. n /\ Len(b) + (i - Len(b)) = i
      BY <1>2, <2>2
    <3>2. c[Len(b) + (i - Len(b))] = p[i - Len(b)]  BY <3>1
    <3>3. t[i] = c[i] /\ s[i] = p[i - Len(b)]  BY <1>2, <1>3, <2>0, <2>2, <3>1
    <3>4. QED  BY <2>0, <3>1, <3>2, <3>3
  <2>3. CASE i > Len(c)
    <3>1. /\ i \in 1 .. Len(c) + Len(q) /\ i > Len(b) /\ i - Len(c) \in 1 .. Len(p) - n
          /\ (i - Len(c)) + n = i - Len(b)
      BY <1>1, <1>2, <1>3, <2>3
    <3>2. t[i] = q[i - Len(c)] /\ q[i - Len(c)] = p[(i - Len(c)) + n]  BY <1>1, <1>3, <2>3, <3>1
    <3>3. s[i] = p[i - Len(b)]  BY <1>2, <2>0, <3>1
    <3>4. QED  BY <2>0, <3>1, <3>2, <3>3
  <2>4. QED  BY <1>2, <2>1, <2>2, <2>3
<1>6. QED  BY <1>4, <1>5 DEF Behind, s, t, q

(* A purge drops an even number of units, unless it cuts a packet.         *)
LEMMA StreamPurge ==
  ASSUME NEW b \in Seq(Unit), NEW p \in Seq(Unit), NEW n \in 0 .. Len(p), Paired(b \o p),
         ~ Broken(Drop(p, n))
  PROVE  /\ (Len(b) + n) % 2 = 0 /\ Len(b) + n \in Nat
         /\ Behind(<< >> \o Drop(p, n), b \o p, Len(b) + n)
<1> DEFINE q == Drop(p, n)
<1>1. q \in Seq(Unit) /\ Len(q) = Len(p) - n /\ \A i \in 1 .. Len(p) - n : q[i] = p[i + n]
  BY DropIs
<1> HIDE DEF q
<1> DEFINE s == b \o p
           t == << >> \o q
<1>2. /\ Len(s) = Len(b) + Len(p) /\ Len(b) \in Nat /\ Len(p) \in Nat /\ s \in Seq(Unit)
      /\ \A i \in 1 .. Len(b) + Len(p) : i > Len(b) => s[i] = p[i - Len(b)]
  BY StreamIs
<1>3. Len(t) = Len(q) /\ \A i \in 1 .. Len(q) : t[i] = q[i]
  <2>1. t = q  BY <1>1
  <2>2. QED  BY <2>1
<1> HIDE DEF s, t
<1>4. ASSUME NEW i \in 1 .. Len(t) PROVE t[i] = s[i + (Len(b) + n)] /\ i + (Len(b) + n) \in 1 .. Len(s)
  <2>1. /\ i + (Len(b) + n) \in 1 .. Len(b) + Len(p) /\ i + (Len(b) + n) > Len(b)
        /\ (i + (Len(b) + n)) - Len(b) = i + n /\ i \in 1 .. Len(p) - n /\ i \in 1 .. Len(q)
    BY <1>1, <1>2, <1>3
  <2>2. t[i] = p[i + n]  BY <1>1, <1>3, <2>1
  <2>3. s[i + (Len(b) + n)] = p[(i + (Len(b) + n)) - Len(b)]  BY <1>2, <2>1
  <2>4. QED  BY <1>2, <2>1, <2>2, <2>3
<1>5. Len(s) = Len(t) + (Len(b) + n)  BY <1>1, <1>2, <1>3
<1>6. Behind(t, s, Len(b) + n)  BY <1>4, <1>5 DEF Behind
<1>7. (Len(b) + n) % 2 = 0
  <2>1. Paired(s)  BY DEF s
  <2>2. CASE Len(q) = 0
    <3>1. Len(s) = Len(b) + n  BY <1>3, <1>5, <1>2, <2>2
    <3>2. QED  BY <2>1, <3>1 DEF Paired
  <2>3. CASE Len(q) >= 1
    <3>1. q[1].part # 2  BY <2>3 DEF Broken, q
    <3>2. 1 \in 1 .. Len(t) /\ 1 \in 1 .. Len(q)  BY <1>1, <1>3, <2>3
    <3>3. s[1 + (Len(b) + n)] = q[1] /\ 1 + (Len(b) + n) \in 1 .. Len(s)  BY <1>3, <1>4, <3>2
    <3>4. s[1 + (Len(b) + n)].part = IF Odd(1 + (Len(b) + n)) THEN 1 ELSE 2
      BY <2>1, <3>3 DEF Paired
    <3>5. Odd(1 + (Len(b) + n))  BY <3>1, <3>3, <3>4
    <3>6. Len(b) + n \in Nat  BY <1>2
    <3>7. (1 + (Len(b) + n)) % 2 = 1  BY <3>5 DEF Odd
    <3>8. QED  BY <3>6, <3>7
  <2>4. QED  BY <1>1, <2>2, <2>3
<1>8. QED  BY <1>2, <1>6, <1>7 DEF s, t, q

(* In a stream of packets the buffer always begins with one.               *)
LEMMA NotBroken ==
  ASSUME StreamsOK, Paired(Stream)
  PROVE  ~ Broken(bufcom)
<1>1. /\ bufcom \in Seq(Unit) /\ port \in Seq(Unit)
      /\ Len(Stream) = Len(bufcom) + Len(port) /\ Len(bufcom) \in Nat /\ Len(port) \in Nat
      /\ \A i \in 1 .. Len(bufcom) : Stream[i] = bufcom[i]
  BY StreamIs DEF StreamsOK, Stream
<1>2. CASE Len(bufcom) >= 1 /\ bufcom[1].part = 2
  <2>1. 1 \in 1 .. Len(bufcom) /\ 1 \in 1 .. Len(Stream) /\ Odd(1)  BY <1>1, <1>2 DEF Odd
  <2>2. Stream[1].part = 1  BY <2>1 DEF Paired
  <2>3. QED  BY <1>1, <1>2, <2>1, <2>2
<1>3. ASSUME Len(bufcom) >= 2 PROVE Whole(bufcom)
  <2>1. /\ 1 \in 1 .. Len(bufcom) /\ 1 \in 1 .. Len(Stream) /\ Odd(1)
        /\ 2 \in 1 .. Len(bufcom) /\ 2 \in 1 .. Len(Stream) /\ ~ Odd(2) /\ 1 + 1 = 2
    BY <1>1, <1>3 DEF Odd
  <2>2. Stream[1].part = 1 /\ Stream[2].part = 2 /\ Stream[2].of = Stream[1].of
    BY <2>1 DEF Paired
  <2>3. bufcom[1].part = 1 /\ bufcom[2].part = 2 /\ bufcom[2].of = bufcom[1].of
    BY <1>1, <2>1, <2>2
  <2>4. bufcom[1] \in Unit /\ bufcom[2] \in Unit  BY <1>1, <2>1
  <2>5. bufcom[2] = [bufcom[1] EXCEPT !.part = 2]  BY <2>3, <2>4 DEF Unit
  <2>6. QED  BY <1>3, <2>3, <2>5 DEF Whole
<1>4. QED  BY <1>2, <1>3 DEF Broken

LEMMA BehindItself ==
  ASSUME NEW s \in Seq(Unit)
  PROVE  Behind(s, s, 0)
<1>1. Len(s) \in Nat  OBVIOUS
<1>2. Len(s) = Len(s) + 0 /\ \A i \in 1 .. Len(s) : i + 0 = i  BY <1>1
<1>3. QED  BY <1>2 DEF Behind

Looking == thr \in {"compare", "answer", "clear", "foreign"}
Flow    == Paired(Stream) /\ LastFrames(Stream, frames) /\ FrameDue /\ ~ gap

LEMMA MisreadGrows ==
  ASSUME WordsOK, [Next]_vars, Misread
  PROVE  Misread'
BY MishapsGrow DEF Misread

LEMMA MayNotReturn ==
  ASSUME StreamsOK, PlaceInv, Return, ~ Misread'
  PROVE  bufcom' = bufcom /\ thr' = "top"
<1>1. /\ thr' = "top" /\ (Len(bufcom) <= idx_bufcom => bufcom' = bufcom)
      /\ mishaps' = mishaps \cup IF Len(bufcom) > idx_bufcom THEN {"short"} ELSE {}
  BY ReturnIs
<1>2. "short" \notin mishaps'  BY DEF Misread
<1>3. ~ (Len(bufcom) > idx_bufcom)  BY <1>1, <1>2
<1>4. Len(bufcom) \in Nat /\ idx_bufcom \in Int  BY DEF StreamsOK, PlaceInv
<1>5. QED  BY <1>1, <1>3, <1>4

(* A step that leaves the streams alone, and stores no other samples.      *)
LEMMA FlowLeftAlone ==
  ASSUME Flow, bufcom' = bufcom, port' = port, frames' = frames, gap' = gap, due' \in {due, 0},
         SamplesEna' => SamplesEna, work_adc => work_adc',
         Looking' => Looking \/ ~ SamplesEna \/ ~ IsFrame(Stream[1])
  PROVE  Flow'
<1>1. Stream' = Stream  BY DEF Stream
<1>2. Paired(Stream') /\ LastFrames(Stream', frames')  BY <1>1 DEF Flow
<1>3. ASSUME SamplesEna'
      PROVE  /\ work_adc'
             /\ due' # 0 => FirstIs(Stream', frames', due')
             /\ due' # 0 /\ Looking' => ~ IsFrame(Stream'[1])
  BY <1>1, <1>3 DEF Flow, FrameDue, Looking
<1>4. FrameDue'  BY <1>3 DEF FrameDue, Looking
<1>5. QED  BY <1>2, <1>4 DEF Flow

(* One that moves the stream on.                                           *)
LEMMA FlowMoved ==
  ASSUME Flow, StreamsOK, StreamsOK', NumbersOK, NEW k \in Nat, k % 2 = 0,
         Behind(Stream', Stream, k), frames' = frames, gap' = gap, due' \in {due, 0},
         SamplesEna' => SamplesEna, work_adc' = work_adc, ~ Looking',
         due' # 0 /\ SamplesEna => \A i \in 1 .. k : ~ IsFrame(Stream[i])
  PROVE  Flow'
<1>1. Stream \in Seq(Unit) /\ Stream' \in Seq(Unit) /\ frames \in Nat /\ due \in Nat
  BY StreamIs, Limits DEF StreamsOK, NumbersOK, Stream
<1>2. Paired(Stream')  BY <1>1, BehindPaired DEF Flow
<1>3. LastFrames(Stream', frames')  BY <1>1, BehindFrames DEF Flow
<1>4. ASSUME SamplesEna'
      PROVE  /\ work_adc'
             /\ due' # 0 => FirstIs(Stream', frames', due')
             /\ due' # 0 /\ Looking' => ~ IsFrame(Stream'[1])
  <2>1. work_adc /\ (due # 0 => FirstIs(Stream, frames, due))
    BY <1>4 DEF Flow, FrameDue
  <2>2. ASSUME due' # 0 PROVE FirstIs(Stream', frames', due')
    <3>1. due' = due /\ due # 0 /\ FirstIs(Stream, frames, due)  BY <2>1, <2>2
    <3>2. \A i \in 1 .. k : ~ IsFrame(Stream[i])  BY <1>4, <2>2
    <3>3. FirstIs(Stream', frames, due)  BY <1>1, <3>1, <3>2, BehindFirst
    <3>4. QED  BY <3>1, <3>3
  <2>3. QED  BY <2>1, <2>2
<1>5. FrameDue'  BY <1>4 DEF FrameDue, Looking
<1>6. QED  BY <1>2, <1>3, <1>5 DEF Flow

(* A packet at the front that is no frame, or none that is stored.         *)
LEMMA FlowConsumed ==
  ASSUME Flow, TypesOK, StreamsOK', Whole(bufcom), Consume, port' = port, frames' = frames,
         gap' = gap, due' = due, SamplesEna' = SamplesEna, work_adc' = work_adc, ~ Looking',
         due # 0 /\ SamplesEna => ~ IsFrame(Stream[1])
  PROVE  Flow'
<1> USE DEF TypesOK
<1>1. /\ bufcom' \in Seq(Unit) /\ Len(bufcom') = Len(bufcom) - 2 /\ Len(bufcom) >= 2
      /\ \A i \in 1 .. Len(bufcom) - 2 : bufcom'[i] = bufcom[i + 2]
  BY ConsumeIs
<1>2. bufcom \in Seq(Unit) /\ port \in Seq(Unit)  BY DEF StreamsOK
<1>3. Behind(bufcom' \o port, bufcom \o port, 2)  BY <1>1, <1>2, StreamConsume
<1>4. Behind(Stream', Stream, 2)  BY <1>3 DEF Stream
<1>5. ASSUME due # 0, SamplesEna PROVE \A i \in 1 .. 2 : ~ IsFrame(Stream[i])
  <2>1. Len(Stream) = Len(bufcom) + Len(port) /\ Len(bufcom) \in Nat /\ Len(port) \in Nat
    BY <1>2, StreamIs DEF Stream
  <2>2. 1 \in 1 .. Len(Stream) /\ Odd(1) /\ 1 + 1 = 2  BY <1>1, <2>1 DEF Odd
  <2>3. Stream[2].of = Stream[1].of  BY <2>2 DEF Flow, Paired
  <2>4. ~ IsFrame(Stream[1]) /\ ~ IsFrame(Stream[2])  BY <1>5, <2>3 DEF IsFrame
  <2>5. QED  BY <2>4
<1>6. 2 \in Nat /\ 2 % 2 = 0  OBVIOUS
<1>7. QED  BY <1>4, <1>5, <1>6, FlowMoved

LEMMA FlowKept ==
  ASSUME TypesOK, StreamsOK', PlaceInv, WholeInv, Flow, [Next]_vars, ~ Misread'
  PROVE  Flow'
<1> USE DEF TypesOK
<1> bufcom \in Seq(Unit) /\ port \in Seq(Unit)  BY DEF StreamsOK
<1>a. Stream \in Seq(Unit) /\ Len(Stream) = Len(bufcom) + Len(port)
      /\ Len(bufcom) \in Nat /\ Len(port) \in Nat
      /\ \A i \in 1 .. Len(bufcom) : Stream[i] = bufcom[i]
  BY StreamIs DEF Stream
<1>b. Whole(bufcom) => Len(bufcom) >= 2 /\ Stream[1] = bufcom[1]
  BY <1>a DEF Whole
<1>1. CASE DeviceAnswers
  <2>1. /\ bufcom' = bufcom /\ port' = port \o Units(Reply(Head(wire))) /\ frames' = frames
        /\ gap' = gap /\ due' = due /\ thr' = thr
    BY <1>1 DEF DeviceAnswers, input, ghosts
  <2>2. SamplesEna' = SamplesEna /\ work_adc' = work_adc  BY <1>1 DEF DeviceAnswers, flags
  <2>3. Head(wire) \in Asked /\ Reply(Head(wire)) \in Packet /\ Reply(Head(wire)).id # "ADC"
    <3>1. wire # << >>  BY <1>1 DEF DeviceAnswers
    <3>2. Head(wire) \in Asked  BY <3>1 DEF CommandsOK
    <3>3. QED  BY <3>2, ReplyIs
  <2>4. Put(bufcom \o port, Reply(Head(wire)), bufcom \o (port \o Units(Reply(Head(wire)))))
    BY <2>3, StreamPut
  <2>5. Put(Stream, Reply(Head(wire)), Stream')  BY <2>1, <2>4 DEF Stream
  <2>6. Stream' \in Seq(Unit) /\ frames \in Nat /\ due \in Nat
    BY StreamIs, Limits DEF StreamsOK, NumbersOK, Stream
  <2>7. Paired(Stream')  BY <1>a, <2>3, <2>5, <2>6, PutPaired DEF Flow
  <2>8. /\ LastFrames(Stream', frames')
        /\ \A d \in Nat : FirstIs(Stream, frames, d) => FirstIs(Stream', frames', d)
    BY <1>a, <2>1, <2>3, <2>5, <2>6, PutReply DEF Flow
  <2>9. ASSUME SamplesEna'
        PROVE  /\ work_adc'
               /\ due' # 0 => FirstIs(Stream', frames', due')
               /\ due' # 0 /\ Looking' => ~ IsFrame(Stream'[1])
    <3>1. work_adc'  BY <2>2, <2>9 DEF Flow, FrameDue
    <3>2. due # 0 => FirstIs(Stream, frames, due)  BY <2>2, <2>9 DEF Flow, FrameDue
    <3>3. due' # 0 => FirstIs(Stream', frames', due')  BY <2>1, <2>6, <2>8, <3>2
    <3>4. ASSUME due' # 0, Looking' PROVE ~ IsFrame(Stream'[1])
      <4>1. Looking /\ due # 0  BY <2>1, <3>4 DEF Looking
      <4>2. ~ IsFrame(Stream[1])  BY <2>2, <2>9, <4>1 DEF Flow, FrameDue, Looking
      <4>3. 1 \in 1 .. Len(Stream)  BY <1>a, <1>b, <4>1 DEF WholeInv, Looking
      <4>4. Stream'[1] = Stream[1]  BY <2>5, <4>3 DEF Put
      <4>5. QED  BY <4>2, <4>4
    <3>5. QED  BY <3>1, <3>3, <3>4
  <2>10. FrameDue'  BY <2>9 DEF FrameDue, Looking
  <2>11. ~ gap'  BY <2>1 DEF Flow
  <2>12. QED  BY <2>7, <2>8, <2>10, <2>11 DEF Flow
<1>2. CASE DeviceFrame
  <2>1. /\ bufcom' = bufcom /\ port' = port \o Units(Frame(frames + 1)) /\ frames' = frames + 1
        /\ gap' = gap /\ due' = due /\ thr' = thr
    BY <1>2 DEF DeviceFrame, input, ghosts
  <2>2. SamplesEna' = SamplesEna /\ work_adc' = work_adc  BY <1>2 DEF DeviceFrame, flags
  <2>3. Frame(frames + 1) \in Packet
    <3>1. frames + 1 \in Nat  BY Limits DEF NumbersOK
    <3>2. QED  BY <3>1, FrameIs
  <2>4. Put(bufcom \o port, Frame(frames + 1), bufcom \o (port \o Units(Frame(frames + 1))))
    BY <2>3, StreamPut
  <2>5. Put(Stream, Frame(frames + 1), Stream')  BY <2>1, <2>4 DEF Stream
  <2>6. Stream' \in Seq(Unit) /\ frames \in Nat /\ due \in Nat
    BY StreamIs, Limits DEF StreamsOK, NumbersOK, Stream
  <2>7. Paired(Stream')  BY <1>a, <2>3, <2>5, <2>6, PutPaired DEF Flow
  <2>8. /\ LastFrames(Stream', frames')
        /\ \A d \in Nat : FirstIs(Stream, frames, d) => FirstIs(Stream', frames', d)
    BY <1>a, <2>1, <2>5, <2>6, PutFrame DEF Flow
  <2>9. ASSUME SamplesEna'
        PROVE  /\ work_adc'
               /\ due' # 0 => FirstIs(Stream', frames', due')
               /\ due' # 0 /\ Looking' => ~ IsFrame(Stream'[1])
    <3>1. work_adc'  BY <2>2, <2>9 DEF Flow, FrameDue
    <3>2. due # 0 => FirstIs(Stream, frames, due)  BY <2>2, <2>9 DEF Flow, FrameDue
    <3>3. due' # 0 => FirstIs(Stream', frames', due')  BY <2>1, <2>6, <2>8, <3>2
    <3>4. ASSUME due' # 0, Looking' PROVE ~ IsFrame(Stream'[1])
      <4>1. Looking /\ due # 0  BY <2>1, <3>4 DEF Looking
      <4>2. ~ IsFrame(Stream[1])  BY <2>2, <2>9, <4>1 DEF Flow, FrameDue, Looking
      <4>3. 1 \in 1 .. Len(Stream)  BY <1>a, <1>b, <4>1 DEF WholeInv, Looking
      <4>4. Stream'[1] = Stream[1]  BY <2>5, <4>3 DEF Put
      <4>5. QED  BY <4>2, <4>4
    <3>5. QED  BY <3>1, <3>3, <3>4
  <2>10. FrameDue'  BY <2>9 DEF FrameDue, Looking
  <2>11. ~ gap'  BY <2>1 DEF Flow
  <2>12. QED  BY <2>7, <2>8, <2>10, <2>11 DEF Flow
<1>3. CASE Asking
  <2>1. PICK kind \in Kinds, ena \in {FALSE, SamplesEna}, purge \in BOOLEAN : Ask(kind, ena, purge)
    BY <1>3 DEF Asking
  <2>2. bufcom' = bufcom /\ port' = port /\ frames' = frames /\ gap' = gap /\ due' = due
        /\ thr' = thr
    BY <2>1 DEF Ask, device, input, ghosts
  <2>3. SamplesEna' = ena /\ work_adc' = work_adc  BY <2>1 DEF Ask
  <2>4. SamplesEna' => SamplesEna  BY <2>3
  <2>5. QED  BY <2>2, <2>3, <2>4, FlowLeftAlone DEF Looking
<1>4. CASE ClearChart
  <2>1. bufcom' = bufcom /\ port' = port /\ frames' = frames /\ gap' = gap /\ due' \in {due, 0}
    BY <1>4 DEF ClearChart, device, txvars, rxvars, flags, input, ghosts
  <2>2. /\ SamplesEna' = SamplesEna /\ work_adc' = work_adc
        /\ thr' = thr \/ thr' \notin {"compare", "answer", "clear", "foreign"} \/ Looking
    BY <1>4 DEF ClearChart, flags, vars, Looking
  <2>3. QED  BY <2>1, <2>2, FlowLeftAlone DEF Looking
<1>5. CASE SetWaitId
  <2>1. bufcom' = bufcom /\ port' = port /\ frames' = frames /\ gap' = gap /\ due' \in {due, 0}
    BY <1>5 DEF SetWaitId, device, txvars, rxvars, flags, input, ghosts
  <2>2. /\ SamplesEna' = SamplesEna /\ work_adc' = work_adc
        /\ thr' = thr \/ thr' \notin {"compare", "answer", "clear", "foreign"} \/ Looking
    BY <1>5 DEF SetWaitId, flags, vars, Looking
  <2>3. QED  BY <2>1, <2>2, FlowLeftAlone DEF Looking
<1>6. CASE SetWaitCnt
  <2>1. bufcom' = bufcom /\ port' = port /\ frames' = frames /\ gap' = gap /\ due' \in {due, 0}
    BY <1>6 DEF SetWaitCnt, device, txvars, rxvars, flags, input, ghosts
  <2>2. /\ SamplesEna' = SamplesEna /\ work_adc' = work_adc
        /\ thr' = thr \/ thr' \notin {"compare", "answer", "clear", "foreign"} \/ Looking
    BY <1>6 DEF SetWaitCnt, flags, vars, Looking
  <2>3. QED  BY <2>1, <2>2, FlowLeftAlone DEF Looking
<1>7. CASE SetLenTx
  <2>1. bufcom' = bufcom /\ port' = port /\ frames' = frames /\ gap' = gap /\ due' \in {due, 0}
    BY <1>7 DEF SetLenTx, device, txvars, rxvars, flags, input, ghosts
  <2>2. /\ SamplesEna' = SamplesEna /\ work_adc' = work_adc
        /\ thr' = thr \/ thr' \notin {"compare", "answer", "clear", "foreign"} \/ Looking
    BY <1>7 DEF SetLenTx, flags, vars, Looking
  <2>3. QED  BY <2>1, <2>2, FlowLeftAlone DEF Looking
<1>8. CASE Sent
  <2>1. bufcom' = bufcom /\ port' = port /\ frames' = frames /\ gap' = gap /\ due' \in {due, 0}
    BY <1>8 DEF Sent, device, txvars, rxvars, flags, input, ghosts
  <2>2. /\ SamplesEna' = SamplesEna /\ work_adc' = work_adc
        /\ thr' = thr \/ thr' \notin {"compare", "answer", "clear", "foreign"} \/ Looking
    BY <1>8 DEF Sent, flags, vars, Looking
  <2>3. QED  BY <2>1, <2>2, FlowLeftAlone DEF Looking
<1>9. CASE SendTimeout
  <2>1. bufcom' = bufcom /\ port' = port /\ frames' = frames /\ gap' = gap /\ due' \in {due, 0}
    BY <1>9 DEF SendTimeout, device, txvars, rxvars, flags, input, ghosts
  <2>2. /\ SamplesEna' = SamplesEna /\ work_adc' = work_adc
        /\ thr' = thr \/ thr' \notin {"compare", "answer", "clear", "foreign"} \/ Looking
    BY <1>9 DEF SendTimeout, flags, vars, Looking
  <2>3. QED  BY <2>1, <2>2, FlowLeftAlone DEF Looking
<1>10. CASE ReadBlk
  <2>1. bufcom' = bufcom /\ port' = port /\ frames' = frames /\ gap' = gap /\ due' \in {due, 0}
    BY <1>10 DEF ReadBlk, device, txvars, rxvars, flags, input, ghosts
  <2>2. /\ SamplesEna' = SamplesEna /\ work_adc' = work_adc
        /\ thr' = thr \/ thr' \notin {"compare", "answer", "clear", "foreign"} \/ Looking
    BY <1>10 DEF ReadBlk, flags, vars, Looking
  <2>3. QED  BY <2>1, <2>2, FlowLeftAlone DEF Looking
<1>11. CASE ReadTimeout
  <2>1. bufcom' = bufcom /\ port' = port /\ frames' = frames /\ gap' = gap /\ due' \in {due, 0}
    BY <1>11 DEF ReadTimeout, device, txvars, rxvars, flags, input, ghosts
  <2>2. /\ SamplesEna' = SamplesEna /\ work_adc' = work_adc
        /\ thr' = thr \/ thr' \notin {"compare", "answer", "clear", "foreign"} \/ Looking
    BY <1>11 DEF ReadTimeout, flags, vars, Looking
  <2>3. QED  BY <2>1, <2>2, FlowLeftAlone DEF Looking
<1>12. CASE Accepted
  <2>1. bufcom' = bufcom /\ port' = port /\ frames' = frames /\ gap' = gap /\ thr' = thr
        /\ due' = IF buftx.kind = "start" THEN 0 ELSE due
    BY <1>12 DEF Accepted, device, input
  <2>2. work_adc' = (work_adc \/ buftx.kind = "start")  BY <1>12 DEF Accepted
  <2>3. SamplesEna' = CASE buftx.kind = "start" -> TRUE
                        [] buftx.kind = "stop"  -> FALSE
                        [] OTHER -> SamplesEna
    BY <1>12 DEF Accepted
  <2>4. Stream' = Stream  BY <2>1 DEF Stream
  <2>5. CASE buftx.kind = "start"
    <3>1. due' = 0  BY <2>1, <2>5
    <3>2. work_adc'  BY <2>2, <2>5
    <3>3. FrameDue'  BY <3>1, <3>2 DEF FrameDue
    <3>4. QED  BY <2>1, <2>4, <3>3 DEF Flow
  <2>6. CASE buftx.kind # "start"
    <3>1. due' = due  BY <2>1, <2>6
    <3>2. SamplesEna' => SamplesEna  BY <2>3, <2>6 DEF WordsOK
    <3>3. work_adc => work_adc'  BY <2>2
    <3>4. QED  BY <2>1, <3>1, <3>2, <3>3, FlowLeftAlone DEF Looking
  <2>7. QED  BY <2>5, <2>6
<1>13. CASE Purge
  <2>1. /\ frames' = frames /\ gap' = gap /\ thr' = "write"
    BY <1>13 DEF Purge
  <2>2. SamplesEna' = SamplesEna /\ work_adc' = work_adc  BY <1>13 DEF Purge
  <2>3. CASE ~ purge_com
    <3>1. bufcom' = bufcom /\ port' = port /\ due' = due  BY <1>13, <2>3 DEF Purge, input
    <3>2. QED  BY <2>1, <2>2, <3>1, FlowLeftAlone DEF Looking
  <2>4. CASE purge_com
    <3>1. PICK n \in 0 .. Len(port) :
            /\ port' = Drop(port, n)
            /\ mishaps' = mishaps \cup (IF Broken(port') THEN {"cut"} ELSE {})
                                  \cup (IF HasReply(SubSeq(port, 1, n)) THEN {"purged"} ELSE {})
      BY <1>13, <2>4 DEF Purge
    <3>2. bufcom' = << >> /\ due' = 0  BY <1>13, <2>4 DEF Purge
    <3>3. ~ Broken(port')  BY <3>1 DEF Misread
    <3>4. Paired(bufcom \o port)  BY DEF Flow, Stream
    <3>5. /\ (Len(bufcom) + n) % 2 = 0 /\ Len(bufcom) + n \in Nat
          /\ Behind(<< >> \o Drop(port, n), bufcom \o port, Len(bufcom) + n)
      BY <3>1, <3>3, <3>4, StreamPurge
    <3>6. Behind(Stream', Stream, Len(bufcom) + n)  BY <3>1, <3>2, <3>5 DEF Stream
    <3>7. ~ Looking'  BY <2>1 DEF Looking
    <3>8. QED  BY <2>1, <2>2, <3>2, <3>5, <3>6, <3>7, FlowMoved
  <2>5. QED  BY <2>3, <2>4
<1>14. CASE CheckTx
  <2>1. bufcom' = bufcom /\ port' = port /\ frames' = frames /\ gap' = gap /\ due' \in {due, 0}
    BY <1>14 DEF CheckTx, device, txvars, rxvars, flags, input, ghosts
  <2>2. /\ SamplesEna' = SamplesEna /\ work_adc' = work_adc
        /\ thr' = thr \/ thr' \notin {"compare", "answer", "clear", "foreign"} \/ Looking
    BY <1>14 DEF CheckTx, flags, vars, Looking
  <2>3. QED  BY <2>1, <2>2, FlowLeftAlone DEF Looking
<1>15. CASE WriteFile
  <2>1. bufcom' = bufcom /\ port' = port /\ frames' = frames /\ gap' = gap /\ due' \in {due, 0}
    BY <1>15 DEF WriteFile, device, txvars, rxvars, flags, input, ghosts
  <2>2. /\ SamplesEna' = SamplesEna /\ work_adc' = work_adc
        /\ thr' = thr \/ thr' \notin {"compare", "answer", "clear", "foreign"} \/ Looking
    BY <1>15 DEF WriteFile, flags, vars, Looking
  <2>3. QED  BY <2>1, <2>2, FlowLeftAlone DEF Looking
<1>16. CASE Written
  <2>1. bufcom' = bufcom /\ port' = port /\ frames' = frames /\ gap' = gap /\ due' \in {due, 0}
    BY <1>16 DEF Written, device, txvars, rxvars, flags, input, ghosts
  <2>2. /\ SamplesEna' = SamplesEna /\ work_adc' = work_adc
        /\ thr' = thr \/ thr' \notin {"compare", "answer", "clear", "foreign"} \/ Looking
    BY <1>16 DEF Written, flags, vars, Looking
  <2>3. QED  BY <2>1, <2>2, FlowLeftAlone DEF Looking
<1>17. CASE ReadFile
  <2>1. frames' = frames /\ gap' = gap /\ due' = due /\ thr' = "packets"
    BY <1>17 DEF ReadFile
  <2>2. SamplesEna' = SamplesEna /\ work_adc' = work_adc  BY <1>17 DEF ReadFile, flags
  <2>3. PICK n \in 1 .. CHUNK :
          /\ n <= Len(port) /\ port' = Drop(port, n) /\ bufcom' \in Seq(Unit)
          /\ \/ mishaps' = mishaps \cup {"cut"}
             \/ /\ mishaps' = mishaps /\ Len(bufcom') = Len(bufcom) + n
                /\ \A i \in 1 .. Len(bufcom) : bufcom'[i] = bufcom[i]
                /\ \A i \in 1 .. n : bufcom'[Len(bufcom) + i] = port[i]
    BY <1>17, ReadFileIs
  <2>4. mishaps' # mishaps \cup {"cut"}  BY DEF Misread
  <2>5. n \in 0 .. Len(port)  BY <1>a, <2>3, Limits
  <2>6. Behind(bufcom' \o Drop(port, n), bufcom \o port, 0)  BY <2>3, <2>4, <2>5, StreamRead
  <2>7. Behind(Stream', Stream, 0)  BY <2>3, <2>6 DEF Stream
  <2>8. 0 \in Nat /\ 0 % 2 = 0 /\ \A i \in 1 .. 0 : ~ IsFrame(Stream[i])  OBVIOUS
  <2>9. ~ Looking'  BY <2>1 DEF Looking
  <2>10. QED  BY <2>1, <2>2, <2>7, <2>8, <2>9, FlowMoved
<1>18. CASE ReadNothing
  <2>1. bufcom' = bufcom /\ port' = port /\ frames' = frames /\ gap' = gap /\ due' \in {due, 0}
    BY <1>18 DEF ReadNothing, device, txvars, rxvars, flags, input, ghosts
  <2>2. /\ SamplesEna' = SamplesEna /\ work_adc' = work_adc
        /\ thr' = thr \/ thr' \notin {"compare", "answer", "clear", "foreign"} \/ Looking
    BY <1>18 DEF ReadNothing, flags, vars, Looking
  <2>3. QED  BY <2>1, <2>2, FlowLeftAlone DEF Looking
<1>19. CASE ReadFails
  <2>1. port' = port /\ frames' = frames /\ gap' = gap /\ due' = due /\ thr' = "top"
    BY <1>19 DEF ReadFails, device
  <2>2. SamplesEna' = SamplesEna /\ work_adc' = work_adc  BY <1>19 DEF ReadFails, flags
  <2>3. mishaps' = mishaps \cup IF bufcom = << >> THEN {} ELSE {"cut"}  BY <1>19 DEF ReadFails
  <2>4. "cut" \notin mishaps'  BY DEF Misread
  <2>5. bufcom = << >>  BY <2>3, <2>4
  <2>6. bufcom' = bufcom  BY <1>19, <2>5 DEF ReadFails
  <2>7. QED  BY <2>1, <2>2, <2>6, FlowLeftAlone DEF Looking
<1>20. CASE NoMorePackets
  <2>1. Return /\ port' = port /\ frames' = frames /\ gap' = gap /\ due' = due
    BY <1>20 DEF NoMorePackets, device
  <2>2. SamplesEna' = SamplesEna /\ work_adc' = work_adc  BY <1>20 DEF NoMorePackets, flags
  <2>3. bufcom' = bufcom /\ thr' = "top"  BY <2>1, MayNotReturn
  <2>4. QED  BY <2>1, <2>2, <2>3, FlowLeftAlone DEF Looking
<1>21. CASE TakeFrame
  <2>1. /\ thr = "packets" /\ thr' = thr /\ Whole(bufcom) /\ Consume /\ port' = port
        /\ frames' = frames /\ IsSamples(bufcom[1].of)
    BY <1>21 DEF TakeFrame, device
  <2>2. SamplesEna' = SamplesEna /\ work_adc' = work_adc  BY <1>21 DEF TakeFrame, flags
  <2>3. ~ Looking'  BY <2>1 DEF Looking
  <2>4. CASE ~ SamplesEna
    <3>1. due' = due /\ gap' = gap  BY <1>21, <2>4 DEF TakeFrame, Stored
    <3>2. QED  BY <2>1, <2>2, <2>3, <2>4, <3>1, FlowConsumed
  <2>5. CASE SamplesEna
    <3> DEFINE n == bufcom[1].of.no
    <3>1. due' = n + 1 /\ gap' = (gap \/ due \notin {0, n})  BY <1>21, <2>5 DEF TakeFrame, Stored
    <3>2. /\ bufcom' \in Seq(Unit) /\ Len(bufcom') = Len(bufcom) - 2 /\ Len(bufcom) >= 2
          /\ \A i \in 1 .. Len(bufcom) - 2 : bufcom'[i] = bufcom[i + 2]
      BY <2>1, ConsumeIs
    <3>3. Behind(bufcom' \o port, bufcom \o port, 2)  BY <3>2, StreamConsume
    <3>4. Behind(Stream', Stream, 2)  BY <2>1, <3>3 DEF Stream
    <3>5. Stream' \in Seq(Unit) /\ frames \in Nat /\ due \in Nat
      BY StreamIs, Limits DEF StreamsOK, NumbersOK, Stream
    <3>6. IsFrame(Stream[1]) /\ Stream[1].of.no = n /\ Len(Stream) >= 2
      BY <1>a, <1>b, <2>1 DEF IsSamples, IsFrame
    <3>7. Paired(Stream) /\ LastFrames(Stream, frames)  BY DEF Flow
    <3>8. /\ Stream[1].of.no \in 1 .. frames
          /\ FirstIs(Stream', frames, Stream[1].of.no + 1)
          /\ \A d \in Nat : FirstIs(Stream, frames, d) => d = Stream[1].of.no
      BY <1>a, <3>4, <3>5, <3>6, <3>7, TakenIsFirst
    <3>9. due # 0 => due = n
      <4>1. due # 0 => FirstIs(Stream, frames, due)  BY <2>5 DEF Flow, FrameDue
      <4>2. QED  BY <3>5, <3>6, <3>8, <4>1
    <3>10. ~ gap'  BY <3>1, <3>9 DEF Flow
    <3>11. 2 \in Nat /\ 2 % 2 = 0  OBVIOUS
    <3>12. Paired(Stream')  BY <1>a, <3>4, <3>5, <3>7, <3>11, BehindPaired
    <3>13. LastFrames(Stream', frames')  BY <1>a, <2>1, <3>4, <3>5, <3>7, <3>11, BehindFrames
    <3>14. FirstIs(Stream', frames', due')  BY <2>1, <3>1, <3>6, <3>8
    <3>15. work_adc'  BY <2>2, <2>5 DEF Flow, FrameDue
    <3>16. FrameDue'  BY <2>3, <3>14, <3>15 DEF FrameDue, Looking
    <3>17. QED  BY <3>10, <3>12, <3>13, <3>16 DEF Flow
  <2>6. QED  BY <2>4, <2>5
<1>22. CASE Skip
  <2>1. /\ Whole(bufcom) /\ port' = port /\ frames' = frames /\ gap' = gap /\ due' = due
        /\ ~ IsSamples(bufcom[1].of)
    BY <1>22 DEF Skip, device, ghosts
  <2>2. SamplesEna' = SamplesEna /\ work_adc' = work_adc  BY <1>22 DEF Skip, flags
  <2>3. SamplesEna => ~ IsFrame(Stream[1])
    <3> SUFFICES ASSUME SamplesEna PROVE ~ IsFrame(Stream[1])  OBVIOUS
    <3>1. work_adc  BY DEF Flow, FrameDue
    <3>2. bufcom[1].of.id # "ADC"  BY <2>1, <3>1 DEF IsSamples
    <3>3. QED  BY <1>b, <2>1, <3>2 DEF IsFrame
  <2>4. CASE Consume /\ thr' = thr
    <3>1. ~ Looking'  BY <1>22, <2>4 DEF Skip, Looking
    <3>2. QED  BY <2>1, <2>2, <2>3, <2>4, <3>1, FlowConsumed
  <2>5. CASE bufcom' = bufcom  BY <2>1, <2>2, <2>3, <2>5, FlowLeftAlone
  <2>6. QED  BY <1>22, <2>4, <2>5 DEF Skip, input
<1>23. CASE Compare
  <2>1. bufcom' = bufcom /\ port' = port /\ frames' = frames /\ gap' = gap /\ due' \in {due, 0}
    BY <1>23 DEF Compare, device, txvars, rxvars, flags, input, ghosts
  <2>2. /\ SamplesEna' = SamplesEna /\ work_adc' = work_adc
        /\ thr' = thr \/ thr' \notin {"compare", "answer", "clear", "foreign"} \/ Looking
    BY <1>23 DEF Compare, flags, vars, Looking
  <2>3. QED  BY <2>1, <2>2, FlowLeftAlone DEF Looking
<1>24. CASE Answer
  <2>1. bufcom' = bufcom /\ port' = port /\ frames' = frames /\ gap' = gap /\ due' \in {due, 0}
    BY <1>24 DEF Answer, device, txvars, rxvars, flags, input, ghosts
  <2>2. /\ SamplesEna' = SamplesEna /\ work_adc' = work_adc
        /\ thr' = thr \/ thr' \notin {"compare", "answer", "clear", "foreign"} \/ Looking
    BY <1>24 DEF Answer, flags, vars, Looking
  <2>3. QED  BY <2>1, <2>2, FlowLeftAlone DEF Looking
<1>25. CASE Clear
  <2>1. /\ thr = "clear" /\ thr' = "packets" /\ Consume /\ port' = port /\ frames' = frames
        /\ gap' = gap /\ due' = due
    BY <1>25 DEF Clear, device, ghosts
  <2>2. SamplesEna' = SamplesEna /\ work_adc' = work_adc  BY <1>25 DEF Clear, flags
  <2>3. Whole(bufcom) /\ ~ Looking'  BY <2>1 DEF WholeInv, Looking
  <2>4. due # 0 /\ SamplesEna => ~ IsFrame(Stream[1])  BY <2>1 DEF Flow, FrameDue
  <2>5. QED  BY <2>1, <2>2, <2>3, <2>4, FlowConsumed
<1>26. CASE Foreign
  <2>1. /\ thr = "foreign" /\ port' = port /\ frames' = frames /\ gap' = gap /\ due' = due
    BY <1>26 DEF Foreign, device, ghosts
  <2>2. SamplesEna' = SamplesEna /\ work_adc' = work_adc  BY <1>26 DEF Foreign, flags
  <2>3. CASE Consume /\ thr' = "packets"
    <3>1. Whole(bufcom) /\ ~ Looking'  BY <2>1, <2>3 DEF WholeInv, Looking
    <3>2. due # 0 /\ SamplesEna => ~ IsFrame(Stream[1])  BY <2>1 DEF Flow, FrameDue
    <3>3. QED  BY <2>1, <2>2, <2>3, <3>1, <3>2, FlowConsumed
  <2>4. CASE bufcom' = bufcom /\ thr' = "giveup"
    BY <2>1, <2>2, <2>4, FlowLeftAlone DEF Looking
  <2>5. QED  BY <1>26, <2>3, <2>4 DEF Foreign, input
<1>27. CASE GiveUp
  <2>1. Return /\ port' = port /\ frames' = frames /\ gap' = gap /\ due' = due
    BY <1>27 DEF GiveUp, device
  <2>2. SamplesEna' = SamplesEna /\ work_adc' = work_adc  BY <1>27 DEF GiveUp, flags
  <2>3. bufcom' = bufcom /\ thr' = "top"  BY <2>1, MayNotReturn
  <2>4. QED  BY <2>1, <2>2, <2>3, FlowLeftAlone DEF Looking
<1>28. CASE Garbled
  <2>1. Broken(bufcom)  BY <1>28 DEF Garbled
  <2>2. QED  BY <2>1, NotBroken DEF Flow
<1>29. CASE UNCHANGED vars
  <2>1. bufcom' = bufcom /\ port' = port /\ frames' = frames /\ gap' = gap /\ due' \in {due, 0}
    BY <1>29 DEF vars, device, txvars, rxvars, flags, input, ghosts
  <2>2. /\ SamplesEna' = SamplesEna /\ work_adc' = work_adc
        /\ thr' = thr \/ thr' \notin {"compare", "answer", "clear", "foreign"} \/ Looking
    BY <1>29 DEF vars, flags, vars, Looking
  <2>3. QED  BY <2>1, <2>2, FlowLeftAlone DEF Looking
<1>30. QED
  BY <1>1, <1>2, <1>3, <1>4, <1>5, <1>6, <1>7, <1>8, <1>9, <1>10,
     <1>11, <1>12, <1>13, <1>14, <1>15, <1>16, <1>17, <1>18, <1>19, <1>20,
     <1>21, <1>22, <1>23, <1>24, <1>25, <1>26, <1>27, <1>28, <1>29, Steps

LEMMA StreamInvKept ==
  ASSUME TypesOK, StreamsOK', PlaceInv, WholeInv, StreamInv, [Next]_vars
  PROVE  StreamInv'
<1>1. CASE Misread'  BY <1>1 DEF StreamInv
<1>2. CASE ~ Misread'
  <2>1. ~ Misread  BY <1>2, MisreadGrows DEF TypesOK
  <2>2. Flow  BY <2>1 DEF StreamInv, Flow
  <2>3. Flow'  BY <1>2, <2>2, FlowKept
  <2>4. QED  BY <2>3 DEF StreamInv, Flow
<1>3. QED  BY <1>1, <1>2

LEMMA InitFlows == Init => StreamInv
<1> SUFFICES ASSUME Init PROVE StreamInv  OBVIOUS
<1>1. bufcom = << >> /\ port = << >> /\ SamplesEna = FALSE /\ gap = FALSE /\ frames = 0
  BY DEF Init
<1>2. Stream = << >> /\ Len(Stream) = 0  BY <1>1 DEF Stream
<1>3. Paired(Stream)  BY <1>2 DEF Paired
<1>4. LastFrames(Stream, frames)  BY <1>2 DEF LastFrames
<1>5. QED  BY <1>1, <1>3, <1>4 DEF StreamInv, FrameDue

StateInv == TypesOK /\ PlaceInv /\ WholeInv /\ CountInv

LEMMA StateKept ==
  ASSUME StateInv, [Next]_vars
  PROVE  StateInv'
<1> USE DEF StateInv
<1>1. WordsOK /\ CommandsOK /\ StreamsOK /\ NumbersOK  BY DEF TypesOK
<1>2. WordsOK' /\ CommandsOK' /\ NumbersOK'  BY <1>1, WordsKept, CommandsKept, NumbersKept
<1>3. StreamsOK' /\ PlaceInv' /\ WholeInv' /\ CountInv'
  BY <1>1, StreamsKept, PlaceKept, WholeKept, CountKept
<1>4. QED  BY <1>2, <1>3 DEF TypesOK

(* What the port thread takes for a packet's beginning is one, unless a    *)
(* packet was dropped in part.                                             *)
THEOREM PacketsInStep == Spec => []FramingKept
<1>1. Init => StateInv /\ StreamInv  BY InitTyped, InitFlows DEF StateInv
<1>2. StateInv /\ StreamInv /\ [Next]_vars => (StateInv /\ StreamInv)'
  BY StateKept, StreamInvKept DEF StateInv, TypesOK
<1>3. StateInv /\ StreamInv => FramingKept
  BY NotBroken DEF StateInv, TypesOK, StreamInv, FramingKept
<1>4. QED  BY <1>1, <1>2, <1>3, PTL DEF Spec

(* Samples are stored without a gap, whatever is asked in the meantime.    *)
THEOREM SamplesInSequence == Spec => []SamplesGoOn
<1>1. Init => StateInv /\ StreamInv  BY InitTyped, InitFlows DEF StateInv
<1>2. StateInv /\ StreamInv /\ [Next]_vars => (StateInv /\ StreamInv)'
  BY StateKept, StreamInvKept DEF StateInv, TypesOK
<1>3. StreamInv => SamplesGoOn  BY DEF StreamInv, SamplesGoOn
<1>4. QED  BY <1>1, <1>2, <1>3, PTL DEF Spec

(* All that is not a frame is one packet, this one.                        *)
OnlyAnswer(s, packet) ==
  /\ \A i \in 1 .. Len(s) : ~ IsFrame(s[i]) => s[i].of = packet
  /\ \A i, j \in 1 .. Len(s) :
       Odd(i) /\ Odd(j) /\ ~ IsFrame(s[i]) /\ ~ IsFrame(s[j]) => i = j

NoFrames(s)    == \A i \in 1 .. Len(s) : ~ IsFrame(s[i])
AnswerFirst(s) == \A i, j \in 1 .. Len(s) : ~ IsFrame(s[i]) /\ IsFrame(s[j]) => i < j

(* What is read of a stream and what is put to it leave these as they are. *)
SameAnswers(s, t, packet) ==
  /\ HasReply(t) <=> HasReply(s)
  /\ OnlyAnswer(s, packet) => OnlyAnswer(t, packet)
  /\ NoFrames(s) => NoFrames(t)
  /\ AnswerFirst(s) => AnswerFirst(t)

LEMMA FramesTaken ==
  ASSUME NEW s \in Seq(Unit), NEW t \in Seq(Unit), NEW k \in Nat, k % 2 = 0, NEW packet,
         Behind(t, s, k), \A i \in 1 .. k : IsFrame(s[i])
  PROVE  SameAnswers(s, t, packet)
<1>1. Len(s) \in Nat /\ Len(t) \in Nat /\ Len(s) = Len(t) + k  BY DEF Behind
<1>2. ASSUME NEW i \in 1 .. Len(t)
      PROVE  i + k \in 1 .. Len(s) /\ t[i] = s[i + k] /\ (Odd(i + k) <=> Odd(i)) /\ i \in Int
  <2>1. i \in Int /\ k \in Int /\ i + k \in 1 .. Len(s) /\ t[i] = s[i + k]  BY <1>1 DEF Behind
  <2>2. Odd(i + k) <=> Odd(i)  BY <2>1, OddShift
  <2>3. QED  BY <2>1, <2>2
<1>3. HasReply(t) <=> HasReply(s)
  <2>1. ASSUME HasReply(t) PROVE HasReply(s)
    <3>1. PICK i \in 1 .. Len(t) : t[i].of.id # "ADC"  BY <2>1 DEF HasReply
    <3>2. i + k \in 1 .. Len(s) /\ s[i + k].of.id # "ADC"  BY <1>2, <3>1
    <3>3. QED  BY <3>2 DEF HasReply
  <2>2. ASSUME HasReply(s) PROVE HasReply(t)
    <3>1. PICK i \in 1 .. Len(s) : s[i].of.id # "ADC"  BY <2>2 DEF HasReply
    <3>2. i \notin 1 .. k  BY <3>1 DEF IsFrame
    <3>3. i - k \in 1 .. Len(t) /\ (i - k) + k = i  BY <1>1, <3>1, <3>2
    <3>4. t[i - k] = s[(i - k) + k]  BY <1>2, <3>3
    <3>5. t[i - k].of.id # "ADC"  BY <3>1, <3>3, <3>4
    <3>6. QED  BY <3>3, <3>5 DEF HasReply
  <2>3. QED  BY <2>1, <2>2
<1>4. ASSUME OnlyAnswer(s, packet) PROVE OnlyAnswer(t, packet)
  <2>1. ASSUME NEW i \in 1 .. Len(t), ~ IsFrame(t[i]) PROVE t[i].of = packet
    BY <1>2, <1>4, <2>1 DEF OnlyAnswer
  <2>2. ASSUME NEW i \in 1 .. Len(t), NEW j \in 1 .. Len(t), Odd(i), Odd(j),
               ~ IsFrame(t[i]), ~ IsFrame(t[j])
        PROVE  i = j
    <3>1. i + k = j + k  BY <1>2, <1>4, <2>2 DEF OnlyAnswer
    <3>2. QED  BY <1>2, <3>1
  <2>3. QED  BY <2>1, <2>2 DEF OnlyAnswer
<1>5. NoFrames(s) => NoFrames(t)  BY <1>2 DEF NoFrames
<1>6. ASSUME AnswerFirst(s) PROVE AnswerFirst(t)
  <2>1. ASSUME NEW i \in 1 .. Len(t), NEW j \in 1 .. Len(t), ~ IsFrame(t[i]), IsFrame(t[j])
        PROVE  i < j
    <3>1. i + k < j + k  BY <1>2, <1>6, <2>1 DEF AnswerFirst
    <3>2. QED  BY <1>2, <3>1
  <2>2. QED  BY <2>1 DEF AnswerFirst
<1>7. QED  BY <1>3, <1>4, <1>5, <1>6 DEF SameAnswers

LEMMA AnswerTaken ==
  ASSUME NEW s \in Seq(Unit), NEW t \in Seq(Unit), NEW packet, Behind(t, s, 2), Paired(s),
         Len(s) >= 2, ~ IsFrame(s[1]), OnlyAnswer(s, packet)
  PROVE  /\ ~ HasReply(t) /\ OnlyAnswer(t, packet) /\ AnswerFirst(t)
         /\ NoFrames(s) => NoFrames(t)
<1>1. Len(s) \in Nat /\ Len(t) \in Nat /\ Len(s) = Len(t) + 2 /\ 1 \in 1 .. Len(s) /\ Odd(1)
  BY DEF Behind, Odd
<1>2. ASSUME NEW i \in 1 .. Len(t) PROVE IsFrame(t[i])
  <2> SUFFICES ASSUME ~ IsFrame(t[i]) PROVE FALSE  OBVIOUS
  <2>1. i + 2 \in 1 .. Len(s) /\ t[i] = s[i + 2]  BY <1>1 DEF Behind
  <2>2. CASE Odd(i)
    <3>1. Odd(i + 2)  BY <1>1, <2>2 DEF Odd
    <3>2. 1 = i + 2  BY <1>1, <2>1, <3>1 DEF OnlyAnswer
    <3>3. QED  BY <1>1, <3>2
  <2>3. CASE ~ Odd(i)
    <3>1. i + 1 \in 1 .. Len(s) /\ Odd(i + 1) /\ (i + 1) + 1 = i + 2
      BY <1>1, <2>3 DEF Odd
    <3>2. s[i + 2].of = s[i + 1].of  BY <3>1 DEF Paired
    <3>3. ~ IsFrame(s[i + 1])  BY <2>1, <3>2 DEF IsFrame
    <3>4. 1 = i + 1  BY <1>1, <3>1, <3>3 DEF OnlyAnswer
    <3>5. QED  BY <1>1, <3>4
  <2>4. QED  BY <2>2, <2>3
<1>3. ~ HasReply(t)  BY <1>2 DEF HasReply, IsFrame
<1>4. OnlyAnswer(t, packet) /\ AnswerFirst(t)  BY <1>2 DEF OnlyAnswer, AnswerFirst
<1>5. ASSUME NoFrames(s) PROVE NoFrames(t)
  BY <1>1, <1>5 DEF NoFrames, Behind
<1>6. QED  BY <1>3, <1>4, <1>5

LEMMA AnswerPut ==
  ASSUME NEW s \in Seq(Unit), NEW t \in Seq(Unit), NEW packet \in Packet, Put(s, packet, t),
         packet.id # "ADC", ~ HasReply(s), Paired(s)
  PROVE  /\ HasReply(t) /\ OnlyAnswer(t, packet)
         /\ NoFrames(s) => NoFrames(t) /\ AnswerFirst(t)
<1>1. Len(s) \in Nat /\ Len(t) = Len(s) + 2 /\ Odd(Len(s) + 1) /\ ~ Odd(Len(s) + 2)
  <2>1. Len(s) \in Nat /\ Len(t) = Len(s) + 2 /\ Len(s) % 2 = 0  BY DEF Put, Paired
  <2>2. QED  BY <2>1 DEF Odd
<1>2. \A i \in 1 .. Len(s) : IsFrame(s[i])  BY DEF HasReply, IsFrame
<1>3. ASSUME NEW i \in 1 .. Len(t), ~ IsFrame(t[i])
      PROVE  t[i].of = packet /\ (Odd(i) => i = Len(s) + 1)
  <2>1. \/ i \in 1 .. Len(s) /\ t[i] = s[i]
        \/ i \in {Len(s) + 1, Len(s) + 2} /\ t[i].of = packet
    BY PutAt
  <2>2. i \in {Len(s) + 1, Len(s) + 2} /\ t[i].of = packet  BY <1>2, <1>3, <2>1
  <2>3. QED  BY <1>1, <2>2
<1>4. HasReply(t)
  <2>1. Len(s) + 1 \in 1 .. Len(t) /\ t[Len(s) + 1].of = packet  BY <1>1 DEF Put
  <2>2. QED  BY <2>1 DEF HasReply
<1>5. OnlyAnswer(t, packet)
  <2>1. ASSUME NEW i \in 1 .. Len(t), NEW j \in 1 .. Len(t), Odd(i), Odd(j),
               ~ IsFrame(t[i]), ~ IsFrame(t[j])
        PROVE  i = j
    <3>1. i = Len(s) + 1 /\ j = Len(s) + 1  BY <1>3, <2>1
    <3>2. QED  BY <3>1
  <2>2. QED  BY <1>3, <2>1 DEF OnlyAnswer
<1>6. ASSUME NoFrames(s) PROVE NoFrames(t) /\ AnswerFirst(t)
  <2>1. ASSUME NEW i \in 1 .. Len(t) PROVE ~ IsFrame(t[i])
    <3>1. \/ i \in 1 .. Len(s) /\ t[i] = s[i]
          \/ i \in {Len(s) + 1, Len(s) + 2} /\ t[i].of = packet
      BY PutAt
    <3>2. CASE i \in 1 .. Len(s) /\ t[i] = s[i]  BY <1>6, <3>2 DEF NoFrames
    <3>3. CASE t[i].of = packet  BY <3>3 DEF IsFrame
    <3>4. QED  BY <3>1, <3>2, <3>3
  <2>2. QED  BY <2>1 DEF NoFrames, AnswerFirst
<1>7. QED  BY <1>4, <1>5, <1>6

LEMMA FramePut ==
  ASSUME NEW s \in Seq(Unit), NEW t \in Seq(Unit), NEW n \in Nat, NEW packet, Put(s, Frame(n), t)
  PROVE  /\ HasReply(t) <=> HasReply(s)
         /\ OnlyAnswer(s, packet) => OnlyAnswer(t, packet)
         /\ AnswerFirst(s) => AnswerFirst(t)
<1>1. Len(s) \in Nat /\ Len(t) = Len(s) + 2 /\ \A i \in 1 .. Len(s) : i \in 1 .. Len(t) /\ t[i] = s[i]
  BY DEF Put
<1>2. ASSUME NEW i \in 1 .. Len(t)
      PROVE  \/ i \in 1 .. Len(s) /\ t[i] = s[i]
             \/ i > Len(s) /\ IsFrame(t[i])
  <2>1. Frame(n) \in Packet /\ Frame(n).id = "ADC"  BY FrameIs
  <2>2. \/ i \in 1 .. Len(s) /\ t[i] = s[i]
        \/ i \in {Len(s) + 1, Len(s) + 2} /\ t[i].of = Frame(n)
    BY <2>1, PutAt
  <2>3. CASE i \in {Len(s) + 1, Len(s) + 2} /\ t[i].of = Frame(n)
    <3>1. IsFrame(t[i])  BY <2>1, <2>3 DEF IsFrame
    <3>2. i > Len(s)  BY <1>1, <2>3
    <3>3. QED  BY <3>1, <3>2
  <2>4. QED  BY <2>2, <2>3
<1>3. HasReply(t) <=> HasReply(s)  BY <1>1, <1>2 DEF HasReply, IsFrame
<1>4. OnlyAnswer(s, packet) => OnlyAnswer(t, packet)  BY <1>1, <1>2 DEF OnlyAnswer
<1>5. ASSUME AnswerFirst(s) PROVE AnswerFirst(t)
  <2>1. ASSUME NEW i \in 1 .. Len(t), NEW j \in 1 .. Len(t), ~ IsFrame(t[i]), IsFrame(t[j])
        PROVE  i < j
    <3>1. i \in 1 .. Len(s) /\ t[i] = s[i]  BY <1>2, <2>1
    <3>2. CASE j \in 1 .. Len(s) /\ t[j] = s[j]  BY <1>5, <2>1, <3>1, <3>2 DEF AnswerFirst
    <3>3. CASE j > Len(s)  BY <1>1, <3>1, <3>3
    <3>4. QED  BY <1>2, <3>2, <3>3
  <2>2. QED  BY <2>1 DEF AnswerFirst
<1>6. QED  BY <1>3, <1>4, <1>5

LEMMA OneLeft ==
  ASSUME NEW l \in Nat, NEW n \in Nat, l <= 1, NEW i \in 1 .. l + n, ~ (i > l)
  PROVE  l = 1 /\ i = 1
OBVIOUS

LEMMA BehindSame ==
  ASSUME NEW s \in Seq(Unit), NEW t \in Seq(Unit), Behind(t, s, 0)
  PROVE  t = s
<1>1. Len(s) \in Nat /\ Len(t) \in Nat /\ Len(s) = Len(t)  BY DEF Behind
<1>2. ASSUME NEW i \in 1 .. Len(s) PROVE t[i] = s[i]
  <2>1. i + 0 = i /\ i \in 1 .. Len(t)  BY <1>1
  <2>2. QED  BY <2>1 DEF Behind
<1>3. QED  BY <1>1, <1>2, SeqEqual

(* A command or its answer is under way: never more than one, ...          *)
Open == wire # << >> \/ HasReply(Stream)

OneAnswer ==
  /\ Len(wire) <= 1
  /\ wire # << >> => wire[1] = buftx /\ ~ HasReply(Stream)
  /\ OnlyAnswer(Stream, Reply(buftx))

(* ... which the GUI thread waits for, and the port thread knows it.       *)
Awaited ==
  /\ Open => gui \in {"sending", "waiting"} /\ wait_cnt > 0
  /\ Open /\ thr # "written" => lentx = 0 /\ errtx = 0
  /\ Open /\ thr = "written" => written = lentx
  /\ thr = "written" /\ ~ Open => written = 0
  /\ lentx # 0 => gui = "sending"
  /\ thr \in {"writefile", "written"} => lentx # 0
  /\ gui \in {"armed", "ready", "sending", "waiting"} => wait_id.id = Id(buftx.kind)
  /\ ~ wait_id.err

(* When it has come it is in bufrx before wait_cnt says so.                *)
Arrived ==
  /\ gui = "waiting" \/ (gui = "sending" /\ lentx = 0 /\ errtx = 0) =>
       Open \/ (wait_cnt = 0 /\ bufrx = Reply(buftx) /\ lenrx = LenOf(Reply(buftx)))
  /\ gui = "ready" \/ (gui = "sending" /\ (lentx # 0 \/ errtx # 0)) => wait_cnt > 0
  /\ gui = "accept" => wait_cnt = 0 /\ bufrx = Reply(buftx)

(* Where the port thread is.                                               *)
Handled ==
  /\ thr \in {"compare", "answer", "clear"} => ~ IsFrame(Stream[1])
  /\ thr = "clear" => bufrx = Stream[1].of /\ lenrx = LenOf(Stream[1].of)
  /\ thr \notin {"foreign", "giveup"}
  /\ thr \in {"top", "write", "writefile", "written", "read"} => Len(bufcom) <= 1

(* Until work_adc is set, frames are only behind the answer to a start.    *)
Starting ==
  \/ work_adc
  \/ ~ streaming /\ NoFrames(Stream)
  \/ /\ buftx.kind = "start" /\ wire = << >>
     /\ \/ gui \in {"sending", "waiting"} /\ (HasReply(Stream) \/ wait_cnt = 0)
        \/ gui = "accept"
     /\ AnswerFirst(Stream)

Talk == OneAnswer /\ Awaited /\ Arrived /\ Handled /\ Starting

TalkInv == mishaps # {} \/ Talk

(* A step of the port thread, or a frame of the device, that leaves what   *)
(* is under way alone.                                                     *)
LEMMA TalkLeftAlone ==
  ASSUME Talk,
         wire' = wire, buftx' = buftx, lentx' = lentx, errtx' = errtx, written' = written,
         wait_id' = wait_id, wait_cnt' = wait_cnt, bufrx' = bufrx, lenrx' = lenrx, gui' = gui,
         work_adc' = work_adc, streaming' = streaming,
         SameAnswers(Stream, Stream', Reply(buftx)),
         thr' = "written" <=> thr = "written", thr' = "writefile" => lentx # 0,
         Handled'
  PROVE  Talk'
<1>1. HasReply(Stream') <=> HasReply(Stream)  BY DEF SameAnswers
<1>2. Open' <=> Open  BY <1>1 DEF Open
<1>3. OneAnswer'  BY <1>1 DEF Talk, OneAnswer, SameAnswers
<1>4. Awaited'  BY <1>2 DEF Talk, Awaited
<1>5. Arrived'  BY <1>2 DEF Talk, Arrived
<1>6. Starting'  BY <1>1 DEF Talk, Starting, SameAnswers
<1>7. QED  BY <1>3, <1>4, <1>5, <1>6 DEF Talk

(* A step of the GUI thread, or of the port thread while it sends.         *)
LEMMA StreamLeftAlone ==
  ASSUME bufcom' = bufcom, port' = port
  PROVE  /\ Stream' = Stream
         /\ \A packet : SameAnswers(Stream, Stream', packet)
<1>1. Stream' = Stream  BY DEF Stream
<1>2. QED  BY <1>1 DEF SameAnswers

LEMMA HandledLeftAlone ==
  ASSUME Handled, bufcom' = bufcom, port' = port, thr' = thr, bufrx' = bufrx, lenrx' = lenrx
  PROVE  Handled'
<1>1. Stream' = Stream  BY DEF Stream
<1>2. QED  BY <1>1 DEF Handled

(* A packet at the front that is a frame is taken.                         *)
LEMMA FrameConsumed ==
  ASSUME StreamsOK, StreamsOK', Flow, Whole(bufcom), Consume, port' = port, IsFrame(Stream[1])
  PROVE  \A packet : SameAnswers(Stream, Stream', packet)
<1>1. /\ bufcom' \in Seq(Unit) /\ Len(bufcom') = Len(bufcom) - 2 /\ Len(bufcom) >= 2
      /\ \A i \in 1 .. Len(bufcom) - 2 : bufcom'[i] = bufcom[i + 2]
  BY ConsumeIs
<1>2. bufcom \in Seq(Unit) /\ port \in Seq(Unit)  BY DEF StreamsOK
<1>3. Behind(bufcom' \o port, bufcom \o port, 2)  BY <1>1, <1>2, StreamConsume
<1>4. Behind(Stream', Stream, 2)  BY <1>3 DEF Stream
<1>5. /\ Stream \in Seq(Unit) /\ Stream' \in Seq(Unit)
      /\ Len(Stream) = Len(bufcom) + Len(port) /\ Len(bufcom) \in Nat /\ Len(port) \in Nat
  BY <1>1, <1>2, StreamIs DEF StreamsOK, Stream
<1>6. 1 \in 1 .. Len(Stream) /\ Odd(1) /\ 1 + 1 = 2  BY <1>1, <1>5 DEF Odd
<1>7. Stream[2].of = Stream[1].of  BY <1>6 DEF Flow, Paired
<1>8. IsFrame(Stream[2])  BY <1>7 DEF IsFrame
<1>9. \A i \in 1 .. 2 : IsFrame(Stream[i])  BY <1>8
<1>10. 2 \in Nat /\ 2 % 2 = 0  OBVIOUS
<1>11. QED  BY <1>4, <1>5, <1>9, <1>10, FramesTaken

(* The first packet is an answer only while one is awaited.                *)
LEMMA FirstPacket ==
  ASSUME StreamsOK, Talk, Flow, Whole(bufcom)
  PROVE  /\ Stream[1] = bufcom[1] /\ 1 \in 1 .. Len(Stream)
         /\ ~ IsFrame(Stream[1]) => HasReply(Stream) /\ Open /\ Stream[1].of = Reply(buftx)
         /\ wait_cnt > 0 /\ ~ IsSamples(bufcom[1].of) => ~ IsFrame(Stream[1])
<1>1. /\ bufcom \in Seq(Unit) /\ port \in Seq(Unit)
      /\ Len(Stream) = Len(bufcom) + Len(port) /\ Len(bufcom) \in Nat /\ Len(port) \in Nat
      /\ \A i \in 1 .. Len(bufcom) : Stream[i] = bufcom[i]
  BY StreamIs DEF StreamsOK, Stream
<1>2. 1 \in 1 .. Len(bufcom) /\ 1 \in 1 .. Len(Stream)  BY <1>1 DEF Whole
<1>3. Stream[1] = bufcom[1]  BY <1>1, <1>2
<1>4. ASSUME ~ IsFrame(Stream[1])
      PROVE  HasReply(Stream) /\ Open /\ Stream[1].of = Reply(buftx)
  <2>1. HasReply(Stream)  BY <1>2, <1>4 DEF HasReply, IsFrame
  <2>2. QED  BY <1>2, <1>4, <2>1 DEF Open, Talk, OneAnswer, OnlyAnswer
<1>5. ASSUME wait_cnt > 0, ~ IsSamples(bufcom[1].of)
      PROVE  ~ IsFrame(Stream[1])
  <2> SUFFICES ASSUME IsFrame(Stream[1]) PROVE FALSE  OBVIOUS
  <2>1. ~ work_adc  BY <1>3, <1>5 DEF IsSamples, IsFrame
  <2>2. ~ NoFrames(Stream)  BY <1>2 DEF NoFrames
  <2>3. gui = "accept" => ~ (wait_cnt > 0)  BY DEF Talk, Arrived
  <2>4. wait_cnt # 0  BY <1>5
  <2>5. gui # "accept"  BY <1>5, <2>3
  <2>6. HasReply(Stream) /\ AnswerFirst(Stream)  BY <2>1, <2>2, <2>4, <2>5 DEF Talk, Starting
  <2>7. PICK i \in 1 .. Len(Stream) : ~ IsFrame(Stream[i])  BY <2>6 DEF HasReply, IsFrame
  <2>8. i < 1  BY <1>2, <2>6, <2>7 DEF AnswerFirst
  <2>9. QED  BY <1>1, <2>7, <2>8
<1>6. QED  BY <1>2, <1>3, <1>4, <1>5

LEMMA TalkKept ==
  ASSUME TypesOK, StreamsOK', PlaceInv, WholeInv, Flow, Talk, [Next]_vars, mishaps' = {}
  PROVE  Talk'
<1> USE DEF TypesOK
<1>a. /\ bufcom \in Seq(Unit) /\ port \in Seq(Unit) /\ Stream \in Seq(Unit) /\ Stream' \in Seq(Unit)
      /\ Len(Stream) = Len(bufcom) + Len(port) /\ Len(bufcom) \in Nat /\ Len(port) \in Nat
      /\ \A i \in 1 .. Len(bufcom) : Stream[i] = bufcom[i]
  BY StreamIs DEF StreamsOK, Stream
<1>b. wire \in Seq(Asked) /\ wait_cnt \in Nat /\ lentx \in Nat /\ errtx \in Nat
  BY Limits DEF CommandsOK, NumbersOK
<1>c. /\ ~ Misread' /\ "late" \notin mishaps' /\ "purged" \notin mishaps'
  BY DEF Misread
<1>1. CASE DeviceAnswers
  <2>1. /\ wire # << >> /\ wire' = Tail(wire) /\ bufcom' = bufcom
        /\ port' = port \o Units(Reply(Head(wire)))
    BY <1>1 DEF DeviceAnswers, input
  <2>2. /\ buftx' = buftx /\ lentx' = lentx /\ errtx' = errtx /\ written' = written
        /\ wait_id' = wait_id /\ wait_cnt' = wait_cnt /\ bufrx' = bufrx /\ lenrx' = lenrx
        /\ gui' = gui /\ thr' = thr
    BY <1>1 DEF DeviceAnswers, txvars, rxvars
  <2>3. /\ work_adc' = work_adc
        /\ streaming' = CASE Head(wire).kind = "start" -> TRUE
                           [] Head(wire).kind = "stop"  -> FALSE
                           [] OTHER -> streaming
    BY <1>1 DEF DeviceAnswers, flags
  <2>4. Len(wire) = 1 /\ Head(wire) = buftx /\ ~ HasReply(Stream)
    <3>1. wire[1] = buftx /\ ~ HasReply(Stream) /\ Len(wire) <= 1  BY <2>1 DEF Talk, OneAnswer
    <3>2. Len(wire) \in Nat /\ Len(wire) # 0 /\ Head(wire) = wire[1]  BY <1>b, <2>1
    <3>3. QED  BY <3>1, <3>2
  <2>5. wire' = << >> /\ Len(wire') = 0
    <3>1. Tail(wire) \in Seq(Asked) /\ Len(Tail(wire)) = 0  BY <1>b, <2>1, <2>4
    <3>2. QED  BY <2>1, <3>1
  <2>6. Reply(buftx) \in Packet /\ Reply(buftx).id # "ADC"  BY ReplyIs DEF CommandsOK
  <2>7. Put(bufcom \o port, Reply(buftx), bufcom \o (port \o Units(Reply(buftx))))
    BY <1>a, <2>6, StreamPut
  <2>8. Put(Stream, Reply(buftx), Stream')  BY <2>1, <2>4, <2>7 DEF Stream
  <2>9. /\ HasReply(Stream') /\ OnlyAnswer(Stream', Reply(buftx))
        /\ NoFrames(Stream) => NoFrames(Stream') /\ AnswerFirst(Stream')
    BY <1>a, <2>4, <2>6, <2>8, AnswerPut DEF Flow
  <2>10. Open /\ Open'  BY <2>1, <2>9 DEF Open
  <2>11. OneAnswer'  BY <2>2, <2>5, <2>9 DEF OneAnswer
  <2>12. Awaited'  BY <2>2, <2>10 DEF Talk, Awaited
  <2>13. Arrived'  BY <2>2, <2>10 DEF Talk, Arrived
  <2>14. Handled'
    <3>1. thr \notin {"compare", "answer", "clear"}
      <4> SUFFICES ASSUME thr \in {"compare", "answer", "clear"} PROVE FALSE  OBVIOUS
      <4>1. ~ IsFrame(Stream[1]) /\ Whole(bufcom)  BY DEF Talk, Handled, WholeInv
      <4>2. QED  BY <2>4, <4>1, FirstPacket
    <3>2. QED  BY <2>1, <2>2, <3>1 DEF Talk, Handled
  <2>15. Starting'
    <3>1. CASE work_adc  BY <2>3, <3>1 DEF Starting
    <3>2. CASE ~ work_adc
      <4>1. ~ streaming /\ NoFrames(Stream)  BY <2>1, <3>2 DEF Talk, Starting
      <4>2. CASE buftx.kind = "start"
        <5>1. gui \in {"sending", "waiting"}  BY <2>10 DEF Talk, Awaited
        <5>2. QED  BY <2>2, <2>5, <2>9, <4>1, <4>2, <5>1 DEF Starting
      <4>3. CASE buftx.kind # "start"
        <5>1. ~ streaming'  BY <2>3, <2>4, <4>1, <4>3
        <5>2. QED  BY <2>9, <4>1, <5>1 DEF Starting
      <4>4. QED  BY <4>2, <4>3
    <3>3. QED  BY <3>1, <3>2
  <2>16. QED  BY <2>11, <2>12, <2>13, <2>14, <2>15 DEF Talk
<1>2. CASE DeviceFrame
  <2>1. /\ wire' = wire /\ buftx' = buftx /\ lentx' = lentx /\ errtx' = errtx
        /\ written' = written /\ wait_id' = wait_id /\ wait_cnt' = wait_cnt /\ bufrx' = bufrx
        /\ lenrx' = lenrx /\ gui' = gui /\ thr' = thr
        /\ bufcom' = bufcom /\ port' = port \o Units(Frame(frames + 1))
    BY <1>2 DEF DeviceFrame, txvars, rxvars, input
  <2>2. streaming /\ work_adc' = work_adc /\ streaming' = streaming  BY <1>2 DEF DeviceFrame, flags
  <2>3. frames + 1 \in Nat  BY Limits DEF NumbersOK
  <2>4. Put(bufcom \o port, Frame(frames + 1), bufcom \o (port \o Units(Frame(frames + 1))))
    BY <1>a, <2>3, FrameIs, StreamPut
  <2>5. Put(Stream, Frame(frames + 1), Stream')  BY <2>1, <2>4 DEF Stream
  <2>6. /\ HasReply(Stream') <=> HasReply(Stream)
        /\ OnlyAnswer(Stream, Reply(buftx)) => OnlyAnswer(Stream', Reply(buftx))
        /\ AnswerFirst(Stream) => AnswerFirst(Stream')
    BY <1>a, <2>3, <2>5, FramePut
  <2>7. Open' <=> Open  BY <2>1, <2>6 DEF Open
  <2>8. OneAnswer'  BY <2>1, <2>6 DEF Talk, OneAnswer
  <2>9. Awaited'  BY <2>1, <2>7 DEF Talk, Awaited
  <2>10. Arrived'  BY <2>1, <2>7 DEF Talk, Arrived
  <2>11. Handled'
    <3>1. ASSUME thr \in {"compare", "answer", "clear"} PROVE Stream'[1] = Stream[1]
      <4>1. Whole(bufcom)  BY <3>1 DEF WholeInv
      <4>2. 1 \in 1 .. Len(Stream)  BY <4>1, FirstPacket
      <4>3. QED  BY <2>5, <4>2 DEF Put
    <3>2. QED  BY <2>1, <3>1 DEF Talk, Handled
  <2>12. Starting'  BY <2>1, <2>2, <2>6 DEF Talk, Starting
  <2>13. QED  BY <2>8, <2>9, <2>10, <2>11, <2>12 DEF Talk
<1>3. CASE Asking
  <2>1. PICK kind \in Kinds, ena \in {FALSE, SamplesEna}, purge \in BOOLEAN : Ask(kind, ena, purge)
    BY <1>3 DEF Asking
  <2>2. /\ gui = "idle" /\ gui' = "enter" /\ wire' = wire /\ lentx' = lentx /\ errtx' = errtx
        /\ wait_id' = wait_id /\ wait_cnt' = wait_cnt /\ bufrx' = bufrx /\ lenrx' = lenrx
        /\ bufcom' = bufcom /\ port' = port /\ thr' = thr /\ written' = written
    BY <2>1 DEF Ask, device, rxvars, input
  <2>3. work_adc' = work_adc /\ streaming' = streaming  BY <2>1 DEF Ask, device
  <2>4. Stream' = Stream  BY <2>2, StreamLeftAlone
  <2>5. ~ Open /\ ~ Open'  BY <2>2, <2>4 DEF Talk, Awaited, Open
  <2>6. OneAnswer'
    <3>1. wire = << >> /\ ~ HasReply(Stream)  BY <2>5 DEF Open
    <3>2. \A i \in 1 .. Len(Stream) : IsFrame(Stream[i])  BY <3>1 DEF HasReply, IsFrame
    <3>3. QED  BY <2>2, <2>4, <3>1, <3>2 DEF Talk, OneAnswer, OnlyAnswer
  <2>7. Awaited'  BY <2>2, <2>5 DEF Talk, Awaited
  <2>8. Arrived'  BY <2>2, <2>5 DEF Arrived
  <2>9. Handled'  BY <2>2, HandledLeftAlone DEF Talk
  <2>10. Starting'  BY <2>2, <2>3, <2>4 DEF Talk, Starting
  <2>11. QED  BY <2>6, <2>7, <2>8, <2>9, <2>10 DEF Talk
<1>4. CASE ClearChart
  <2>1. wire' = wire /\ buftx' = buftx /\ lentx' = lentx /\ errtx' = errtx /\ written' = written
    BY <1>4 DEF ClearChart, device, txvars, rxvars, flags
  <2>2. wait_id' = wait_id /\ wait_cnt' = wait_cnt /\ bufrx' = bufrx /\ lenrx' = lenrx /\ gui' = gui
    BY <1>4 DEF ClearChart, device, txvars, rxvars, flags
  <2>3. work_adc' = work_adc /\ streaming' = streaming
    BY <1>4 DEF ClearChart, device, txvars, rxvars, flags
  <2>4. bufcom' = bufcom /\ port' = port  BY <1>4 DEF ClearChart, device, input
  <2>5. Stream' = Stream /\ SameAnswers(Stream, Stream', Reply(buftx))
    BY <2>4, StreamLeftAlone
  <2>6. thr' = thr  BY <1>4 DEF ClearChart
  <2>7. Handled'
    BY <2>2, <2>4, <2>6, HandledLeftAlone DEF Talk
  <2>8. QED  BY <2>1, <2>2, <2>3, <2>5, <2>6, <2>7, TalkLeftAlone DEF Talk, Awaited
<1>5. CASE SetWaitId
  <2>1. /\ bufcom' = bufcom /\ port' = port /\ thr' = thr /\ written' = written
        /\ wire' = wire /\ streaming' = streaming
    BY <1>5 DEF SetWaitId, device, input
  <2>2. Stream' = Stream  BY <2>1, StreamLeftAlone
  <2>3. /\ gui = "enter" /\ gui' = "armed" /\ buftx' = buftx /\ lentx' = lentx /\ errtx' = errtx
        /\ wait_id' = [id |-> Id(buftx.kind), err |-> FALSE] /\ wait_cnt' = wait_cnt
        /\ bufrx' = bufrx /\ lenrx' = lenrx /\ work_adc' = work_adc
    BY <1>5 DEF SetWaitId, txvars, flags
  <2>4. Open' <=> Open  BY <2>1, <2>2 DEF Open
  <2>5. OneAnswer'  BY <2>1, <2>2, <2>3 DEF Talk, OneAnswer
  <2>6. Awaited'
    <3>1. wait_id'.id = Id(buftx.kind) /\ wait_id'.err = FALSE  BY <2>3
    <3>2. QED  BY <2>1, <2>3, <2>4, <3>1 DEF Talk, Awaited
  <2>7. Arrived'  BY <2>1, <2>3, <2>4 DEF Arrived
  <2>8. Handled'  BY <2>1, <2>3, HandledLeftAlone DEF Talk
  <2>9. Starting'  BY <2>1, <2>2, <2>3 DEF Talk, Starting
  <2>10. QED  BY <2>5, <2>6, <2>7, <2>8, <2>9 DEF Talk
<1>6. CASE SetWaitCnt
  <2>1. /\ bufcom' = bufcom /\ port' = port /\ thr' = thr /\ written' = written
        /\ wire' = wire /\ streaming' = streaming
    BY <1>6 DEF SetWaitCnt, device, input
  <2>2. Stream' = Stream  BY <2>1, StreamLeftAlone
  <2>3. /\ gui = "armed" /\ gui' = "ready" /\ buftx' = buftx /\ lentx' = lentx /\ errtx' = errtx /\ wait_cnt' = 1
        /\ wait_id' = wait_id /\ bufrx' = bufrx /\ lenrx' = lenrx /\ work_adc' = work_adc
    BY <1>6 DEF SetWaitCnt, txvars, flags
  <2>4. Open' <=> Open  BY <2>1, <2>2 DEF Open
  <2>5. OneAnswer'  BY <2>1, <2>2, <2>3 DEF Talk, OneAnswer
  <2>6. Awaited'  BY <2>1, <2>3, <2>4 DEF Talk, Awaited
  <2>7. Arrived'  BY <2>1, <2>3, <2>4 DEF Talk, Arrived
  <2>8. Handled'  BY <2>1, <2>3, HandledLeftAlone DEF Talk
  <2>9. Starting'  BY <2>1, <2>2, <2>3 DEF Talk, Starting
  <2>10. QED  BY <2>5, <2>6, <2>7, <2>8, <2>9 DEF Talk
<1>7. CASE SetLenTx
  <2>1. /\ bufcom' = bufcom /\ port' = port /\ thr' = thr /\ written' = written
        /\ wire' = wire /\ streaming' = streaming
    BY <1>7 DEF SetLenTx, device, input
  <2>2. Stream' = Stream  BY <2>1, StreamLeftAlone
  <2>3. /\ gui = "ready" /\ gui' = "sending" /\ buftx' = buftx /\ errtx' = errtx
        /\ lentx' \in Sizes(buftx.kind) /\ wait_id' = wait_id /\ wait_cnt' = wait_cnt /\ bufrx' = bufrx /\ lenrx' = lenrx
        /\ work_adc' = work_adc
    BY <1>7 DEF SetLenTx, rxvars, flags
  <2>4. Open' <=> Open  BY <2>1, <2>2 DEF Open
  <2>5. OneAnswer'  BY <2>1, <2>2, <2>3 DEF Talk, OneAnswer
  <2>6. Awaited'
    <3>1. lentx = 0 /\ ~ Open  BY <2>3 DEF Talk, Awaited
    <3>2. lentx' # 0  BY <2>3, SizesAre DEF CommandsOK, Asked
    <3>3. QED  BY <2>1, <2>3, <2>4, <3>1, <3>2 DEF Talk, Awaited
  <2>7. Arrived'
    <3>1. lentx' # 0  BY <2>3, SizesAre DEF CommandsOK, Asked
    <3>2. QED  BY <2>1, <2>3, <2>4, <3>1 DEF Talk, Arrived
  <2>8. Handled'  BY <2>1, <2>3, HandledLeftAlone DEF Talk
  <2>9. Starting'  BY <2>1, <2>2, <2>3 DEF Talk, Starting
  <2>10. QED  BY <2>5, <2>6, <2>7, <2>8, <2>9 DEF Talk
<1>8. CASE Sent
  <2>1. /\ bufcom' = bufcom /\ port' = port /\ thr' = thr /\ written' = written
        /\ wire' = wire /\ streaming' = streaming
    BY <1>8 DEF Sent, device, input
  <2>2. Stream' = Stream  BY <2>1, StreamLeftAlone
  <2>3. /\ gui = "sending" /\ lentx = 0 /\ gui' = IF errtx = 0 THEN "waiting" ELSE "idle"
        /\ buftx' = buftx /\ lentx' = lentx /\ errtx' = errtx /\ wait_id' = wait_id /\ wait_cnt' = wait_cnt /\ bufrx' = bufrx /\ lenrx' = lenrx
        /\ work_adc' = work_adc
    BY <1>8 DEF Sent, txvars, rxvars, flags
  <2>4. Open' <=> Open  BY <2>1, <2>2 DEF Open
  <2>5. OneAnswer'  BY <2>1, <2>2, <2>3 DEF Talk, OneAnswer
  <2>a. thr # "written"  BY <2>3 DEF Talk, Awaited
  <2>6. Awaited'  BY <2>1, <2>3, <2>4, <2>a DEF Talk, Awaited
  <2>7. Arrived'  BY <2>1, <2>3, <2>4 DEF Talk, Arrived
  <2>b. HasReply(Stream) \/ wait_cnt = 0 => gui' = "waiting"
    <3>1. HasReply(Stream) => errtx = 0  BY <2>a DEF Talk, Awaited, Open
    <3>2. wait_cnt = 0 => errtx = 0  BY <1>b, <2>3 DEF Talk, Arrived
    <3>3. QED  BY <2>3, <3>1, <3>2
  <2>8. Handled'  BY <2>1, <2>3, HandledLeftAlone DEF Talk
  <2>9. Starting'  BY <2>1, <2>2, <2>3, <2>b DEF Talk, Starting
  <2>10. QED  BY <2>5, <2>6, <2>7, <2>8, <2>9 DEF Talk
<1>9. CASE SendTimeout
  BY <1>9, <1>c DEF SendTimeout
<1>10. CASE ReadBlk
  <2>1. /\ bufcom' = bufcom /\ port' = port /\ thr' = thr /\ written' = written
        /\ wire' = wire /\ streaming' = streaming
    BY <1>10 DEF ReadBlk, device, input
  <2>2. Stream' = Stream  BY <2>1, StreamLeftAlone
  <2>3. /\ gui = "waiting" /\ wait_cnt = 0 /\ buftx' = buftx /\ lentx' = lentx /\ errtx' = errtx
        /\ wait_id' = wait_id /\ wait_cnt' = wait_cnt /\ bufrx' = bufrx /\ lenrx' = lenrx
        /\ gui' = IF wait_id.err \/ ~ LenOk(buftx.kind, lenrx) THEN "idle" ELSE "accept"
        /\ work_adc' = work_adc
    BY <1>10 DEF ReadBlk, Answered, txvars, rxvars, flags
  <2>4. Open' <=> Open  BY <2>1, <2>2 DEF Open
  <2>5. OneAnswer'  BY <2>1, <2>2, <2>3 DEF Talk, OneAnswer
  <2>a. ~ Open /\ bufrx = Reply(buftx) /\ lenrx = LenOf(Reply(buftx)) /\ ~ wait_id.err
    BY <1>b, <2>3 DEF Talk, Awaited, Arrived
  <2>b. LenOk(buftx.kind, lenrx)
    <3>1. buftx \in Asked  BY DEF CommandsOK
    <3>2. Reply(buftx).id = Id(buftx.kind)  BY <3>1, ReplyIs
    <3>3. buftx.kind \in {"status", "start", "stop"}  BY <3>1, SizesAre DEF Asked
    <3>4. CASE buftx.kind = "status"
      <4>1. lenrx = 8  BY <2>a, <3>2, <3>4, IdsAre DEF LenOf
      <4>2. QED  BY <3>4, <4>1 DEF LenOk
    <3>5. CASE buftx.kind # "status"
      <4>1. Reply(buftx).id = "CAD"  BY <3>2, <3>3, <3>5, IdsAre
      <4>2. lenrx = 6  BY <2>a, <4>1 DEF LenOf
      <4>3. QED  BY <3>5, <4>2 DEF LenOk
    <3>6. QED  BY <3>4, <3>5
  <2>c. gui' = "accept"  BY <2>3, <2>a, <2>b
  <2>6. Awaited'  BY <2>1, <2>3, <2>4, <2>a, <2>c DEF Talk, Awaited
  <2>7. Arrived'  BY <2>1, <2>3, <2>a, <2>c DEF Arrived
  <2>8. Handled'  BY <2>1, <2>3, HandledLeftAlone DEF Talk
  <2>9. Starting'  BY <2>1, <2>2, <2>3, <2>c DEF Talk, Starting
  <2>10. QED  BY <2>5, <2>6, <2>7, <2>8, <2>9 DEF Talk
<1>11. CASE ReadTimeout
  BY <1>11, <1>c DEF ReadTimeout
<1>12. CASE Accepted
  <2>1. /\ bufcom' = bufcom /\ port' = port /\ thr' = thr /\ written' = written
        /\ wire' = wire /\ streaming' = streaming
    BY <1>12 DEF Accepted, device, input
  <2>2. Stream' = Stream  BY <2>1, StreamLeftAlone
  <2>3. /\ gui = "accept" /\ gui' = "idle" /\ buftx' = buftx /\ lentx' = lentx /\ errtx' = errtx
        /\ wait_id' = wait_id /\ wait_cnt' = wait_cnt /\ bufrx' = bufrx /\ lenrx' = lenrx
    BY <1>12 DEF Accepted, txvars, rxvars
  <2>4. Open' <=> Open  BY <2>1, <2>2 DEF Open
  <2>5. OneAnswer'  BY <2>1, <2>2, <2>3 DEF Talk, OneAnswer
  <2>6. Awaited'  BY <2>1, <2>3, <2>4 DEF Talk, Awaited
  <2>7. Arrived'  BY <2>1, <2>3, <2>4 DEF Talk, Arrived
  <2>8. Handled'  BY <2>1, <2>3, HandledLeftAlone DEF Talk
  <2>9. Starting'
    <3>1. work_adc' = (work_adc \/ buftx.kind = "start")  BY <1>12 DEF Accepted
    <3>2. CASE work_adc \/ buftx.kind = "start"  BY <3>1, <3>2 DEF Starting
    <3>3. CASE ~ work_adc /\ buftx.kind # "start"  BY <2>1, <2>2, <3>3 DEF Talk, Starting
    <3>4. QED  BY <3>2, <3>3
  <2>10. QED  BY <2>5, <2>6, <2>7, <2>8, <2>9 DEF Talk
<1>13. CASE Purge
  <2>1. wire' = wire /\ buftx' = buftx /\ lentx' = lentx /\ errtx' = errtx /\ written' = written
    BY <1>13 DEF Purge, txvars, rxvars
  <2>2. wait_id' = wait_id /\ wait_cnt' = wait_cnt /\ bufrx' = bufrx /\ lenrx' = lenrx /\ gui' = gui
    BY <1>13 DEF Purge, txvars, rxvars
  <2>3. work_adc' = work_adc /\ streaming' = streaming  BY <1>13 DEF Purge
  <2>4. thr = "top" /\ thr' = "write"  BY <1>13 DEF Purge
  <2>5. Len(bufcom) <= 1  BY <2>4 DEF Talk, Handled
  <2>6. CASE ~ purge_com
    <3>1. bufcom' = bufcom /\ port' = port  BY <1>13, <2>6 DEF Purge, input
    <3>2. SameAnswers(Stream, Stream', Reply(buftx))  BY <3>1, StreamLeftAlone
    <3>3. Handled'  BY <2>4, <2>5, <3>1 DEF Handled
    <3>4. QED  BY <2>1, <2>2, <2>3, <2>4, <3>2, <3>3, TalkLeftAlone
  <2>7. CASE purge_com
    <3>1. PICK n \in 0 .. Len(port) :
            /\ port' = Drop(port, n)
            /\ mishaps' = mishaps \cup (IF Broken(port') THEN {"cut"} ELSE {})
                                  \cup (IF HasReply(SubSeq(port, 1, n)) THEN {"purged"} ELSE {})
      BY <1>13, <2>7 DEF Purge
    <3>2. bufcom' = << >>  BY <1>13, <2>7 DEF Purge
    <3>3. ~ Broken(port') /\ ~ HasReply(SubSeq(port, 1, n))  BY <1>c, <3>1 DEF Misread
    <3>4. Paired(bufcom \o port)  BY DEF Flow, Stream
    <3>5. /\ (Len(bufcom) + n) % 2 = 0 /\ Len(bufcom) + n \in Nat
          /\ Behind(<< >> \o Drop(port, n), bufcom \o port, Len(bufcom) + n)
      BY <1>a, <3>1, <3>3, <3>4, StreamPurge
    <3>6. Behind(Stream', Stream, Len(bufcom) + n)  BY <3>1, <3>2, <3>5 DEF Stream
    <3>7. ASSUME NEW i \in 1 .. n PROVE IsFrame(port[i])
      <4>1. Len(SubSeq(port, 1, n)) = n /\ SubSeq(port, 1, n)[i] = port[i]  BY <1>a, <3>7
      <4>2. QED  BY <3>3, <4>1 DEF HasReply, IsFrame
    <3>8. ASSUME NEW i \in 1 .. Len(bufcom) + n PROVE IsFrame(Stream[i])
      <4>1. \A j \in 1 .. Len(bufcom) + Len(port) :
              j > Len(bufcom) => (bufcom \o port)[j] = port[j - Len(bufcom)]
        BY <1>a, StreamIs
      <4>2. ASSUME NEW j \in 1 .. Len(bufcom) + n, j > Len(bufcom) PROVE IsFrame(Stream[j])
        <5>1. j - Len(bufcom) \in 1 .. n /\ j \in 1 .. Len(bufcom) + Len(port)  BY <1>a, <4>2
        <5>2. Stream[j] = port[j - Len(bufcom)]  BY <4>1, <4>2, <5>1 DEF Stream
        <5>3. QED  BY <3>7, <5>1, <5>2
      <4>3. CASE i > Len(bufcom)  BY <4>2, <4>3
      <4>4. CASE ~ (i > Len(bufcom))
        <5>a. Len(bufcom) \in Nat /\ n \in Nat  BY <1>a
        <5>1. Len(bufcom) = 1 /\ i = 1  BY <2>5, <4>4, <5>a, OneLeft
        <5>2. (1 + n) % 2 = 0  BY <3>5, <5>1
        <5>3. n >= 1  BY <3>1, <5>2
        <5>4. 2 \in 1 .. Len(bufcom) + n /\ 2 > Len(bufcom) /\ 1 \in 1 .. Len(Stream) /\ 1 + 1 = 2
          BY <1>a, <5>1, <5>3
        <5>5. IsFrame(Stream[2])  BY <4>2, <5>4
        <5>6. Odd(1)  BY DEF Odd
        <5>7. Stream[2].of = Stream[1].of  BY <5>4, <5>6 DEF Flow, Paired
        <5>8. QED  BY <5>1, <5>5, <5>7 DEF IsFrame
      <4>5. QED  BY <4>3, <4>4
    <3>9. SameAnswers(Stream, Stream', Reply(buftx))  BY <1>a, <3>5, <3>6, <3>8, FramesTaken
    <3>10. Len(bufcom') = 0  BY <3>2
    <3>11. Handled'  BY <2>4, <3>10 DEF Handled
    <3>12. QED  BY <2>1, <2>2, <2>3, <2>4, <3>9, <3>11, TalkLeftAlone
  <2>8. QED  BY <2>6, <2>7
<1>14. CASE CheckTx
  <2>1. wire' = wire /\ buftx' = buftx /\ lentx' = lentx /\ errtx' = errtx /\ written' = written
    BY <1>14 DEF CheckTx, device, txvars, rxvars, flags
  <2>2. wait_id' = wait_id /\ wait_cnt' = wait_cnt /\ bufrx' = bufrx /\ lenrx' = lenrx /\ gui' = gui
    BY <1>14 DEF CheckTx, device, txvars, rxvars, flags
  <2>3. work_adc' = work_adc /\ streaming' = streaming
    BY <1>14 DEF CheckTx, device, txvars, rxvars, flags
  <2>4. bufcom' = bufcom /\ port' = port  BY <1>14 DEF CheckTx, device, input
  <2>5. Stream' = Stream /\ SameAnswers(Stream, Stream', Reply(buftx))
    BY <2>4, StreamLeftAlone
  <2>6. (thr' = "written" <=> thr = "written") /\ (thr' = "writefile" => lentx # 0)
    BY <1>14 DEF CheckTx
  <2>7. Handled'
    <3>1. thr' \in {"writefile", "read"}  BY <1>14 DEF CheckTx
    <3>2. Len(bufcom) <= 1  BY <1>14 DEF CheckTx, Talk, Handled
    <3>3. QED  BY <2>4, <3>1, <3>2 DEF Handled
  <2>8. QED  BY <2>1, <2>2, <2>3, <2>5, <2>6, <2>7, TalkLeftAlone
<1>15. CASE WriteFile
  <2>1. /\ thr = "writefile" /\ thr' = "written" /\ bufcom' = bufcom /\ port' = port
        /\ buftx' = buftx /\ lentx' = lentx /\ errtx' = errtx /\ gui' = gui /\ wait_id' = wait_id
        /\ wait_cnt' = wait_cnt /\ bufrx' = bufrx /\ lenrx' = lenrx
    BY <1>15 DEF WriteFile, input, txvars, rxvars
  <2>2. work_adc' = work_adc /\ streaming' = streaming  BY <1>15 DEF WriteFile, flags
  <2>3. \/ wire' = Append(wire, buftx) /\ written' = lentx
        \/ wire' = wire /\ written' = 0
    BY <1>15 DEF WriteFile
  <2>4. Stream' = Stream  BY <2>1, StreamLeftAlone
  <2>5. lentx # 0 /\ gui = "sending" /\ ~ Open /\ wait_cnt > 0
    BY <2>1 DEF Talk, Awaited, Arrived
  <2>6. wire = << >> /\ ~ HasReply(Stream)  BY <2>5 DEF Open
  <2>7. wire' = << >> \/ (Len(wire') = 1 /\ wire'[1] = buftx)
    <3>1. buftx \in Asked  BY DEF CommandsOK
    <3>2. QED  BY <2>3, <2>6, <3>1
  <2>8. OneAnswer'
    <3>1. OnlyAnswer(Stream', Reply(buftx'))  BY <2>1, <2>4 DEF Talk, OneAnswer
    <3>2. wire' # << >> => wire'[1] = buftx' /\ ~ HasReply(Stream')  BY <2>1, <2>4, <2>6, <2>7
    <3>3. CASE wire' = << >>
      <4>1. Len(wire') = 0  BY <3>3
      <4>2. QED  BY <3>1, <3>2, <4>1 DEF OneAnswer
    <3>4. CASE Len(wire') = 1  BY <3>1, <3>2, <3>4 DEF OneAnswer
    <3>5. QED  BY <2>7, <3>3, <3>4
  <2>9. Open' => written' = lentx
    <3>1. wire' = wire => ~ Open'  BY <2>4, <2>6 DEF Open
    <3>2. QED  BY <2>3, <3>1
  <2>10. ~ Open' => written' = 0
    <3>1. wire' = Append(wire, buftx) => wire' # << >>  BY <2>6
    <3>2. QED  BY <2>3, <3>1 DEF Open
  <2>11. Awaited'  BY <2>1, <2>5, <2>9, <2>10 DEF Talk, Awaited
  <2>12. Arrived'  BY <2>1, <2>5 DEF Talk, Arrived
  <2>13. Handled'  BY <2>1, <2>4 DEF Talk, Handled
  <2>14. Starting'
    <3>1. wait_cnt # 0 /\ gui # "accept"  BY <1>b, <2>5
    <3>2. work_adc \/ (~ streaming /\ NoFrames(Stream))  BY <2>6, <3>1 DEF Talk, Starting
    <3>3. QED  BY <2>2, <2>4, <3>2 DEF Starting
  <2>15. QED  BY <2>8, <2>11, <2>12, <2>13, <2>14 DEF Talk
<1>16. CASE Written
  <2>1. /\ thr = "written" /\ thr' = "read" /\ bufcom' = bufcom /\ port' = port /\ wire' = wire
        /\ buftx' = buftx /\ gui' = gui /\ wait_id' = wait_id
        /\ wait_cnt' = wait_cnt /\ bufrx' = bufrx /\ lenrx' = lenrx
        /\ lentx' = 0 /\ errtx' = IF written # 0 /\ lentx = written THEN 0 ELSE 1
    BY <1>16 DEF Written, device, input, rxvars
  <2>2. work_adc' = work_adc /\ streaming' = streaming  BY <1>16 DEF Written, device, flags
  <2>3. Stream' = Stream  BY <2>1, StreamLeftAlone
  <2>4. Open' <=> Open  BY <2>1, <2>3 DEF Open
  <2>5. lentx # 0 /\ gui = "sending" /\ wait_cnt > 0  BY <2>1 DEF Talk, Awaited, Arrived
  <2>6. Open <=> errtx' = 0  BY <2>1, <2>5 DEF Talk, Awaited
  <2>7. OneAnswer'  BY <2>1, <2>3 DEF Talk, OneAnswer
  <2>8. Awaited'  BY <2>1, <2>4, <2>5, <2>6 DEF Talk, Awaited
  <2>9. Arrived'  BY <2>1, <2>4, <2>5, <2>6 DEF Talk, Arrived
  <2>10. Handled'  BY <2>1, <2>3 DEF Talk, Handled
  <2>11. Starting'  BY <2>1, <2>2, <2>3 DEF Talk, Starting
  <2>12. QED  BY <2>7, <2>8, <2>9, <2>10, <2>11 DEF Talk
<1>17. CASE ReadFile
  <2>1. wire' = wire /\ buftx' = buftx /\ lentx' = lentx /\ errtx' = errtx /\ written' = written
    BY <1>17 DEF ReadFile, txvars, rxvars, flags
  <2>2. wait_id' = wait_id /\ wait_cnt' = wait_cnt /\ bufrx' = bufrx /\ lenrx' = lenrx /\ gui' = gui
    BY <1>17 DEF ReadFile, txvars, rxvars, flags
  <2>3. work_adc' = work_adc /\ streaming' = streaming
    BY <1>17 DEF ReadFile, txvars, rxvars, flags
  <2>4. PICK n \in 1 .. CHUNK :
          /\ n <= Len(port) /\ port' = Drop(port, n) /\ bufcom' \in Seq(Unit)
          /\ \/ mishaps' = mishaps \cup {"cut"}
             \/ /\ mishaps' = mishaps /\ Len(bufcom') = Len(bufcom) + n
                /\ \A i \in 1 .. Len(bufcom) : bufcom'[i] = bufcom[i]
                /\ \A i \in 1 .. n : bufcom'[Len(bufcom) + i] = port[i]
    BY <1>17, ReadFileIs
  <2>5. mishaps' # mishaps \cup {"cut"}  BY <1>c DEF Misread
  <2>6. n \in 0 .. Len(port)  BY <1>a, <2>4, Limits
  <2>7. Behind(bufcom' \o Drop(port, n), bufcom \o port, 0)
    BY <1>a, <2>4, <2>5, <2>6, StreamRead
  <2>8. Behind(Stream', Stream, 0)  BY <2>4, <2>7 DEF Stream
  <2>9. Stream' = Stream  BY <1>a, <2>8, BehindSame
  <2>10. SameAnswers(Stream, Stream', Reply(buftx))  BY <2>9 DEF SameAnswers
  <2>11. thr = "read" /\ thr' = "packets"  BY <1>17 DEF ReadFile
  <2>12. Handled'  BY <2>11 DEF Handled
  <2>13. QED  BY <2>1, <2>2, <2>3, <2>10, <2>11, <2>12, TalkLeftAlone
<1>18. CASE ReadNothing
  <2>1. wire' = wire /\ buftx' = buftx /\ lentx' = lentx /\ errtx' = errtx /\ written' = written
    BY <1>18 DEF ReadNothing, device, txvars, rxvars, flags
  <2>2. wait_id' = wait_id /\ wait_cnt' = wait_cnt /\ bufrx' = bufrx /\ lenrx' = lenrx /\ gui' = gui
    BY <1>18 DEF ReadNothing, device, txvars, rxvars, flags
  <2>3. work_adc' = work_adc /\ streaming' = streaming
    BY <1>18 DEF ReadNothing, device, txvars, rxvars, flags
  <2>4. bufcom' = bufcom /\ port' = port  BY <1>18 DEF ReadNothing, device, input
  <2>5. Stream' = Stream /\ SameAnswers(Stream, Stream', Reply(buftx))
    BY <2>4, StreamLeftAlone
  <2>6. (thr' = "written" <=> thr = "written") /\ (thr' = "writefile" => lentx # 0)
    BY <1>18 DEF ReadNothing
  <2>7. Handled'
    <3>1. thr' \in {"top"}  BY <1>18 DEF ReadNothing
    <3>2. Len(bufcom) <= 1  BY <1>18 DEF ReadNothing, Talk, Handled
    <3>3. QED  BY <2>4, <3>1, <3>2 DEF Handled
  <2>8. QED  BY <2>1, <2>2, <2>3, <2>5, <2>6, <2>7, TalkLeftAlone
<1>19. CASE ReadFails
  <2>1. wire' = wire /\ buftx' = buftx /\ lentx' = lentx /\ errtx' = errtx /\ written' = written
    BY <1>19 DEF ReadFails, device, txvars, rxvars, flags
  <2>2. wait_id' = wait_id /\ wait_cnt' = wait_cnt /\ bufrx' = bufrx /\ lenrx' = lenrx /\ gui' = gui
    BY <1>19 DEF ReadFails, device, txvars, rxvars, flags
  <2>3. work_adc' = work_adc /\ streaming' = streaming
    BY <1>19 DEF ReadFails, device, txvars, rxvars, flags
  <2>4. bufcom' = bufcom /\ port' = port /\ Len(bufcom') = 0
    <3>1. mishaps' = mishaps \cup IF bufcom = << >> THEN {} ELSE {"cut"}  BY <1>19 DEF ReadFails
    <3>2. "cut" \notin mishaps'  BY <1>c DEF Misread
    <3>3. bufcom = << >>  BY <3>1, <3>2
    <3>4. bufcom' = << >> /\ port' = port  BY <1>19 DEF ReadFails, device
    <3>5. QED  BY <3>3, <3>4
  <2>5. Stream' = Stream /\ SameAnswers(Stream, Stream', Reply(buftx))
    BY <2>4, StreamLeftAlone
  <2>6. (thr' = "written" <=> thr = "written") /\ (thr' = "writefile" => lentx # 0)
    BY <1>19 DEF ReadFails
  <2>7. Handled'
    <3>1. thr' = "top"  BY <1>19 DEF ReadFails
    <3>2. QED  BY <2>4, <3>1 DEF Handled
  <2>8. QED  BY <2>1, <2>2, <2>3, <2>5, <2>6, <2>7, TalkLeftAlone
<1>20. CASE NoMorePackets
  <2>1. wire' = wire /\ buftx' = buftx /\ lentx' = lentx /\ errtx' = errtx /\ written' = written
    BY <1>20 DEF NoMorePackets, device, txvars, rxvars, flags
  <2>2. wait_id' = wait_id /\ wait_cnt' = wait_cnt /\ bufrx' = bufrx /\ lenrx' = lenrx /\ gui' = gui
    BY <1>20 DEF NoMorePackets, device, txvars, rxvars, flags
  <2>3. work_adc' = work_adc /\ streaming' = streaming
    BY <1>20 DEF NoMorePackets, device, txvars, rxvars, flags
  <2>4. bufcom' = bufcom /\ port' = port /\ thr = "packets" /\ thr' = "top"
    <3>1. Return /\ port' = port /\ thr = "packets"  BY <1>20 DEF NoMorePackets, device
    <3>2. QED  BY <1>c, <3>1, MayNotReturn
  <2>5. Stream' = Stream /\ SameAnswers(Stream, Stream', Reply(buftx))
    BY <2>4, StreamLeftAlone
  <2>6. (thr' = "written" <=> thr = "written") /\ (thr' = "writefile" => lentx # 0)
    BY <2>4
  <2>7. Handled'
    <3>1. ~ Whole(bufcom) /\ ~ Broken(bufcom)  BY <1>20 DEF NoMorePackets
    <3>2. Len(bufcom) <= 1  BY <1>a, <3>1 DEF Broken
    <3>3. QED  BY <2>4, <3>2 DEF Handled
  <2>8. QED  BY <2>1, <2>2, <2>3, <2>5, <2>6, <2>7, TalkLeftAlone
<1>21. CASE TakeFrame
  <2>1. wire' = wire /\ buftx' = buftx /\ lentx' = lentx /\ errtx' = errtx /\ written' = written
    BY <1>21 DEF TakeFrame, device, txvars, rxvars, flags
  <2>2. wait_id' = wait_id /\ wait_cnt' = wait_cnt /\ bufrx' = bufrx /\ lenrx' = lenrx /\ gui' = gui
    BY <1>21 DEF TakeFrame, device, txvars, rxvars, flags
  <2>3. work_adc' = work_adc /\ streaming' = streaming
    BY <1>21 DEF TakeFrame, device, txvars, rxvars, flags
  <2>4. /\ port' = port /\ Consume /\ Whole(bufcom) /\ thr' = "packets" /\ thr = "packets"
        /\ bufcom[1].of.id = "ADC"
    BY <1>21 DEF TakeFrame, device, IsSamples
  <2>a. IsFrame(Stream[1])  BY <2>4, FirstPacket DEF IsFrame
  <2>5. SameAnswers(Stream, Stream', Reply(buftx))  BY <2>4, <2>a, FrameConsumed
  <2>6. (thr' = "written" <=> thr = "written") /\ (thr' = "writefile" => lentx # 0)
    BY <2>4
  <2>7. Handled'
    BY <2>4 DEF Handled
  <2>8. QED  BY <2>1, <2>2, <2>3, <2>5, <2>6, <2>7, TalkLeftAlone
<1>22. CASE Skip
  <2>1. wire' = wire /\ buftx' = buftx /\ lentx' = lentx /\ errtx' = errtx /\ written' = written
    BY <1>22 DEF Skip, device, txvars, rxvars, flags
  <2>2. wait_id' = wait_id /\ wait_cnt' = wait_cnt /\ bufrx' = bufrx /\ lenrx' = lenrx /\ gui' = gui
    BY <1>22 DEF Skip, device, txvars, rxvars, flags
  <2>3. work_adc' = work_adc /\ streaming' = streaming
    BY <1>22 DEF Skip, device, txvars, rxvars, flags
  <2>4. port' = port /\ Whole(bufcom) /\ thr = "packets" /\ ~ IsSamples(bufcom[1].of)
    BY <1>22 DEF Skip, device
  <2>5. CASE wait_cnt = 0 /\ Consume /\ thr' = thr
    <3>1. ~ Open  BY <2>5 DEF Talk, Awaited
    <3>2. IsFrame(Stream[1])  BY <2>4, <3>1, FirstPacket
    <3>3. SameAnswers(Stream, Stream', Reply(buftx))  BY <2>4, <2>5, <3>2, FrameConsumed
    <3>4. Handled'  BY <2>4, <2>5 DEF Handled
    <3>5. QED  BY <2>1, <2>2, <2>3, <2>4, <2>5, <3>3, <3>4, TalkLeftAlone
  <2>6. CASE wait_cnt > 0 /\ thr' = "compare" /\ bufcom' = bufcom
    <3>1. Stream' = Stream /\ SameAnswers(Stream, Stream', Reply(buftx))
      BY <2>4, <2>6, StreamLeftAlone
    <3>2. ~ IsFrame(Stream[1])  BY <2>4, <2>6, FirstPacket
    <3>3. Handled'  BY <2>6, <3>1, <3>2 DEF Handled
    <3>4. QED  BY <2>1, <2>2, <2>3, <2>4, <2>6, <3>1, <3>3, TalkLeftAlone
  <2>7. QED  BY <1>22, <2>5, <2>6 DEF Skip, input
<1>23. CASE Compare
  <2>1. wire' = wire /\ buftx' = buftx /\ lentx' = lentx /\ errtx' = errtx /\ written' = written
    BY <1>23 DEF Compare, device, txvars, rxvars, flags
  <2>2. wait_id' = wait_id /\ wait_cnt' = wait_cnt /\ bufrx' = bufrx /\ lenrx' = lenrx /\ gui' = gui
    BY <1>23 DEF Compare, device, txvars, rxvars, flags
  <2>3. work_adc' = work_adc /\ streaming' = streaming
    BY <1>23 DEF Compare, device, txvars, rxvars, flags
  <2>4. bufcom' = bufcom /\ port' = port  BY <1>23 DEF Compare, device, input
  <2>5. Stream' = Stream /\ SameAnswers(Stream, Stream', Reply(buftx))
    BY <2>4, StreamLeftAlone
  <2>6. (thr' = "written" <=> thr = "written") /\ (thr' = "writefile" => lentx # 0)
    BY <1>23 DEF Compare
  <2>7. Handled'
    <3>1. thr = "compare" /\ thr' = IF Matches THEN "answer" ELSE "foreign"  BY <1>23 DEF Compare
    <3>2. ~ IsFrame(Stream[1]) /\ Whole(bufcom)  BY <3>1 DEF Talk, Handled, WholeInv
    <3>3. Stream[1] = bufcom[1] /\ Open /\ Stream[1].of = Reply(buftx)  BY <3>2, FirstPacket
    <3>4. Reply(buftx).id = Id(buftx.kind)  BY ReplyIs DEF CommandsOK
    <3>5. wait_id.id = Id(buftx.kind) /\ ~ wait_id.err  BY <3>3 DEF Talk, Awaited
    <3>6. Matches  BY <3>3, <3>4, <3>5 DEF Matches
    <3>7. thr' = "answer"  BY <3>1, <3>6
    <3>8. QED  BY <2>5, <3>2, <3>7 DEF Handled
  <2>8. QED  BY <2>1, <2>2, <2>3, <2>5, <2>6, <2>7, TalkLeftAlone
<1>24. CASE Answer
  <2>1. /\ thr = "answer" /\ thr' = "clear" /\ bufrx' = bufcom[1].of /\ lenrx' = LenOf(bufcom[1].of)
        /\ bufcom' = bufcom /\ port' = port /\ wire' = wire
        /\ buftx' = buftx /\ lentx' = lentx /\ errtx' = errtx /\ written' = written
        /\ gui' = gui /\ wait_id' = wait_id /\ wait_cnt' = wait_cnt
    BY <1>24 DEF Answer, device, input, txvars
  <2>2. work_adc' = work_adc /\ streaming' = streaming  BY <1>24 DEF Answer, device, flags
  <2>3. Stream' = Stream  BY <2>1, StreamLeftAlone
  <2>4. Open' <=> Open  BY <2>1, <2>3 DEF Open
  <2>5. ~ IsFrame(Stream[1]) /\ Whole(bufcom)  BY <2>1 DEF Talk, Handled, WholeInv
  <2>6. Stream[1] = bufcom[1] /\ Open  BY <2>5, FirstPacket
  <2>7. gui \in {"sending", "waiting"}  BY <2>6 DEF Talk, Awaited
  <2>8. OneAnswer'  BY <2>1, <2>3 DEF Talk, OneAnswer
  <2>9. Awaited'  BY <2>1, <2>4 DEF Talk, Awaited
  <2>10. Arrived'  BY <2>1, <2>4, <2>6, <2>7 DEF Talk, Arrived
  <2>11. Handled'  BY <2>1, <2>3, <2>5, <2>6 DEF Handled
  <2>12. Starting'  BY <2>1, <2>2, <2>3 DEF Talk, Starting
  <2>13. QED  BY <2>8, <2>9, <2>10, <2>11, <2>12 DEF Talk
<1>25. CASE Clear
  <2>1. /\ thr = "clear" /\ thr' = "packets" /\ wait_cnt' = 0 /\ Consume /\ port' = port
        /\ bufrx' = bufrx /\ lenrx' = lenrx /\ wire' = wire
        /\ buftx' = buftx /\ lentx' = lentx /\ errtx' = errtx /\ written' = written
        /\ gui' = gui /\ wait_id' = wait_id
    BY <1>25 DEF Clear, device, txvars
  <2>2. work_adc' = work_adc /\ streaming' = streaming  BY <1>25 DEF Clear, device, flags
  <2>3. /\ ~ IsFrame(Stream[1]) /\ Whole(bufcom)
        /\ bufrx = Stream[1].of /\ lenrx = LenOf(Stream[1].of)
    BY <2>1 DEF Talk, Handled, WholeInv
  <2>4. Open /\ HasReply(Stream) /\ Stream[1].of = Reply(buftx)  BY <2>3, FirstPacket
  <2>5. /\ bufcom' \in Seq(Unit) /\ Len(bufcom') = Len(bufcom) - 2 /\ Len(bufcom) >= 2
        /\ \A i \in 1 .. Len(bufcom) - 2 : bufcom'[i] = bufcom[i + 2]
    BY <2>1, <2>3, ConsumeIs
  <2>6. Behind(bufcom' \o port, bufcom \o port, 2)  BY <1>a, <2>5, StreamConsume
  <2>7. Behind(Stream', Stream, 2)  BY <2>1, <2>6 DEF Stream
  <2>8. Len(Stream) >= 2  BY <1>a, <2>5
  <2>9. /\ ~ HasReply(Stream') /\ OnlyAnswer(Stream', Reply(buftx)) /\ AnswerFirst(Stream')
        /\ NoFrames(Stream) => NoFrames(Stream')
    BY <1>a, <2>3, <2>7, <2>8, AnswerTaken DEF Talk, OneAnswer, Flow
  <2>10. wire = << >>  BY <2>4 DEF Talk, OneAnswer
  <2>11. ~ Open'  BY <2>1, <2>9, <2>10 DEF Open
  <2>12. gui \in {"sending", "waiting"} /\ lentx = 0 /\ errtx = 0
    BY <2>1, <2>4 DEF Talk, Awaited
  <2>13. OneAnswer'  BY <1>b, <2>1, <2>9, <2>10 DEF OneAnswer
  <2>14. Awaited'  BY <2>1, <2>11 DEF Talk, Awaited
  <2>15. Arrived'  BY <2>1, <2>3, <2>4, <2>12 DEF Arrived
  <2>16. Handled'  BY <2>1 DEF Handled
  <2>17. Starting'  BY <2>1, <2>2, <2>9, <2>10 DEF Talk, Starting
  <2>18. QED  BY <2>13, <2>14, <2>15, <2>16, <2>17 DEF Talk
<1>26. CASE Foreign
  BY <1>26 DEF Foreign, Talk, Handled
<1>27. CASE GiveUp
  BY <1>27 DEF GiveUp, Talk, Handled
<1>28. CASE Garbled
  <2>1. Broken(bufcom)  BY <1>28 DEF Garbled
  <2>2. QED  BY <2>1, NotBroken DEF Flow
<1>29. CASE UNCHANGED vars
  <2>1. wire' = wire /\ buftx' = buftx /\ lentx' = lentx /\ errtx' = errtx /\ written' = written
    BY <1>29 DEF vars, device, txvars, rxvars, flags
  <2>2. wait_id' = wait_id /\ wait_cnt' = wait_cnt /\ bufrx' = bufrx /\ lenrx' = lenrx /\ gui' = gui
    BY <1>29 DEF vars, device, txvars, rxvars, flags
  <2>3. work_adc' = work_adc /\ streaming' = streaming
    BY <1>29 DEF vars, device, txvars, rxvars, flags
  <2>4. bufcom' = bufcom /\ port' = port  BY <1>29 DEF vars, device, input
  <2>5. Stream' = Stream /\ SameAnswers(Stream, Stream', Reply(buftx))
    BY <2>4, StreamLeftAlone
  <2>6. thr' = thr  BY <1>29 DEF vars
  <2>7. Handled'
    BY <2>2, <2>4, <2>6, HandledLeftAlone DEF Talk
  <2>8. QED  BY <2>1, <2>2, <2>3, <2>5, <2>6, <2>7, TalkLeftAlone DEF Talk, Awaited
<1>30. QED
  BY <1>1, <1>2, <1>3, <1>4, <1>5, <1>6, <1>7, <1>8, <1>9, <1>10,
     <1>11, <1>12, <1>13, <1>14, <1>15, <1>16, <1>17, <1>18, <1>19, <1>20,
     <1>21, <1>22, <1>23, <1>24, <1>25, <1>26, <1>27, <1>28, <1>29, Steps

LEMMA TalkInvKept ==
  ASSUME TypesOK, StreamsOK', PlaceInv, WholeInv, StreamInv, TalkInv, [Next]_vars
  PROVE  TalkInv'
<1>1. CASE mishaps' # {}  BY <1>1 DEF TalkInv
<1>2. CASE mishaps' = {}
  <2>1. mishaps = {}  BY <1>2, MishapsGrow DEF TypesOK
  <2>2. Flow  BY <2>1 DEF StreamInv, Flow, Misread
  <2>3. Talk  BY <2>1 DEF TalkInv
  <2>4. Talk'  BY <1>2, <2>2, <2>3, TalkKept
  <2>5. QED  BY <2>4 DEF TalkInv
<1>3. QED  BY <1>1, <1>2

LEMMA InitTalks == Init => TalkInv
<1> SUFFICES ASSUME Init PROVE Talk  BY DEF TalkInv
<1>1. /\ bufcom = << >> /\ port = << >> /\ wire = << >> /\ gui = "idle" /\ thr = "top" /\ lentx = 0
      /\ written = 0 /\ wait_id = [id |-> "none", err |-> FALSE]
  BY DEF Init
<1>2. streaming = FALSE  BY DEF Init
<1>3. Stream = << >> /\ Len(Stream) = 0 /\ Len(wire) = 0 /\ Len(bufcom) = 0  BY <1>1 DEF Stream
<1>4. ~ HasReply(Stream)  BY <1>3 DEF HasReply
<1>5. ~ Open  BY <1>1, <1>4 DEF Open
<1>6. OneAnswer  BY <1>1, <1>3 DEF OneAnswer, OnlyAnswer
<1>7. Awaited  BY <1>1, <1>5 DEF Awaited
<1>8. Arrived  BY <1>1 DEF Arrived
<1>9. Handled  BY <1>1, <1>3 DEF Handled
<1>10. Starting  BY <1>2, <1>3 DEF Starting, NoFrames
<1>11. QED  BY <1>6, <1>7, <1>8, <1>9, <1>10 DEF Talk

LEMMA LinkInvariant == Spec => [](StateInv /\ StreamInv /\ TalkInv)
<1>1. Init => StateInv /\ StreamInv /\ TalkInv
  BY InitTyped, InitFlows, InitTalks DEF StateInv
<1>2. StateInv /\ StreamInv /\ TalkInv /\ [Next]_vars => (StateInv /\ StreamInv /\ TalkInv)'
  <2> SUFFICES ASSUME StateInv, StreamInv, TalkInv, [Next]_vars
               PROVE  (StateInv /\ StreamInv /\ TalkInv)'
    OBVIOUS
  <2>1. StateInv'  BY StateKept
  <2>2. TypesOK /\ PlaceInv /\ WholeInv /\ StreamsOK'  BY <2>1 DEF StateInv, TypesOK
  <2>3. StreamInv'  BY <2>2, StreamInvKept
  <2>4. TalkInv'  BY <2>2, TalkInvKept
  <2>5. QED  BY <2>1, <2>3, <2>4
<1>3. QED  BY <1>1, <1>2, PTL DEF Spec

(* An answer the GUI accepts is the one to the command it asked, unless    *)
(* one came late, or was purged, or a packet was dropped in part.          *)
THEOREM AnswersAreOurs == Spec => []AnswerIsOurs
<1>1. StateInv /\ TalkInv => AnswerIsOurs
  <2> SUFFICES ASSUME StateInv, TalkInv, gui = "accept", mishaps = {}
               PROVE  bufrx.no = asked
    BY DEF AnswerIsOurs
  <2>1. bufrx = Reply(buftx)  BY DEF TalkInv, Talk, Arrived
  <2>2. buftx \in Asked /\ buftx.no = asked  BY DEF StateInv, TypesOK, CommandsOK
  <2>3. QED  BY <2>1, <2>2, ReplyIs
<1>2. QED  BY <1>1, LinkInvariant, PTL

(* Without such a mishap QueryPort never gives an answer up.               *)
THEOREM NeverGivenUp == Spec => []GivenUpOnlyAfterMishap
<1>1. TalkInv => GivenUpOnlyAfterMishap  BY DEF TalkInv, Talk, Awaited, GivenUpOnlyAfterMishap
<1>2. QED  BY <1>1, LinkInvariant, PTL
===============================================================================
