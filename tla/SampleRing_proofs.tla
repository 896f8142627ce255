--------------------------- MODULE SampleRing_proofs ---------------------------
(***************************************************************************)
(* Proofs about the ring of samples, for every even size of the ring and    *)
(* for misread packets of any numbers of samples below it; where pairs and  *)
(* the order of the chart are concerned, for every even frame of the        *)
(* device, and the order for points of one sample or two.                   *)
(***************************************************************************)
EXTENDS SampleRing, TLAPS

(* A remainder by an even number keeps the parity. *)
LEMMA Division ==
  ASSUME NEW n \in Nat \ {0}, NEW a \in Nat
  PROVE  /\ a % n \in 0 .. n - 1
         /\ a = (n * (a \div n)) + (a % n) /\ a \div n \in Nat
  OBVIOUS

LEMMA EvenSum ==
  ASSUME NEW a \in Nat, NEW b \in Nat, a % 2 = 0, b % 2 = 0
  PROVE  (a + b) % 2 = 0
  OBVIOUS

LEMMA EvenMultiple ==
  ASSUME NEW n \in Nat, n % 2 = 0, NEW q \in Int
  PROVE  \E m \in Int : n * q = 2 * m
<1>1. PICK h \in Int : n = 2 * h
  <2>1. n = 2 * (n \div 2) /\ n \div 2 \in Int  OBVIOUS
  <2>2. QED  BY <2>1
<1>2. n * q = 2 * (h * q) /\ h * q \in Int  BY <1>1
<1>3. QED  BY <1>2

LEMMA ParityKept ==
  ASSUME NEW n \in Nat \ {0}, n % 2 = 0, NEW a \in Nat
  PROVE  (a % n) % 2 = a % 2
<1>1. a = (n * (a \div n)) + (a % n) /\ a % n \in Nat  BY Division
<1>2. n \in Nat /\ a \div n \in Int  BY Division
<1>3. PICK m \in Int : n * (a \div n) = 2 * m  BY <1>2, EvenMultiple, Zenon
<1>4. a = 2 * m + (a % n)  BY <1>1, <1>3
<1>5. \A r \in Nat, k \in Int : (2 * k + r) % 2 = r % 2  OBVIOUS
<1>6. QED  BY <1>1, <1>4, <1>5

(* The indices stay in the ring however far they are moved. *)
LEMMA InRing ==
  ASSUME NEW a \in Nat
  PROVE  a % SIZE \in 0 .. SIZE - 1 /\ (a % SIZE) % 2 = a % 2
<1>1. SIZE \in Nat \ {0} /\ SIZE % 2 = 0  BY RingAssumption
<1>2. a % SIZE \in 0 .. SIZE - 1  BY <1>1, Division
<1>3. (a % SIZE) % 2 = a % 2  BY <1>1, ParityKept
<1>4. QED  BY <1>2, <1>3

-------------------------------------------------------------------------------
(* The flags between the threads, and where each of them is. *)
FlagsOK ==
  /\ purge_com \in BOOLEAN /\ SamplesEna \in BOOLEAN /\ SamplesAutoStop \in BOOLEAN
  /\ overrun \in BOOLEAN /\ raced \in BOOLEAN /\ noise \in BOOLEAN /\ odd \in BOOLEAN
  /\ task \in [name : {"none", "start", "stop", "end", "error", "clear"}, ena : BOOLEAN]

PlacesOK ==
  /\ ask \in {"none", "asked", "sent", "answered"}
  /\ thr \in {"top", "purge", "purge rx", "write", "packets", "frame"}
  /\ gui \in {"idle", "load", "chart", "publish", "full", "ask", "zero", "zero rx", "resume"}

(* The ring and the counters; a frame begun will not pass the bound, a      *)
(* chart begun is not full.                                                *)
NumbersOK ==
  /\ ismprx \in 0 .. SIZE - 1 /\ ismptx \in 0 .. SIZE - 1 /\ itx \in 0 .. SIZE - 1
  /\ irx \in 0 .. SIZE - 1 /\ end \in 0 .. SIZE - 1
  /\ bufsmp \in [0 .. SIZE - 1 -> 0 .. TOTAL]
  /\ left \in 0 .. SIZE - 1 /\ stored \in 0 .. TOTAL /\ shown \in 0 .. MAXSAMPLES
  /\ misreads \in Nat
  /\ thr = "frame" /\ ~ noise => stored + left <= TOTAL
  /\ gui \in {"load", "chart"} => shown < MAXSAMPLES

LEMMA InitTyped == Init => FlagsOK /\ PlacesOK /\ NumbersOK
<1> SUFFICES ASSUME Init PROVE FlagsOK /\ PlacesOK /\ NumbersOK  OBVIOUS
<1>1. FlagsOK /\ PlacesOK  BY DEF Init, FlagsOK, PlacesOK
<1>2. NumbersOK  BY RingAssumption DEF Init, NumbersOK
<1>3. QED  BY <1>1, <1>2

LEMMA FlagsKept == FlagsOK /\ [Next]_vars => FlagsOK'
<1> SUFFICES ASSUME FlagsOK, [Next]_vars PROVE FlagsOK'  OBVIOUS
<1> USE DEF FlagsOK
<1>1. CASE CheckPurge  BY <1>1 DEF CheckPurge, flags, thread, local, ghosts, misread
<1>2. CASE PurgeTx  BY <1>2 DEF PurgeTx, flags, thread, local, ghosts, misread
<1>3. CASE PurgeRx  BY <1>3 DEF PurgeRx, flags, thread, local, ghosts, misread
<1>4. CASE Send  BY <1>4 DEF Send, flags, thread, local, ghosts, misread
<1>5. CASE TakeAnswer  BY <1>5 DEF TakeAnswer, flags, thread, local, ghosts, misread
<1>6. CASE StartFrame  BY <1>6 DEF StartFrame, flags, thread, local, ghosts, misread
<1>6a. CASE StartMisread  BY <1>6a DEF StartMisread, flags, local
<1>7. CASE StoreSample  BY <1>7 DEF StoreSample, flags, thread, local, ghosts, misread
<1>8. CASE PublishTx  BY <1>8 DEF PublishTx, flags, thread, local, ghosts, misread
<1>9. CASE NoMorePackets  BY <1>9 DEF NoMorePackets, flags, thread, local, ghosts, misread
<1>10. CASE Timer  BY <1>10 DEF Timer, flags, thread, local, ghosts, misread
<1>11. CASE LoadTx  BY <1>11 DEF LoadTx, flags, thread, local, ghosts, misread
<1>12. CASE ChartPoint  BY <1>12 DEF ChartPoint, flags, thread, local, ghosts, misread
<1>13. CASE ChartDone  BY <1>13 DEF ChartDone, flags, thread, local, ghosts, misread
<1>14. CASE PublishRx  BY <1>14 DEF PublishRx, flags, thread, local, ghosts, misread
<1>15. CASE ButtonStartADC  BY <1>15 DEF ButtonStartADC, Ask, flags, thread, local, ghosts, misread
<1>16. CASE ButtonStop  BY <1>16 DEF ButtonStop, Ask, flags, thread, local, ghosts, misread
<1>17. CASE EndOfChart  BY <1>17 DEF EndOfChart, Ask, flags, thread, local, ghosts, misread
<1>18. CASE DeviceError  BY <1>18 DEF DeviceError, Ask, flags, thread, local, ghosts, misread
<1>19. CASE Fails  BY <1>19 DEF Fails, flags, thread, local, ghosts, misread
<1>20. CASE Again  BY <1>20 DEF Again, Ask, flags, thread, local, ghosts, misread
<1>21. CASE Stopped  BY <1>21 DEF Stopped, flags, thread, local, ghosts, misread
<1>22. CASE Accepted  BY <1>22 DEF Accepted, flags, thread, local, ghosts, misread
<1>23. CASE ButtonClrGrf  BY <1>23 DEF ButtonClrGrf, flags, thread, local, ghosts, misread
<1>24. CASE ZeroTx  BY <1>24 DEF ZeroTx, flags, thread, local, ghosts, misread
<1>25. CASE ZeroRx  BY <1>25 DEF ZeroRx, flags, thread, local, ghosts, misread
<1>26. CASE Resume  BY <1>26 DEF Resume, flags, thread, local, ghosts, misread
<1>27. CASE UNCHANGED vars
  <2>1. /\ purge_com' = purge_com /\ SamplesEna' = SamplesEna
        /\ SamplesAutoStop' = SamplesAutoStop /\ overrun' = overrun /\ raced' = raced
        /\ task' = task /\ noise' = noise /\ odd' = odd
    BY <1>27 DEF vars, flags, thread, local, ghosts, misread
  <2>2. QED  BY <2>1, Zenon
<1>28. QED
  BY <1>1, <1>2, <1>3, <1>4, <1>5, <1>6, <1>6a, <1>7, <1>8, <1>9, <1>10, <1>11,
     <1>12, <1>13, <1>14, <1>15, <1>16, <1>17, <1>18, <1>19, <1>20, <1>21,
     <1>22, <1>23, <1>24, <1>25, <1>26, <1>27
     DEF Next, QueryPort, Charting, Handlers

LEMMA PlacesKept == PlacesOK /\ [Next]_vars => PlacesOK'
<1> SUFFICES ASSUME PlacesOK, [Next]_vars PROVE PlacesOK'  OBVIOUS
<1> USE DEF PlacesOK
<1>1. CASE CheckPurge  BY <1>1 DEF CheckPurge, thread
<1>2. CASE PurgeTx  BY <1>2 DEF PurgeTx, thread
<1>3. CASE PurgeRx  BY <1>3 DEF PurgeRx, thread
<1>4. CASE Send  BY <1>4 DEF Send, thread
<1>5. CASE TakeAnswer  BY <1>5 DEF TakeAnswer, thread
<1>6. CASE StartFrame  BY <1>6 DEF StartFrame, thread
<1>6a. CASE StartMisread  BY <1>6a DEF StartMisread
<1>7. CASE StoreSample  BY <1>7 DEF StoreSample, thread
<1>8. CASE PublishTx  BY <1>8 DEF PublishTx, thread
<1>9. CASE NoMorePackets  BY <1>9 DEF NoMorePackets, thread
<1>10. CASE Timer  BY <1>10 DEF Timer, thread
<1>11. CASE LoadTx  BY <1>11 DEF LoadTx, thread
<1>12. CASE ChartPoint  BY <1>12 DEF ChartPoint, thread
<1>13. CASE ChartDone  BY <1>13 DEF ChartDone, thread
<1>14. CASE PublishRx  BY <1>14 DEF PublishRx, thread
<1>15. CASE ButtonStartADC  BY <1>15 DEF ButtonStartADC, Ask, thread
<1>16. CASE ButtonStop  BY <1>16 DEF ButtonStop, Ask, thread
<1>17. CASE EndOfChart  BY <1>17 DEF EndOfChart, Ask, thread
<1>18. CASE DeviceError  BY <1>18 DEF DeviceError, Ask, thread
<1>19. CASE Fails  BY <1>19 DEF Fails, thread
<1>20. CASE Again  BY <1>20 DEF Again, Ask, thread
<1>21. CASE Stopped  BY <1>21 DEF Stopped, thread
<1>22. CASE Accepted  BY <1>22 DEF Accepted, thread
<1>23. CASE ButtonClrGrf  BY <1>23 DEF ButtonClrGrf, thread
<1>24. CASE ZeroTx  BY <1>24 DEF ZeroTx, thread
<1>25. CASE ZeroRx  BY <1>25 DEF ZeroRx, thread
<1>26. CASE Resume  BY <1>26 DEF Resume, thread
<1>27. CASE UNCHANGED vars  BY <1>27 DEF vars, thread
<1>28. QED
  BY <1>1, <1>2, <1>3, <1>4, <1>5, <1>6, <1>6a, <1>7, <1>8, <1>9, <1>10, <1>11,
     <1>12, <1>13, <1>14, <1>15, <1>16, <1>17, <1>18, <1>19, <1>20, <1>21,
     <1>22, <1>23, <1>24, <1>25, <1>26, <1>27
     DEF Next, QueryPort, Charting, Handlers

LEMMA NumbersLeftAlone ==
  ASSUME NumbersOK, bufsmp' = bufsmp, ismprx' = ismprx, ismptx' = ismptx, itx' = itx,
         left' = left, noise' = noise, irx' = irx, end' = end, stored' = stored, shown' = shown,
         misreads' = misreads,
         thr' = thr \/ thr' # "frame", gui' = gui \/ gui' \notin {"load", "chart"}
  PROVE  NumbersOK'
BY DEF NumbersOK

LEMMA Geometry ==
  /\ SIZE \in Nat \ {0} /\ FRAME \in Nat \ {0} /\ WIDTH \in Nat \ {0}
  /\ MAXSAMPLES \in Nat \ {0} /\ TOTAL \in Nat /\ FRAME < SIZE /\ SIZE % 2 = 0
  /\ MISREAD \subseteq 0 .. SIZE - 1
BY RingAssumption

(* Zero is a place of the ring and a count of points.                       *)
LEMMA Zeros == 0 \in 0 .. SIZE - 1 /\ 0 \in 0 .. MAXSAMPLES
BY Geometry

(* A frame begins in the ring, at an even place.                            *)
LEMMA BeginInRing ==
  \A i \in 0 .. SIZE - 1 : Begin(i) \in 0 .. SIZE - 1 /\ Begin(i) % 2 = 0
BY RingAssumption DEF Begin

(* An index set to zero, a chart of no points: what a purge and a clear do. *)
LEMMA NumbersRestarted ==
  ASSUME NumbersOK, bufsmp' = bufsmp, ismprx' \in {0, ismprx}, ismptx' \in {0, ismptx},
         itx' = itx, left' = left, noise' = noise, misreads' = misreads, irx' = irx, end' = end, stored' = stored,
         shown' \in {0, shown},
         thr' = thr \/ thr' # "frame",
         gui' \notin {"load", "chart"} \/ (gui' = gui /\ shown' = shown)
  PROVE  NumbersOK'
<1>1. ismprx' \in 0 .. SIZE - 1 /\ ismptx' \in 0 .. SIZE - 1 /\ shown' \in 0 .. MAXSAMPLES
  BY Zeros DEF NumbersOK
<1>2. gui' \in {"load", "chart"} => shown' < MAXSAMPLES  BY DEF NumbersOK
<1>3. thr' = "frame" /\ ~ noise' => stored' + left' <= TOTAL  BY DEF NumbersOK
<1>4. QED  BY <1>1, <1>2, <1>3 DEF NumbersOK

LEMMA NumbersKept == NumbersOK /\ [Next]_vars => NumbersOK'
<1> SUFFICES ASSUME NumbersOK, [Next]_vars PROVE NumbersOK'  OBVIOUS
<1>1. CASE CheckPurge
  BY <1>1, NumbersLeftAlone DEF CheckPurge, ring, flags, thread, local, ghosts, misread
<1>2. CASE PurgeTx
  <2>1. /\ ismptx' = 0 /\ bufsmp' = bufsmp /\ ismprx' = ismprx /\ itx' = itx /\ left' = left /\ noise' = noise /\ misreads' = misreads
        /\ irx' = irx /\ end' = end /\ shown' = shown /\ stored' = stored
    BY <1>2 DEF PurgeTx, thread, local, flags, misread
  <2>2. thr' # "frame" \/ thr' = thr
    BY <1>2 DEF PurgeTx, thread, misread
  <2>3. gui' \notin {"load", "chart"} \/ gui' = gui
    BY <1>2 DEF PurgeTx
  <2>4. QED  BY <2>1, <2>2, <2>3, NumbersRestarted
<1>3. CASE PurgeRx
  <2>1. /\ ismprx' = 0 /\ bufsmp' = bufsmp /\ ismptx' = ismptx /\ itx' = itx /\ left' = left /\ noise' = noise /\ misreads' = misreads
        /\ irx' = irx /\ end' = end /\ shown' = shown /\ stored' = stored
    BY <1>3 DEF PurgeRx, thread, local, flags, misread
  <2>2. thr' # "frame" \/ thr' = thr
    BY <1>3 DEF PurgeRx, thread, misread
  <2>3. gui' \notin {"load", "chart"} \/ gui' = gui
    BY <1>3 DEF PurgeRx
  <2>4. QED  BY <2>1, <2>2, <2>3, NumbersRestarted
<1>4. CASE Send
  BY <1>4, NumbersLeftAlone DEF Send, ring, flags, thread, local, ghosts, misread
<1>5. CASE TakeAnswer
  BY <1>5, NumbersLeftAlone DEF TakeAnswer, ring, flags, thread, local, ghosts, misread
<1>6. CASE StartFrame
  <2>1. /\ itx' = Begin(ismptx) /\ left' = FRAME /\ RoomForMore
        /\ UNCHANGED <<bufsmp, ismprx, ismptx, irx, end, gui, shown, stored, misreads>>
    BY <1>6 DEF StartFrame, Samples, ring, local, ghosts, misread
  <2>2. itx' \in 0 .. SIZE - 1  BY <2>1, BeginInRing DEF NumbersOK
  <2>3. /\ bufsmp' = bufsmp /\ ismprx' = ismprx /\ ismptx' = ismptx /\ irx' = irx /\ end' = end
        /\ shown' = shown /\ gui' = gui /\ stored' = stored /\ misreads' = misreads
    BY <2>1
  <2>4. left' \in 0 .. SIZE - 1  BY <2>1, Geometry
  <2>5. stored + left' <= TOTAL
    <3>1. stored \in Nat /\ misreads \in Nat /\ FRAME \in Nat /\ TOTAL \in Nat
      BY Geometry DEF NumbersOK
    <3>2. FRAME * (misreads + 1) = FRAME * misreads + FRAME /\ FRAME * misreads \in Nat
      BY <3>1
    <3>3. stored + FRAME * (misreads + 1) <= TOTAL  BY <2>1 DEF RoomForMore
    <3>4. QED  BY <2>1, <3>1, <3>2, <3>3
  <2>6. QED  BY <2>2, <2>3, <2>4, <2>5 DEF NumbersOK
<1>6a. CASE StartMisread
  <2>1. /\ itx' = Begin(ismptx) /\ left' \in MISREAD /\ noise' = TRUE /\ misreads' = misreads + 1
        /\ bufsmp' = bufsmp /\ ismprx' = ismprx /\ ismptx' = ismptx /\ irx' = irx /\ end' = end
        /\ shown' = shown /\ gui' = gui /\ stored' = stored
    BY <1>6a DEF StartMisread, ring, local
  <2>2. itx' \in 0 .. SIZE - 1  BY <2>1, BeginInRing DEF NumbersOK
  <2>3. left' \in 0 .. SIZE - 1  BY <2>1, Geometry
  <2>4. QED  BY <2>1, <2>2, <2>3 DEF NumbersOK
<1>7. CASE StoreSample
  <2>1. After(itx) \in 0 .. SIZE - 1
    <3>1. itx + 1 \in Nat  BY Geometry DEF NumbersOK
    <3>2. QED  BY <3>1, InRing DEF After
  <2>2. /\ thr = "frame" /\ left > 0 /\ left' = left - 1 /\ itx' = After(itx)
        /\ ismprx' = ismprx /\ ismptx' = ismptx /\ irx' = irx /\ end' = end
        /\ gui' = gui /\ shown' = shown /\ noise' = noise /\ misreads' = misreads
    BY <1>7 DEF StoreSample, flags, local, misread
  <2>3. left - 1 \in 0 .. SIZE - 1  BY <2>2, Geometry DEF NumbersOK
  <2>4. CASE noise
    <3>1. stored' = stored /\ bufsmp' = [bufsmp EXCEPT ![itx] = 0]
      BY <1>7, <2>4 DEF StoreSample
    <3>2. 0 \in 0 .. TOTAL  BY Geometry
    <3>3. bufsmp' \in [0 .. SIZE - 1 -> 0 .. TOTAL]  BY <3>1, <3>2 DEF NumbersOK
    <3>4. QED  BY <2>1, <2>2, <2>3, <2>4, <3>1, <3>3 DEF NumbersOK
  <2>5. CASE ~ noise
    <3>1. stored' = stored + 1 /\ bufsmp' = [bufsmp EXCEPT ![itx] = stored + 1]
      BY <1>7, <2>5 DEF StoreSample
    <3>2. stored \in Nat /\ left \in Nat /\ stored + left <= TOTAL /\ TOTAL \in Nat
      BY <2>2, <2>5, Geometry DEF NumbersOK
    <3>3. stored + 1 \in 0 .. TOTAL /\ (stored + 1) + (left - 1) <= TOTAL
      BY <2>2, <3>2
    <3>4. bufsmp' \in [0 .. SIZE - 1 -> 0 .. TOTAL]  BY <3>1, <3>3 DEF NumbersOK
    <3>5. QED  BY <2>1, <2>2, <2>3, <3>1, <3>3, <3>4 DEF NumbersOK
  <2>6. QED  BY <2>4, <2>5
<1>8. CASE PublishTx
  <2>1. /\ ismptx' = itx /\ bufsmp' = bufsmp /\ ismprx' = ismprx /\ itx' = itx /\ left' = left /\ noise' = noise /\ misreads' = misreads
        /\ irx' = irx /\ end' = end /\ shown' = shown /\ stored' = stored /\ gui' = gui
        /\ thr' # "frame"
    BY <1>8 DEF PublishTx, flags, local, ghosts, misread
  <2>2. QED  BY <2>1 DEF NumbersOK
<1>9. CASE NoMorePackets
  BY <1>9, NumbersLeftAlone DEF NoMorePackets, ring, flags, thread, local, ghosts, misread
<1>10. CASE Timer
  <2>1. /\ bufsmp' = bufsmp /\ ismprx' = ismprx /\ ismptx' = ismptx /\ itx' = itx /\ left' = left /\ noise' = noise /\ misreads' = misreads
        /\ end' = end /\ shown' = shown /\ stored' = stored /\ thr' = thr /\ gui = "idle"
        /\ (shown < MAXSAMPLES /\ irx' = ismprx) \/ (irx' = irx /\ gui' = gui)
    BY <1>10 DEF Timer, ring, thread, misread
  <2>2. QED  BY <2>1 DEF NumbersOK
<1>11. CASE LoadTx
  <2>1. /\ bufsmp' = bufsmp /\ ismprx' = ismprx /\ ismptx' = ismptx /\ itx' = itx /\ left' = left /\ noise' = noise /\ misreads' = misreads
        /\ irx' = irx /\ end' = ismptx /\ shown' = shown /\ stored' = stored /\ thr' = thr
        /\ gui = "load" /\ gui' = "chart"
    BY <1>11 DEF LoadTx, ring, thread, ghosts, misread
  <2>2. QED  BY <2>1 DEF NumbersOK
<1>12. CASE ChartPoint
  <2>1. (irx + WIDTH) % SIZE \in 0 .. SIZE - 1
    <3>1. irx + WIDTH \in Nat
      <4>1. irx \in Nat  BY Geometry DEF NumbersOK
      <4>2. QED  BY <4>1, Geometry
    <3>2. QED  BY <3>1, InRing
  <2>2. /\ irx' = (irx + WIDTH) % SIZE /\ gui = "chart"
        /\ shown' = shown + 1 \/ (shown = 0 /\ shown' = 0)
        /\ gui' = IF shown' >= MAXSAMPLES THEN "full" ELSE "chart"
    BY <1>12 DEF ChartPoint
  <2>3. /\ bufsmp' = bufsmp /\ ismprx' = ismprx /\ ismptx' = ismptx /\ thr' = thr /\ itx' = itx
        /\ left' = left /\ noise' = noise /\ misreads' = misreads /\ end' = end /\ stored' = stored
    BY <1>12 DEF ChartPoint, ring, thread, misread
  <2>4. shown \in 0 .. MAXSAMPLES /\ shown < MAXSAMPLES  BY <2>2 DEF NumbersOK
  <2>5. shown' \in 0 .. MAXSAMPLES /\ (gui' \in {"load", "chart"} => shown' < MAXSAMPLES)
    BY <2>2, <2>4, Geometry
  <2>6. QED  BY <2>1, <2>2, <2>3, <2>5 DEF NumbersOK
<1>13. CASE ChartDone
  BY <1>13, NumbersLeftAlone DEF ChartDone, ring, flags, thread, local, ghosts, misread
<1>14. CASE PublishRx
  <2>1. /\ bufsmp' = bufsmp /\ ismprx' = irx /\ ismptx' = ismptx /\ itx' = itx /\ left' = left /\ noise' = noise /\ misreads' = misreads
        /\ irx' = irx /\ end' = end /\ shown' = shown /\ stored' = stored /\ thr' = thr
        /\ gui' = "idle"
    BY <1>14 DEF PublishRx, thread, local, ghosts, misread
  <2>2. QED  BY <2>1 DEF NumbersOK
<1>15. CASE ButtonStartADC
  BY <1>15, NumbersLeftAlone DEF ButtonStartADC, Ask, ring, flags, thread, local, ghosts, misread
<1>16. CASE ButtonStop
  BY <1>16, NumbersLeftAlone DEF ButtonStop, Ask, ring, flags, thread, local, ghosts, misread
<1>17. CASE EndOfChart
  BY <1>17, NumbersLeftAlone DEF EndOfChart, Ask, ring, flags, thread, local, ghosts, misread
<1>18. CASE DeviceError
  BY <1>18, NumbersLeftAlone DEF DeviceError, Ask, ring, flags, thread, local, ghosts, misread
<1>19. CASE Fails
  BY <1>19, NumbersLeftAlone DEF Fails, ring, flags, thread, local, ghosts, misread
<1>20. CASE Again
  BY <1>20, NumbersLeftAlone DEF Again, Ask, ring, flags, thread, local, ghosts, misread
<1>21. CASE Stopped
  BY <1>21, NumbersLeftAlone DEF Stopped, ring, flags, thread, local, ghosts, misread
<1>22. CASE Accepted
  <2>1. /\ bufsmp' = bufsmp /\ ismprx' = ismprx /\ ismptx' = ismptx /\ itx' = itx
        /\ left' = left /\ noise' = noise /\ misreads' = misreads /\ irx' = irx /\ end' = end /\ stored' = stored
    BY <1>22 DEF Accepted, ring, thread, ghosts, misread
  <2>2. shown' \in {0, shown} /\ thr' = thr /\ gui' = "zero"  BY <1>22 DEF Accepted, thread, misread
  <2>3. QED  BY <2>1, <2>2, NumbersRestarted
<1>23. CASE ButtonClrGrf
  BY <1>23, NumbersLeftAlone DEF ButtonClrGrf, ring, flags, thread, local, ghosts, misread
<1>24. CASE ZeroTx
  <2>1. /\ ismptx' = 0 /\ bufsmp' = bufsmp /\ ismprx' = ismprx /\ itx' = itx /\ left' = left /\ noise' = noise /\ misreads' = misreads
        /\ irx' = irx /\ end' = end /\ shown' = shown /\ stored' = stored
    BY <1>24 DEF ZeroTx, thread, local, flags, misread
  <2>2. thr' # "frame" \/ thr' = thr
    BY <1>24 DEF ZeroTx, thread, misread
  <2>3. gui' \notin {"load", "chart"} \/ gui' = gui
    BY <1>24 DEF ZeroTx
  <2>4. QED  BY <2>1, <2>2, <2>3, NumbersRestarted
<1>25. CASE ZeroRx
  <2>1. /\ ismprx' = 0 /\ bufsmp' = bufsmp /\ ismptx' = ismptx /\ itx' = itx /\ left' = left /\ noise' = noise /\ misreads' = misreads
        /\ irx' = irx /\ end' = end /\ shown' = shown /\ stored' = stored
    BY <1>25 DEF ZeroRx, thread, local, flags, ghosts, misread
  <2>2. thr' # "frame" \/ thr' = thr
    BY <1>25 DEF ZeroRx, thread, misread
  <2>3. gui' \notin {"load", "chart"} \/ gui' = gui
    BY <1>25 DEF ZeroRx
  <2>4. QED  BY <2>1, <2>2, <2>3, NumbersRestarted
<1>26. CASE Resume
  <2>1. /\ bufsmp' = bufsmp /\ ismprx' = ismprx /\ ismptx' = ismptx /\ itx' = itx
        /\ left' = left /\ noise' = noise /\ misreads' = misreads /\ irx' = irx /\ end' = end /\ stored' = stored
    BY <1>26 DEF Resume, ring, thread, local, ghosts, misread
  <2>2. shown' \in {0, shown} /\ thr' = thr /\ gui' = "idle"  BY <1>26 DEF Resume, thread, misread
  <2>3. QED  BY <2>1, <2>2, NumbersRestarted
<1>27. CASE UNCHANGED vars
  BY <1>27, NumbersLeftAlone DEF vars, ring, flags, thread, local, ghosts, misread
<1>28. QED
  BY <1>1, <1>2, <1>3, <1>4, <1>5, <1>6, <1>6a, <1>7, <1>8, <1>9, <1>10, <1>11,
     <1>12, <1>13, <1>14, <1>15, <1>16, <1>17, <1>18, <1>19, <1>20, <1>21,
     <1>22, <1>23, <1>24, <1>25, <1>26, <1>27
     DEF Next, QueryPort, Charting, Handlers

(* No interleaving of the two threads takes an index out of the ring, nor   *)
(* stores a sample over its end: the mask of StoreSample is enough, for     *)
(* misread packets of any length too.                                       *)
THEOREM TypeCorrect == Spec => []TypeOK
<1>1. FlagsOK /\ PlacesOK /\ NumbersOK => TypeOK
  BY DEF FlagsOK, PlacesOK, NumbersOK, TypeOK
<1>2. QED  BY <1>1, InitTyped, FlagsKept, PlacesKept, NumbersKept, PTL DEF Spec
-------------------------------------------------------------------------------
(* Between frames the device's next sample is a current.  A frame begins    *)
(* at an even place; inside one, index and number move on together, and an *)
(* even number of samples is left when both are even.  A misread packet    *)
(* gives no numbers, and ends at an odd place only if its length is odd.   *)
InStep ==
  /\ thr = "frame" /\ ~ noise => (itx + left) % 2 = 0 /\ (stored + left) % 2 = 0
  /\ thr = "frame" /\ noise => stored % 2 = 0 /\ ((itx + left) % 2 = 0 \/ odd)
  /\ thr # "frame" => stored % 2 = 0

(* Who moves neither an index nor a sample keeps the pairs, wherever the   *)
(* port thread is outside a frame or stays.                                *)
LEMMA PairsLeftAlone ==
  ASSUME PairsKept, InStep,
         UNCHANGED <<bufsmp, ismprx, ismptx, itx, left, noise, irx, end, stored, odd>>,
         thr' = thr \/ (thr # "frame" /\ thr' # "frame")
  PROVE  PairsKept' /\ InStep'
  BY DEF PairsKept, InStep

LEMMA IndicesSetBack ==
  ASSUME PairsKept, InStep,
         UNCHANGED <<bufsmp, itx, left, noise, stored, odd>>,
         thr' = thr \/ (thr # "frame" /\ thr' # "frame"),
         ismprx' \in {0, ismprx, irx}, ismptx' \in {0, ismptx},
         irx' \in {irx, ismprx}, end' \in {end, ismptx}
  PROVE  PairsKept' /\ InStep'
<1>1. 0 % 2 = 0  OBVIOUS
<1>2. ismprx' % 2 = 0 /\ irx' % 2 = 0 /\ (ismptx' % 2 # 0 \/ end' % 2 # 0 => odd')
  BY <1>1 DEF PairsKept
<1>3. QED  BY <1>2 DEF PairsKept, InStep

LEMMA PairsStep ==
  ASSUME FRAME % 2 = 0, WIDTH % 2 = 0, NumbersOK, PairsKept, InStep, [Next]_vars
  PROVE  PairsKept' /\ InStep'
<1>1. CASE CheckPurge
  BY <1>1, PairsLeftAlone DEF CheckPurge, ring, flags, thread, local, ghosts, misread
<1>2. CASE PurgeTx
  BY <1>2, IndicesSetBack DEF PurgeTx, ring, flags, thread, local, ghosts, misread, Restart
<1>3. CASE PurgeRx
  BY <1>3, IndicesSetBack DEF PurgeRx, ring, flags, thread, local, ghosts, misread
<1>4. CASE Send
  BY <1>4, PairsLeftAlone DEF Send, ring, flags, thread, local, ghosts, misread
<1>5. CASE TakeAnswer
  BY <1>5, PairsLeftAlone DEF TakeAnswer, ring, flags, thread, local, ghosts, misread
<1>6. CASE StartFrame
  <2>1. /\ itx' = Begin(ismptx) /\ left' = FRAME /\ thr' = "frame" /\ thr # "frame"
        /\ noise' = FALSE /\ UNCHANGED <<bufsmp, ismprx, ismptx, irx, end, stored, odd>>
    BY <1>6 DEF StartFrame, Samples, ring, local, ghosts, misread
  <2>2. PairsKept'  BY <2>1 DEF PairsKept
  <2>3. (itx' + left') % 2 = 0 /\ (stored' + left') % 2 = 0
    <3>1. itx' \in Nat /\ itx' % 2 = 0 /\ left' \in Nat /\ left' % 2 = 0
      BY <2>1, BeginInRing, RingAssumption DEF NumbersOK
    <3>2. stored' \in Nat /\ stored' % 2 = 0  BY <2>1, RingAssumption DEF NumbersOK, InStep
    <3>3. QED  BY <3>1, <3>2, EvenSum
  <2>4. QED  BY <2>1, <2>2, <2>3 DEF InStep
<1>6a. CASE StartMisread
  <2>1. /\ itx' = Begin(ismptx) /\ left' \in MISREAD /\ thr' = "frame" /\ thr # "frame"
        /\ noise' = TRUE /\ odd' = (odd \/ left' % 2 = 1)
        /\ UNCHANGED <<bufsmp, ismprx, ismptx, irx, end, stored>>
    BY <1>6a DEF StartMisread, ring, local
  <2>2. odd => odd'  BY <2>1
  <2>3. PairsKept'  BY <2>1, <2>2 DEF PairsKept
  <2>4. (itx' + left') % 2 = 0 \/ odd'
    <3>1. itx' \in Nat /\ itx' % 2 = 0  BY <2>1, BeginInRing, RingAssumption DEF NumbersOK
    <3>2. left' \in Nat  BY <2>1, Geometry
    <3>3. \A n \in Nat : n % 2 = 0 \/ n % 2 = 1  OBVIOUS
    <3>4. CASE left' % 2 = 0  BY <3>1, <3>2, <3>4, EvenSum
    <3>5. CASE left' % 2 = 1  BY <2>1, <3>5
    <3>6. QED  BY <3>2, <3>3, <3>4, <3>5
  <2>5. stored' % 2 = 0  BY <2>1 DEF InStep
  <2>6. QED  BY <2>1, <2>3, <2>4, <2>5 DEF InStep
<1>7. CASE StoreSample
  <2>1. /\ thr = "frame" /\ thr' = "frame" /\ left > 0 /\ left' = left - 1
        /\ itx' = After(itx) /\ noise' = noise
        /\ UNCHANGED <<ismprx, ismptx, irx, end, odd>>
    BY <1>7 DEF StoreSample, local, misread
  <2>2. itx \in 0 .. SIZE - 1 /\ left \in Nat /\ stored \in Nat /\ SIZE \in Nat
    BY RingAssumption DEF NumbersOK
  <2>3. itx' \in Nat /\ itx' % 2 = (itx + 1) % 2
    <3>1. itx + 1 \in Nat  BY <2>2
    <3>2. (itx + 1) % SIZE \in 0 .. SIZE - 1 /\ ((itx + 1) % SIZE) % 2 = (itx + 1) % 2
      BY <3>1, InRing
    <3>3. itx' = (itx + 1) % SIZE  BY <2>1 DEF After
    <3>4. QED  BY <2>2, <3>2, <3>3
  <2>4. (itx + left) % 2 = 0 => (itx' + left') % 2 = 0  BY <2>1, <2>2, <2>3
  <2>5. CASE noise
    <3>1. stored' = stored /\ bufsmp' = [bufsmp EXCEPT ![itx] = 0]
      BY <1>7, <2>5 DEF StoreSample
    <3>2. \A i \in 0 .. SIZE - 1 : bufsmp'[i] = IF i = itx THEN 0 ELSE bufsmp[i]
      BY <2>2, <3>1 DEF NumbersOK
    <3>3. PairsKept'  BY <2>1, <3>2 DEF PairsKept
    <3>4. stored % 2 = 0 /\ ((itx + left) % 2 = 0 \/ odd)  BY <2>1, <2>5 DEF InStep
    <3>5. QED  BY <2>1, <2>4, <2>5, <3>1, <3>3, <3>4 DEF InStep
  <2>6. CASE ~ noise
    <3>1. stored' = stored + 1 /\ bufsmp' = [bufsmp EXCEPT ![itx] = stored + 1]
      BY <1>7, <2>6 DEF StoreSample
    <3>2. (itx + left) % 2 = 0 /\ (stored + left) % 2 = 0  BY <2>1, <2>6 DEF InStep
    <3>3. (stored + 1) % 2 # itx % 2  BY <2>2, <3>2
    <3>4. \A i \in 0 .. SIZE - 1 : bufsmp'[i] = IF i = itx THEN stored + 1 ELSE bufsmp[i]
      BY <2>2, <3>1 DEF NumbersOK
    <3>5. PairsKept'  BY <2>1, <3>3, <3>4 DEF PairsKept
    <3>6. (stored' + left') % 2 = 0  BY <2>1, <2>2, <3>1, <3>2
    <3>7. QED  BY <2>1, <2>4, <2>6, <3>2, <3>5, <3>6 DEF InStep
  <2>7. QED  BY <2>5, <2>6
<1>8. CASE PublishTx
  <2>1. /\ thr = "frame" /\ thr' = "packets" /\ left = 0 /\ ismptx' = itx
        /\ UNCHANGED <<bufsmp, ismprx, itx, left, noise, irx, end, stored, odd>>
    BY <1>8 DEF PublishTx, local, ghosts, misread
  <2>2. stored \in Nat /\ itx \in Nat  BY Geometry DEF NumbersOK
  <2>3. stored % 2 = 0 /\ (itx % 2 = 0 \/ odd)
    <3>1. CASE noise  BY <2>1, <2>2, <3>1 DEF InStep
    <3>2. CASE ~ noise  BY <2>1, <2>2, <3>2 DEF InStep
    <3>3. QED  BY <3>1, <3>2
  <2>4. QED  BY <2>1, <2>3 DEF PairsKept, InStep
<1>9. CASE NoMorePackets
  BY <1>9, PairsLeftAlone DEF NoMorePackets, ring, flags, thread, local, ghosts, misread
<1>10. CASE Timer
  BY <1>10, IndicesSetBack DEF Timer, ring, flags, thread, local, ghosts, misread
<1>11. CASE LoadTx
  BY <1>11, IndicesSetBack DEF LoadTx, ring, flags, thread, local, ghosts, misread
<1>12. CASE ChartPoint
  <2>1. /\ irx' = (irx + WIDTH) % SIZE
        /\ UNCHANGED <<bufsmp, ismprx, ismptx, thr, itx, left, noise, end, stored, odd>>
    BY <1>12 DEF ChartPoint, ring, thread, misread
  <2>2. irx + WIDTH \in Nat /\ (irx + WIDTH) % 2 = 0
    <3>1. irx \in Nat /\ irx % 2 = 0 /\ WIDTH \in Nat
      BY RingAssumption DEF NumbersOK, PairsKept
    <3>2. QED  BY <3>1, EvenSum
  <2>3. irx' % 2 = 0
    <3>1. ((irx + WIDTH) % SIZE) % 2 = (irx + WIDTH) % 2  BY <2>2, InRing
    <3>2. QED  BY <2>1, <2>2, <3>1
  <2>4. QED  BY <2>1, <2>3 DEF PairsKept, InStep
<1>13. CASE ChartDone
  BY <1>13, PairsLeftAlone DEF ChartDone, ring, flags, thread, local, ghosts, misread
<1>14. CASE PublishRx
  BY <1>14, IndicesSetBack DEF PublishRx, ring, flags, thread, local, ghosts, misread
<1>15. CASE ButtonStartADC
  BY <1>15, PairsLeftAlone DEF ButtonStartADC, Ask, ring, flags, thread, local, ghosts, misread
<1>16. CASE ButtonStop
  BY <1>16, PairsLeftAlone DEF ButtonStop, Ask, ring, flags, thread, local, ghosts, misread
<1>17. CASE EndOfChart
  BY <1>17, PairsLeftAlone DEF EndOfChart, Ask, ring, flags, thread, local, ghosts, misread
<1>18. CASE DeviceError
  BY <1>18, PairsLeftAlone DEF DeviceError, Ask, ring, flags, thread, local, ghosts, misread
<1>19. CASE Fails
  BY <1>19, PairsLeftAlone DEF Fails, ring, flags, thread, local, ghosts, misread
<1>20. CASE Again
  BY <1>20, PairsLeftAlone DEF Again, Ask, ring, flags, thread, local, ghosts, misread
<1>21. CASE Stopped
  BY <1>21, PairsLeftAlone DEF Stopped, ring, flags, thread, local, ghosts, misread
<1>22. CASE Accepted
  BY <1>22, PairsLeftAlone DEF Accepted, ring, flags, thread, local, ghosts, misread
<1>23. CASE ButtonClrGrf
  BY <1>23, PairsLeftAlone DEF ButtonClrGrf, ring, flags, thread, local, ghosts, misread
<1>24. CASE ZeroTx
  BY <1>24, IndicesSetBack DEF ZeroTx, ring, flags, thread, local, ghosts, misread, Restart
<1>25. CASE ZeroRx
  BY <1>25, IndicesSetBack DEF ZeroRx, ring, flags, thread, local, ghosts, misread
<1>26. CASE Resume
  BY <1>26, PairsLeftAlone DEF Resume, ring, flags, thread, local, ghosts, misread
<1>27. CASE UNCHANGED vars  BY <1>27, PairsLeftAlone DEF vars, ring, flags, thread, local, ghosts, misread
<1>28. QED
  BY <1>1, <1>2, <1>3, <1>4, <1>5, <1>6, <1>6a, <1>7, <1>8, <1>9, <1>10, <1>11,
     <1>12, <1>13, <1>14, <1>15, <1>16, <1>17, <1>18, <1>19, <1>20, <1>21,
     <1>22, <1>23, <1>24, <1>25, <1>26, <1>27
     DEF Next, QueryPort, Charting, Handlers

(* With the device's frames and the points of an even number of samples, a *)
(* current is never charted as a voltage, however the two threads          *)
(* interleave, overrun each other or set the indices back, and whatever    *)
(* packets of whatever lengths are misread for frames: the mask of         *)
(* StartFrame takes the frame after an odd one to an even place again.     *)
(* Odd is then only where a frame ends.                                    *)
THEOREM PairsStay ==
  ASSUME FRAME % 2 = 0, WIDTH % 2 = 0
  PROVE  Spec => []PairsKept
<1>1. Init => PairsKept /\ InStep  BY RingAssumption DEF Init, PairsKept, InStep
<1>2. NumbersOK /\ PairsKept /\ InStep /\ [Next]_vars => PairsKept' /\ InStep'
  BY PairsStep
<1>3. QED  BY <1>1, <1>2, InitTyped, NumbersKept, PTL DEF Spec

-------------------------------------------------------------------------------
(* Places are counted from ismprx on, round the ring: how far p is from it,*)
(* where the next sample goes, how much of a frame is stored and not yet   *)
(* published, how far AddCrfSamples has got, and the number of the sample  *)
(* at ismprx.                                                              *)
Off(p)  == IF p >= ismprx THEN p - ismprx ELSE p - ismprx + SIZE
Writer  == IF thr = "frame" THEN itx ELSE ismptx
Partial == IF thr = "frame" THEN FRAME - left ELSE 0
Here    == IF gui \in {"load", "chart", "publish"} THEN Off(irx) ELSE 0
First   == stored - Off(Writer) + 1

(* The ring holds the latest samples in their order up to the writer, the  *)
(* chart is somewhere in the published ones, and what it has taken last is *)
(* before what comes next; right before, if nothing was set back.          *)
InSequence ==
  /\ Off(ismptx) + Partial = Off(Writer)
  /\ \A p \in 0 .. SIZE - 1 : Off(p) < Off(Writer) => bufsmp[p] = First + Off(p)

ChartWithin ==
  /\ gui = "load" => irx = ismprx
  /\ gui = "chart" => Off(irx) <= Off(end) /\ Off(end) <= Off(ismptx)
  /\ gui = "publish" => Off(irx) <= Off(ismptx)

ChartNext ==
  /\ charted.last < First + Here
  /\ charted.next \in {0, First + Here}

(* Where the indices need not agree: between setting back the one and the  *)
(* other, and with a full chart, behind which a purge may have been.       *)
Unsettled ==
  \/ thr = "purge rx" \/ gui \in {"zero", "zero rx"}
  \/ shown >= MAXSAMPLES /\ gui # "resume"

(* What the flags and the answered command give: no frame is under way     *)
(* when a handler sets the indices back.                                   *)
HandOver ==
  /\ gui \in {"zero", "zero rx", "resume"} => ~ SamplesEna
  /\ gui = "ask" /\ task.name \in {"start", "stop"} => ~ SamplesEna
  /\ gui = "ask" /\ task.name \in {"start", "stop"} /\ ask = "answered" => thr # "frame"
  /\ gui = "zero" /\ task.name # "clear" => thr # "frame"
  /\ gui \in {"zero rx", "resume"} => thr # "frame"

Purging ==
  /\ thr = "purge rx" =>
       /\ ismptx = 0 /\ charted.next = 0 /\ gui \notin {"load", "chart"}
       /\ gui = "publish" => shown >= MAXSAMPLES
  /\ gui = "zero rx" => ismptx = 0 /\ charted.next = 0
  /\ gui = "full" \/ (gui = "ask" /\ task.name = "end") => shown >= MAXSAMPLES

Charted ==
  /\ charted \in [last : Nat, next : Nat, wrong : {FALSE}]
  /\ charted.last <= stored

Settled == InSequence /\ ChartWithin /\ ChartNext

OrderInv == HandOver /\ Purging /\ Charted /\ (Unsettled \/ Settled)

ChartInv == overrun \/ raced \/ misreads # 0 \/ OrderInv

LEMMA OffRange ==
  ASSUME NumbersOK
  PROVE  /\ \A p \in 0 .. SIZE - 1 : Off(p) \in 0 .. SIZE - 1
         /\ \A p, q \in 0 .. SIZE - 1 : Off(p) = Off(q) => p = q
         /\ Off(ismprx) = 0
BY Geometry DEF NumbersOK, Off

LEMMA PointsCounted ==
  ASSUME NumbersOK
  PROVE  shown \in 0 .. MAXSAMPLES /\ (shown < MAXSAMPLES \/ shown >= MAXSAMPLES)
BY Geometry DEF NumbersOK

(* The excuses last. *)
LEMMA ExcusesStay ==
  ASSUME FlagsOK, NumbersOK, [Next]_vars
  PROVE  (overrun => overrun') /\ (raced => raced') /\ (misreads # 0 => misreads' # 0)
<1>1. CASE CheckPurge  BY <1>1 DEF CheckPurge, ghosts, misread
<1>2. CASE PurgeTx  BY <1>2 DEF PurgeTx, ghosts, misread
<1>3. CASE PurgeRx  BY <1>3 DEF PurgeRx, ghosts, misread
<1>4. CASE Send  BY <1>4 DEF Send, ghosts, misread
<1>5. CASE TakeAnswer  BY <1>5 DEF TakeAnswer, ghosts, misread
<1>6. CASE StartFrame  BY <1>6 DEF StartFrame, ghosts, misread
<1>6a. CASE StartMisread
  <2>1. misreads' = misreads + 1 /\ overrun' = overrun /\ raced' = raced  BY <1>6a DEF StartMisread
  <2>2. misreads + 1 # 0  BY DEF NumbersOK
  <2>3. QED  BY <2>1, <2>2
<1>7. CASE StoreSample  BY <1>7 DEF StoreSample, ghosts, misread
<1>8. CASE PublishTx  BY <1>8 DEF PublishTx, ghosts, misread
<1>9. CASE NoMorePackets  BY <1>9 DEF NoMorePackets, ghosts, misread
<1>10. CASE Timer  BY <1>10 DEF Timer, ghosts, misread
<1>11. CASE LoadTx  BY <1>11 DEF LoadTx, ghosts, misread
<1>12. CASE ChartPoint  BY <1>12 DEF ChartPoint, ghosts, misread
<1>13. CASE ChartDone  BY <1>13 DEF ChartDone, ghosts, misread
<1>14. CASE PublishRx  BY <1>14 DEF PublishRx, ghosts, misread
<1>15. CASE ButtonStartADC  BY <1>15 DEF ButtonStartADC, Ask, ghosts, misread
<1>16. CASE ButtonStop  BY <1>16 DEF ButtonStop, Ask, ghosts, misread
<1>17. CASE EndOfChart  BY <1>17 DEF EndOfChart, Ask, ghosts, misread
<1>18. CASE DeviceError  BY <1>18 DEF DeviceError, Ask, ghosts, misread
<1>19. CASE Fails  BY <1>19 DEF Fails, ghosts, misread
<1>20. CASE Again  BY <1>20 DEF Again, Ask, ghosts, misread
<1>21. CASE Stopped  BY <1>21 DEF Stopped, ghosts, misread
<1>22. CASE Accepted  BY <1>22 DEF Accepted, ghosts, misread
<1>23. CASE ButtonClrGrf  BY <1>23 DEF ButtonClrGrf, ghosts, misread
<1>24. CASE ZeroTx  BY <1>24 DEF ZeroTx, ghosts, misread
<1>25. CASE ZeroRx  BY <1>25 DEF ZeroRx, ghosts, misread
<1>26. CASE Resume  BY <1>26 DEF Resume, ghosts, misread
<1>27. CASE UNCHANGED vars  BY <1>27 DEF vars, ghosts, misread
<1>28. QED
  BY <1>1, <1>2, <1>3, <1>4, <1>5, <1>6, <1>6a, <1>7, <1>8, <1>9, <1>10, <1>11,
     <1>12, <1>13, <1>14, <1>15, <1>16, <1>17, <1>18, <1>19, <1>20, <1>21,
     <1>22, <1>23, <1>24, <1>25, <1>26, <1>27
     DEF Next, QueryPort, Charting, Handlers

LEMMA HandOverKept ==
  ASSUME FlagsOK, PlacesOK, HandOver, [Next]_vars, ~ raced'
  PROVE  HandOver'
<1> USE DEF HandOver
<1>1. CASE CheckPurge  BY <1>1 DEF CheckPurge, flags, thread, local
<1>2. CASE PurgeTx  BY <1>2 DEF PurgeTx, flags, thread, local
<1>3. CASE PurgeRx  BY <1>3 DEF PurgeRx, flags, thread, local
<1>4. CASE Send  BY <1>4 DEF Send, flags, thread, local
<1>5. CASE TakeAnswer  BY <1>5 DEF TakeAnswer, flags, thread, local
<1>6. CASE StartFrame  BY <1>6 DEF StartFrame, flags, thread, local
<1>6a. CASE StartMisread  BY <1>6a DEF StartMisread, flags, thread, local
<1>7. CASE StoreSample  BY <1>7 DEF StoreSample, flags, thread, local
<1>8. CASE PublishTx  BY <1>8 DEF PublishTx, flags, thread, local
<1>9. CASE NoMorePackets  BY <1>9 DEF NoMorePackets, flags, thread, local
<1>10. CASE Timer  BY <1>10 DEF Timer, flags, thread, local
<1>11. CASE LoadTx  BY <1>11 DEF LoadTx, flags, thread, local
<1>12. CASE ChartPoint  BY <1>12 DEF ChartPoint, flags, thread, local
<1>13. CASE ChartDone  BY <1>13 DEF ChartDone, flags, thread, local
<1>14. CASE PublishRx  BY <1>14 DEF PublishRx, flags, thread, local
<1>15. CASE ButtonStartADC  BY <1>15 DEF ButtonStartADC, Ask, flags, thread, local
<1>16. CASE ButtonStop  BY <1>16 DEF ButtonStop, Ask, flags, thread, local
<1>17. CASE EndOfChart  BY <1>17 DEF EndOfChart, Ask, flags, thread, local
<1>18. CASE DeviceError  BY <1>18 DEF DeviceError, Ask, flags, thread, local
<1>19. CASE Fails  BY <1>19 DEF Fails, flags, thread, local
<1>20. CASE Again  BY <1>20 DEF Again, Ask, flags, thread, local
<1>21. CASE Stopped  BY <1>21 DEF Stopped, flags, thread, local
<1>22. CASE Accepted
  <2>1. /\ gui = "ask" /\ ask = "answered" /\ task.name \in {"start", "stop"}
        /\ gui' = "zero" /\ thr' = thr /\ SamplesEna' = SamplesEna
    BY <1>22 DEF Accepted, Answered, thread
  <2>2. thr # "frame" /\ ~ SamplesEna  BY <2>1
  <2>3. QED  BY <2>1, <2>2
<1>23. CASE ButtonClrGrf  BY <1>23 DEF ButtonClrGrf, flags, thread, local
<1>24. CASE ZeroTx  BY <1>24 DEF ZeroTx, FlagsOK, flags, thread, local
<1>25. CASE ZeroRx  BY <1>25 DEF ZeroRx, flags, thread, local
<1>26. CASE Resume  BY <1>26 DEF Resume, flags, thread, local
<1>27. CASE UNCHANGED vars
  <2>1. /\ gui' = gui /\ thr' = thr /\ ask' = ask /\ task' = task /\ SamplesEna' = SamplesEna
    BY <1>27 DEF vars, flags, thread, local
  <2>2. QED  BY <2>1
<1>28. QED
  BY <1>1, <1>2, <1>3, <1>4, <1>5, <1>6, <1>6a, <1>7, <1>8, <1>9, <1>10, <1>11,
     <1>12, <1>13, <1>14, <1>15, <1>16, <1>17, <1>18, <1>19, <1>20, <1>21,
     <1>22, <1>23, <1>24, <1>25, <1>26, <1>27
     DEF Next, QueryPort, Charting, Handlers

LEMMA PurgingKept ==
  ASSUME FlagsOK, NumbersOK, Charted, HandOver, Purging, [Next]_vars, ~ raced'
  PROVE  Purging'
<1> USE DEF Purging
<1>1. CASE CheckPurge  BY <1>1, Geometry DEF CheckPurge, ring, thread, local, ghosts
<1>2. CASE PurgeTx
  <2>1. /\ ismptx' = 0 /\ thr' = "purge rx" /\ charted' = [charted EXCEPT !.next = 0]
        /\ raced' = (raced \/ AddingSamples)
        /\ gui' = gui /\ shown' = shown /\ task' = task
    BY <1>2 DEF PurgeTx, Restart, local
  <2>2. charted'.next = 0  BY <2>1 DEF Charted
  <2>3. ~ AddingSamples  BY <2>1 DEF FlagsOK
  <2>4. gui \in {"load", "chart"} => shown < MAXSAMPLES  BY DEF NumbersOK
  <2>5. gui \notin {"load", "chart"}  BY <2>3, <2>4 DEF AddingSamples
  <2>6. gui = "publish" => ~ (shown < MAXSAMPLES)  BY <2>3 DEF AddingSamples
  <2>7. gui = "publish" => shown >= MAXSAMPLES  BY <2>6, PointsCounted
  <2>8. QED  BY <2>1, <2>2, <2>5, <2>7
<1>3. CASE PurgeRx  BY <1>3, Geometry DEF PurgeRx, ring, thread, local, ghosts
<1>4. CASE Send  BY <1>4, Geometry DEF Send, ring, thread, local, ghosts
<1>5. CASE TakeAnswer  BY <1>5, Geometry DEF TakeAnswer, ring, thread, local, ghosts
<1>6. CASE StartFrame  BY <1>6, Geometry DEF StartFrame, ring, thread, local, ghosts
<1>6a. CASE StartMisread  BY <1>6a, Geometry DEF StartMisread, ring, thread, local, ghosts
<1>7. CASE StoreSample  BY <1>7, Geometry DEF StoreSample, ring, thread, local, ghosts
<1>8. CASE PublishTx
  <2>1. /\ thr = "frame" /\ thr' = "packets"
        /\ gui' = gui /\ shown' = shown /\ task' = task
    BY <1>8 DEF PublishTx, local
  <2>2. gui # "zero rx"  BY <2>1 DEF HandOver
  <2>3. QED  BY <2>1, <2>2
<1>9. CASE NoMorePackets  BY <1>9, Geometry DEF NoMorePackets, ring, thread, local, ghosts
<1>10. CASE Timer  BY <1>10, Geometry DEF Timer, ring, thread, local, ghosts
<1>11. CASE LoadTx  BY <1>11, Geometry DEF LoadTx, ring, thread, local, ghosts
<1>12. CASE ChartPoint  BY <1>12, Geometry DEF ChartPoint, NumbersOK, ring, thread, local, ghosts
<1>13. CASE ChartDone  BY <1>13, Geometry DEF ChartDone, ring, thread, local, ghosts
<1>14. CASE PublishRx  BY <1>14, Geometry DEF PublishRx, ring, thread, local, ghosts
<1>15. CASE ButtonStartADC  BY <1>15, Geometry DEF ButtonStartADC, Ask, ring, thread, local, ghosts
<1>16. CASE ButtonStop  BY <1>16, Geometry DEF ButtonStop, Ask, ring, thread, local, ghosts
<1>17. CASE EndOfChart  BY <1>17, Geometry DEF EndOfChart, Ask, ring, thread, local, ghosts
<1>18. CASE DeviceError  BY <1>18, Geometry DEF DeviceError, Ask, ring, thread, local, ghosts
<1>19. CASE Fails  BY <1>19, Geometry DEF Fails, ring, thread, local, ghosts
<1>20. CASE Again  BY <1>20, Geometry DEF Again, Ask, ring, thread, local, ghosts
<1>21. CASE Stopped  BY <1>21, Geometry DEF Stopped, ring, thread, local, ghosts
<1>22. CASE Accepted  BY <1>22, Geometry DEF Accepted, ring, thread, local, ghosts
<1>23. CASE ButtonClrGrf  BY <1>23, Geometry DEF ButtonClrGrf, ring, thread, local, ghosts
<1>24. CASE ZeroTx  BY <1>24, Geometry DEF ZeroTx, Restart, Charted, AddingSamples, NumbersOK, ring, thread, local, ghosts
<1>25. CASE ZeroRx  BY <1>25, Geometry DEF ZeroRx, ring, thread, local, ghosts
<1>26. CASE Resume  BY <1>26, Geometry DEF Resume, ring, thread, local, ghosts
<1>27. CASE UNCHANGED vars
  <2>1. /\ gui' = gui /\ thr' = thr /\ task' = task /\ ismptx' = ismptx /\ charted' = charted
        /\ shown' = shown
    BY <1>27 DEF vars, ring, thread, local, ghosts
  <2>2. QED  BY <2>1
<1>28. QED
  BY <1>1, <1>2, <1>3, <1>4, <1>5, <1>6, <1>6a, <1>7, <1>8, <1>9, <1>10, <1>11,
     <1>12, <1>13, <1>14, <1>15, <1>16, <1>17, <1>18, <1>19, <1>20, <1>21,
     <1>22, <1>23, <1>24, <1>25, <1>26, <1>27
     DEF Next, QueryPort, Charting, Handlers

(* Everywhere but in AddCrfSamples the chart is where ismprx says. *)
Elsewhere(g) == g \notin {"load", "chart", "publish"}

LEMMA PlacesLeftAlone ==
  ASSUME bufsmp' = bufsmp, ismprx' = ismprx, ismptx' = ismptx, itx' = itx,
         left' = left, stored' = stored,
         thr' = thr \/ (thr # "frame" /\ thr' # "frame")
  PROVE  /\ \A p : Off(p)' = Off(p)
         /\ Writer' = Writer /\ Partial' = Partial /\ First' = First
         /\ InSequence => InSequence'
<1>1. \A p : Off(p)' = Off(p)  BY DEF Off
<1>2. Writer' = Writer /\ Partial' = Partial  BY DEF Writer, Partial
<1>3. First' = First  BY <1>1, <1>2 DEF First, Off
<1>4. InSequence => InSequence'
  <2> SUFFICES ASSUME InSequence PROVE InSequence'  OBVIOUS
  <2>1. Off(ismptx)' = Off(ismptx) /\ Off(Writer)' = Off(Writer)  BY <1>2 DEF Off
  <2>2. (Off(ismptx) + Partial = Off(Writer))'  BY <2>1, <1>2 DEF InSequence
  <2>3. (\A p \in 0 .. SIZE - 1 : Off(p) < Off(Writer) => bufsmp[p] = First + Off(p))'
    BY <1>1, <1>3, <2>1 DEF InSequence
  <2>4. QED  BY <2>2, <2>3 DEF InSequence
<1>5. QED  BY <1>1, <1>2, <1>3, <1>4

LEMMA SettledLeftAlone ==
  ASSUME Settled,
         bufsmp' = bufsmp, ismprx' = ismprx, ismptx' = ismptx, itx' = itx,
         left' = left, stored' = stored, irx' = irx, end' = end, charted' = charted,
         thr' = thr \/ (thr # "frame" /\ thr' # "frame"),
         gui' = gui \/ (Elsewhere(gui) /\ Elsewhere(gui'))
  PROVE  Settled'
<1>1. \A p : Off(p)' = Off(p)  BY PlacesLeftAlone
<1>2. First' = First  BY PlacesLeftAlone
<1>3. InSequence'  BY PlacesLeftAlone DEF Settled
<1>4. Off(irx)' = Off(irx) /\ Off(end)' = Off(end) /\ Off(ismptx)' = Off(ismptx)
  BY DEF Off
<1>5. Here' = Here  BY <1>4 DEF Here, Elsewhere
<1>6. ChartWithin'  BY <1>4 DEF Settled, ChartWithin, Elsewhere
<1>7. ChartNext'  BY <1>2, <1>5 DEF Settled, ChartNext
<1>8. QED  BY <1>3, <1>6, <1>7 DEF Settled

(* Set back to the start of the ring, both indices are where the next       *)
(* sample goes.                                                            *)
LEMMA SettledAtStart ==
  ASSUME NumbersOK, Charted, ismprx' = 0, ismptx' = 0, stored' = stored, charted' = charted,
         charted.next = 0, thr' # "frame", Elsewhere(gui')
  PROVE  Settled'
<1>1. Writer' = 0 /\ Partial' = 0 /\ Here' = 0  BY DEF Writer, Partial, Here, Elsewhere
<1>2. Off(ismptx)' = 0 /\ Off(Writer)' = 0
  BY <1>1 DEF Off
<1>3. stored \in Nat  BY Geometry DEF NumbersOK
<1>4. First' = stored + 1  BY <1>2, <1>3 DEF First
<1>5. \A p \in 0 .. SIZE - 1 : ~ (Off(p)' < 0)  BY Geometry DEF Off
<1>6. InSequence'  BY <1>1, <1>2, <1>5 DEF InSequence
<1>7. ChartWithin'  BY DEF ChartWithin, Elsewhere
<1>8. charted.last \in Nat /\ charted.last <= stored  BY DEF Charted
<1>9. ChartNext'
  <2>1. charted'.last < First' + Here'  BY <1>1, <1>3, <1>4, <1>8
  <2>2. QED  BY <2>1 DEF ChartNext
<1>10. QED  BY <1>6, <1>7, <1>9 DEF Settled

(* The next place of the ring is one further, unless it is ismprx. *)
LEMMA NextPlace ==
  ASSUME NumbersOK, NEW p \in 0 .. SIZE - 1, NEW k \in Nat, Off(p) + k < SIZE
  PROVE  (p + k) % SIZE \in 0 .. SIZE - 1 /\ Off((p + k) % SIZE) = Off(p) + k
<1>1. ismprx \in 0 .. SIZE - 1 /\ SIZE \in Nat \ {0}  BY Geometry DEF NumbersOK
<1>2. p + k < 2 * SIZE  BY <1>1 DEF Off
<1>3. \A n \in Nat : n < SIZE => n % SIZE = n  BY <1>1
<1>4. \A n \in Nat : n >= SIZE /\ n < 2 * SIZE => n % SIZE = n - SIZE
  <2> SUFFICES ASSUME NEW n \in Nat, n >= SIZE, n < 2 * SIZE PROVE n % SIZE = n - SIZE
    OBVIOUS
  <2>1. n = SIZE * (n \div SIZE) + (n % SIZE) /\ n % SIZE \in 0 .. SIZE - 1 /\ n \div SIZE \in Nat
    BY <1>1, Division
  <2>2. n \div SIZE = 1  BY <1>1
  <2>3. QED  BY <1>1, <2>1, <2>2
<1>5. (p + k) % SIZE = IF p + k < SIZE THEN p + k ELSE p + k - SIZE
  BY <1>1, <1>2, <1>3, <1>4
<1>6. QED  BY <1>1, <1>5 DEF Off

(* What the mask of StartFrame needs: no packet was misread, a frame begins *)
(* and ends at an even place, and with two channels so do the indices of    *)
(* the chart.                                                               *)
Aligned ==
  /\ ~ noise /\ ismptx % 2 = 0
  /\ thr = "frame" => (itx + left) % 2 = 0 /\ left <= FRAME
  /\ WIDTH = 2 => ismprx % 2 = 0 /\ irx % 2 = 0 /\ end % 2 = 0

LEMMA AlignedLeftAlone ==
  ASSUME Aligned, itx' = itx, left' = left, noise' = noise,
         thr' = thr \/ (thr # "frame" /\ thr' # "frame"),
         ismprx' \in {0, ismprx, irx}, ismptx' \in {0, ismptx},
         irx' \in {irx, ismprx}, end' \in {end, ismptx}
  PROVE  Aligned'
<1>1. 0 % 2 = 0  OBVIOUS
<1>2. ismptx' % 2 = 0 /\ (WIDTH = 2 => ismprx' % 2 = 0 /\ irx' % 2 = 0 /\ end' % 2 = 0)
  BY <1>1 DEF Aligned
<1>3. QED  BY <1>2 DEF Aligned

LEMMA AlignedKept ==
  ASSUME FRAME % 2 = 0, NumbersOK, Aligned, [Next]_vars, misreads' = 0
  PROVE  Aligned'
<1>1. CASE CheckPurge  BY <1>1, AlignedLeftAlone DEF CheckPurge, ring, thread, local
<1>2. CASE PurgeTx  BY <1>2, AlignedLeftAlone DEF PurgeTx, ring, thread, local
<1>3. CASE PurgeRx  BY <1>3, AlignedLeftAlone DEF PurgeRx, ring, thread, local
<1>4. CASE Send  BY <1>4, AlignedLeftAlone DEF Send, ring, thread, local
<1>5. CASE TakeAnswer  BY <1>5, AlignedLeftAlone DEF TakeAnswer, ring, thread, local
<1>6. CASE StartFrame
  <2>1. /\ itx' = Begin(ismptx) /\ left' = FRAME /\ noise' = FALSE
        /\ ismptx' = ismptx /\ ismprx' = ismprx /\ irx' = irx /\ end' = end
    BY <1>6 DEF StartFrame, Samples, ring, local
  <2>2. itx' \in Nat /\ itx' % 2 = 0  BY <2>1, BeginInRing, Geometry DEF NumbersOK
  <2>3. (itx' + left') % 2 = 0 /\ left' <= FRAME  BY <2>1, <2>2, Geometry, EvenSum
  <2>4. QED  BY <2>1, <2>3 DEF Aligned
<1>6a. CASE StartMisread  BY <1>6a DEF StartMisread, NumbersOK
<1>7. CASE StoreSample
  <2>1. /\ thr = "frame" /\ left > 0 /\ left' = left - 1 /\ itx' = (itx + 1) % SIZE
        /\ noise' = noise
        /\ ismptx' = ismptx /\ ismprx' = ismprx /\ irx' = irx /\ end' = end
    BY <1>7 DEF StoreSample, After, local
  <2>2. itx \in Nat /\ left \in Nat /\ FRAME \in Nat  BY Geometry DEF NumbersOK
  <2>3. (itx + left) % 2 = 0 /\ left <= FRAME  BY <2>1 DEF Aligned
  <2>4. itx' \in Nat /\ itx' % 2 = (itx + 1) % 2
    <3>1. (itx + 1) % SIZE \in 0 .. SIZE - 1 /\ ((itx + 1) % SIZE) % 2 = (itx + 1) % 2
      BY <2>2, InRing
    <3>2. QED  BY <2>1, <3>1, Geometry
  <2>5. (itx' + left') % 2 = 0 /\ left' <= FRAME  BY <2>1, <2>2, <2>3, <2>4
  <2>6. QED  BY <2>1, <2>5 DEF Aligned
<1>8. CASE PublishTx
  <2>1. /\ thr = "frame" /\ thr' = "packets" /\ left = 0 /\ ismptx' = itx /\ noise' = noise
        /\ ismprx' = ismprx /\ irx' = irx /\ end' = end
    BY <1>8 DEF PublishTx, local
  <2>2. itx \in Nat  BY DEF NumbersOK
  <2>3. (itx + left) % 2 = 0  BY <2>1 DEF Aligned
  <2>4. itx % 2 = 0  BY <2>1, <2>2, <2>3
  <2>5. QED  BY <2>1, <2>4 DEF Aligned
<1>9. CASE NoMorePackets  BY <1>9, AlignedLeftAlone DEF NoMorePackets, ring, thread, local
<1>10. CASE Timer  BY <1>10, AlignedLeftAlone DEF Timer, ring, thread, local
<1>11. CASE LoadTx  BY <1>11, AlignedLeftAlone DEF LoadTx, ring, thread, local
<1>12. CASE ChartPoint
  <2>1. /\ irx' = (irx + WIDTH) % SIZE
        /\ ismptx' = ismptx /\ ismprx' = ismprx /\ thr' = thr /\ itx' = itx /\ left' = left
        /\ end' = end /\ noise' = noise
    BY <1>12 DEF ChartPoint, ring, thread
  <2>2. WIDTH = 2 => irx' % 2 = 0
    <3> SUFFICES ASSUME WIDTH = 2 PROVE irx' % 2 = 0  OBVIOUS
    <3>1. irx \in Nat /\ irx % 2 = 0  BY DEF NumbersOK, Aligned
    <3>2. irx + 2 \in Nat /\ (irx + 2) % 2 = 0  BY <3>1
    <3>3. ((irx + 2) % SIZE) % 2 = (irx + 2) % 2  BY <3>2, InRing
    <3>4. QED  BY <2>1, <3>2, <3>3
  <2>3. QED  BY <2>1, <2>2 DEF Aligned
<1>13. CASE ChartDone  BY <1>13, AlignedLeftAlone DEF ChartDone, ring, thread, local
<1>14. CASE PublishRx  BY <1>14, AlignedLeftAlone DEF PublishRx, ring, thread, local
<1>15. CASE ButtonStartADC  BY <1>15, AlignedLeftAlone DEF ButtonStartADC, Ask, ring, thread, local
<1>16. CASE ButtonStop  BY <1>16, AlignedLeftAlone DEF ButtonStop, Ask, ring, thread, local
<1>17. CASE EndOfChart  BY <1>17, AlignedLeftAlone DEF EndOfChart, Ask, ring, thread, local
<1>18. CASE DeviceError  BY <1>18, AlignedLeftAlone DEF DeviceError, Ask, ring, thread, local
<1>19. CASE Fails  BY <1>19, AlignedLeftAlone DEF Fails, ring, thread, local
<1>20. CASE Again  BY <1>20, AlignedLeftAlone DEF Again, Ask, ring, thread, local
<1>21. CASE Stopped  BY <1>21, AlignedLeftAlone DEF Stopped, ring, thread, local
<1>22. CASE Accepted  BY <1>22, AlignedLeftAlone DEF Accepted, ring, thread, local
<1>23. CASE ButtonClrGrf  BY <1>23, AlignedLeftAlone DEF ButtonClrGrf, ring, thread, local
<1>24. CASE ZeroTx  BY <1>24, AlignedLeftAlone DEF ZeroTx, ring, thread, local
<1>25. CASE ZeroRx  BY <1>25, AlignedLeftAlone DEF ZeroRx, ring, thread, local
<1>26. CASE Resume  BY <1>26, AlignedLeftAlone DEF Resume, ring, thread, local
<1>27. CASE UNCHANGED vars  BY <1>27, AlignedLeftAlone DEF vars, ring, thread, local
<1>28. QED
  BY <1>1, <1>2, <1>3, <1>4, <1>5, <1>6, <1>6a, <1>7, <1>8, <1>9, <1>10, <1>11,
     <1>12, <1>13, <1>14, <1>15, <1>16, <1>17, <1>18, <1>19, <1>20, <1>21,
     <1>22, <1>23, <1>24, <1>25, <1>26, <1>27
     DEF Next, QueryPort, Charting, Handlers

(* A frame begins where the last one ended: the mask changes nothing.      *)
LEMMA FrameStarts ==
  ASSUME NumbersOK, Aligned, Settled, StartFrame
  PROVE  Settled'
<1>1. /\ thr # "frame" /\ thr' = "frame" /\ itx' = Begin(ismptx) /\ left' = FRAME
      /\ bufsmp' = bufsmp /\ ismprx' = ismprx /\ ismptx' = ismptx /\ gui' = gui
      /\ irx' = irx /\ end' = end /\ stored' = stored /\ charted' = charted
  BY DEF StartFrame, Samples, ring, local, ghosts
<1>2. itx' = ismptx
  <2>1. ismptx \in Nat /\ ismptx % 2 = 0  BY Geometry DEF NumbersOK, Aligned
  <2>2. QED  BY <1>1, <2>1 DEF Begin
<1>3. Writer' = Writer  BY <1>1, <1>2 DEF Writer
<1>4. Partial = 0 /\ Partial' = 0
  <2>1. Partial = 0  BY <1>1 DEF Partial
  <2>2. Partial' = FRAME - FRAME  BY <1>1 DEF Partial
  <2>3. QED  BY <2>1, <2>2, Geometry
<1>5. \A p : Off(p)' = Off(p)  BY <1>1 DEF Off
<1>6. Off(Writer)' = Off(Writer) /\ Off(ismptx)' = Off(ismptx)
      /\ Off(irx)' = Off(irx) /\ Off(end)' = Off(end)
  BY <1>1, <1>3 DEF Off
<1>7. First' = First  BY <1>1, <1>6 DEF First
<1>8. InSequence'
  <2>1. (Off(ismptx) + Partial = Off(Writer))'  BY <1>4, <1>6 DEF Settled, InSequence
  <2>2. (\A p \in 0 .. SIZE - 1 : Off(p) < Off(Writer) => bufsmp[p] = First + Off(p))'
    BY <1>1, <1>5, <1>6, <1>7 DEF Settled, InSequence
  <2>3. QED  BY <2>1, <2>2 DEF InSequence
<1>9. ChartWithin'  BY <1>1, <1>6 DEF Settled, ChartWithin
<1>10. Here' = Here  BY <1>1, <1>6 DEF Here
<1>11. ChartNext'  BY <1>1, <1>7, <1>10 DEF Settled, ChartNext
<1>12. QED  BY <1>8, <1>9, <1>11 DEF Settled

(* A sample is stored right behind the last one. *)
LEMMA SampleFollows ==
  ASSUME NumbersOK, Aligned, Settled, StoreSample, ~ overrun'
  PROVE  Settled'
<1>1. /\ thr = "frame" /\ thr' = "frame" /\ left > 0 /\ left' = left - 1
      /\ itx' = (itx + 1) % SIZE /\ stored' = stored + 1
      /\ bufsmp' = [bufsmp EXCEPT ![itx] = stored + 1]
      /\ ismprx' = ismprx /\ ismptx' = ismptx /\ gui' = gui
      /\ irx' = irx /\ end' = end /\ charted' = charted
  BY DEF StoreSample, After, local, Aligned
<1>2. (itx + 1) % SIZE # ismprx  BY DEF StoreSample, After
<1>3. /\ itx \in 0 .. SIZE - 1 /\ ismptx \in 0 .. SIZE - 1 /\ ismprx \in 0 .. SIZE - 1
      /\ stored \in Nat /\ left \in Nat /\ FRAME \in Nat /\ SIZE \in Nat \ {0}
  BY Geometry DEF NumbersOK
<1>4. Off(itx) \in 0 .. SIZE - 1 /\ Off(ismptx) \in 0 .. SIZE - 1  BY <1>3, OffRange
<1>5. Off(itx) + 1 < SIZE
  <2> SUFFICES ASSUME ~ (Off(itx) + 1 < SIZE) PROVE FALSE  OBVIOUS
  <2>1. Off(itx) = SIZE - 1  BY <1>3, <1>4
  <2>2. \/ itx + 1 = ismprx
        \/ itx = SIZE - 1 /\ ismprx = 0
    BY <1>3, <2>1 DEF Off
  <2>3. (itx + 1) % SIZE = ismprx
    <3>1. CASE itx + 1 = ismprx  BY <1>3, <3>1
    <3>2. CASE itx = SIZE - 1 /\ ismprx = 0  BY <1>3, <3>2
    <3>3. QED  BY <2>2, <3>1, <3>2
  <2>4. QED  BY <1>2, <2>3
<1>6. (itx + 1) % SIZE \in 0 .. SIZE - 1 /\ Off((itx + 1) % SIZE) = Off(itx) + 1
  BY <1>3, <1>5, NextPlace
<1>7. \A p : Off(p)' = Off(p)  BY <1>1 DEF Off
<1>8. Writer = itx /\ Writer' = (itx + 1) % SIZE  BY <1>1 DEF Writer
<1>9. /\ Off(Writer) = Off(itx) /\ Off(Writer)' = Off(itx) + 1
      /\ Off(ismptx)' = Off(ismptx) /\ Off(irx)' = Off(irx) /\ Off(end)' = Off(end)
  BY <1>1, <1>6, <1>8 DEF Off
<1>10. First = stored - Off(itx) + 1 /\ First' = stored - Off(itx) + 1
  <2>1. First' = (stored + 1) - (Off(itx) + 1) + 1  BY <1>1, <1>9 DEF First
  <2>2. QED  BY <1>3, <1>4, <1>9, <2>1 DEF First
<1>11. Off(ismptx)' + Partial' = Off(Writer)'
  <2>1. Off(ismptx) + (FRAME - left) = Off(itx)  BY <1>1, <1>9 DEF Settled, InSequence, Partial
  <2>2. Partial' = FRAME - (left - 1)  BY <1>1 DEF Partial
  <2>3. QED  BY <1>3, <1>4, <1>9, <2>1, <2>2
<1>12. ASSUME NEW p \in 0 .. SIZE - 1, Off(p)' < Off(Writer)'
       PROVE  bufsmp'[p] = First' + Off(p)'
  <2>1. Off(p) \in 0 .. SIZE - 1 /\ Off(p) < Off(itx) + 1  BY <1>7, <1>9, <1>12, OffRange
  <2>2. CASE p = itx
    <3>1. bufsmp'[p] = stored + 1  BY <1>1, <1>3, <2>2 DEF NumbersOK
    <3>2. First + Off(p) = stored + 1  BY <1>3, <1>4, <1>10, <2>2
    <3>3. QED  BY <1>7, <1>10, <3>1, <3>2
  <2>3. CASE p # itx
    <3>1. Off(p) # Off(itx)  BY <1>3, <2>3, OffRange
    <3>2. Off(p) < Off(Writer)  BY <1>4, <1>9, <2>1, <3>1
    <3>3. bufsmp[p] = First + Off(p)  BY <3>2 DEF Settled, InSequence
    <3>4. bufsmp'[p] = bufsmp[p]  BY <1>1, <2>3 DEF NumbersOK
    <3>5. QED  BY <1>7, <1>10, <3>3, <3>4
  <2>4. QED  BY <2>2, <2>3
<1>13. InSequence'  BY <1>11, <1>12 DEF InSequence
<1>14. ChartWithin'  BY <1>1, <1>9 DEF Settled, ChartWithin
<1>15. Here' = Here  BY <1>1, <1>9 DEF Here
<1>16. ChartNext'  BY <1>1, <1>10, <1>15 DEF Settled, ChartNext
<1>17. QED  BY <1>13, <1>14, <1>16 DEF Settled

(* Publishing a frame gives the chart more to take, and moves nothing. *)
LEMMA FramePublished ==
  ASSUME NumbersOK, Settled, PublishTx
  PROVE  Settled'
<1>1. /\ thr = "frame" /\ thr' = "packets" /\ left = 0 /\ ismptx' = itx
      /\ bufsmp' = bufsmp /\ ismprx' = ismprx /\ gui' = gui /\ irx' = irx /\ end' = end
      /\ stored' = stored /\ charted' = charted
  BY DEF PublishTx, local, ghosts
<1>2. Writer = itx /\ Writer' = itx /\ Partial = FRAME - 0 /\ Partial' = 0
  BY <1>1 DEF Writer, Partial
<1>3. \A p : Off(p)' = Off(p)  BY <1>1 DEF Off
<1>4. /\ Off(Writer) = Off(itx) /\ Off(Writer)' = Off(itx) /\ Off(ismptx)' = Off(itx)
      /\ Off(irx)' = Off(irx) /\ Off(end)' = Off(end)
  BY <1>1, <1>2 DEF Off
<1>5. /\ Off(ismptx) \in Nat /\ Off(itx) \in Nat /\ Off(end) \in Nat /\ Off(irx) \in Nat
      /\ FRAME \in Nat
  <2>1. ismptx \in 0 .. SIZE - 1 /\ itx \in 0 .. SIZE - 1 /\ end \in 0 .. SIZE - 1
        /\ irx \in 0 .. SIZE - 1
    BY DEF NumbersOK
  <2>2. QED  BY <2>1, OffRange, Geometry
<1>6. First' = First  BY <1>1, <1>4 DEF First
<1>7. InSequence'
  <2>1. (Off(ismptx) + Partial = Off(Writer))'  BY <1>2, <1>4, <1>5
  <2>2. (\A p \in 0 .. SIZE - 1 : Off(p) < Off(Writer) => bufsmp[p] = First + Off(p))'
    BY <1>1, <1>3, <1>4, <1>6 DEF Settled, InSequence
  <2>3. QED  BY <2>1, <2>2 DEF InSequence
<1>8. Off(ismptx) <= Off(itx)
  <2>1. Off(ismptx) + FRAME = Off(itx)
    BY <1>2, <1>4, <1>5 DEF Settled, InSequence
  <2>2. QED  BY <1>5, <2>1
<1>9. ChartWithin'
  <2>1. gui = "load" => irx = ismprx  BY DEF Settled, ChartWithin
  <2>2. gui = "chart" => Off(irx) <= Off(end) /\ Off(end) <= Off(itx)
    BY <1>5, <1>8 DEF Settled, ChartWithin
  <2>3. gui = "publish" => Off(irx) <= Off(itx)  BY <1>5, <1>8 DEF Settled, ChartWithin
  <2>4. QED  BY <1>1, <1>4, <2>1, <2>2, <2>3 DEF ChartWithin
<1>10. Here' = Here  BY <1>1, <1>4 DEF Here
<1>11. ChartNext'  BY <1>1, <1>6, <1>10 DEF Settled, ChartNext
<1>12. QED  BY <1>7, <1>9, <1>11 DEF Settled

(* The chart begins at ismprx, and ends at what is published then. *)
LEMMA ChartBegins ==
  ASSUME NumbersOK, Settled, Timer
  PROVE  Settled'
<1>1. /\ thr' = thr /\ itx' = itx /\ left' = left /\ bufsmp' = bufsmp /\ ismprx' = ismprx
      /\ ismptx' = ismptx /\ end' = end /\ stored' = stored /\ charted' = charted
      /\ gui = "idle"
      /\ (irx' = ismprx /\ gui' = "load") \/ (irx' = irx /\ gui' = gui)
  BY DEF Timer, ring, thread
<1>2. InSequence'  BY <1>1, PlacesLeftAlone DEF Settled
<1>3. First' = First  BY <1>1, PlacesLeftAlone
<1>4. ChartWithin'  BY <1>1 DEF ChartWithin
<1>5. Here = 0 /\ Here' = 0
  <2>1. Here = 0  BY <1>1 DEF Here
  <2>2. CASE irx' = ismprx /\ gui' = "load"
    <3>1. Off(irx)' = 0  BY <1>1, <2>2 DEF Off, NumbersOK
    <3>2. QED  BY <2>1, <2>2, <3>1 DEF Here
  <2>3. CASE gui' = gui  BY <1>1, <2>1, <2>3 DEF Here
  <2>4. QED  BY <1>1, <2>2, <2>3
<1>6. ChartNext'  BY <1>1, <1>3, <1>5 DEF Settled, ChartNext
<1>7. QED  BY <1>2, <1>4, <1>6 DEF Settled

LEMMA EndLoaded ==
  ASSUME NumbersOK, Settled, LoadTx
  PROVE  Settled'
<1>1. /\ thr' = thr /\ itx' = itx /\ left' = left /\ bufsmp' = bufsmp /\ ismprx' = ismprx
      /\ ismptx' = ismptx /\ irx' = irx /\ end' = ismptx /\ stored' = stored
      /\ charted' = charted /\ gui = "load" /\ gui' = "chart"
  BY DEF LoadTx, ring, thread, ghosts
<1>2. InSequence'  BY <1>1, PlacesLeftAlone DEF Settled
<1>3. First' = First  BY <1>1, PlacesLeftAlone
<1>4. /\ Off(irx)' = Off(irx) /\ Off(end)' = Off(ismptx) /\ Off(ismptx)' = Off(ismptx)
  BY <1>1 DEF Off
<1>5. Off(irx) = 0 /\ Off(ismptx) \in Nat
  <2>1. irx = ismprx  BY <1>1 DEF Settled, ChartWithin
  <2>2. QED  BY <2>1, OffRange DEF NumbersOK
<1>6. ChartWithin'  BY <1>1, <1>4, <1>5 DEF ChartWithin
<1>7. Here' = Here  BY <1>1, <1>4 DEF Here
<1>8. ChartNext'  BY <1>1, <1>3, <1>7 DEF Settled, ChartNext
<1>9. QED  BY <1>2, <1>6, <1>8 DEF Settled

LEMMA ChartMeetsEnd ==
  ASSUME NumbersOK, Settled, ChartDone
  PROVE  Settled'
<1>1. /\ thr' = thr /\ itx' = itx /\ left' = left /\ bufsmp' = bufsmp /\ ismprx' = ismprx
      /\ ismptx' = ismptx /\ irx' = irx /\ end' = end /\ stored' = stored
      /\ charted' = charted /\ gui = "chart" /\ gui' = "publish" /\ irx = end
  BY DEF ChartDone, ring, thread, local, ghosts
<1>2. InSequence'  BY <1>1, PlacesLeftAlone DEF Settled
<1>3. First' = First  BY <1>1, PlacesLeftAlone
<1>4. Off(irx)' = Off(irx) /\ Off(ismptx)' = Off(ismptx)  BY <1>1 DEF Off
<1>5. Off(irx) <= Off(ismptx)  BY <1>1 DEF Settled, ChartWithin
<1>6. ChartWithin'  BY <1>1, <1>4, <1>5 DEF ChartWithin
<1>7. Here' = Here  BY <1>1, <1>4 DEF Here
<1>8. ChartNext'  BY <1>1, <1>3, <1>7 DEF Settled, ChartNext
<1>9. QED  BY <1>2, <1>6, <1>8 DEF Settled

(* What is charted leaves the ring: ismprx, and with it the places, move on. *)
LEMMA ChartPublished ==
  ASSUME NumbersOK, Aligned, Settled, PublishRx
  PROVE  Settled'
<1>1. /\ thr' = thr /\ itx' = itx /\ left' = left /\ bufsmp' = bufsmp /\ ismprx' = irx
      /\ ismptx' = ismptx /\ irx' = irx /\ end' = end /\ stored' = stored
      /\ charted' = charted /\ gui = "publish" /\ gui' = "idle"
  BY DEF PublishRx, thread, local, ghosts
<1>2. /\ ismprx \in 0 .. SIZE - 1 /\ irx \in 0 .. SIZE - 1 /\ ismptx \in 0 .. SIZE - 1
      /\ itx \in 0 .. SIZE - 1 /\ SIZE \in Nat /\ stored \in Nat
      /\ left \in Nat /\ FRAME \in Nat /\ (thr = "frame" => left <= FRAME)
  BY Geometry DEF NumbersOK, Aligned
<1>3. Writer \in 0 .. SIZE - 1 /\ Writer' = Writer /\ Partial' = Partial /\ Partial \in Nat
  <2>1. Writer \in 0 .. SIZE - 1  BY <1>2 DEF Writer
  <2>2. Writer' = Writer  BY <1>1 DEF Writer
  <2>3. Partial' = Partial  BY <1>1 DEF Partial
  <2>4. Partial \in Nat  BY <1>2 DEF Partial
  <2>5. QED  BY <2>1, <2>2, <2>3, <2>4
<1>4. /\ \A p \in 0 .. SIZE - 1 : Off(p) \in 0 .. SIZE - 1
      /\ Off(irx) \in 0 .. SIZE - 1 /\ Off(ismptx) \in 0 .. SIZE - 1
      /\ Off(Writer) \in 0 .. SIZE - 1
  BY <1>2, <1>3, OffRange
<1>5. \A p \in 0 .. SIZE - 1 :
        Off(p)' = IF Off(p) >= Off(irx) THEN Off(p) - Off(irx) ELSE Off(p) - Off(irx) + SIZE
  BY <1>1, <1>2 DEF Off
<1>6. Off(irx) <= Off(ismptx) /\ Off(ismptx) + Partial = Off(Writer)
  BY <1>1 DEF Settled, ChartWithin, InSequence
<1>7. Off(irx) <= Off(Writer)  BY <1>3, <1>4, <1>6
<1>8. Off(ismptx)' = Off(ismptx) - Off(irx)
  <2>1. Off(ismptx)' = IF ismptx >= irx THEN ismptx - irx ELSE ismptx - irx + SIZE
    BY <1>1 DEF Off
  <2>2. QED  BY <1>2, <1>6, <2>1 DEF Off
<1>9. Off(Writer)' = Off(Writer) - Off(irx)
  <2> DEFINE w == Writer
  <2>1. Off(Writer)' = IF w >= irx THEN w - irx ELSE w - irx + SIZE
    BY <1>1, <1>3 DEF Off
  <2>2. Off(w) = (IF w >= ismprx THEN w - ismprx ELSE w - ismprx + SIZE) /\ w \in 0 .. SIZE - 1
        /\ Off(irx) <= Off(w)
    BY <1>3, <1>7 DEF Off
  <2> HIDE DEF w
  <2>3. Off(Writer)' = Off(w) - Off(irx)  BY <1>2, <2>1, <2>2 DEF Off
  <2>4. QED  BY <2>3 DEF w
<1>10. First' = First + Off(irx)
  <2>1. First' = stored - (Off(Writer) - Off(irx)) + 1  BY <1>1, <1>9 DEF First
  <2>2. QED  BY <1>2, <1>4, <2>1 DEF First
<1>11. Off(ismptx)' + Partial' = Off(Writer)'  BY <1>3, <1>4, <1>6, <1>8, <1>9
<1>12. ASSUME NEW p \in 0 .. SIZE - 1, Off(p)' < Off(Writer)'
       PROVE  bufsmp'[p] = First' + Off(p)'
  <2>1. Off(p) \in 0 .. SIZE - 1 /\ Off(p)' < Off(Writer) - Off(irx)  BY <1>4, <1>9, <1>12
  <2>2. Off(p) >= Off(irx) /\ Off(p)' = Off(p) - Off(irx)  BY <1>2, <1>4, <1>5, <2>1
  <2>3. Off(p) < Off(Writer)  BY <1>4, <2>1, <2>2
  <2>4. bufsmp[p] = First + Off(p)  BY <2>3 DEF Settled, InSequence
  <2>5. First \in Int  BY <1>2, <1>4 DEF First
  <2>6. QED  BY <1>1, <1>4, <1>10, <2>1, <2>2, <2>4, <2>5
<1>13. InSequence'  BY <1>11, <1>12 DEF InSequence
<1>14. ChartWithin'  BY <1>1 DEF ChartWithin
<1>15. Here = Off(irx) /\ Here' = 0  BY <1>1 DEF Here
<1>16. ChartNext'
  <2>1. charted.last < First + Off(irx) /\ charted.next \in {0, First + Off(irx)}
    BY <1>15 DEF Settled, ChartNext
  <2>2. First \in Int  BY <1>2, <1>4 DEF First
  <2>3. First' + Here' = First + Off(irx)  BY <1>4, <1>10, <1>15, <2>2
  <2>4. QED  BY <1>1, <2>1, <2>3 DEF ChartNext
<1>17. QED  BY <1>13, <1>14, <1>16 DEF Settled

(* A point takes samples that have been published, WIDTH of them in their  *)
(* order, and they go on from the last point.                              *)
LEMMA PointInOrder ==
  ASSUME WIDTH \in {1, 2}, NumbersOK, Aligned, Charted, Settled, ChartPoint
  PROVE  Charted' /\ (gui' = "chart" => Settled')
<1>1. /\ thr' = thr /\ itx' = itx /\ left' = left /\ bufsmp' = bufsmp /\ ismprx' = ismprx
      /\ ismptx' = ismptx /\ end' = end /\ stored' = stored
      /\ gui = "chart" /\ irx # end /\ irx' = (irx + WIDTH) % SIZE
      /\ charted' = [last  |-> bufsmp[irx] + WIDTH - 1, next |-> bufsmp[irx] + WIDTH,
                     wrong |-> charted.wrong \/ ~ GoesOn(bufsmp[irx])]
  BY DEF ChartPoint, ring, thread
<1>2. /\ ismprx \in 0 .. SIZE - 1 /\ irx \in 0 .. SIZE - 1 /\ ismptx \in 0 .. SIZE - 1
      /\ end \in 0 .. SIZE - 1 /\ itx \in 0 .. SIZE - 1 /\ SIZE \in Nat \ {0}
      /\ SIZE % 2 = 0 /\ stored \in Nat /\ left \in Nat /\ FRAME \in Nat /\ (thr = "frame" => left <= FRAME)
  BY Geometry DEF NumbersOK, Aligned
<1>3. Writer \in 0 .. SIZE - 1 /\ Partial \in Nat  BY <1>2 DEF Writer, Partial
<1>4. /\ Off(irx) \in 0 .. SIZE - 1 /\ Off(ismptx) \in 0 .. SIZE - 1
      /\ Off(end) \in 0 .. SIZE - 1 /\ Off(Writer) \in 0 .. SIZE - 1
  BY <1>2, <1>3, OffRange
<1>5. First \in Int  BY <1>2, <1>4 DEF First
<1>6. Off(irx) <= Off(end) /\ Off(end) <= Off(ismptx) /\ Off(ismptx) + Partial = Off(Writer)
  BY <1>1 DEF Settled, ChartWithin, InSequence
<1>7. Off(irx) # Off(end)  BY <1>1, <1>2, OffRange
<1>8. Off(irx) + WIDTH <= Off(end)
  <2>1. CASE WIDTH = 1  BY <2>1, <1>4, <1>6, <1>7
  <2>2. CASE WIDTH = 2
    <3>1. ismprx % 2 = 0 /\ irx % 2 = 0 /\ end % 2 = 0  BY <2>2 DEF Aligned
    <3>2. Off(irx) % 2 = 0 /\ Off(end) % 2 = 0  BY <1>2, <3>1 DEF Off
    <3>3. QED  BY <2>2, <3>2, <1>4, <1>6, <1>7
  <2>3. QED  BY <2>1, <2>2
<1>9. Off(irx) + WIDTH <= Off(Writer) /\ Off(irx) + WIDTH < SIZE
  <2>1. WIDTH \in Nat  BY Geometry
  <2>2. Off(end) <= Off(Writer) /\ Off(Writer) < SIZE  BY <1>2, <1>3, <1>4, <1>6
  <2>3. Off(irx) + WIDTH <= Off(Writer)  BY <1>4, <1>8, <2>1, <2>2
  <2>4. QED  BY <1>2, <1>4, <2>1, <2>2, <2>3
<1>10. \A k \in 0 .. WIDTH : /\ (irx + k) % SIZE \in 0 .. SIZE - 1
                             /\ Off((irx + k) % SIZE) = Off(irx) + k
  <2> SUFFICES ASSUME NEW k \in 0 .. WIDTH
               PROVE  (irx + k) % SIZE \in 0 .. SIZE - 1 /\ Off((irx + k) % SIZE) = Off(irx) + k
    OBVIOUS
  <2>1. k \in Nat /\ Off(irx) + k < SIZE  BY <1>2, <1>4, <1>9, Geometry
  <2>2. QED  BY <1>2, <2>1, NextPlace
<1>11. \A k \in 0 .. WIDTH - 1 : bufsmp[(irx + k) % SIZE] = First + Off(irx) + k
  <2> SUFFICES ASSUME NEW k \in 0 .. WIDTH - 1
               PROVE  bufsmp[(irx + k) % SIZE] = First + Off(irx) + k
    OBVIOUS
  <2>1. k \in 0 .. WIDTH /\ k < WIDTH  OBVIOUS
  <2>2. (irx + k) % SIZE \in 0 .. SIZE - 1 /\ Off((irx + k) % SIZE) = Off(irx) + k
    BY <1>10, <2>1
  <2>3. Off((irx + k) % SIZE) < Off(Writer)  BY <1>4, <1>9, <2>1, <2>2
  <2>4. bufsmp[(irx + k) % SIZE] = First + Off((irx + k) % SIZE)
    BY <2>2, <2>3 DEF Settled, InSequence
  <2>5. QED  BY <1>4, <1>5, <2>1, <2>2, <2>4
<1>12. bufsmp[irx] = First + Off(irx)
  <2>1. Off(irx) < Off(Writer)  BY <1>4, <1>9
  <2>2. QED  BY <1>2, <2>1 DEF Settled, InSequence
<1>13. charted.last < bufsmp[irx] /\ charted.next \in {0, bufsmp[irx]}
  BY <1>1, <1>12 DEF Settled, ChartNext, Here
<1>14. GoesOn(bufsmp[irx])
  <2>1. bufsmp[irx] = charted.next \/ (charted.next = 0 /\ bufsmp[irx] > charted.last)
    BY <1>2, <1>13 DEF NumbersOK, Charted
  <2>2. \A k \in 1 .. WIDTH - 1 : bufsmp[(irx + k) % SIZE] = bufsmp[irx] + k
    BY <1>11, <1>12
  <2>3. QED  BY <2>1, <2>2 DEF GoesOn
<1>15. charted.wrong = FALSE  BY DEF Charted
<1>16. charted' = [last |-> First + Off(irx) + WIDTH - 1, next |-> First + Off(irx) + WIDTH,
                   wrong |-> FALSE]
  BY <1>1, <1>12, <1>14, <1>15
<1>17. First + Off(irx) + WIDTH - 1 <= stored  BY <1>2, <1>4, <1>9 DEF First
<1>18. Charted'
  <2>1. First + Off(irx) \in Nat  BY <1>2, <1>12 DEF NumbersOK
  <2>2. First + Off(irx) + WIDTH - 1 \in Nat /\ First + Off(irx) + WIDTH \in Nat
    BY <2>1
  <2>3. charted' \in [last : Nat, next : Nat, wrong : {FALSE}]  BY <1>16, <2>2
  <2>4. charted'.last = First + Off(irx) + WIDTH - 1  BY <1>16
  <2>5. QED  BY <1>1, <1>17, <2>3, <2>4 DEF Charted
<1>19. ASSUME gui' = "chart" PROVE Settled'
  <2>1. InSequence' /\ First' = First  BY <1>1, PlacesLeftAlone DEF Settled
  <2>2. Off(irx)' = Off(irx) + WIDTH
    <3>1. WIDTH \in 0 .. WIDTH  OBVIOUS
    <3>2. Off((irx + WIDTH) % SIZE) = Off(irx) + WIDTH  BY <1>10, <3>1
    <3>3. QED  BY <1>1, <3>2 DEF Off
  <2>3. Off(end)' = Off(end) /\ Off(ismptx)' = Off(ismptx)  BY <1>1 DEF Off
  <2>4. ChartWithin'  BY <1>6, <1>8, <1>19, <2>2, <2>3 DEF ChartWithin
  <2>5. Here' = Off(irx) + WIDTH  BY <1>19, <2>2 DEF Here
  <2>6. charted'.last = First + Off(irx) + WIDTH - 1 /\ charted'.next = First + Off(irx) + WIDTH
    BY <1>16
  <2>7. First' + Here' = First + Off(irx) + WIDTH  BY <1>4, <1>5, <2>1, <2>5
  <2>8. ChartNext'
    <3>1. charted'.last < First' + Here'  BY <1>4, <1>5, <2>6, <2>7
    <3>2. QED  BY <2>6, <2>7, <3>1 DEF ChartNext
  <2>9. QED  BY <2>1, <2>4, <2>8 DEF Settled
<1>20. QED  BY <1>18, <1>19

LEMMA ChartLeftAlone ==
  ASSUME NumbersOK, Charted, charted' = charted, stored' \in {stored, stored + 1}
  PROVE  Charted'
<1>1. charted.last \in Nat /\ stored \in Nat /\ charted.last <= stored
  BY Geometry DEF NumbersOK, Charted
<1>2. charted'.last <= stored'  BY <1>1
<1>3. QED  BY <1>2 DEF Charted

LEMMA ChartRestarted ==
  ASSUME Charted, Restart, stored' = stored
  PROVE  Charted'
<1>1. charted' \in [last : Nat, next : Nat, wrong : {FALSE}] /\ charted'.last = charted.last
  BY DEF Charted, Restart
<1>2. QED  BY <1>1 DEF Charted

LEMMA ChartedKept ==
  ASSUME WIDTH \in {1, 2}, NumbersOK, Aligned, Charted, Purging, Unsettled \/ Settled, [Next]_vars
  PROVE  Charted'
<1>1. CASE CheckPurge  BY <1>1, ChartLeftAlone DEF CheckPurge, ghosts
<1>2. CASE PurgeTx  BY <1>2, ChartRestarted DEF PurgeTx
<1>3. CASE PurgeRx  BY <1>3, ChartLeftAlone DEF PurgeRx, ghosts
<1>4. CASE Send  BY <1>4, ChartLeftAlone DEF Send, ghosts
<1>5. CASE TakeAnswer  BY <1>5, ChartLeftAlone DEF TakeAnswer, ghosts
<1>6. CASE StartFrame  BY <1>6, ChartLeftAlone DEF StartFrame, ghosts
<1>6a. CASE StartMisread  BY <1>6a, ChartLeftAlone DEF StartMisread
<1>7. CASE StoreSample  BY <1>7, ChartLeftAlone DEF StoreSample, ghosts
<1>8. CASE PublishTx  BY <1>8, ChartLeftAlone DEF PublishTx, ghosts
<1>9. CASE NoMorePackets  BY <1>9, ChartLeftAlone DEF NoMorePackets, ghosts
<1>10. CASE Timer  BY <1>10, ChartLeftAlone DEF Timer, ghosts
<1>11. CASE LoadTx  BY <1>11, ChartLeftAlone DEF LoadTx, ghosts
<1>12. CASE ChartPoint
  <2>1. gui = "chart"  BY <1>12 DEF ChartPoint
  <2>2. ~ Unsettled
    <3>1. thr # "purge rx"  BY <2>1 DEF Purging
    <3>2. shown < MAXSAMPLES /\ shown \in Nat /\ MAXSAMPLES \in Nat  BY <2>1, Geometry DEF NumbersOK
    <3>3. ~ (shown >= MAXSAMPLES)  BY <3>2
    <3>4. QED  BY <2>1, <3>1, <3>3 DEF Unsettled
  <2>3. QED  BY <1>12, <2>2, PointInOrder
<1>13. CASE ChartDone  BY <1>13, ChartLeftAlone DEF ChartDone, ghosts
<1>14. CASE PublishRx  BY <1>14, ChartLeftAlone DEF PublishRx, ghosts
<1>15. CASE ButtonStartADC  BY <1>15, ChartLeftAlone DEF ButtonStartADC, Ask, ghosts
<1>16. CASE ButtonStop  BY <1>16, ChartLeftAlone DEF ButtonStop, Ask, ghosts
<1>17. CASE EndOfChart  BY <1>17, ChartLeftAlone DEF EndOfChart, Ask, ghosts
<1>18. CASE DeviceError  BY <1>18, ChartLeftAlone DEF DeviceError, Ask, ghosts
<1>19. CASE Fails  BY <1>19, ChartLeftAlone DEF Fails, ghosts
<1>20. CASE Again  BY <1>20, ChartLeftAlone DEF Again, Ask, ghosts
<1>21. CASE Stopped  BY <1>21, ChartLeftAlone DEF Stopped, ghosts
<1>22. CASE Accepted  BY <1>22, ChartLeftAlone DEF Accepted, ghosts
<1>23. CASE ButtonClrGrf  BY <1>23, ChartLeftAlone DEF ButtonClrGrf, ghosts
<1>24. CASE ZeroTx  BY <1>24, ChartRestarted DEF ZeroTx
<1>25. CASE ZeroRx  BY <1>25, ChartLeftAlone DEF ZeroRx, ghosts
<1>26. CASE Resume  BY <1>26, ChartLeftAlone DEF Resume, ghosts
<1>27. CASE UNCHANGED vars  BY <1>27, ChartLeftAlone DEF vars, ghosts
<1>28. QED
  BY <1>1, <1>2, <1>3, <1>4, <1>5, <1>6, <1>6a, <1>7, <1>8, <1>9, <1>10, <1>11,
     <1>12, <1>13, <1>14, <1>15, <1>16, <1>17, <1>18, <1>19, <1>20, <1>21,
     <1>22, <1>23, <1>24, <1>25, <1>26, <1>27
     DEF Next, QueryPort, Charting, Handlers

(* What is open to be set back stays so, as long as neither thread's steps  *)
(* end it; and what is settled stays settled.                              *)
LEMMA UnsettledLeftAlone ==
  ASSUME Unsettled, thr = "purge rx" => thr' = "purge rx", shown' = shown,
         gui' = gui \/ (gui \notin {"zero", "zero rx"} /\ gui' # "resume")
  PROVE  Unsettled'
  BY DEF Unsettled

LEMMA SettledKept ==
  ASSUME WIDTH \in {1, 2}, FlagsOK, NumbersOK, Aligned, HandOver, Charted, Purging,
         Unsettled \/ Settled, [Next]_vars, ~ overrun', ~ raced', misreads' = 0
  PROVE  Unsettled' \/ Settled'
<1>1. CASE CheckPurge
  <2>1. /\ bufsmp' = bufsmp /\ ismprx' = ismprx /\ ismptx' = ismptx /\ itx' = itx
        /\ left' = left /\ stored' = stored /\ irx' = irx /\ end' = end /\ charted' = charted
        /\ shown' = shown
    BY <1>1 DEF CheckPurge, ring, flags, thread, local, ghosts
  <2>2. /\ thr = "purge rx" => thr' = "purge rx"
        /\ thr' = thr \/ (thr # "frame" /\ thr' # "frame")
    BY <1>1 DEF CheckPurge, ring, flags, thread, local, ghosts
  <2>3. /\ gui' = gui \/ (gui \notin {"zero", "zero rx"} /\ gui' # "resume")
        /\ gui' = gui \/ (Elsewhere(gui) /\ Elsewhere(gui'))
    BY <1>1 DEF CheckPurge, ring, flags, thread, local, ghosts, Elsewhere
  <2>4. QED  BY <2>1, <2>2, <2>3, UnsettledLeftAlone, SettledLeftAlone
<1>2. CASE PurgeTx  BY <1>2 DEF PurgeTx, Unsettled
<1>3. CASE PurgeRx
  <2>1. /\ thr = "purge rx" /\ thr' = "write" /\ ismprx' = 0 /\ ismptx' = ismptx
        /\ stored' = stored /\ charted' = charted /\ gui' = gui /\ shown' = shown
    BY <1>3 DEF PurgeRx, local
  <2>2. ismptx = 0 /\ charted.next = 0 /\ gui \notin {"load", "chart"}  BY <2>1 DEF Purging
  <2>3. CASE gui = "publish"
    <3>1. shown >= MAXSAMPLES  BY <2>1, <2>3 DEF Purging
    <3>2. QED  BY <2>1, <2>3, <3>1 DEF Unsettled
  <2>4. CASE gui # "publish"
    <3>1. Elsewhere(gui')  BY <2>1, <2>2, <2>4 DEF Elsewhere
    <3>2. QED  BY <2>1, <2>2, <3>1, SettledAtStart
  <2>5. QED  BY <2>3, <2>4
<1>4. CASE Send
  <2>1. /\ bufsmp' = bufsmp /\ ismprx' = ismprx /\ ismptx' = ismptx /\ itx' = itx
        /\ left' = left /\ stored' = stored /\ irx' = irx /\ end' = end /\ charted' = charted
        /\ shown' = shown
    BY <1>4 DEF Send, ring, flags, thread, local, ghosts
  <2>2. /\ thr = "purge rx" => thr' = "purge rx"
        /\ thr' = thr \/ (thr # "frame" /\ thr' # "frame")
    BY <1>4 DEF Send, ring, flags, thread, local, ghosts
  <2>3. /\ gui' = gui \/ (gui \notin {"zero", "zero rx"} /\ gui' # "resume")
        /\ gui' = gui \/ (Elsewhere(gui) /\ Elsewhere(gui'))
    BY <1>4 DEF Send, ring, flags, thread, local, ghosts, Elsewhere
  <2>4. QED  BY <2>1, <2>2, <2>3, UnsettledLeftAlone, SettledLeftAlone
<1>5. CASE TakeAnswer
  <2>1. /\ bufsmp' = bufsmp /\ ismprx' = ismprx /\ ismptx' = ismptx /\ itx' = itx
        /\ left' = left /\ stored' = stored /\ irx' = irx /\ end' = end /\ charted' = charted
        /\ shown' = shown
    BY <1>5 DEF TakeAnswer, ring, flags, thread, local, ghosts
  <2>2. /\ thr = "purge rx" => thr' = "purge rx"
        /\ thr' = thr \/ (thr # "frame" /\ thr' # "frame")
    BY <1>5 DEF TakeAnswer, ring, flags, thread, local, ghosts
  <2>3. /\ gui' = gui \/ (gui \notin {"zero", "zero rx"} /\ gui' # "resume")
        /\ gui' = gui \/ (Elsewhere(gui) /\ Elsewhere(gui'))
    BY <1>5 DEF TakeAnswer, ring, flags, thread, local, ghosts, Elsewhere
  <2>4. QED  BY <2>1, <2>2, <2>3, UnsettledLeftAlone, SettledLeftAlone
<1>6. CASE StartFrame
  <2>1. thr # "purge rx" /\ gui' = gui /\ shown' = shown  BY <1>6 DEF StartFrame
  <2>2. QED  BY <1>6, <2>1, UnsettledLeftAlone, FrameStarts
<1>6a. CASE StartMisread  BY <1>6a DEF StartMisread, NumbersOK
<1>7. CASE StoreSample
  <2>1. thr # "purge rx" /\ gui' = gui /\ shown' = shown  BY <1>7 DEF StoreSample
  <2>2. QED  BY <1>7, <2>1, UnsettledLeftAlone, SampleFollows
<1>8. CASE PublishTx
  <2>1. thr # "purge rx" /\ gui' = gui /\ shown' = shown  BY <1>8 DEF PublishTx
  <2>2. QED  BY <1>8, <2>1, UnsettledLeftAlone, FramePublished
<1>9. CASE NoMorePackets
  <2>1. /\ bufsmp' = bufsmp /\ ismprx' = ismprx /\ ismptx' = ismptx /\ itx' = itx
        /\ left' = left /\ stored' = stored /\ irx' = irx /\ end' = end /\ charted' = charted
        /\ shown' = shown
    BY <1>9 DEF NoMorePackets, ring, flags, thread, local, ghosts
  <2>2. /\ thr = "purge rx" => thr' = "purge rx"
        /\ thr' = thr \/ (thr # "frame" /\ thr' # "frame")
    BY <1>9 DEF NoMorePackets, ring, flags, thread, local, ghosts
  <2>3. /\ gui' = gui \/ (gui \notin {"zero", "zero rx"} /\ gui' # "resume")
        /\ gui' = gui \/ (Elsewhere(gui) /\ Elsewhere(gui'))
    BY <1>9 DEF NoMorePackets, ring, flags, thread, local, ghosts, Elsewhere
  <2>4. QED  BY <2>1, <2>2, <2>3, UnsettledLeftAlone, SettledLeftAlone
<1>10. CASE Timer
  <2>1. gui = "idle" /\ thr' = thr /\ shown' = shown  BY <1>10 DEF Timer, thread
  <2>2. thr # "purge rx"  BY <1>10 DEF Timer, FlagsOK
  <2>3. CASE Unsettled
    <3>1. shown >= MAXSAMPLES  BY <2>1, <2>2, <2>3 DEF Unsettled
    <3>2. ~ (shown < MAXSAMPLES)  BY <3>1, Geometry DEF NumbersOK
    <3>3. gui' = gui  BY <1>10, <3>2 DEF Timer
    <3>4. QED  BY <2>1, <3>1, <3>3 DEF Unsettled
  <2>4. CASE Settled  BY <1>10, <2>4, ChartBegins
  <2>5. QED  BY <2>3, <2>4
<1>11. CASE LoadTx
  <2>1. gui \in {"load", "chart"}  BY <1>11 DEF LoadTx
  <2>2. ~ Unsettled
    <3>1. thr # "purge rx"  BY <2>1 DEF Purging
    <3>2. shown < MAXSAMPLES /\ shown \in Nat /\ MAXSAMPLES \in Nat  BY <2>1, Geometry DEF NumbersOK
    <3>3. ~ (shown >= MAXSAMPLES)  BY <3>2
    <3>4. QED  BY <2>1, <3>1, <3>3 DEF Unsettled
  <2>3. QED  BY <1>11, <2>2, EndLoaded
<1>12. CASE ChartPoint
  <2>1. gui \in {"load", "chart"}  BY <1>12 DEF ChartPoint
  <2>2. ~ Unsettled
    <3>1. thr # "purge rx"  BY <2>1 DEF Purging
    <3>2. shown < MAXSAMPLES /\ shown \in Nat /\ MAXSAMPLES \in Nat  BY <2>1, Geometry DEF NumbersOK
    <3>3. ~ (shown >= MAXSAMPLES)  BY <3>2
    <3>4. QED  BY <2>1, <3>1, <3>3 DEF Unsettled
  <2>3. CASE shown' >= MAXSAMPLES
    <3>1. gui' = "full"  BY <1>12, <2>3 DEF ChartPoint
    <3>2. QED  BY <2>3, <3>1 DEF Unsettled
  <2>4. CASE ~ (shown' >= MAXSAMPLES)
    <3>1. gui' = "chart"  BY <1>12, <2>4 DEF ChartPoint
    <3>2. QED  BY <1>12, <2>2, <3>1, PointInOrder
  <2>5. QED  BY <2>3, <2>4
<1>13. CASE ChartDone
  <2>1. gui \in {"load", "chart"}  BY <1>13 DEF ChartDone
  <2>2. ~ Unsettled
    <3>1. thr # "purge rx"  BY <2>1 DEF Purging
    <3>2. shown < MAXSAMPLES /\ shown \in Nat /\ MAXSAMPLES \in Nat  BY <2>1, Geometry DEF NumbersOK
    <3>3. ~ (shown >= MAXSAMPLES)  BY <3>2
    <3>4. QED  BY <2>1, <3>1, <3>3 DEF Unsettled
  <2>3. QED  BY <1>13, <2>2, ChartMeetsEnd
<1>14. CASE PublishRx
  <2>1. gui = "publish" /\ gui' = "idle" /\ shown' = shown  BY <1>14 DEF PublishRx
  <2>2. CASE Unsettled
    <3>1. shown >= MAXSAMPLES  BY <2>1, <2>2 DEF Unsettled, Purging
    <3>2. QED  BY <2>1, <3>1 DEF Unsettled
  <2>3. CASE Settled  BY <1>14, <2>3, ChartPublished
  <2>4. QED  BY <2>2, <2>3
<1>15. CASE ButtonStartADC
  <2>1. /\ bufsmp' = bufsmp /\ ismprx' = ismprx /\ ismptx' = ismptx /\ itx' = itx
        /\ left' = left /\ stored' = stored /\ irx' = irx /\ end' = end /\ charted' = charted
        /\ shown' = shown
    BY <1>15 DEF ButtonStartADC, Ask, ring, flags, thread, local, ghosts
  <2>2. /\ thr = "purge rx" => thr' = "purge rx"
        /\ thr' = thr \/ (thr # "frame" /\ thr' # "frame")
    BY <1>15 DEF ButtonStartADC, Ask, ring, flags, thread, local, ghosts
  <2>3. /\ gui' = gui \/ (gui \notin {"zero", "zero rx"} /\ gui' # "resume")
        /\ gui' = gui \/ (Elsewhere(gui) /\ Elsewhere(gui'))
    BY <1>15 DEF ButtonStartADC, Ask, ring, flags, thread, local, ghosts, Elsewhere
  <2>4. QED  BY <2>1, <2>2, <2>3, UnsettledLeftAlone, SettledLeftAlone
<1>16. CASE ButtonStop
  <2>1. /\ bufsmp' = bufsmp /\ ismprx' = ismprx /\ ismptx' = ismptx /\ itx' = itx
        /\ left' = left /\ stored' = stored /\ irx' = irx /\ end' = end /\ charted' = charted
        /\ shown' = shown
    BY <1>16 DEF ButtonStop, Ask, ring, flags, thread, local, ghosts
  <2>2. /\ thr = "purge rx" => thr' = "purge rx"
        /\ thr' = thr \/ (thr # "frame" /\ thr' # "frame")
    BY <1>16 DEF ButtonStop, Ask, ring, flags, thread, local, ghosts
  <2>3. /\ gui' = gui \/ (gui \notin {"zero", "zero rx"} /\ gui' # "resume")
        /\ gui' = gui \/ (Elsewhere(gui) /\ Elsewhere(gui'))
    BY <1>16 DEF ButtonStop, Ask, ring, flags, thread, local, ghosts, Elsewhere
  <2>4. QED  BY <2>1, <2>2, <2>3, UnsettledLeftAlone, SettledLeftAlone
<1>17. CASE EndOfChart
  <2>1. gui = "full" /\ gui' = "ask" /\ shown' = shown  BY <1>17 DEF EndOfChart, Ask
  <2>2. shown >= MAXSAMPLES  BY <2>1 DEF Purging
  <2>3. QED  BY <2>1, <2>2 DEF Unsettled
<1>18. CASE DeviceError
  <2>1. /\ bufsmp' = bufsmp /\ ismprx' = ismprx /\ ismptx' = ismptx /\ itx' = itx
        /\ left' = left /\ stored' = stored /\ irx' = irx /\ end' = end /\ charted' = charted
        /\ shown' = shown
    BY <1>18 DEF DeviceError, Ask, ring, flags, thread, local, ghosts
  <2>2. /\ thr = "purge rx" => thr' = "purge rx"
        /\ thr' = thr \/ (thr # "frame" /\ thr' # "frame")
    BY <1>18 DEF DeviceError, Ask, ring, flags, thread, local, ghosts
  <2>3. /\ gui' = gui \/ (gui \notin {"zero", "zero rx"} /\ gui' # "resume")
        /\ gui' = gui \/ (Elsewhere(gui) /\ Elsewhere(gui'))
    BY <1>18 DEF DeviceError, Ask, ring, flags, thread, local, ghosts, Elsewhere
  <2>4. QED  BY <2>1, <2>2, <2>3, UnsettledLeftAlone, SettledLeftAlone
<1>19. CASE Fails
  <2>1. /\ gui \in {"ask", "full"}
        /\ gui' = IF gui = "full" \/ task.name = "end" THEN "publish" ELSE "idle"
    BY <1>19 DEF Fails
  <2>2. /\ bufsmp' = bufsmp /\ ismprx' = ismprx /\ ismptx' = ismptx /\ itx' = itx
        /\ left' = left /\ stored' = stored /\ irx' = irx /\ end' = end /\ charted' = charted
        /\ shown' = shown /\ thr' = thr
    BY <1>19 DEF Fails, ring, flags, thread, local, ghosts
  <2>3. CASE gui = "full" \/ task.name = "end"
    <3>1. shown >= MAXSAMPLES  BY <2>1, <2>3 DEF Purging
    <3>2. gui' # "resume"  BY <2>1
    <3>3. QED  BY <2>2, <3>1, <3>2 DEF Unsettled
  <2>4. CASE ~ (gui = "full" \/ task.name = "end")
    <3>1. gui = "ask" /\ gui' = "idle"  BY <2>1, <2>4
    <3>2. Elsewhere(gui) /\ Elsewhere(gui')  BY <3>1 DEF Elsewhere
    <3>3. QED  BY <2>2, <3>1, <3>2, UnsettledLeftAlone, SettledLeftAlone
  <2>5. QED  BY <2>3, <2>4
<1>20. CASE Again
  <2>1. /\ bufsmp' = bufsmp /\ ismprx' = ismprx /\ ismptx' = ismptx /\ itx' = itx
        /\ left' = left /\ stored' = stored /\ irx' = irx /\ end' = end /\ charted' = charted
        /\ shown' = shown
    BY <1>20 DEF Again, Ask, ring, flags, thread, local, ghosts
  <2>2. /\ thr = "purge rx" => thr' = "purge rx"
        /\ thr' = thr \/ (thr # "frame" /\ thr' # "frame")
    BY <1>20 DEF Again, Ask, ring, flags, thread, local, ghosts
  <2>3. /\ gui' = gui \/ (gui \notin {"zero", "zero rx"} /\ gui' # "resume")
        /\ gui' = gui \/ (Elsewhere(gui) /\ Elsewhere(gui'))
    BY <1>20 DEF Again, Ask, ring, flags, thread, local, ghosts, Elsewhere
  <2>4. QED  BY <2>1, <2>2, <2>3, UnsettledLeftAlone, SettledLeftAlone
<1>21. CASE Stopped
  <2>1. /\ gui = "ask"
        /\ gui' = IF task.name = "end" THEN "publish" ELSE "idle"
    BY <1>21 DEF Stopped
  <2>2. /\ bufsmp' = bufsmp /\ ismprx' = ismprx /\ ismptx' = ismptx /\ itx' = itx
        /\ left' = left /\ stored' = stored /\ irx' = irx /\ end' = end /\ charted' = charted
        /\ shown' = shown /\ thr' = thr
    BY <1>21 DEF Stopped, ring, flags, thread, local, ghosts
  <2>3. CASE task.name = "end"
    <3>1. shown >= MAXSAMPLES  BY <2>1, <2>3 DEF Purging
    <3>2. gui' # "resume"  BY <2>1
    <3>3. QED  BY <2>2, <3>1, <3>2 DEF Unsettled
  <2>4. CASE ~ (task.name = "end")
    <3>1. gui = "ask" /\ gui' = "idle"  BY <2>1, <2>4
    <3>2. Elsewhere(gui) /\ Elsewhere(gui')  BY <3>1 DEF Elsewhere
    <3>3. QED  BY <2>2, <3>1, <3>2, UnsettledLeftAlone, SettledLeftAlone
  <2>5. QED  BY <2>3, <2>4
<1>22. CASE Accepted  BY <1>22 DEF Accepted, Unsettled
<1>23. CASE ButtonClrGrf  BY <1>23 DEF ButtonClrGrf, Unsettled
<1>24. CASE ZeroTx  BY <1>24 DEF ZeroTx, Unsettled
<1>25. CASE ZeroRx
  <2>1. /\ gui = "zero rx" /\ gui' = "resume" /\ ismprx' = 0 /\ ismptx' = ismptx
        /\ stored' = stored /\ charted' = charted /\ thr' = thr
    BY <1>25 DEF ZeroRx, thread, ghosts
  <2>2. ismptx = 0 /\ charted.next = 0  BY <2>1 DEF Purging
  <2>3. thr' # "frame"  BY <2>1 DEF HandOver
  <2>4. Elsewhere(gui')  BY <2>1 DEF Elsewhere
  <2>5. QED  BY <2>1, <2>2, <2>3, <2>4, SettledAtStart
<1>26. CASE Resume
  <2>1. /\ bufsmp' = bufsmp /\ ismprx' = ismprx /\ ismptx' = ismptx /\ itx' = itx
        /\ left' = left /\ stored' = stored /\ irx' = irx /\ end' = end /\ charted' = charted
        /\ thr' = thr /\ gui = "resume" /\ gui' = "idle"
    BY <1>26 DEF Resume, ring, flags, thread, local, ghosts
  <2>2. Elsewhere(gui) /\ Elsewhere(gui')  BY <2>1 DEF Elsewhere
  <2>3. CASE Unsettled  BY <2>1, <2>3 DEF Unsettled
  <2>4. CASE Settled  BY <2>1, <2>2, <2>4, SettledLeftAlone
  <2>5. QED  BY <2>3, <2>4
<1>27. CASE UNCHANGED vars
  <2>1. /\ bufsmp' = bufsmp /\ ismprx' = ismprx /\ ismptx' = ismptx /\ itx' = itx
        /\ left' = left /\ stored' = stored /\ irx' = irx /\ end' = end /\ charted' = charted
        /\ shown' = shown /\ thr' = thr /\ gui' = gui
    BY <1>27 DEF vars, ring, flags, thread, local, ghosts
  <2>2. QED  BY <2>1, UnsettledLeftAlone, SettledLeftAlone
<1>28. QED
  BY <1>1, <1>2, <1>3, <1>4, <1>5, <1>6, <1>6a, <1>7, <1>8, <1>9, <1>10, <1>11,
     <1>12, <1>13, <1>14, <1>15, <1>16, <1>17, <1>18, <1>19, <1>20, <1>21,
     <1>22, <1>23, <1>24, <1>25, <1>26, <1>27
     DEF Next, QueryPort, Charting, Handlers

LEMMA OrderStarts == Init => Aligned /\ ChartInv
<1> SUFFICES ASSUME Init PROVE Aligned /\ ChartInv  OBVIOUS
<1>1. Aligned  BY DEF Init, Aligned
<1>2. HandOver /\ Purging  BY DEF Init, HandOver, Purging
<1>3. Charted  BY DEF Init, Charted
<1>4. Writer = 0 /\ Partial = 0 /\ Here = 0  BY DEF Init, Writer, Partial, Here
<1>5. ismprx = 0 /\ ismptx = 0 /\ stored = 0 /\ gui = "idle"
      /\ charted.last = 0 /\ charted.next = 0
  BY DEF Init
<1>6. Off(ismptx) = 0 /\ Off(Writer) = 0  BY <1>4, <1>5 DEF Off
<1>7. First = 1  BY <1>5, <1>6 DEF First
<1>8. \A p \in 0 .. SIZE - 1 : ~ (Off(p) < 0)  BY <1>5, Geometry DEF Off
<1>9. InSequence  BY <1>4, <1>6, <1>8 DEF InSequence
<1>10. ChartWithin /\ ChartNext  BY <1>4, <1>5, <1>7 DEF ChartWithin, ChartNext
<1>11. QED  BY <1>1, <1>2, <1>3, <1>9, <1>10 DEF ChartInv, OrderInv, Settled

LEMMA OrderKept ==
  ASSUME FRAME % 2 = 0, WIDTH \in {1, 2}, FlagsOK, PlacesOK, NumbersOK,
         misreads # 0 \/ Aligned, ChartInv, [Next]_vars
  PROVE  (misreads' # 0 \/ Aligned') /\ ChartInv'
<1>1. CASE misreads # 0  BY <1>1, ExcusesStay DEF ChartInv
<1>2. CASE misreads' # 0  BY <1>2 DEF ChartInv
<1>3. CASE misreads = 0 /\ misreads' = 0
  <2>1. Aligned /\ Aligned'  BY <1>3, AlignedKept
  <2>2. CASE overrun \/ raced  BY <2>1, <2>2, ExcusesStay DEF ChartInv
  <2>3. CASE overrun' \/ raced'  BY <2>1, <2>3 DEF ChartInv
  <2>4. CASE ~ overrun /\ ~ raced /\ ~ overrun' /\ ~ raced'
    <3>1. HandOver /\ Purging /\ Charted /\ (Unsettled \/ Settled)
      BY <1>3, <2>4 DEF ChartInv, OrderInv, Settled
    <3>2. HandOver'  BY <2>4, <3>1, HandOverKept
    <3>3. Purging'  BY <2>4, <3>1, PurgingKept
    <3>4. Charted'  BY <2>1, <3>1, ChartedKept
    <3>5. Unsettled' \/ Settled'  BY <1>3, <2>1, <2>4, <3>1, SettledKept
    <3>6. QED  BY <2>1, <3>2, <3>3, <3>4, <3>5 DEF ChartInv, OrderInv, Settled
  <2>5. QED  BY <2>2, <2>3, <2>4
<1>4. QED  BY <1>1, <1>2, <1>3

(* However the port thread stores and publishes, the timer charts, and the *)
(* buttons, the end of the chart and the purges set the indices back: the  *)
(* chart takes the samples in their order, each once, unless the GUI was a *)
(* whole ring behind, an index was set back under the other's hands or a   *)
(* packet was misread for samples.  A point is one sample, or a current    *)
(* and a voltage.                                                          *)
THEOREM ChartStaysInOrder ==
  ASSUME FRAME % 2 = 0, WIDTH \in {1, 2}
  PROVE  Spec => []ChartInOrder
<1>1. Init => (misreads # 0 \/ Aligned) /\ ChartInv  BY OrderStarts
<1>2. FlagsOK /\ PlacesOK /\ NumbersOK /\ (misreads # 0 \/ Aligned) /\ ChartInv /\ [Next]_vars
        => (misreads # 0 \/ Aligned)' /\ ChartInv'
  BY OrderKept
<1>3. ChartInv => ChartInOrder  BY DEF ChartInv, OrderInv, Charted, ChartInOrder
<1>4. QED
  BY <1>1, <1>2, <1>3, InitTyped, FlagsKept, PlacesKept, NumbersKept, PTL DEF Spec
================================================================================
