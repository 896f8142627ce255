-------------------------- MODULE Acquisition_proofs ---------------------------
(***************************************************************************)
(* For every geometry of the buffers, every length of the wake-up time and *)
(* every interleaving: no sample of the wake-up time goes out, a stopped   *)
(* device is quiet, the counters add up and the frames go on one from the  *)
(* other, but for the named mishaps.                                       *)
(***************************************************************************)
EXTENDS Acquisition, TLAPS

LEMMA Geometry ==
  N \in Nat \ {0} /\ RX \in Nat \ {0} /\ BLK \in Nat \ {0} /\ WAKEUP \in Nat
BY GeometryAssumption, BoundAssumption DEF N, RX, BLK

LEMMA OneMore ==
  ASSUME NEW a \in Int, NEW b \in Int
  PROVE  (a + 1) * b = (a * b) + b
OBVIOUS

-------------------------------------------------------------------------------
(* Stopped and not cut, task_data_out finds both pointers at 0 and leaves. *)
QuietInv ==
  /\ QuietWhenStopped
  /\ pc \in {"idle", "write", "count"} => prd = 0
  /\ start = 0 /\ "cut" \notin mishaps =>
       /\ data_buffer_wr_ptr = 0 /\ data_buffer_rd_ptr = 0 /\ prd = 0
       /\ pc \in {"idle", "loaded"}

LEMMA QuietMain == QuietInv /\ Main => QuietInv'
<1> SUFFICES ASSUME QuietInv, Main PROVE QuietInv'
  OBVIOUS
<1> USE DEF QuietInv, QuietWhenStopped
<1>1. CASE LoadRd
  BY <1>1 DEF LoadRd, cfg, pointers, ghosts
<1>2. CASE LoadWr
  <2>1. ~ Enough(0, 0)
    BY Geometry DEF Enough, Unread
  <2> QED BY <1>2, <2>1 DEF LoadWr, cfg, pointers, ghosts
<1>3. CASE CopySample
  BY <1>3 DEF CopySample, cfg, pointers, ghosts
<1>4. CASE StoreRd
  BY <1>4 DEF StoreRd, cfg, ghosts
<1>5. CASE WriteFrame
  <2>1. pc = "write" /\ pc' = "count" /\ UNCHANGED <<start, mishaps, prd>>
    BY <1>5 DEF WriteFrame, cfg
  <2>2. "unasked" \in flaws' => "unasked" \in flaws \/ start = 0
    BY <1>5 DEF WriteFrame
  <2> QED BY <2>1, <2>2
<1>6. CASE CountFrame
  <2>1. /\ pc = "count" /\ pc' = "idle"
        /\ UNCHANGED <<start, mishaps, flaws, prd, data_buffer_wr_ptr, data_buffer_rd_ptr>>
    BY <1>6 DEF CountFrame, cfg, pointers, ghosts
  <2> QED BY <2>1
<1> QED BY <1>1, <1>2, <1>3, <1>4, <1>5, <1>6 DEF Main

LEMMA QuietOther == QuietInv /\ (DmaWord \/ DmaIsr \/ UsbIsr \/ UNCHANGED vars) => QuietInv'
<1> SUFFICES ASSUME QuietInv, DmaWord \/ DmaIsr \/ UsbIsr \/ UNCHANGED vars PROVE QuietInv'
  OBVIOUS
<1> USE DEF QuietInv, QuietWhenStopped
<1>1. CASE DmaWord
  <2>1. mishaps \subseteq mishaps' /\ UNCHANGED <<start, flaws, pointers, task>>
    BY <1>1 DEF DmaWord, cfg
  <2> QED BY <2>1 DEF pointers, task
<1>2. CASE DmaIsr
  <2>1. mishaps \subseteq mishaps' /\ UNCHANGED <<start, flaws, data_buffer_rd_ptr, task>>
    BY <1>2 DEF DmaIsr, IsrStarted
  <2>2. start = 0 => UNCHANGED <<mishaps, data_buffer_wr_ptr>>
    BY <1>2 DEF DmaIsr
  <2> QED BY <2>1, <2>2 DEF task
<1>3. CASE StartAnew
  <2>1. start' = 1 /\ flaws' = {} /\ UNCHANGED task
    BY <1>3 DEF StartAnew
  <2> QED BY <2>1 DEF task
<1>4. CASE AlreadyStarted
  <2>1. start = 1 /\ UNCHANGED <<start, flaws, task>>
    BY <1>4 DEF AlreadyStarted, cfg
  <2>2. "cut" \in mishaps => "cut" \in mishaps'
    BY <1>4 DEF AlreadyStarted
  <2> QED BY <2>1, <2>2 DEF task
<1>5. CASE Stop \/ Sleep \/ WakeUp
  <2>1. Emptied /\ Afresh /\ UNCHANGED task
    BY <1>5 DEF Stop, Sleep, WakeUp
  <2>2. flaws' = {} /\ ("cut" \notin mishaps' => pc = "idle")
    BY <2>1 DEF Afresh, Cut
  <2> QED BY <2>1, <2>2 DEF Emptied, task
<1>6. CASE UNCHANGED vars
  BY <1>6 DEF vars, cfg, pointers, task, ghosts
<1> QED BY <1>1, <1>2, <1>3, <1>4, <1>5, <1>6 DEF UsbIsr

(* A frame goes out of a stopped or sleeping device only when the command  *)
(* that stopped it came in the middle of task_data_out.                    *)
THEOREM QuietUnlessCut == Spec => []QuietWhenStopped
<1>1. Init => QuietInv
  BY DEF Init, QuietInv, QuietWhenStopped
<1>2. QuietInv /\ [Next]_vars => QuietInv'
  BY QuietMain, QuietOther DEF Next
<1>3. QuietInv => QuietWhenStopped
  BY DEF QuietInv
<1> QED BY <1>1, <1>2, <1>3, PTL DEF Spec

-------------------------------------------------------------------------------
(* The counters, one of which may be in the middle of its increment.       *)
CountInv ==
  /\ blk_read_count \in Nat /\ blk_overflow_cnt \in Nat
  /\ due[2] \in Int /\ base \in Int
  /\ pc # "count" /\ "miscount" \notin mishaps =>
       (blk_read_count + blk_overflow_cnt) * BLK = due[2] - base
  /\ pc = "count" /\ "miscount" \notin mishaps =>
       /\ ((blk_read_count + blk_overflow_cnt) * BLK) + BLK = due[2] - base
       /\ count[1] = "read"     => count[2] = blk_read_count
       /\ count[1] = "overflow" => count[2] = blk_overflow_cnt
  /\ pc = "count" => count[2] \in Nat

LEMMA CountMain == CountInv /\ Main => CountInv'
<1> SUFFICES ASSUME CountInv, Main PROVE CountInv'
  OBVIOUS
<1> USE DEF CountInv
<1>1. CASE LoadRd \/ LoadWr \/ CopySample \/ StoreRd
  <2>1. /\ pc # "count" /\ pc' # "count"
        /\ UNCHANGED <<blk_read_count, blk_overflow_cnt, due, base, mishaps>>
    BY <1>1 DEF LoadRd, LoadWr, CopySample, StoreRd, counters, ghosts
  <2> QED BY <2>1
<1>2. CASE WriteFrame
  <2>1. /\ pc = "write" /\ pc' = "count"
        /\ UNCHANGED <<blk_read_count, blk_overflow_cnt, base, mishaps>>
    BY <1>2 DEF WriteFrame, counters
  <2>2. due'[2] = due[2] + BLK
    BY <1>2 DEF WriteFrame
  <2>3. \/ count'[1] = "read"     /\ count'[2] = blk_read_count
        \/ count'[1] = "overflow" /\ count'[2] = blk_overflow_cnt
    BY <1>2 DEF WriteFrame
  <2> QED BY <2>1, <2>2, <2>3, Geometry
<1>3. CASE CountFrame
  <2>1. pc = "count" /\ pc' = "idle" /\ UNCHANGED <<due, base, mishaps>>
    BY <1>3 DEF CountFrame, ghosts
  <2>2. \/ /\ count[1] = "read" /\ blk_read_count' = count[2] + 1
           /\ blk_overflow_cnt' = blk_overflow_cnt
        \/ /\ count[1] = "overflow" /\ blk_overflow_cnt' = count[2] + 1
           /\ blk_read_count' = blk_read_count
    BY <1>3 DEF CountFrame
  <2>3. "miscount" \notin mishaps =>
          blk_read_count' + blk_overflow_cnt' = (blk_read_count + blk_overflow_cnt) + 1
    BY <2>1, <2>2
  <2>4. ((blk_read_count + blk_overflow_cnt) + 1) * BLK
          = ((blk_read_count + blk_overflow_cnt) * BLK) + BLK
    BY OneMore, Geometry
  <2>5. blk_read_count' \in Nat /\ blk_overflow_cnt' \in Nat
    BY <2>1, <2>2
  <2> QED BY <2>1, <2>3, <2>4, <2>5
<1> QED BY <1>1, <1>2, <1>3 DEF Main

LEMMA CountOther == CountInv /\ (DmaWord \/ DmaIsr \/ UsbIsr \/ UNCHANGED vars) => CountInv'
<1> SUFFICES ASSUME CountInv, DmaWord \/ DmaIsr \/ UsbIsr \/ UNCHANGED vars PROVE CountInv'
  OBVIOUS
<1> USE DEF CountInv
<1>1. CASE DmaWord \/ DmaIsr \/ Stop \/ Sleep \/ WakeUp \/ UNCHANGED vars
  <2>1. UNCHANGED <<blk_read_count, blk_overflow_cnt, due, base, pc, count>>
    BY <1>1 DEF DmaWord, DmaIsr, Stop, Sleep, WakeUp, vars, counters, task, ghosts
  <2>2. "miscount" \notin mishaps' => "miscount" \notin mishaps
    BY <1>1 DEF DmaWord, DmaIsr, IsrStarted, Stop, Sleep, WakeUp, Afresh, vars, ghosts
  <2> QED BY <2>1, <2>2
<1>2. CASE StartAnew
  <2>1. /\ blk_read_count' = 0 /\ blk_overflow_cnt' = 0 /\ UNCHANGED <<pc, count>>
        /\ due'[2] = Settled /\ base' = Settled
    BY <1>2 DEF StartAnew, task
  <2>2. pc = "count" => "miscount" \in mishaps'
    BY <1>2 DEF StartAnew, Miscount
  <2>3. Settled \in Int /\ (0 + 0) * BLK = 0
    BY Geometry DEF Settled
  <2> QED BY <2>1, <2>2, <2>3
<1>3. CASE AlreadyStarted
  <2>1. /\ blk_read_count' = 0 /\ blk_overflow_cnt' = 0 /\ UNCHANGED <<pc, count, due>>
        /\ base' = due[2]
    BY <1>3 DEF AlreadyStarted, task
  <2>2. pc = "count" => "miscount" \in mishaps'
    BY <1>3 DEF AlreadyStarted, Miscount
  <2>3. (0 + 0) * BLK = 0
    BY Geometry
  <2> QED BY <2>1, <2>2, <2>3
<1> QED BY <1>1, <1>2, <1>3 DEF UsbIsr

(* The counters of CMD_DEV_STA are exact, at every interleaving with the   *)
(* interrupt that zeroes them, but in the one window of an increment.      *)
THEOREM CountersExact == Spec => []CountersAddUp
<1>1. Init => CountInv
  <2>1. (0 + 0) * BLK = 0
    BY Geometry
  <2> QED BY <2>1 DEF Init, CountInv
<1>2. CountInv /\ [Next]_vars => CountInv'
  BY CountMain, CountOther DEF Next
<1>3. CountInv => CountersAddUp
  BY DEF CountInv, CountersAddUp
<1> QED BY <1>1, <1>2, <1>3, PTL DEF Spec

-------------------------------------------------------------------------------
(* The wake-up time.  While started, every full i2s_rx_buffer that was     *)
(* dropped, and the one that is pending, has been received; the buffer     *)
(* holds the last RX words.  A late interrupt drops a newer buffer than it *)
(* should, never an older one.                                             *)
SettledSamples == {s \in Nat \X Nat : s[2] >= Settled}

Dropped == (WAKEUP - wakeupcnt) * RX

Shapes ==
  /\ dma = [x \in {"on", "fill", "tc"} |-> dma[x]]
  /\ i2s_rx_buffer = [i \in 0 .. RX - 1 |-> i2s_rx_buffer[i]]
  /\ session \in Nat /\ start \in {0, 1}

Receiving ==
  /\ dma.fill \in 0 .. RX - 1 /\ received \in Nat /\ wakeupcnt \in 0 .. WAKEUP
  /\ received >= Dropped + dma.fill
  /\ dma.tc => received >= Dropped + RX + dma.fill
  /\ \A i \in 0 .. RX - 1 :
       /\ i < dma.fill => i2s_rx_buffer[i] = <<session, received - dma.fill + i>>
       /\ i >= dma.fill /\ received - dma.fill >= RX =>
            i2s_rx_buffer[i] = <<session, received - dma.fill - RX + i>>

ReceiverInv == Shapes /\ (start = 1 => Receiving)

LEMMA ReceiverInit == Init => ReceiverInv
BY DEF Init, ReceiverInv, Shapes, i2s_dma_init

LEMMA DroppedOne ==
  ASSUME NEW w \in Int, NEW c \in Int
  PROVE  (w - (c - 1)) * RX = ((w - c) * RX) + RX
<1>1. (w - (c - 1)) = (w - c) + 1
  OBVIOUS
<1> QED BY <1>1, OneMore, Geometry

LEMMA ReceiverWord ==
  ASSUME ReceiverInv, DmaWord
  PROVE  ReceiverInv'
<1>1. /\ i2s_rx_buffer' = [i2s_rx_buffer EXCEPT ![dma.fill] = <<session, received>>]
      /\ received' = received + 1
      /\ dma' = [dma EXCEPT !.fill = (@ + 1) % RX, !.tc = @ \/ dma.fill + 1 = RX]
      /\ UNCHANGED <<session, start, wakeupcnt>>
  BY DEF DmaWord, cfg
<1>2. Shapes'
  BY <1>1 DEF ReceiverInv, Shapes
<1>3. ASSUME start = 1 PROVE Receiving'
  <2>1. Receiving /\ RX \in Nat \ {0}
    BY <1>3, Geometry DEF ReceiverInv
  <2>2. /\ dma.fill \in 0 .. RX - 1 /\ received \in Nat /\ Dropped \in Int
        /\ wakeupcnt \in 0 .. WAKEUP
    BY <2>1, Geometry DEF Receiving, Dropped
  <2>3. Dropped' = Dropped
    BY <1>1 DEF Dropped
  <2>4. /\ dma'.fill = (dma.fill + 1) % RX
        /\ dma'.tc = (dma.tc \/ dma.fill + 1 = RX)
    BY <1>1 DEF ReceiverInv, Shapes
  <2>5. \A i \in 0 .. RX - 1 : i2s_rx_buffer'[i] =
          IF i = dma.fill THEN <<session, received>> ELSE i2s_rx_buffer[i]
    BY <1>1, <2>2 DEF ReceiverInv, Shapes
  <2>6. CASE dma.fill + 1 = RX
    <3>1. dma'.fill = 0
      BY <2>1, <2>4, <2>6
    <3>2. received' >= Dropped + RX
      BY <1>1, <2>1, <2>2, <2>6 DEF Receiving
    <3>3. \A i \in 0 .. RX - 1 : i2s_rx_buffer'[i] = <<session, received' - RX + i>>
      <4> TAKE i \in 0 .. RX - 1
      <4>1. CASE i = dma.fill
        <5>1. received' - RX + i = received
          BY <1>1, <2>1, <2>2, <2>6, <4>1
        <5> QED BY <2>5, <4>1, <5>1
      <4>2. CASE i < dma.fill
        <5>1. received' - RX + i = received - dma.fill + i
          BY <1>1, <2>1, <2>2, <2>6
        <5>2. i2s_rx_buffer[i] = <<session, received - dma.fill + i>>
          BY <2>1, <4>2 DEF Receiving
        <5> QED BY <2>2, <2>5, <4>2, <5>1, <5>2
      <4> QED BY <2>2, <2>6, <4>1, <4>2
    <3> QED BY <1>1, <2>1, <2>2, <2>3, <3>1, <3>2, <3>3 DEF Receiving
  <2>7. CASE dma.fill + 1 # RX
    <3>1. dma'.fill = dma.fill + 1 /\ dma'.fill \in 0 .. RX - 1
      BY <2>1, <2>2, <2>4, <2>7
    <3>2. received' >= Dropped + dma'.fill
      BY <1>1, <2>1, <2>2, <3>1 DEF Receiving
    <3>3. dma'.tc => received' >= Dropped + RX + dma'.fill
      <4>1. dma'.tc => dma.tc
        BY <2>4, <2>7
      <4>2. dma.tc => received >= Dropped + RX + dma.fill
        BY <2>1 DEF Receiving
      <4>3. received >= Dropped + RX + dma.fill => received' >= Dropped + RX + dma'.fill
        BY <1>1, <2>1, <2>2, <3>1
      <4> QED BY <4>1, <4>2, <4>3
    <3>4. received' - dma'.fill = received - dma.fill
      BY <1>1, <2>2, <3>1
    <3>5. ASSUME NEW i \in 0 .. RX - 1
          PROVE  /\ i < dma'.fill => i2s_rx_buffer'[i] = <<session, received' - dma'.fill + i>>
                 /\ i >= dma'.fill /\ received' - dma'.fill >= RX =>
                      i2s_rx_buffer'[i] = <<session, received' - dma'.fill - RX + i>>
      <4>1. CASE i = dma.fill
        <5>1. received' - dma'.fill + i = received /\ ~ (i >= dma'.fill)
          BY <1>1, <2>2, <3>1, <4>1
        <5> QED BY <2>5, <4>1, <5>1
      <4>2. CASE i # dma.fill
        <5>1. i2s_rx_buffer'[i] = i2s_rx_buffer[i]
          BY <2>5, <4>2
        <5>2. (i < dma'.fill <=> i < dma.fill) /\ (i >= dma'.fill <=> i >= dma.fill)
          BY <2>2, <3>1, <4>2
        <5> QED BY <2>1, <3>4, <5>1, <5>2 DEF Receiving
      <4> QED BY <4>1, <4>2
    <3> QED BY <1>1, <2>2, <2>3, <3>1, <3>2, <3>3, <3>5 DEF Receiving
  <2> QED BY <2>6, <2>7
<1> QED BY <1>1, <1>2, <1>3 DEF ReceiverInv

LEMMA ReceiverIsr ==
  ASSUME ReceiverInv, DmaIsr
  PROVE  ReceiverInv'
<1>1. /\ dma' = [dma EXCEPT !.tc = FALSE] /\ dma.tc
      /\ UNCHANGED <<i2s_rx_buffer, session, received, start>>
  BY DEF DmaIsr
<1>2. Shapes'
  BY <1>1 DEF ReceiverInv, Shapes
<1>3. ASSUME start = 1 PROVE Receiving'
  <2>1. Receiving /\ RX \in Nat \ {0} /\ WAKEUP \in Nat
    BY <1>3, Geometry DEF ReceiverInv
  <2>2. dma'.fill = dma.fill /\ ~ dma'.tc
    BY <1>1 DEF ReceiverInv, Shapes
  <2>3. \/ wakeupcnt # 0 /\ wakeupcnt' = wakeupcnt - 1
        \/ wakeupcnt = 0 /\ wakeupcnt' = wakeupcnt
    BY <1>3 DEF DmaIsr, IsrStarted
  <2>4. wakeupcnt \in 0 .. WAKEUP /\ received >= Dropped + RX + dma.fill
        /\ received \in Nat /\ dma.fill \in 0 .. RX - 1
    BY <1>1, <2>1 DEF Receiving
  <2>5. wakeupcnt' \in 0 .. WAKEUP /\ received' >= Dropped' + dma'.fill
    <3>1. CASE wakeupcnt' = wakeupcnt - 1 /\ wakeupcnt # 0
      <4>1. Dropped' = Dropped + RX
        BY <2>1, <2>4, <3>1, DroppedOne DEF Dropped
      <4> QED BY <1>1, <2>1, <2>2, <2>4, <3>1, <4>1
    <3>2. CASE wakeupcnt' = wakeupcnt
      <4>1. Dropped' = Dropped /\ Dropped \in Int
        BY <2>1, <2>4, <3>2 DEF Dropped
      <4> QED BY <1>1, <2>1, <2>2, <2>4, <3>2, <4>1
    <3> QED BY <2>3, <3>1, <3>2
  <2> QED BY <1>1, <2>1, <2>2, <2>4, <2>5 DEF Receiving
<1> QED BY <1>1, <1>2, <1>3 DEF ReceiverInv

LEMMA ReceiverOther ==
  ReceiverInv /\ (Main \/ UsbIsr \/ UNCHANGED vars) => ReceiverInv'
<1> SUFFICES ASSUME ReceiverInv, Main \/ UsbIsr \/ UNCHANGED vars PROVE ReceiverInv'
  OBVIOUS
<1>1. CASE Main \/ AlreadyStarted \/ UNCHANGED vars
  <2>1. UNCHANGED <<dma, i2s_rx_buffer, session, received, start, wakeupcnt>>
    BY <1>1 DEF Main, LoadRd, LoadWr, CopySample, StoreRd, WriteFrame, CountFrame,
                AlreadyStarted, vars, device, cfg
  <2> QED BY <2>1 DEF ReceiverInv, Shapes, Receiving, Dropped
<1>2. CASE StartAnew
  <2>1. /\ dma' = [on |-> TRUE, fill |-> 0, tc |-> FALSE] /\ session' = session + 1
        /\ received' = 0 /\ start' = 1 /\ wakeupcnt' = WAKEUP
        /\ i2s_rx_buffer' = i2s_rx_buffer
    BY <1>2 DEF StartAnew, i2s_dma_init
  <2>2. Dropped' = 0
    BY <2>1, Geometry DEF Dropped
  <2>3. Receiving'
    BY <2>1, <2>2, Geometry DEF Receiving
  <2> QED BY <2>1, <2>3 DEF ReceiverInv, Shapes
<1>3. CASE Stop \/ Sleep \/ WakeUp
  <2>1. start' = 0 /\ UNCHANGED <<i2s_rx_buffer, session>>
    BY <1>3 DEF Stop, Sleep, WakeUp, device
  <2>2. dma' = [x \in {"on", "fill", "tc"} |-> dma'[x]]
    BY <1>3 DEF Stop, Sleep, WakeUp, device, i2s_dma_init, ReceiverInv, Shapes
  <2> QED BY <2>1, <2>2 DEF ReceiverInv, Shapes
<1> QED BY <1>1, <1>2, <1>3 DEF UsbIsr
LEMMA ReceiverNext == ReceiverInv /\ [Next]_vars => ReceiverInv'
BY ReceiverWord, ReceiverIsr, ReceiverOther DEF Next

(* What an interrupt that drops nothing copies is settled. *)
LEMMA CopiedSettled ==
  ASSUME ReceiverInv, start = 1, wakeupcnt = 0, dma.tc,
         NEW i \in 0 .. RX - 1
  PROVE  i2s_rx_buffer[i] \in SettledSamples
<1>1. Receiving /\ session \in Nat
  BY DEF ReceiverInv, Shapes
<1>2. Dropped = Settled /\ Settled \in Nat /\ RX \in Nat \ {0}
  BY Geometry DEF Dropped, Settled
<1>3. /\ dma.fill \in 0 .. RX - 1 /\ received \in Nat
      /\ received >= Settled + RX + dma.fill
  BY <1>1, <1>2 DEF Receiving
<1>4. CASE i < dma.fill
  <2>1. i2s_rx_buffer[i] = <<session, received - dma.fill + i>>
    BY <1>1, <1>4 DEF Receiving
  <2>2. received - dma.fill + i \in Nat /\ received - dma.fill + i >= Settled
    BY <1>2, <1>3
  <2> QED BY <1>1, <2>1, <2>2 DEF SettledSamples
<1>5. CASE i >= dma.fill
  <2>1. received - dma.fill >= RX
    BY <1>2, <1>3
  <2>2. i2s_rx_buffer[i] = <<session, received - dma.fill - RX + i>>
    BY <1>1, <1>5, <2>1 DEF Receiving
  <2>3. received - dma.fill - RX + i \in Nat /\ received - dma.fill - RX + i >= Settled
    BY <1>2, <1>3
  <2> QED BY <1>1, <2>2, <2>3 DEF SettledSamples
<1> QED BY <1>2, <1>3, <1>4, <1>5

(* From there on every place holds settled samples only, older sessions'   *)
(* included, so it does not matter which of them a frame is made of.       *)
UnsettledInv ==
  /\ NothingUnsettled
  /\ data_buffer \in [0 .. N - 1 -> SettledSamples]
  /\ frame \in Seq(SettledSamples)
  /\ pc = "write" => Len(frame) = BLK
  /\ prd \in Nat /\ data_buffer_rd_ptr \in Nat

LEMMA UnsettledInit == Init => UnsettledInv
<1> SUFFICES ASSUME Init PROVE UnsettledInv
  OBVIOUS
<1>1. NoSample \in SettledSamples
  BY Geometry DEF NoSample, SettledSamples, Settled
<1> QED BY <1>1 DEF Init, UnsettledInv, NothingUnsettled

LEMMA UnsettledIsr ==
  ASSUME ReceiverInv, UnsettledInv, DmaIsr
  PROVE  UnsettledInv'
<1>1. UNCHANGED <<flaws, frame, pc, prd, data_buffer_rd_ptr>> /\ dma.tc
  BY DEF DmaIsr, task
<1>2. data_buffer' \in [0 .. N - 1 -> SettledSamples]
  <2>1. CASE data_buffer' = data_buffer
    BY <2>1 DEF UnsettledInv
  <2>2. CASE /\ start = 1 /\ wakeupcnt = 0
             /\ data_buffer' = [i \in 0 .. N - 1 |->
                  IF i - data_buffer_wr_ptr \in 0 .. RX - 1
                  THEN i2s_rx_buffer[i - data_buffer_wr_ptr] ELSE data_buffer[i]]
    <3>1. \A j \in 0 .. RX - 1 : i2s_rx_buffer[j] \in SettledSamples
      BY <1>1, <2>2, CopiedSettled
    <3>2. \A i \in 0 .. N - 1 : data_buffer[i] \in SettledSamples
      BY DEF UnsettledInv
    <3> QED BY <2>2, <3>1, <3>2
  <2> QED BY <2>1, <2>2 DEF DmaIsr, IsrStarted
<1> QED BY <1>1, <1>2 DEF UnsettledInv, NothingUnsettled

LEMMA UnsettledMain == UnsettledInv /\ Main => UnsettledInv'
<1> SUFFICES ASSUME UnsettledInv, Main PROVE UnsettledInv'
  OBVIOUS
<1>1. CASE LoadRd
  <2>1. /\ prd' = data_buffer_rd_ptr /\ pc' = "loaded"
        /\ UNCHANGED <<flaws, data_buffer, frame, data_buffer_rd_ptr>>
    BY <1>1 DEF LoadRd, pointers, ghosts
  <2> QED BY <2>1 DEF UnsettledInv, NothingUnsettled
<1>2. CASE LoadWr
  <2>1. /\ prd' \in {prd, 0} /\ pc' # "write"
        /\ UNCHANGED <<flaws, data_buffer, frame, data_buffer_rd_ptr>>
    BY <1>2 DEF LoadWr, pointers, ghosts
  <2> QED BY <2>1 DEF UnsettledInv, NothingUnsettled
<1>3. CASE CopySample
  <2>1. /\ pc = "copy" /\ frame' = Append(frame, data_buffer[(prd + Len(frame)) % N])
        /\ UNCHANGED <<flaws, data_buffer, pc, prd, data_buffer_rd_ptr>>
    BY <1>3 DEF CopySample, pointers, ghosts
  <2>2. (prd + Len(frame)) % N \in 0 .. N - 1
    <3>1. prd \in Nat /\ Len(frame) \in Nat /\ N \in Nat \ {0}
      BY Geometry DEF UnsettledInv
    <3> QED BY <3>1
  <2>3. data_buffer[(prd + Len(frame)) % N] \in SettledSamples
    BY <2>2 DEF UnsettledInv
  <2>4. frame' \in Seq(SettledSamples)
    BY <2>1, <2>3 DEF UnsettledInv
  <2> QED BY <2>1, <2>4 DEF UnsettledInv, NothingUnsettled
<1>4. CASE StoreRd
  <2>1. /\ Len(frame) = BLK /\ data_buffer_rd_ptr' = (prd + BLK) % N /\ prd' = 0
        /\ UNCHANGED <<flaws, data_buffer, frame>>
    BY <1>4 DEF StoreRd, ghosts
  <2>2. (prd + BLK) % N \in Nat
    BY Geometry DEF UnsettledInv
  <2> QED BY <2>1, <2>2 DEF UnsettledInv, NothingUnsettled
<1>5. CASE WriteFrame
  <2>1. /\ pc = "write" /\ frame' = << >> /\ pc' = "count"
        /\ UNCHANGED <<data_buffer, prd, data_buffer_rd_ptr>>
    BY <1>5 DEF WriteFrame, pointers
  <2>2. \A i \in 1 .. BLK : frame[i] \in SettledSamples
    BY <2>1 DEF UnsettledInv
  <2>3. \A i \in 1 .. BLK : ~ (frame[i][2] < Settled)
    <3>1. Settled \in Nat
      BY Geometry DEF Settled
    <3>2. \A s \in SettledSamples : ~ (s[2] < Settled)
      BY <3>1 DEF SettledSamples
    <3> QED BY <2>2, <3>2
  <2>4. "unsettled" \in flaws' => "unsettled" \in flaws
    BY <1>5, <2>3 DEF WriteFrame
  <2>5. frame' \in Seq(SettledSamples)
    BY <2>1
  <2> QED BY <2>1, <2>4, <2>5 DEF UnsettledInv, NothingUnsettled
<1>6. CASE CountFrame
  <2>1. pc' = "idle" /\ UNCHANGED <<flaws, data_buffer, frame, prd, data_buffer_rd_ptr>>
    BY <1>6 DEF CountFrame, pointers, ghosts
  <2> QED BY <2>1 DEF UnsettledInv, NothingUnsettled
<1> QED BY <1>1, <1>2, <1>3, <1>4, <1>5, <1>6 DEF Main

LEMMA UnsettledOther ==
  UnsettledInv /\ (DmaWord \/ UsbIsr \/ UNCHANGED vars) => UnsettledInv'
<1> SUFFICES ASSUME UnsettledInv, DmaWord \/ UsbIsr \/ UNCHANGED vars PROVE UnsettledInv'
  OBVIOUS
<1>1. UNCHANGED <<data_buffer, frame, pc, prd>>
  BY DEF DmaWord, UsbIsr, StartAnew, AlreadyStarted, Stop, Sleep, WakeUp, vars, task
<1>2. data_buffer_rd_ptr' \in {data_buffer_rd_ptr, 0}
  BY DEF DmaWord, UsbIsr, StartAnew, AlreadyStarted, Stop, Sleep, WakeUp, Emptied,
         vars, pointers
<1>3. flaws' \in {flaws, {}}
  BY DEF DmaWord, UsbIsr, StartAnew, AlreadyStarted, Stop, Sleep, WakeUp, Afresh,
         vars, ghosts
<1> QED BY <1>1, <1>2, <1>3 DEF UnsettledInv, NothingUnsettled

(* No frame has a sample of the wake-up time, at every interleaving of     *)
(* starts, stops, sleeps and wake-ups with interrupts however late.        *)
THEOREM NothingUnsettledGoesOut == Spec => []NothingUnsettled
<1>1. Init => ReceiverInv /\ UnsettledInv
  BY ReceiverInit, UnsettledInit
<1>2. ReceiverInv /\ UnsettledInv /\ [Next]_vars => (ReceiverInv /\ UnsettledInv)'
  BY ReceiverNext, UnsettledIsr, UnsettledMain, UnsettledOther DEF Next
<1>3. UnsettledInv => NothingUnsettled
  BY DEF UnsettledInv
<1> QED BY <1>1, <1>2, <1>3, PTL DEF Spec

-------------------------------------------------------------------------------
(* Types.  The write pointer stays on a multiple of RX, so that the RX     *)
(* stores of dma_i2s_isr, which wraps it only after them, are in range.    *)
OnBlock(p) == \E k \in 0 .. N - 1 : p = k * RX /\ k * RX < N

DmaOK     == dma \in [on : BOOLEAN, fill : 0 .. RX - 1, tc : BOOLEAN]
SamplesOK == /\ i2s_rx_buffer \in [0 .. RX - 1 -> Samples]
             /\ data_buffer \in [0 .. N - 1 -> Samples]
             /\ frame \in Seq(Samples)
ScopeOK   == session \in Nat /\ received \in Nat /\ InScope(session, received)
PlacesOK  == /\ OnBlock(data_buffer_wr_ptr)
             /\ data_buffer_rd_ptr \in 0 .. N - 1 /\ prd \in 0 .. N - 1
RestOK    == /\ i2s0 \in BOOLEAN /\ start \in {0, 1} /\ wakeupcnt \in 0 .. WAKEUP
             /\ pc \in {"idle", "loaded", "copy", "write", "count"}
             /\ mishaps \subseteq Mishaps /\ flaws \subseteq Flaws

TypeInv == DmaOK /\ SamplesOK /\ ScopeOK /\ PlacesOK /\ RestOK /\ Len(frame) <= BLK

LEMMA ScopeStart == InScope(0, 0) /\ NoSample \in Samples
<1>1. PICK s \in Scopes : s[1] \in Nat /\ s[2] \in Nat
  BY BoundAssumption
<1>2. Settled \in Nat
  BY Geometry DEF Settled
<1>3. NoSample \in (0 .. s[1]) \X (0 .. s[2] + Settled)
  BY <1>1, <1>2 DEF NoSample
<1> QED BY <1>1, <1>3 DEF InScope, Samples

LEMMA SampleInScope ==
  ASSUME NEW a \in Nat, NEW b \in Nat, InScope(a, b + 1)
  PROVE  <<a, b>> \in Samples /\ InScope(a, b)
<1>1. PICK s \in Scopes : a <= s[1] /\ b + 1 <= s[2] /\ s[1] \in Nat /\ s[2] \in Nat
  BY BoundAssumption DEF InScope
<1>2. Settled \in Nat
  BY Geometry DEF Settled
<1>3. <<a, b>> \in (0 .. s[1]) \X (0 .. s[2] + Settled)
  BY <1>1, <1>2
<1> QED BY <1>1, <1>3 DEF InScope, Samples

LEMMA NextBlock ==
  ASSUME NEW p, OnBlock(p)
  PROVE  p \in 0 .. N - 1 /\ p + RX <= N /\ OnBlock((p + RX) % N)
<1>1. PICK m \in 1 .. N : N = m * RX
  BY GeometryAssumption DEF N, RX
<1>2. PICK k \in 0 .. N - 1 : p = k * RX /\ k * RX < N
  BY DEF OnBlock
<1>3. RX \in Nat \ {0} /\ N \in Nat \ {0} /\ m \in Int /\ k \in Int /\ k >= 0
  BY Geometry, <1>1, <1>2
<1>4. (k + 1) * RX = p + RX
  BY OneMore, <1>2, <1>3
<1>5. k < m
  <2>1. SUFFICES ASSUME k >= m PROVE FALSE
    BY <1>3
  <2>2. (k - m) * RX >= 0
    BY <1>3, <2>1
  <2>3. (k - m) * RX = (k * RX) - (m * RX)
    BY <1>3
  <2> QED BY <1>1, <1>2, <1>3, <2>2, <2>3
<1>6. p + RX <= N
  <2>1. (m - (k + 1)) * RX >= 0
    BY <1>3, <1>5
  <2>2. (m - (k + 1)) * RX = (m * RX) - ((k + 1) * RX)
    BY <1>3
  <2>3. (m * RX) \in Int /\ ((k + 1) * RX) \in Int
    BY <1>3
  <2> QED BY <1>1, <1>3, <1>4, <2>1, <2>2, <2>3
<1>7. p \in Int /\ p >= 0
  BY <1>2, <1>3
<1>8. CASE p + RX = N
  <2>1. (p + RX) % N = 0 /\ 0 * RX = 0
    BY <1>3, <1>8
  <2> QED BY <1>2, <1>3, <1>6, <1>7, <2>1 DEF OnBlock
<1>9. CASE p + RX < N
  <2>1. (p + RX) % N = p + RX
    BY <1>3, <1>7, <1>9
  <2>2. k + 1 <= (k + 1) * RX
    <3>1. (k + 1) * (RX - 1) >= 0
      BY <1>3
    <3>2. (k + 1) * (RX - 1) = ((k + 1) * RX) - (k + 1)
      BY <1>3
    <3> QED BY <1>3, <3>1, <3>2
  <2>3. k + 1 \in 0 .. N - 1
    BY <1>3, <1>4, <1>9, <2>2
  <2>4. \E j \in 0 .. N - 1 : p + RX = j * RX /\ j * RX < N
    <3>1. p + RX = (k + 1) * RX /\ (k + 1) * RX < N
      BY ONLY <1>4, <1>9
    <3> QED BY ONLY <2>3, <3>1
  <2>5. OnBlock((p + RX) % N)
    BY ONLY <2>1, <2>4 DEF OnBlock
  <2>6. p \in 0 .. N - 1
    BY <1>3, <1>7, <1>9
  <2> QED BY <1>6, <2>5, <2>6
<1> QED BY <1>3, <1>6, <1>7, <1>8, <1>9

LEMMA AtZero == OnBlock(0) /\ 0 \in 0 .. N - 1
<1>1. N \in Nat \ {0} /\ RX \in Nat \ {0} /\ 0 * RX = 0
  BY Geometry
<1> QED BY <1>1 DEF OnBlock

LEMMA TypeInit == Init => TypeInv
<1> SUFFICES ASSUME Init PROVE TypeInv
  OBVIOUS
<1>1. DmaOK
  BY Geometry DEF Init, i2s_dma_init, DmaOK
<1>2. SamplesOK /\ ScopeOK
  BY ScopeStart DEF Init, SamplesOK, ScopeOK
<1>3. PlacesOK
  BY AtZero DEF Init, PlacesOK
<1>4. RestOK /\ Len(frame) <= BLK
  BY Geometry DEF Init, RestOK
<1> QED BY <1>1, <1>2, <1>3, <1>4 DEF TypeInv

LEMMA TypeDma == TypeInv /\ (DmaWord \/ DmaIsr) => TypeInv'
<1> SUFFICES ASSUME TypeInv, DmaWord \/ DmaIsr PROVE TypeInv'
  OBVIOUS
<1>1. UNCHANGED <<session, i2s0, start, data_buffer_rd_ptr, pc, prd, frame, flaws>>
  BY DEF DmaWord, DmaIsr, cfg, pointers, task
<1>2. mishaps' \subseteq Mishaps
  <2>1. mishaps' \subseteq mishaps \cup {"overrun", "lapped"}
    BY DEF DmaWord, DmaIsr, IsrStarted
  <2> QED BY <2>1 DEF TypeInv, RestOK, Mishaps
<1>3. CASE DmaWord
  <2>1. /\ dma' = [dma EXCEPT !.fill = (@ + 1) % RX, !.tc = @ \/ dma.fill + 1 = RX]
        /\ i2s_rx_buffer' = [i2s_rx_buffer EXCEPT ![dma.fill] = <<session, received>>]
        /\ InScope(session, received + 1) /\ received' = received + 1
        /\ UNCHANGED <<data_buffer, data_buffer_wr_ptr, wakeupcnt>>
    BY <1>3 DEF DmaWord, pointers, cfg
  <2>2. DmaOK'
    <3>1. \A f \in 0 .. RX - 1 : (f + 1) % RX \in 0 .. RX - 1
      BY Geometry
    <3>2. dma.fill \in 0 .. RX - 1
      BY DEF TypeInv, DmaOK
    <3>3. (dma.fill + 1) % RX \in 0 .. RX - 1
      BY <3>1, <3>2
    <3>4. dma'.fill = (dma.fill + 1) % RX /\ dma'.tc \in BOOLEAN /\ dma'.on = dma.on
      BY <2>1 DEF TypeInv, DmaOK
    <3>5. dma' = [x \in {"on", "fill", "tc"} |-> dma'[x]]
      BY <2>1 DEF TypeInv, DmaOK
    <3> QED BY <3>3, <3>4, <3>5 DEF TypeInv, DmaOK
  <2>3. SamplesOK'
    BY <1>1, <2>1, SampleInScope DEF TypeInv, SamplesOK, ScopeOK
  <2>4. ScopeOK'
    BY <1>1, <2>1 DEF TypeInv, ScopeOK
  <2> QED BY <1>1, <1>2, <2>1, <2>2, <2>3, <2>4 DEF TypeInv, PlacesOK, RestOK
<1>4. CASE DmaIsr
  <2>1. /\ dma' = [dma EXCEPT !.tc = FALSE] /\ UNCHANGED <<i2s_rx_buffer, received>>
        /\ \/ /\ wakeupcnt # 0 /\ wakeupcnt' = wakeupcnt - 1
              /\ UNCHANGED <<data_buffer, data_buffer_wr_ptr>>
           \/ UNCHANGED <<wakeupcnt, data_buffer, data_buffer_wr_ptr>>
           \/ /\ wakeupcnt' = wakeupcnt
              /\ data_buffer' = [i \in 0 .. N - 1 |->
                   IF i - data_buffer_wr_ptr \in 0 .. RX - 1
                   THEN i2s_rx_buffer[i - data_buffer_wr_ptr] ELSE data_buffer[i]]
              /\ data_buffer_wr_ptr' = (data_buffer_wr_ptr + RX) % N
    BY <1>4 DEF DmaIsr, IsrStarted
  <2>2. DmaOK'
    BY <2>1 DEF TypeInv, DmaOK
  <2>3. wakeupcnt' \in 0 .. WAKEUP
    BY <2>1, Geometry DEF TypeInv, RestOK
  <2>4. OnBlock(data_buffer_wr_ptr)'
    BY <2>1, NextBlock DEF TypeInv, PlacesOK, OnBlock
  <2>5. data_buffer' \in [0 .. N - 1 -> Samples]
    <3>1. \A j \in 0 .. RX - 1 : i2s_rx_buffer[j] \in Samples
      BY DEF TypeInv, SamplesOK
    <3> QED BY <2>1, <3>1 DEF TypeInv, SamplesOK
  <2> QED BY <1>1, <1>2, <2>1, <2>2, <2>3, <2>4, <2>5
          DEF TypeInv, SamplesOK, ScopeOK, PlacesOK, RestOK
<1> QED BY <1>3, <1>4

LEMMA TypeMain == TypeInv /\ Main => TypeInv'
<1> SUFFICES ASSUME TypeInv, Main PROVE TypeInv'
  OBVIOUS
<1> USE DEF TypeInv, PlacesOK, RestOK
<1>1. UNCHANGED <<device, cfg, data_buffer, data_buffer_wr_ptr, mishaps>>
  BY DEF Main, LoadRd, LoadWr, CopySample, StoreRd, WriteFrame, CountFrame, pointers, ghosts
<1>2. DmaOK' /\ ScopeOK'
  BY <1>1 DEF DmaOK, ScopeOK, device
<1>3. OnBlock(data_buffer_wr_ptr)'
  BY <1>1 DEF OnBlock
<1>4. /\ data_buffer_rd_ptr' \in 0 .. N - 1 /\ prd' \in 0 .. N - 1
      /\ pc' \in {"idle", "loaded", "copy", "write", "count"}
  <2>1. \A x \in 0 .. N - 1 : (x + BLK) % N \in 0 .. N - 1
    BY Geometry
  <2> QED BY <2>1, AtZero DEF Main, LoadRd, LoadWr, CopySample, StoreRd, WriteFrame,
                              CountFrame, pointers
<1>5. flaws' \subseteq Flaws
  <2>1. flaws' \subseteq flaws \cup Flaws
    BY DEF Main, LoadRd, LoadWr, CopySample, StoreRd, WriteFrame, CountFrame, ghosts, Flaws
  <2> QED BY <2>1
<1>6. frame' \in Seq(Samples) /\ Len(frame') <= BLK
  <2>1. CASE CopySample
    <3>1. Len(frame) < BLK /\ frame' = Append(frame, data_buffer[(prd + Len(frame)) % N])
      BY <2>1 DEF CopySample
    <3>2. (prd + Len(frame)) % N \in 0 .. N - 1
      <4>1. Len(frame) \in Nat /\ N \in Nat \ {0}
        BY Geometry DEF SamplesOK
      <4> QED BY <4>1
    <3>3. data_buffer[(prd + Len(frame)) % N] \in Samples
      BY <3>2 DEF SamplesOK
    <3> QED BY <3>1, <3>3, Geometry DEF SamplesOK
  <2>2. CASE ~ CopySample
    <3>1. frame' = frame \/ frame' = << >>
      BY <2>2 DEF Main, LoadRd, LoadWr, StoreRd, WriteFrame, CountFrame
    <3>2. frame \in Seq(Samples) /\ Len(frame) <= BLK
      BY DEF SamplesOK
    <3>3. << >> \in Seq(Samples) /\ Len(<< >>) = 0 /\ 0 <= BLK
      BY Geometry
    <3> QED BY <3>1, <3>2, <3>3
  <2> QED BY <2>1, <2>2
<1> QED BY <1>1, <1>2, <1>3, <1>4, <1>5, <1>6 DEF SamplesOK, cfg, device

LEMMA TypeOther == TypeInv /\ (UsbIsr \/ UNCHANGED vars) => TypeInv'
<1> SUFFICES ASSUME TypeInv, UsbIsr \/ UNCHANGED vars PROVE TypeInv'
  OBVIOUS
<1>1. UNCHANGED <<i2s_rx_buffer, data_buffer, pc, prd, frame>>
  BY DEF UsbIsr, StartAnew, AlreadyStarted, Stop, Sleep, WakeUp, vars, device, task
<1>2. \/ data_buffer_wr_ptr' = 0 /\ data_buffer_rd_ptr' = 0
      \/ UNCHANGED pointers
  BY DEF UsbIsr, StartAnew, AlreadyStarted, Stop, Sleep, WakeUp, Emptied, vars
<1>3. PlacesOK'
  BY <1>1, <1>2, AtZero DEF TypeInv, PlacesOK, OnBlock, pointers
<1>4. DmaOK'
  <2>1. i2s_dma_init \in [on : BOOLEAN, fill : 0 .. RX - 1, tc : BOOLEAN]
    BY Geometry DEF i2s_dma_init
  <2> QED BY <2>1 DEF UsbIsr, StartAnew, AlreadyStarted, Stop, Sleep, WakeUp, vars, device,
                      TypeInv, DmaOK
<1>5. ScopeOK'
  <2>1. CASE StartAnew
    <3>1. session' = session + 1 /\ received' = 0 /\ InScope(session + 1, received)
      BY <2>1 DEF StartAnew
    <3>2. InScope(session + 1, 0)
      BY <3>1, BoundAssumption DEF InScope
    <3> QED BY <3>1, <3>2 DEF TypeInv, ScopeOK
  <2>2. CASE ~ StartAnew
    <3>1. UNCHANGED <<session, received>>
      BY <2>2 DEF UsbIsr, AlreadyStarted, Stop, Sleep, WakeUp, vars, device
    <3> QED BY <3>1 DEF TypeInv, ScopeOK
  <2> QED BY <2>1, <2>2
<1>6. RestOK'
  <2>1. /\ i2s0' \in BOOLEAN /\ start' \in {0, 1} /\ wakeupcnt' \in {wakeupcnt, WAKEUP}
        /\ flaws' \in {flaws, {}}
    BY DEF UsbIsr, StartAnew, AlreadyStarted, Stop, Sleep, WakeUp, Afresh, vars, cfg,
           ghosts, TypeInv, RestOK
  <2>2. mishaps' \subseteq mishaps \cup {"cut", "miscount"}
    BY DEF UsbIsr, StartAnew, AlreadyStarted, Stop, Sleep, WakeUp, Afresh, Cut, Miscount,
           vars, ghosts
  <2>3. wakeupcnt' \in 0 .. WAKEUP
    BY <2>1, Geometry DEF TypeInv, RestOK
  <2> QED BY <1>1, <2>1, <2>2, <2>3 DEF TypeInv, RestOK, Mishaps
<1> QED BY <1>1, <1>3, <1>4, <1>5, <1>6 DEF TypeInv, SamplesOK

(* Both pointers stay in data_buffer, and the write pointer where a whole  *)
(* i2s_rx_buffer still fits, however commands and interrupts interleave.   *)
THEOREM TypeCorrect == Spec => []TypeOK
<1>1. TypeInv /\ [Next]_vars => TypeInv'
  BY TypeDma, TypeMain, TypeOther DEF Next
<1>2. TypeInv => TypeOK
  BY DEF TypeInv, TypeOK, DmaOK, SamplesOK, ScopeOK, PlacesOK, RestOK, OnBlock
<1> QED BY <1>1, <1>2, TypeInit, PTL DEF Spec

-------------------------------------------------------------------------------
(* The frames.  While started and clean: i2s_rx_buffer holds the words     *)
(* since its last copy, data_buffer the samples from the one the next      *)
(* frame begins with to the one the next copy begins with, and a frame     *)
(* under way the first of them.                                            *)
Clean == mishaps \cap {"overrun", "lapped", "cut"} = {}

Stored == Unread(data_buffer_wr_ptr, data_buffer_rd_ptr)
Oldest == IF pc = "write" THEN due[2] + BLK ELSE due[2]
Held   == IF dma.tc THEN RX ELSE dma.fill
ToDrop == wakeupcnt * RX
Wrapped(i) == IF i < N THEN i ELSE i - N

Incoming ==
  /\ dma.tc => dma.fill = 0
  /\ \A i \in 0 .. Held - 1 : i2s_rx_buffer[i] = <<session, received - Held + i>>

Buffered ==
  /\ due = <<session, due[2]>> /\ due[2] \in Int
  /\ received - Held = Oldest + Stored - ToDrop
  /\ wakeupcnt > 0 => Oldest + Stored = Settled
  /\ \A j \in 0 .. Stored - 1 :
       data_buffer[Wrapped(data_buffer_rd_ptr + j)] = <<session, Oldest + j>>

Framed ==
  /\ pc \in {"loaded", "copy"} => prd = data_buffer_rd_ptr
  /\ pc = "copy" => Stored >= BLK
  /\ pc = "write" => Len(frame) = BLK
  /\ \A i \in 1 .. Len(frame) : frame[i] = <<session, due[2] + i - 1>>

FrameInv ==
  /\ FramesGoOn
  /\ pc \notin {"copy", "write"} => frame = << >>
  /\ start = 1 /\ Clean => Incoming /\ Buffered /\ Framed

LEMMA Modulo ==
  ASSUME NEW x \in 0 .. N - 1, NEW y \in 0 .. N
  PROVE  (x + y) % N = Wrapped(x + y)
<1>1. N \in Nat \ {0} /\ x + y \in 0 .. (2 * N) - 1
  BY Geometry
<1>2. CASE x + y < N
  BY <1>1, <1>2 DEF Wrapped
<1>3. CASE x + y >= N
  <2>1. x + y - N \in 0 .. N - 1 /\ x + y = (x + y - N) + N
    BY <1>1, <1>3
  <2>2. (x + y) % N = (x + y - N) % N
    BY <1>1, <2>1
  <2>3. (x + y - N) % N = x + y - N
    BY <1>1, <2>1
  <2> QED BY <1>1, <1>3, <2>2, <2>3 DEF Wrapped
<1> QED BY <1>1, <1>2, <1>3

(* What Unread counts, before and after either pointer moves. *)
LEMMA UnreadIs ==
  ASSUME NEW r \in 0 .. N - 1, NEW w \in 0 .. N - 1
  PROVE  Unread(w, r) \in 0 .. N - 1 /\ Wrapped(r + Unread(w, r)) = w
BY Geometry DEF Unread, Wrapped

LEMMA UnreadTaken ==
  ASSUME NEW r \in 0 .. N - 1, NEW w \in 0 .. N - 1, BLK <= Unread(w, r)
  PROVE  /\ Unread(w, (r + BLK) % N) = Unread(w, r) - BLK
         /\ (r + BLK) % N \in 0 .. N - 1
         /\ \A j \in 0 .. N - 1 : j + BLK < N =>
              Wrapped(((r + BLK) % N) + j) = Wrapped(r + (BLK + j))
<1>1. BLK \in 0 .. N /\ BLK \in Nat \ {0} /\ N \in Nat \ {0}
  BY UnreadIs, Geometry
<1>2. (r + BLK) % N = Wrapped(r + BLK)
  BY <1>1, Modulo
<1> QED BY <1>1, <1>2 DEF Unread, Wrapped

LEMMA UnreadAdded ==
  ASSUME NEW r \in 0 .. N - 1, NEW w \in 0 .. N - 1, w + RX <= N, Unread(w, r) + RX < N
  PROVE  /\ Unread((w + RX) % N, r) = Unread(w, r) + RX
         /\ \A j \in 0 .. Unread(w, r) - 1 : Wrapped(r + j) - w \notin 0 .. RX - 1
         /\ \A j \in Unread(w, r) .. Unread(w, r) + RX - 1 :
              Wrapped(r + j) - w = j - Unread(w, r)
<1>1. RX \in 0 .. N /\ RX \in Nat \ {0} /\ N \in Nat \ {0}
  BY Geometry
<1>2. (w + RX) % N = Wrapped(w + RX)
  BY <1>1, Modulo
<1>3. Unread((w + RX) % N, r) = Unread(w, r) + RX
  BY <1>1, <1>2 DEF Unread, Wrapped
<1>4. \A j \in 0 .. Unread(w, r) - 1 : Wrapped(r + j) - w \notin 0 .. RX - 1
  BY <1>1 DEF Unread, Wrapped
<1>5. \A j \in Unread(w, r) .. Unread(w, r) + RX - 1 : Wrapped(r + j) - w = j - Unread(w, r)
  BY <1>1 DEF Unread, Wrapped
<1> QED BY <1>3, <1>4, <1>5

LEMMA FrameWord ==
  ASSUME TypeInv, FrameInv, DmaWord
  PROVE  FrameInv'
<1>1. /\ i2s_rx_buffer' = [i2s_rx_buffer EXCEPT ![dma.fill] = <<session, received>>]
      /\ received' = received + 1
      /\ dma' = [dma EXCEPT !.fill = (@ + 1) % RX, !.tc = @ \/ dma.fill + 1 = RX]
      /\ mishaps' = mishaps \cup (IF dma.tc /\ start = 1 THEN {"overrun"} ELSE {})
      /\ session' = session /\ due' = due /\ flaws' = flaws /\ data_buffer' = data_buffer
      /\ pc' = pc /\ prd' = prd /\ frame' = frame /\ start' = start
      /\ wakeupcnt' = wakeupcnt
      /\ data_buffer_wr_ptr' = data_buffer_wr_ptr /\ data_buffer_rd_ptr' = data_buffer_rd_ptr
  BY DEF DmaWord, cfg, pointers, task
<1>2. FramesGoOn' /\ (pc \notin {"copy", "write"} => frame = << >>)'
  BY <1>1 DEF FrameInv, FramesGoOn
<1>3. ASSUME start = 1, Clean' PROVE (Incoming /\ Buffered /\ Framed)'
  <2>1. Clean /\ ~ dma.tc
    BY <1>1, <1>3 DEF Clean
  <2>2. Incoming /\ Buffered /\ Framed
    BY <1>3, <2>1 DEF FrameInv
  <2>3. /\ dma.fill \in 0 .. RX - 1 /\ received \in Nat /\ RX \in Nat \ {0}
        /\ i2s_rx_buffer \in [0 .. RX - 1 -> Samples]
    BY Geometry DEF TypeInv, DmaOK, ScopeOK, SamplesOK
  <2>4. dma'.fill = (dma.fill + 1) % RX /\ (dma'.tc <=> dma.fill + 1 = RX)
    BY <1>1, <2>1 DEF TypeInv, DmaOK
  <2>5. Held = dma.fill
    BY <2>1 DEF Held
  <2>6. Held' = dma.fill + 1 /\ (dma'.tc => dma'.fill = 0)
    <3>1. CASE dma.fill + 1 = RX
      BY <2>3, <2>4, <3>1 DEF Held
    <3>2. CASE dma.fill + 1 # RX
      <4>1. ~ dma'.tc
        BY <2>4, <3>2
      <4>2. dma.fill + 1 \in 0 .. RX - 1
        BY <2>3, <3>2
      <4>3. dma'.fill = dma.fill + 1
        <5>1. dma'.fill = (dma.fill + 1) % RX
          BY <2>4
        <5>2. (dma.fill + 1) % RX = dma.fill + 1
          BY <2>3, <4>2
        <5> QED BY <5>1, <5>2
      <4> QED BY <4>1, <4>3 DEF Held
    <3> QED BY <3>1, <3>2
  <2>7. received' - Held' = received - Held
    BY <1>1, <2>3, <2>5, <2>6
  <2>8. ASSUME NEW i \in 0 .. Held' - 1
        PROVE  i2s_rx_buffer'[i] = <<session', received' - Held' + i>>
    <3>1. CASE i = dma.fill
      <4>1. received' - Held' + i = received
        BY <2>3, <2>5, <2>7, <3>1
      <4> QED BY <1>1, <2>3, <3>1, <4>1
    <3>2. CASE i # dma.fill
      <4>1. i \in 0 .. Held - 1 /\ i \in 0 .. RX - 1
        BY <2>3, <2>5, <2>6, <3>2
      <4>2. i2s_rx_buffer'[i] = i2s_rx_buffer[i]
        BY <1>1, <2>3, <3>2, <4>1
      <4> QED BY <1>1, <2>2, <2>7, <4>1, <4>2 DEF Incoming
    <3> QED BY <3>1, <3>2
  <2>9. Incoming'
    BY <2>6, <2>8 DEF Incoming
  <2>10. Buffered'
    BY <1>1, <2>2, <2>7 DEF Buffered, Oldest, Stored, ToDrop
  <2>11. Framed'
    BY <1>1, <2>2 DEF Framed, Stored
  <2> QED BY <2>9, <2>10, <2>11
<1> QED BY <1>1, <1>2, <1>3 DEF FrameInv

LEMMA FrameIsr ==
  ASSUME TypeInv, FrameInv, DmaIsr
  PROVE  FrameInv'
<1>1. /\ dma' = [dma EXCEPT !.tc = FALSE] /\ dma.tc
      /\ i2s_rx_buffer' = i2s_rx_buffer /\ received' = received
      /\ session' = session /\ due' = due /\ flaws' = flaws
      /\ pc' = pc /\ prd' = prd /\ frame' = frame /\ start' = start
      /\ data_buffer_rd_ptr' = data_buffer_rd_ptr
  BY DEF DmaIsr, task
<1>2. mishaps \subseteq mishaps'
  BY DEF DmaIsr, IsrStarted
<1>3. FramesGoOn' /\ (pc \notin {"copy", "write"} => frame = << >>)'
  BY <1>1, <1>2 DEF FrameInv, FramesGoOn
<1>4. ASSUME start = 1, Clean' PROVE (Incoming /\ Buffered /\ Framed)'
  <2> DEFINE r == data_buffer_rd_ptr
             w == data_buffer_wr_ptr
  <2>1. Clean
    BY <1>2, <1>4 DEF Clean
  <2>2. Incoming /\ Buffered /\ Framed
    BY <1>4, <2>1 DEF FrameInv
  <2>3. /\ dma.fill = 0 /\ received \in Nat /\ RX \in Nat \ {0} /\ N \in Nat \ {0}
        /\ wakeupcnt \in 0 .. WAKEUP /\ WAKEUP \in Nat
        /\ r \in 0 .. N - 1 /\ w \in 0 .. N - 1 /\ w + RX <= N
        /\ dma'.fill = 0 /\ ~ dma'.tc
    BY <1>1, <2>2, Geometry, NextBlock
       DEF TypeInv, DmaOK, ScopeOK, RestOK, PlacesOK, Incoming
  <2>4. Held = RX /\ Held' = 0
    BY <1>1, <2>3 DEF Held
  <2>5. Incoming'
    BY <2>3, <2>4 DEF Incoming
  <2>6. Oldest' = Oldest /\ Oldest \in Int /\ Stored \in 0 .. N - 1
    BY <1>1, <2>2, <2>3, UnreadIs, Geometry DEF Oldest, Buffered, Stored
  <2>7. CASE wakeupcnt # 0 /\ wakeupcnt' = wakeupcnt - 1
             /\ UNCHANGED <<data_buffer, data_buffer_wr_ptr, mishaps>>
    <3>1. Stored' = Stored
      BY <1>1, <2>7 DEF Stored
    <3>2. ToDrop = ToDrop' + RX /\ ToDrop' \in Int
      BY <2>3, <2>7, OneMore DEF ToDrop
    <3>3. received - Held = Oldest + Stored - ToDrop /\ Oldest + Stored = Settled
      BY <2>2, <2>3, <2>7 DEF Buffered
    <3>4. received' - Held' = Oldest' + Stored' - ToDrop'
      BY <1>1, <2>3, <2>4, <2>6, <3>1, <3>2, <3>3
    <3>5. Buffered'
      BY <1>1, <2>2, <2>6, <2>7, <3>1, <3>3, <3>4 DEF Buffered, Settled
    <3>6. Framed'
      BY <1>1, <2>2, <3>1 DEF Framed
    <3> QED BY <2>5, <3>5, <3>6
  <2>8. CASE /\ wakeupcnt = 0
             /\ data_buffer' = [i \in 0 .. N - 1 |->
                  IF i - data_buffer_wr_ptr \in 0 .. RX - 1
                  THEN i2s_rx_buffer[i - data_buffer_wr_ptr] ELSE data_buffer[i]]
             /\ data_buffer_wr_ptr' = (data_buffer_wr_ptr + RX) % N
             /\ mishaps' = mishaps \cup
                  (IF Unread(data_buffer_wr_ptr, data_buffer_rd_ptr) + RX >= N
                   THEN {"lapped"} ELSE {})
             /\ wakeupcnt' = wakeupcnt
    <3>1. Stored + RX < N
      <4>1. "lapped" \notin mishaps'
        BY <1>4 DEF Clean
      <4>2. ~ (Stored + RX >= N)
        BY <2>8, <4>1 DEF Stored
      <4> QED BY <2>3, <2>6, <4>2
    <3>2. Stored' = Stored + RX
      BY <1>1, <2>3, <2>8, <3>1, UnreadAdded DEF Stored
    <3>3. ToDrop = 0 /\ ToDrop' = 0
      BY <2>3, <2>8 DEF ToDrop
    <3>4. received - RX = Oldest + Stored
      BY <2>2, <2>4, <2>6, <3>3 DEF Buffered
    <3>5. received' - Held' = Oldest' + Stored' - ToDrop'
      BY <1>1, <2>3, <2>4, <2>6, <3>2, <3>3, <3>4
    <3>6. ASSUME NEW j \in 0 .. Stored' - 1
          PROVE  data_buffer'[Wrapped(r + j)] = <<session, Oldest + j>>
      <4>1. Wrapped(r + j) \in 0 .. N - 1
        BY <2>3, <2>6, <3>1, <3>2 DEF Wrapped
      <4>2. CASE j < Stored
        <5>1. j \in 0 .. Stored - 1
          BY <2>6, <4>2
        <5>2. Wrapped(r + j) - w \notin 0 .. RX - 1
          BY <2>3, <3>1, <5>1, UnreadAdded DEF Stored
        <5>3. data_buffer'[Wrapped(r + j)] = data_buffer[Wrapped(r + j)]
          BY <2>8, <4>1, <5>2
        <5> QED BY <2>2, <5>1, <5>3 DEF Buffered
      <4>3. CASE j >= Stored
        <5>1. j \in Stored .. Stored + RX - 1 /\ j - Stored \in 0 .. RX - 1
          BY <2>3, <2>6, <3>2, <4>3
        <5>2. Wrapped(r + j) - w = j - Stored
          BY <2>3, <3>1, <5>1, UnreadAdded DEF Stored
        <5>3. data_buffer'[Wrapped(r + j)] = i2s_rx_buffer[j - Stored]
          BY <2>8, <4>1, <5>1, <5>2
        <5>4. i2s_rx_buffer[j - Stored] = <<session, received - Held + (j - Stored)>>
          BY <2>2, <2>4, <5>1 DEF Incoming
        <5>5. received - Held + (j - Stored) = Oldest + j
          BY <2>3, <2>4, <2>6, <3>4
        <5> QED BY <5>3, <5>4, <5>5
      <4> QED BY <2>6, <3>2, <4>2, <4>3
    <3>7. Buffered'
      <4>1. due' = <<session', due'[2]>> /\ due'[2] \in Int
        BY <1>1, <2>2 DEF Buffered
      <4>2. ~ (wakeupcnt' > 0)
        BY <2>8
      <4>3. \A j \in 0 .. Stored' - 1 :
              data_buffer'[Wrapped(data_buffer_rd_ptr' + j)] = <<session', Oldest' + j>>
        BY <1>1, <2>6, <3>6
      <4> QED BY <3>5, <4>1, <4>2, <4>3 DEF Buffered, Wrapped
    <3>8. Framed'
      <4>1. /\ pc' = pc /\ prd' = prd /\ data_buffer_rd_ptr' = data_buffer_rd_ptr
            /\ frame' = frame /\ session' = session /\ due'[2] = due[2]
        BY <1>1, <2>6
      <4>2. Stored' >= Stored
        BY <2>3, <2>6, <3>2
      <4>3. Stored >= BLK => Stored' >= BLK
        <5>1. Stored \in Int /\ Stored' \in Int /\ BLK \in Int
          BY <2>3, <2>6, <3>2, Geometry
        <5> QED BY <4>2, <5>1
      <4> QED BY <2>2, <4>1, <4>3 DEF Framed
    <3> QED BY <2>5, <3>7, <3>8
  <2> QED BY <1>4, <2>7, <2>8 DEF DmaIsr, IsrStarted
<1> QED BY <1>1, <1>3, <1>4 DEF FrameInv

(* What a step keeps of data_buffer when it moves neither end of it. *)
LEMMA BufferedKept ==
  ASSUME due' = due, session' = session, data_buffer' = data_buffer, received' = received,
         data_buffer_rd_ptr' = data_buffer_rd_ptr, wakeupcnt' = wakeupcnt,
         Oldest' = Oldest, Stored' = Stored, Held' = Held, ToDrop' = ToDrop,
         Buffered
  PROVE  Buffered'
BY DEF Buffered, Settled, Wrapped

(* No step of task_data_out moves what has been received. *)
LEMMA FrameMain ==
  ASSUME TypeInv, QuietInv, FrameInv, Main
  PROVE  FrameInv'
<1>1. /\ dma' = dma /\ i2s_rx_buffer' = i2s_rx_buffer /\ received' = received
      /\ session' = session /\ start' = start /\ wakeupcnt' = wakeupcnt
      /\ data_buffer' = data_buffer /\ data_buffer_wr_ptr' = data_buffer_wr_ptr
      /\ mishaps' = mishaps
  BY DEF Main, LoadRd, LoadWr, CopySample, StoreRd, WriteFrame, CountFrame,
         device, cfg, pointers, ghosts
<1>2. Clean' = Clean /\ Held' = Held /\ ToDrop' = ToDrop
  BY <1>1 DEF Clean, Held, ToDrop
<1>3. Incoming => Incoming'
  BY <1>1, <1>2 DEF Incoming
<1>4. /\ data_buffer_rd_ptr \in 0 .. N - 1 /\ data_buffer_wr_ptr \in 0 .. N - 1
      /\ Len(frame) \in Nat /\ frame \in Seq(Samples) /\ Len(frame) <= BLK
      /\ N \in Nat \ {0} /\ BLK \in Nat \ {0}
  BY Geometry, NextBlock DEF TypeInv, PlacesOK, SamplesOK
<1>5. Stored \in 0 .. N - 1
  BY <1>4, UnreadIs DEF Stored
<1>6. CASE LoadRd
  <2>1. /\ pc = "idle" /\ prd' = data_buffer_rd_ptr /\ pc' = "loaded"
        /\ UNCHANGED <<data_buffer_rd_ptr, frame, due, flaws>>
    BY <1>6 DEF LoadRd, pointers, ghosts
  <2>2. Stored' = Stored /\ Oldest' = Oldest
    BY <1>1, <2>1 DEF Stored, Oldest
  <2>3. Buffered => Buffered'
    BY <1>1, <1>2, <2>1, <2>2, BufferedKept
  <2>4. Framed => Framed'
    BY <1>1, <2>1 DEF Framed
  <2> QED BY <1>1, <1>2, <1>3, <2>1, <2>3, <2>4 DEF FrameInv, FramesGoOn
<1>7. CASE LoadWr
  <2>1. /\ pc = "loaded" /\ UNCHANGED <<data_buffer_rd_ptr, frame, due, flaws>>
        /\ \/ pc' = "copy" /\ prd' = prd /\ Unread(data_buffer_wr_ptr, prd) >= BLK
           \/ pc' = "idle"
    BY <1>7 DEF LoadWr, pointers, ghosts, Enough
  <2>2. Stored' = Stored /\ Oldest' = Oldest
    BY <1>1, <2>1 DEF Stored, Oldest
  <2>3. Buffered => Buffered'
    BY <1>1, <1>2, <2>1, <2>2, BufferedKept
  <2>4. Framed => Framed'
    BY <1>1, <2>1, <2>2 DEF Framed, Stored
  <2> QED BY <1>1, <1>2, <1>3, <2>1, <2>3, <2>4 DEF FrameInv, FramesGoOn
<1>8. CASE CopySample
  <2> DEFINE n == Len(frame)
             new == data_buffer[(prd + n) % N]
  <2>1. /\ pc = "copy" /\ n < BLK /\ frame' = Append(frame, new)
        /\ UNCHANGED <<data_buffer_rd_ptr, prd, pc, due, flaws>>
    BY <1>8 DEF CopySample, pointers, ghosts
  <2>2. Stored' = Stored /\ Oldest' = Oldest
    BY <1>1, <2>1 DEF Stored, Oldest
  <2>3. Buffered => Buffered'
    BY <1>1, <1>2, <2>1, <2>2, BufferedKept
  <2>4. ASSUME Framed, Buffered PROVE Framed'
    <3>1. n \in 0 .. Stored - 1 /\ prd = data_buffer_rd_ptr
      BY <1>4, <1>5, <2>1, <2>4 DEF Framed
    <3>2. (prd + n) % N = Wrapped(data_buffer_rd_ptr + n)
      BY <1>4, <1>5, <3>1, Modulo
    <3>3. new = <<session, due[2] + n>>
      BY <2>1, <2>4, <3>1, <3>2 DEF Buffered, Oldest
    <3>4. Len(frame') = n + 1 /\ \A i \in 1 .. n : frame'[i] = frame[i]
      BY <1>4, <2>1
    <3>5. frame'[n + 1] = new
      BY <1>4, <2>1
    <3>6. due[2] \in Int /\ due' = due /\ session' = session
      BY <1>1, <2>1, <2>4 DEF Buffered
    <3>7. ASSUME NEW i \in 1 .. Len(frame')
          PROVE  frame'[i] = <<session, due[2] + i - 1>>
      <4>1. CASE i = n + 1
        <5>1. due[2] + i - 1 = due[2] + n
          BY <1>4, <3>6, <4>1
        <5> QED BY <3>3, <3>5, <4>1, <5>1
      <4>2. CASE i # n + 1
        <5>1. i \in 1 .. n
          BY <1>4, <3>4, <4>2
        <5> QED BY <2>4, <3>4, <5>1 DEF Framed
      <4> QED BY <4>1, <4>2
    <3> QED BY <2>1, <2>2, <2>4, <3>6, <3>7 DEF Framed
  <2> QED BY <1>1, <1>2, <1>3, <2>1, <2>3, <2>4 DEF FrameInv, FramesGoOn
<1>9. CASE StoreRd
  <2>1. /\ pc = "copy" /\ Len(frame) = BLK /\ pc' = "write"
        /\ data_buffer_rd_ptr' = (prd + BLK) % N
        /\ UNCHANGED <<frame, due, flaws>>
    BY <1>9 DEF StoreRd, ghosts
  <2>2. ASSUME Framed, Buffered PROVE Framed' /\ Buffered'
    <3>1. prd = data_buffer_rd_ptr /\ BLK <= Stored
      BY <1>4, <1>5, <2>1, <2>2 DEF Framed
    <3>2. /\ Stored' = Stored - BLK
          /\ \A j \in 0 .. N - 1 : j + BLK < N =>
               Wrapped(data_buffer_rd_ptr' + j) = Wrapped(data_buffer_rd_ptr + (BLK + j))
      BY <1>1, <1>4, <2>1, <3>1, UnreadTaken DEF Stored
    <3>3. due[2] \in Int /\ Oldest = due[2] /\ Oldest' = due[2] + BLK
      BY <2>1, <2>2 DEF Buffered, Oldest
    <3>4. Oldest' + Stored' = Oldest + Stored
      BY <1>4, <1>5, <3>2, <3>3
    <3>5. ASSUME NEW j \in 0 .. Stored' - 1
          PROVE  data_buffer'[Wrapped(data_buffer_rd_ptr' + j)] = <<session, Oldest' + j>>
      <4>1. BLK + j \in 0 .. Stored - 1 /\ j \in 0 .. N - 1 /\ j + BLK < N
        BY <1>4, <1>5, <3>2
      <4>2. Wrapped(data_buffer_rd_ptr' + j) = Wrapped(data_buffer_rd_ptr + (BLK + j))
        BY <3>2, <4>1
      <4>3. data_buffer[Wrapped(data_buffer_rd_ptr + (BLK + j))]
              = <<session, Oldest + (BLK + j)>>
        BY <2>2, <4>1 DEF Buffered
      <4>4. Oldest + (BLK + j) = Oldest' + j
        BY <1>4, <3>3, <4>1
      <4> QED BY <1>1, <4>2, <4>3, <4>4
    <3>6. received' - Held' = Oldest' + Stored' - ToDrop'
      <4>1. received - Held = Oldest + Stored - ToDrop
        BY <2>2 DEF Buffered
      <4>2. received' = received /\ Held' = Held /\ ToDrop' = ToDrop
        BY <1>1, <1>2
      <4>3. received' - Held' = received - Held
        BY <4>2
      <4>4. Oldest' + Stored' - ToDrop' = Oldest + Stored - ToDrop
        <5>1. ToDrop \in Int /\ BLK \in Int
          BY Geometry DEF ToDrop, TypeInv, RestOK
        <5> QED BY <1>5, <3>2, <3>3, <3>4, <4>2, <5>1
      <4> QED BY <4>1, <4>3, <4>4
    <3>7. Buffered'
      BY <1>1, <2>1, <2>2, <3>4, <3>5, <3>6 DEF Buffered, Settled
    <3>8. Framed'
      BY <1>1, <2>1, <2>2 DEF Framed
    <3> QED BY <3>7, <3>8
  <2> QED BY <1>1, <1>2, <1>3, <2>1, <2>2 DEF FrameInv, FramesGoOn
<1>10. CASE WriteFrame
  <2>1. /\ pc = "write" /\ pc' = "count" /\ frame' = << >>
        /\ due' = <<due[1], due[2] + BLK>>
        /\ data_buffer_rd_ptr' = data_buffer_rd_ptr /\ prd' = prd
        /\ ("gap" \in flaws' => "gap" \in flaws \/ ~ GoesOn)
    BY <1>10 DEF WriteFrame, pointers
  <2>2. Clean => start = 1
    BY <2>1 DEF QuietInv, TypeInv, RestOK, Clean
  <2>3. ASSUME Clean PROVE GoesOn
    <3>1. Framed /\ Buffered
      BY <2>2, <2>3 DEF FrameInv
    <3>2. due[1] = session /\ Len(frame) = BLK
      BY <2>1, <3>1 DEF Framed, Buffered
    <3> QED BY <3>1, <3>2 DEF Framed, GoesOn
  <2>4. FramesGoOn'
    BY <1>1, <2>1, <2>3 DEF FrameInv, FramesGoOn, Clean
  <2>5. ASSUME Framed, Buffered PROVE Framed' /\ Buffered'
    <3>1. Stored' = Stored
      BY <1>1, <2>1 DEF Stored
    <3>2. due[2] \in Int /\ Oldest = due[2] + BLK
      BY <2>1, <2>5 DEF Buffered, Oldest
    <3>3. due'[2] = due[2] + BLK /\ due' = <<session, due'[2]>>
      BY <2>1, <2>5 DEF Buffered
    <3>4. Oldest' = Oldest /\ due'[2] \in Int
      BY <1>4, <2>1, <3>2, <3>3 DEF Oldest
    <3>5. Buffered'
      BY <1>1, <1>2, <2>1, <2>5, <3>1, <3>3, <3>4 DEF Buffered
    <3>6. Framed'
      BY <2>1 DEF Framed
    <3> QED BY <3>5, <3>6
  <2> QED BY <1>1, <1>2, <1>3, <2>1, <2>4, <2>5 DEF FrameInv
<1>11. CASE CountFrame
  <2>1. /\ pc = "count" /\ pc' = "idle"
        /\ UNCHANGED <<data_buffer_rd_ptr, frame, due, flaws>>
    BY <1>11 DEF CountFrame, pointers, ghosts
  <2>2. Stored' = Stored /\ Oldest' = Oldest
    BY <1>1, <2>1 DEF Stored, Oldest
  <2>3. Buffered => Buffered'
    BY <1>1, <1>2, <2>1, <2>2, BufferedKept
  <2>4. Framed => Framed'
    BY <1>1, <2>1 DEF Framed
  <2> QED BY <1>1, <1>2, <1>3, <2>1, <2>3, <2>4 DEF FrameInv, FramesGoOn
<1> QED BY <1>6, <1>7, <1>8, <1>9, <1>10, <1>11 DEF Main

LEMMA FrameOther ==
  ASSUME TypeInv, FrameInv, UsbIsr \/ UNCHANGED vars
  PROVE  FrameInv'
<1>1. UNCHANGED <<pc, prd, frame>>
  BY DEF UsbIsr, StartAnew, AlreadyStarted, Stop, Sleep, WakeUp, vars, task
<1>2. CASE AlreadyStarted \/ UNCHANGED vars
  <2>1. UNCHANGED <<dma, i2s_rx_buffer, session, received, start, wakeupcnt, data_buffer,
                    data_buffer_wr_ptr, data_buffer_rd_ptr, due, flaws>>
    BY <1>2 DEF AlreadyStarted, vars, device, cfg, pointers, ghosts
  <2>2. mishaps' \cap {"overrun", "lapped", "cut"} = mishaps \cap {"overrun", "lapped", "cut"}
    BY <1>2 DEF AlreadyStarted, Miscount, vars, ghosts
  <2>3. (Incoming => Incoming') /\ Clean' = Clean
    BY <2>1, <2>2 DEF Incoming, Held, Clean
  <2>4. Buffered => Buffered'
    BY <1>1, <2>1 DEF Buffered, Held, Oldest, Stored, ToDrop
  <2>5. Framed => Framed'
    BY <1>1, <2>1 DEF Framed, Stored
  <2> QED BY <1>1, <2>1, <2>2, <2>3, <2>4, <2>5 DEF FrameInv, FramesGoOn
<1>3. CASE Stop \/ Sleep \/ WakeUp
  <2>1. start' = 0 /\ flaws' = {}
    BY <1>3 DEF Stop, Sleep, WakeUp, Afresh
  <2> QED BY <1>1, <2>1 DEF FrameInv, FramesGoOn
<1>4. CASE StartAnew
  <2>1. /\ data_buffer_wr_ptr' = 0 /\ data_buffer_rd_ptr' = 0
        /\ dma' = [on |-> TRUE, fill |-> 0, tc |-> FALSE]
        /\ session' = session + 1 /\ received' = 0 /\ wakeupcnt' = WAKEUP
        /\ due' = <<session + 1, Settled>> /\ flaws' = {}
        /\ mishaps' = Cut \cup Miscount
    BY <1>4 DEF StartAnew, Emptied, i2s_dma_init
  <2>2. ASSUME Clean' PROVE (Incoming /\ Buffered /\ Framed)'
    <3>1. pc = "idle" /\ pc' = "idle" /\ frame' = << >>
      BY <1>1, <2>1, <2>2 DEF Clean, Cut, FrameInv
    <3>2. Held' = 0 /\ Stored' = 0 /\ Oldest' = Settled /\ ToDrop' = Settled
      BY <2>1, <3>1 DEF Held, Stored, Unread, Oldest, ToDrop, Settled
    <3>3. Settled \in Nat /\ Settled' = Settled
      BY Geometry DEF Settled
    <3>4. Incoming'
      BY <2>1, <3>2 DEF Incoming
    <3>5. due' = <<session', due'[2]>> /\ due'[2] \in Int
      BY <2>1, <3>3
    <3>6. Buffered'
      BY <2>1, <3>2, <3>3, <3>5 DEF Buffered
    <3>7. Framed'
      BY <3>1 DEF Framed
    <3> QED BY <3>4, <3>6, <3>7
  <2> QED BY <1>1, <2>1, <2>2 DEF FrameInv, FramesGoOn
<1> QED BY <1>2, <1>3, <1>4 DEF UsbIsr

(* The frames of a session are its samples from the first settled one on,  *)
(* in order, none missing and none twice, for every size of the buffers    *)
(* and of a frame, unless an interrupt came too late, lapped the reader or *)
(* cut a call of task_data_out short.                                      *)
THEOREM FramesInSequence == Spec => []FramesGoOn
<1>1. Init => TypeInv /\ QuietInv /\ FrameInv
  <2>1. Init => QuietInv
    BY DEF Init, QuietInv, QuietWhenStopped
  <2>2. Init => FrameInv
    BY DEF Init, FrameInv, FramesGoOn
  <2> QED BY TypeInit, <2>1, <2>2
<1>2. TypeInv /\ QuietInv /\ FrameInv /\ [Next]_vars => (TypeInv /\ QuietInv /\ FrameInv)'
  BY TypeDma, TypeMain, TypeOther, QuietMain, QuietOther, FrameWord, FrameIsr, FrameMain,
     FrameOther DEF Next
<1>3. FrameInv => FramesGoOn
  BY DEF FrameInv
<1> QED BY <1>1, <1>2, <1>3, PTL DEF Spec
================================================================================
