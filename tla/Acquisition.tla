----------------------------- MODULE Acquisition ------------------------------
(***************************************************************************)
(* From the I2S receiver to data frames: the DMA filling i2s_rx_buffer,    *)
(* dma_i2s_isr moving each full buffer to data_buffer, task_data_out in    *)
(* the main loop cutting data_buffer into frames for usb_tx_rb, and the    *)
(* commands of the USB interrupt that start and stop all this.             *)
(*                                                                         *)
(* A sample is <<session, n>>: the n-th word received since the session-th *)
(* start of the DMA.  The two interrupts do not preempt each other and are *)
(* one action each; both fall anywhere in task_data_out, which is split    *)
(* wherever it reads or stores what they change.  The DMA works besides.   *)
(***************************************************************************)
EXTENDS Integers, Sequences

CONSTANTS
  DATA_BUF_CNT,     \* size of data_buffer
  I2S_RX_BUF_LEN,   \* size of i2s_rx_buffer
  DATA24_BLK_CNT,   \* samples of a frame
  WAKEUP,           \* 512, the full i2s_rx_buffers dropped after a start
  Scopes            \* bound: pairs of starts of the DMA and words received in
                    \* each session

ASSUME GeometryAssumption ==
  /\ I2S_RX_BUF_LEN \in Nat \ {0}
  /\ DATA24_BLK_CNT \in Nat \ {0}
  /\ DATA_BUF_CNT \in Nat \ {0}
  /\ \E k \in 1 .. DATA_BUF_CNT : DATA_BUF_CNT = k * I2S_RX_BUF_LEN
ASSUME BoundAssumption ==
  WAKEUP \in Nat /\ Scopes \subseteq Nat \X Nat /\ Scopes # {}

VARIABLES
  dma,           \* [on, fill, tc]: channel enabled, next word, block pending
  i2s_rx_buffer,
  session, received,   \* the DMA's starts, and its words since the last
  i2s0,          \* whether the device pointer is set
  start, wakeupcnt,    \* of i2s_cfg
  data_buffer, data_buffer_wr_ptr, data_buffer_rd_ptr,
  blk_read_count, blk_overflow_cnt,
  pc, prd, frame,      \* task_data_out: where it is, its locals (0 when dead)
  count,         \* task_data_out: the counter it increments, its value read
  due,           \* ghost: the sample the next frame begins with
  base,          \* ghost: due when the counters were last zeroed
  mishaps,       \* ghost: what happened in this session, see below
  flaws          \* ghost: what was wrong with its frames, see below

device   == <<dma, i2s_rx_buffer, session, received>>
cfg      == <<i2s0, start, wakeupcnt>>
pointers == <<data_buffer_wr_ptr, data_buffer_rd_ptr>>
counters == <<blk_read_count, blk_overflow_cnt>>
task     == <<pc, prd, frame, count>>
ghosts   == <<due, base, mishaps, flaws>>
vars     == <<device, cfg, data_buffer, pointers, counters, task, ghosts>>

N   == DATA_BUF_CNT
RX  == I2S_RX_BUF_LEN
BLK == DATA24_BLK_CNT

(* The first sample that is not dropped while the converter settles. *)
Settled == WAKEUP * RX

(* overrun: a word arrived before the interrupt for the last full buffer;  *)
(* lapped: the interrupt wrote over samples not yet sent, or up to them;   *)
(* cut: a start, stop or sleep came in the middle of task_data_out;        *)
(* miscount: the counters were zeroed while one was being incremented.     *)
Mishaps == {"overrun", "lapped", "cut", "miscount"}

(* gap: a frame did not go on where the last one ended; unsettled: it had  *)
(* samples of the wake-up time; unasked: it was built while stopped.       *)
Flaws == {"gap", "unsettled", "unasked"}

NoSample == <<0, Settled>>

Unread(wr, rd) == IF wr < rd THEN N - rd + wr ELSE wr - rd

(* i2s_dma_init: the channel at the beginning of its buffer, nothing       *)
(* pending, and not started.                                               *)
i2s_dma_init == [on |-> FALSE, fill |-> 0, tc |-> FALSE]

-------------------------------------------------------------------------------
(* After cdc_acm_init and the first DTR: I2S_WakeUp has run once. *)
Init ==
  /\ dma = i2s_dma_init
  /\ i2s_rx_buffer = [i \in 0 .. RX - 1 |-> NoSample]
  /\ session = 0 /\ received = 0
  /\ i2s0 = TRUE /\ start = 0 /\ wakeupcnt = WAKEUP
  /\ data_buffer = [i \in 0 .. N - 1 |-> NoSample]
  /\ data_buffer_wr_ptr = 0 /\ data_buffer_rd_ptr = 0
  /\ blk_read_count = 0 /\ blk_overflow_cnt = 0
  /\ pc = "idle" /\ prd = 0 /\ frame = << >> /\ count = <<"none", 0>>
  /\ due = <<0, 0>> /\ base = 0 /\ mishaps = {} /\ flaws = {}

InScope(starts, words) == \E s \in Scopes : starts <= s[1] /\ words <= s[2]

(* The I2S receiver has a word and the DMA stores it; the list of one      *)
(* transfer is linked to itself, so after the last word comes the first.   *)
DmaWord ==
  /\ dma.on /\ InScope(session, received + 1)
  /\ i2s_rx_buffer' = [i2s_rx_buffer EXCEPT ![dma.fill] = <<session, received>>]
  /\ received' = received + 1
  /\ dma' = [dma EXCEPT !.fill = (@ + 1) % RX, !.tc = @ \/ dma.fill + 1 = RX]
  /\ mishaps' = mishaps \cup IF dma.tc /\ start = 1 THEN {"overrun"} ELSE {}
  /\ UNCHANGED <<session, cfg, data_buffer, pointers, counters, task, due, base, flaws>>

(* seeded faults: the buffers of the wake-up time are kept; the write      *)
(* pointer is not wrapped after the copy.                                  *)
IsrDropsNone ==
  /\ data_buffer' = [i \in 0 .. N - 1 |->
       IF i - data_buffer_wr_ptr \in 0 .. RX - 1
       THEN i2s_rx_buffer[i - data_buffer_wr_ptr] ELSE data_buffer[i]]
  /\ data_buffer_wr_ptr' = (data_buffer_wr_ptr + RX) % N
  /\ UNCHANGED <<wakeupcnt, mishaps>>
IsrNoWrap ==
  \/ wakeupcnt # 0 /\ wakeupcnt' = wakeupcnt - 1
     /\ UNCHANGED <<data_buffer, data_buffer_wr_ptr, mishaps>>
  \/ /\ wakeupcnt = 0
     /\ data_buffer' = [i \in 0 .. N - 1 |->
          IF i - data_buffer_wr_ptr \in 0 .. RX - 1
          THEN i2s_rx_buffer[i - data_buffer_wr_ptr] ELSE data_buffer[i]]
     /\ data_buffer_wr_ptr' = data_buffer_wr_ptr + RX
     /\ UNCHANGED <<wakeupcnt, mishaps>>

(* dma_i2s_isr while started: nothing is compared with the read pointer.   *)
IsrStarted ==
  \/ /\ wakeupcnt # 0
     /\ wakeupcnt' = wakeupcnt - 1
     /\ UNCHANGED <<data_buffer, data_buffer_wr_ptr, mishaps>>
  \/ /\ wakeupcnt = 0
     /\ data_buffer' = [i \in 0 .. N - 1 |->
          IF i - data_buffer_wr_ptr \in 0 .. RX - 1
          THEN i2s_rx_buffer[i - data_buffer_wr_ptr] ELSE data_buffer[i]]
     /\ data_buffer_wr_ptr' = (data_buffer_wr_ptr + RX) % N
     /\ mishaps' = mishaps \cup
          IF Unread(data_buffer_wr_ptr, data_buffer_rd_ptr) + RX >= N
          THEN {"lapped"} ELSE {}
     /\ UNCHANGED wakeupcnt

DmaIsr ==
  /\ dma.tc
  /\ dma' = [dma EXCEPT !.tc = FALSE]
  /\ \/ start = 0 /\ UNCHANGED <<wakeupcnt, data_buffer, data_buffer_wr_ptr, mishaps>>
     \/ start = 1 /\ IsrStarted
  /\ UNCHANGED <<i2s_rx_buffer, session, received, i2s0, start, data_buffer_rd_ptr,
                 counters, task, due, base, flaws>>

-------------------------------------------------------------------------------
(* task_data_out loads the read pointer, then the write pointer. *)
LoadRd ==
  /\ pc = "idle"
  /\ prd' = data_buffer_rd_ptr /\ pc' = "loaded"
  /\ UNCHANGED <<device, cfg, data_buffer, pointers, counters, frame, count, ghosts>>

(* seeded fault: the wrapped part is not counted from the pointer read.    *)
EnoughFromStart(wr, rd) == (IF wr < rd THEN N - wr + rd ELSE wr - rd) >= BLK

Enough(wr, rd) == Unread(wr, rd) >= BLK

LoadWr ==
  /\ pc = "loaded"
  /\ \/ Enough(data_buffer_wr_ptr, prd) /\ pc' = "copy" /\ UNCHANGED prd
     \/ ~ Enough(data_buffer_wr_ptr, prd) /\ pc' = "idle" /\ prd' = 0
  /\ UNCHANGED <<device, cfg, data_buffer, pointers, counters, frame, count, ghosts>>

CopySample ==
  /\ pc = "copy" /\ Len(frame) < BLK
  /\ frame' = Append(frame, data_buffer[(prd + Len(frame)) % N])
  /\ UNCHANGED <<device, cfg, data_buffer, pointers, counters, pc, prd, count, ghosts>>

(* The pointer stored is the one loaded at the start plus a frame,         *)
(* whatever an interrupt has put there meanwhile.                          *)
StoreRd ==
  /\ pc = "copy" /\ Len(frame) = BLK
  /\ data_buffer_rd_ptr' = (prd + BLK) % N
  /\ pc' = "write" /\ prd' = 0
  /\ UNCHANGED <<device, cfg, data_buffer, data_buffer_wr_ptr, counters, frame,
                 count, ghosts>>

(* Ring_Buffer_Write takes the frame or not, and a counter is incremented. *)
GoesOn == \A i \in 1 .. BLK : frame[i] = <<due[1], due[2] + i - 1>>

WriteFrame ==
  /\ pc = "write"
  /\ \/ count' = <<"read", blk_read_count>>
     \/ count' = <<"overflow", blk_overflow_cnt>>
  /\ flaws' = flaws
       \cup (IF GoesOn THEN {} ELSE {"gap"})
       \cup (IF \E i \in 1 .. BLK : frame[i][2] < Settled THEN {"unsettled"} ELSE {})
       \cup (IF start = 0 THEN {"unasked"} ELSE {})
  /\ due' = <<due[1], due[2] + BLK>>
  /\ pc' = "count" /\ frame' = << >>
  /\ UNCHANGED <<device, cfg, data_buffer, pointers, counters, prd, base, mishaps>>

(* seeded fault: a frame the ring did not take is not counted. *)
CountAccepted ==
  /\ pc = "count"
  /\ blk_read_count' = IF count[1] = "read" THEN count[2] + 1 ELSE blk_read_count
  /\ pc' = "idle" /\ count' = <<"none", 0>>
  /\ UNCHANGED <<device, cfg, data_buffer, pointers, blk_overflow_cnt, prd, frame, ghosts>>

CountFrame ==
  /\ pc = "count"
  /\ \/ count[1] = "read"     /\ blk_read_count' = count[2] + 1   /\ UNCHANGED blk_overflow_cnt
     \/ count[1] = "overflow" /\ blk_overflow_cnt' = count[2] + 1 /\ UNCHANGED blk_read_count
  /\ pc' = "idle" /\ count' = <<"none", 0>>
  /\ UNCHANGED <<device, cfg, data_buffer, pointers, prd, frame, ghosts>>

Main == LoadRd \/ LoadWr \/ CopySample \/ StoreRd \/ WriteFrame \/ CountFrame

-------------------------------------------------------------------------------
(* seeded fault: only the write pointer is set back. *)
EmptiedHalf == data_buffer_wr_ptr' = 0 /\ UNCHANGED data_buffer_rd_ptr

Emptied == data_buffer_wr_ptr' = 0 /\ data_buffer_rd_ptr' = 0

(* What begins now begins clean, unless task_data_out is under way. *)
Cut    == IF pc = "idle" THEN {} ELSE {"cut"}
Afresh == mishaps' = Cut \cup (mishaps \cap {"miscount"}) /\ flaws' = {}

(* The counters begin at zero, unless one is being incremented. *)
Miscount == IF pc = "count" THEN {"miscount"} ELSE {}

(* I2S_Start with a change: the DMA and the buffers begin anew.  A start   *)
(* of a stopped or asleep-and-woken device always takes this branch.       *)
StartAnew ==
  /\ i2s0 /\ InScope(session + 1, received)
  /\ Emptied
  /\ dma' = [i2s_dma_init EXCEPT !.on = TRUE]
  /\ session' = session + 1 /\ received' = 0
  /\ start' = 1 /\ wakeupcnt' = WAKEUP
  /\ blk_read_count' = 0 /\ blk_overflow_cnt' = 0
  /\ due' = <<session + 1, Settled>> /\ base' = Settled
  /\ mishaps' = Cut \cup Miscount /\ flaws' = {}
  /\ UNCHANGED <<i2s_rx_buffer, i2s0, data_buffer, task>>

(* I2S_Start of what is started as asked: only the counters are zeroed. *)
AlreadyStarted ==
  /\ i2s0 /\ start = 1
  /\ blk_read_count' = 0 /\ blk_overflow_cnt' = 0
  /\ base' = due[2]
  /\ mishaps' = (mishaps \ {"miscount"}) \cup Miscount
  /\ UNCHANGED <<device, cfg, data_buffer, pointers, task, due, flaws>>

(* seeded fault: the samples received before the stop stay in the buffer.  *)
StopKeepsSamples ==
  /\ i2s0
  /\ start' = 0
  /\ Afresh
  /\ UNCHANGED <<device, i2s0, wakeupcnt, data_buffer, pointers, counters, task, due, base>>

(* I2S_Stop leaves the DMA running. *)
Stop ==
  /\ i2s0
  /\ start' = 0 /\ Emptied
  /\ Afresh
  /\ UNCHANGED <<device, i2s0, wakeupcnt, data_buffer, counters, task, due, base>>

(* I2S_Sleep, when DTR is dropped. *)
Sleep ==
  /\ i2s0
  /\ dma' = [dma EXCEPT !.on = FALSE]
  /\ start' = 0 /\ Emptied /\ i2s0' = FALSE
  /\ Afresh
  /\ UNCHANGED <<i2s_rx_buffer, session, received, wakeupcnt, data_buffer, counters,
                 task, due, base>>

(* I2S_WakeUp, when DTR is raised: the DMA is set up and not started. *)
WakeUp ==
  /\ ~ i2s0
  /\ dma' = i2s_dma_init
  /\ start' = 0 /\ Emptied /\ wakeupcnt' = WAKEUP /\ i2s0' = TRUE
  /\ Afresh
  /\ UNCHANGED <<i2s_rx_buffer, session, received, data_buffer, counters, task, due, base>>

UsbIsr == StartAnew \/ AlreadyStarted \/ Stop \/ Sleep \/ WakeUp

Next == DmaWord \/ DmaIsr \/ Main \/ UsbIsr

Spec == Init /\ [][Next]_vars

-------------------------------------------------------------------------------
Samples == UNION {(0 .. s[1]) \X (0 .. s[2] + Settled) : s \in Scopes}

(* Pointers stay in data_buffer, and the write pointer on a multiple of    *)
(* I2S_RX_BUF_LEN: dma_i2s_isr increments it RX times without wrapping, so *)
(* this is what keeps its stores inside data_buffer.                       *)
TypeOK ==
  /\ dma \in [on : BOOLEAN, fill : 0 .. RX - 1, tc : BOOLEAN]
  /\ i2s_rx_buffer \in [0 .. RX - 1 -> Samples]
  /\ session \in Nat /\ received \in Nat /\ InScope(session, received)
  /\ i2s0 \in BOOLEAN /\ start \in {0, 1} /\ wakeupcnt \in 0 .. WAKEUP
  /\ data_buffer \in [0 .. N - 1 -> Samples]
  /\ \E k \in 0 .. N - 1 : data_buffer_wr_ptr = k * RX /\ k * RX < N
  /\ data_buffer_rd_ptr \in 0 .. N - 1 /\ prd \in 0 .. N - 1
  /\ pc \in {"idle", "loaded", "copy", "write", "count"}
  /\ Len(frame) <= BLK
  /\ mishaps \subseteq Mishaps /\ flaws \subseteq Flaws

(* The frames of a session are its samples from the first after the        *)
(* wake-up time, in order, none missing and none twice, unless an          *)
(* interrupt was late, lapped the reader or cut a call of task_data_out    *)
(* short.                                                                  *)
FramesGoOn == "gap" \in flaws => mishaps \cap {"overrun", "lapped", "cut"} # {}

(* Whatever happens, no frame has samples of the wake-up time, the stale   *)
(* frames after a cut included: such samples never get into data_buffer.   *)
NothingUnsettled == "unsettled" \notin flaws

(* Once stopped, or asleep, no frame goes out, unless the command came in  *)
(* the middle of task_data_out: then its read pointer survives, and        *)
(* data_buffer looks full from there.                                      *)
QuietWhenStopped == "unasked" \in flaws => "cut" \in mishaps

(* The two counters of CMD_DEV_STA add up to the frames built since the    *)
(* start that zeroed them, unless it came between the load and the store   *)
(* of an increment.                                                        *)
CountersAddUp ==
  /\ session > 0 /\ pc # "count" /\ "miscount" \notin mishaps
  => (blk_read_count + blk_overflow_cnt) * BLK = due[2] - base

(* Samples that were skipped are counted: "to_cnt: counter of samples not  *)
(* transmitted, or of timeouts in transmission" (cmd_cfg.h).  Not so: the  *)
(* interrupt that laps the reader counts nothing.                          *)
LossIsCounted ==
  "gap" \in flaws /\ mishaps \subseteq {"lapped"} => blk_overflow_cnt > 0
================================================================================
