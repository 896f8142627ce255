# A verification development for PowerProfiler_pcm1802

Paths are relative to the repository; `PP/` stands for
`source/PowerProfiler_pcm1802/`.

1. [The system](#1-the-system) 2. [What is hard about
it](#2-what-is-hard-about-it) 3. [Modules](#3-modules) 4. [Runs](#4-runs) 5.
[Findings](#5-findings) 6. [Proofs](#6-proofs) 7. [What is not modelled, and
abstractions](#7-what-is-not-modelled-and-abstractions) 8. [What is
left](#8-what-is-left)

## 1. The system

PowerProfiler_pcm1802 streams the samples of a PCM1802 audio ADC to a PC.  A
Bouffalo BL702 receives them over I2S by DMA, packs them three bytes a sample
into frames of 40 samples, and sends the frames, mixed with the replies to the
PC's commands, through a USB CDC-ACM port.  A Delphi program on the PC sends
the commands, tells replies from frames and draws the samples.

| component | source | state | operations |
|---|---|---|---|
| ring buffer | `PP/src/ring_buffer.c` | memory, read and write index, each with a mirror flag | Reset, Write, Write_Byte, Write_Force, Write_Byte_Force, Read, Read_Byte, Peek, Peek_Byte, Get_Length, Get_Empty_Length, Get_Status |
| sample path | `PP/src/i2s_drv.c` (`dma_i2s_isr`), `PP/src/usb_buffer.c` (`task_data_out`) | `data_buffer` and its two pointers, the frame being built, two counters | one DMA interrupt per 32 words; the main loop packs 40 samples at a time |
| I2S driver | `PP/src/i2s_drv.c` | `i2s_cfg`, `i2s0`, clocks, DMA channel, power pin, PLL registers | I2S_WakeUp, I2S_Start, I2S_Stop, I2S_Sleep, the arithmetic of the PLL |
| command decoder | `PP/src/cmd_decode.c` | `cfg_adc`, `send_pkt` | CMD_DEV_VER, CAD, STA, DBG, anything else |
| USB CDC port | `PP/src/cdc_acm_template.c` | `ep_tx_busy_flag`, `write_buffer`, `read_buffer`, DTR | bulk OUT callback, bulk IN callback, the main loop's sender, DTR and RTS callbacks |
| USB endpoint driver | `PP/SDK/drivers/lhal/src/bflb_usb_v1.c` | endpoint enables, transfers in flight, which interrupts are enabled | ep_open, start_write, start_read, stalls, the branches of `USBD_IRQHandler` |
| USB device core | CherryUSB `usbd_core.c`, `usbd_cdc.c` | the request, its residue, the flag for an empty packet, the configuration | the SETUP, IN and OUT handlers of endpoint 0 |
| PC program | `bpas/MainFrm.pas`, `bpas/ComPort.pas` | bytes read from the port, the command being sent, the answer awaited, the ring of samples, the chart's count | QueryPort in a thread of its own; SendBlk, ReadBlk, the timer and the handlers of the GUI |
| audio twin | `source/Audio_pcm1802/` | as above | the same CDC firmware: `main.c`, `cdc_acm_template.c`, `ring_buffer.c` and the endpoint driver are identical; its CMD_DEV_CAD answers with what the driver made of the setting; `audio_usb.c` is not compiled by its `CMakeLists.txt` |
| SDK, DMA driver | `PP/SDK/` | vendored | only what the modelled parts see of them |

How they interact:

- The **DMA controller** fills `i2s_rx_buffer` without end.  Its interrupt
  copies each full buffer to `data_buffer` and moves the write pointer.
- The **main loop** (`PP/src/main.c:24-30`) calls `task_data_out` four times
  (each may write one frame to the ring `usb_tx_rb`) and then
  `usb_dc_send_from_ringbuffer`, which waits for the endpoint to be free, takes
  up to 2047 bytes off the ring and starts a transfer.
- The **USB interrupt** ends transfers (bulk IN callback), runs commands (bulk
  OUT callback: `cmd_decode`, then a reply into the same ring), answers control
  requests on endpoint 0 (configuration, halts, line coding, DTR), handles bus
  resets, and wakes or puts to sleep the converter (DTR).  It starts and stops
  acquisitions, so it writes the pointers and counters that the main loop works
  on.
- The two interrupts preempt the main loop anywhere, but not each other.
  `USE_LOCK_RNG` is 0 (`PP/src/usb_buffer.h:14`): the ring has no lock.
- On the PC the **GUI thread** writes a command to `buftx`, sets `wait_id`,
  `wait_cnt`, `lentx` and polls them; the **port thread** sends it, reads
  whatever comes, stores frames in the ring of samples (`bufsmp`, `ismptx`,
  `ismprx`), and compares other packets with `wait_id`.  A timer of the GUI
  thread charts what the ring holds; buttons and the port thread's purge set
  its indices back.

What makes each part correct: the ring is a bounded FIFO of bytes; frames are
the samples of the acquisition in order and without loss; nothing of a stopped
acquisition or of the converter's settling time goes out; the host gets the
bytes of the ring in order and the sender never gets stuck; every control
transfer ends, with the answer whole and what was acknowledged done, and the
port goes on taking commands; the hardware is on and set as the driver's flags
say; the PC keeps in step with the packets, takes no answer for another's and
charts the samples in order, currents as currents.

## 2. What is hard about it

`PROJECT.json` lists the hazards at their lines.  They are of these families:

- **interrupt against main loop** on `usb_tx_rb` (no lock, and a space computed
  before the lock when there is one), on `data_buffer_rd_ptr`, on the counters,
  on `ep_tx_busy_flag`;
- **limits**: a reader lapped by exactly the buffer, indices exactly at the end
  of the memory, transfers of exactly a multiple of 64 bytes, frames of 40
  against blocks of 32, frequencies exactly at a limit of the PLL's bands;
- **sequences of commands**: start, stop, sleep and wake-up in any order, partial
  settings, cached frequency, dropped samples after every wake-up;
- **the USB bus**: resets, repeated configurations and cleared halts in the
  middle of a transfer, completions that never come;
- **endpoint 0**: five places make it ready, each for some requests and some
  stages; transfers abandoned for another while the residue, the flag for an
  empty packet and half-read data of the first are still there;
- **commands in packets**: a command is whole with its first short packet, or
  with a full buffer, and the endpoint must be told to go on after each;
- **the PC's two threads** and its time-outs: late answers, purges in
  mid-packet, reads that end in mid-packet;
- **the PC's ring of samples**: indices set back under the other thread's hands,
  no test for a full ring, and a loop that ends only when two indices meet.

## 3. Modules

One variable of a module is one variable of the code, with the code's name,
unless its comment says otherwise.  "Ghost" variables record what happened so
that properties can speak of it; no guard of an action of the code reads them,
with two exceptions in `TxRing` (the host counts the answers it is owed; the
model stops after a copy outside the memory).  Definitions called "seeded
fault" are wrong on purpose: nothing uses them, and putting one in the place of
the definition it stands before violates a property (`mutants` in
`PROJECT.json`).

| module | of | grain of an action |
|---|---|---|
| `ByteQueue` | what a ring buffer promises: a bounded queue, with what a forced write displaces | one call |
| `RingBuffer` | `ring_buffer.c` with `ring_buffer.h`: memory, indices, mirrors | one call |
| `TxQueue` | what `usb_tx_rb` promises its three users: a queue of whole blocks | one frame or reply put in; the look and the copy of a read |
| `TxRing` | `usb_tx_rb` with its three users, built with and without the lock | one shared access of the main loop; an interrupt |
| `UsbCdc` | the bulk IN path: sender, endpoint driver, callback, host | one shared access of the main loop; an interrupt; a packet; a request or reset of the host |
| `UsbDevice` | endpoint 0 from the controller to the class, the bulk OUT endpoint with its callback, bus resets | one branch of `USBD_IRQHandler`; one packet or decision of the host |
| `Acquisition` | DMA, `dma_i2s_isr`, `task_data_out`, start, stop, sleep, wake-up | one DMA word; an interrupt; one shared access of the main loop |
| `PllDivider` | the arithmetic of `Set_Audio_PLL_Freq`, against the exact quotient | operators only |
| `DeviceControl` | `CMD_DEV_CAD`, DTR and the I2S driver's settings, in both firmwares; uses `PllDivider` | one request (all in the USB interrupt) |
| `HostLink` | the PC's port thread and GUI thread, with a device that answers and streams | one access to what the threads share |
| `SampleRing` | the PC's ring of samples between the port thread and the chart | one access to what the threads share; one sample; one point |
| `MCRingBuffer`, `MCUsbDevice`, `MCAcquisition` | constants of the runs of those modules | |
| `RingBuffer_proofs`, `TxRing_proofs`, `UsbCdc_proofs`, `UsbDevice_proofs`, `Acquisition_proofs`, `DeviceControl_proofs`, `HostLink_proofs`, `SampleRing_proofs` | theorems, section 6 | |

**RingBuffer.** Each exported call is an action; calls with and without a
callback are one (the callback of the firmware copies).  The result is the
variable `ret`, the bytes a read or peek hands out included.  `AdvanceWrite`,
`AdvanceRead` and `Displace` are the index arithmetic, including the branch in
which a forced write overtakes the reader.  `Contents`, the unread bytes in
reading order, is the refinement mapping to `ByteQueue`.

**TxRing.** `Ring_Buffer_Write` and `Ring_Buffer_Read` of the main loop are
split at each load or store of an index or mirror that an interrupt could see
or change: mirrors loaded, indices loaded, bytes copied, index stored, mirror
flipped.  `BulkOutReply` is a whole reply written by the interrupt at any of
these points, or, in the build with `USE_LOCK_RNG`, at those outside lock and
unlock.  Arithmetic is modulo `WORD`, so a negative length becomes as large as
it does in the code.  A byte is marked by the block it belongs to and its place
there.

**UsbCdc.** Bytes are numbered, buffers are intervals of numbers.
`usbd_ep_start_write` is three actions (check, fields, ready), the interrupt
one (`InDone`, with the callback `bulk_in`), and the host takes a packet
whenever one is ready.  `Reset`, `ResetUnseen`, `SetConfiguration` and
`ClearHalt` may come at any time: the handler of the first bus reset leaves the
reset interrupt disabled (`reset_en`), so later resets change only the
controller; clearing a halt makes the endpoint ready whatever its state.

**UsbDevice.** One action for each branch of the interrupt handler, which
carries out everything the branch calls: `SetupDone`, `InDone`, `OutDone`,
`BulkOutDone`, `Reset`, `Rend`.  A request is its direction, its `wLength`, what
it asks for, how many bytes the device has for it and whether they are aligned
to four bytes (data that are not, the core copies to its request buffer); packets are their
lengths, and of a command also the `head.size` in its first packet.  The host
may send the next packet of its transfer, give it up for another `Setup`, see a
stall, reset the bus, or write commands to the port.  The controller's side,
one packet taken for each time an endpoint was made ready, is external.
`CarryOut` is what the accepted requests change; `Refused` those that are
stalled.

**Acquisition.** A sample is its session and its number, so order, loss,
repetition and age can be seen.  The DMA writes one word at a time, and may do
so before the interrupt for the last full buffer has run.  `task_data_out` is
split at the loads and stores of both pointers, at each sample it copies and at
the load and store of the counter it increments.

**DeviceControl.** `hw` is what is switched on, `pll` the three fields of the
PLL as `PllDivider.Registers` computes them, `fmt` what the I2S registers hold.
`writes_back` tells the two firmwares apart.  A request is atomic since all of
them run in the USB interrupt.

**PllDivider.** The 40 by 32 bit product of the code is done on bytes, since the
numbers of TLC have 31 bits; `Bands` are the six branches.  `TunedTo` is the
independent statement: the fraction is the exact quotient's whole part or one
more, and the fields fit their registers.

**HostLink.** A packet is two units, its head and its rest; `ReadFile` returns
the stream cut at any unit.  `Garbled` is what QueryPort may do when the front
of `bufcom` is no packet's: it takes the bytes for a packet of any length and
kind, for samples, for the answer awaited (with or without its error bit) or for
a foreign packet, the last one included that ends the wait.  An answer is moved
into `bufrx` whatever its length; one longer than its 64 bytes (mishap `overrun`)
overwrites `lenrx`, `wait_id`, `wait_cnt` and `bufcom`, and the model stops there:
`Undefined`.  Time-outs are steps that may always be taken.

**SampleRing.** The device's samples are numbered as they are stored, frames
of FRAME of them.  `StartMisread` is the port thread out of step with the
packets (`HostLink`'s `Garbled`): other bytes are taken for a frame, of any
number of samples in MISREAD since `MainFrm.pas:300` checks no length; they have
no number, 0.  `Begin` is the mask of line 301.  Both threads work on
copies of the indices and publish them at their ends, and both set the shared
ones back, one after the other.  The hand-over of a command is abstract (asked,
sent, answered, or failed at any time): `HostLink` has its detail.

No module composes two others: they meet at abstractions (a frame may be
refused in `Acquisition`, and `TxRing` shows it is not; `UsbCdc` takes bytes
from a ring that `RingBuffer` shows to be a queue; `UsbDevice` decodes each
command once and `TxRing` writes one reply for each; DTR and configuration in
`UsbDevice` lead to the requests of `DeviceControl`; `HostLink`'s device answers
in order, which `TxRing` and `UsbCdc` show; `SampleRing` gets the frames
`HostLink` takes).

## 4. Runs

"Violation" runs are section 5's.  All others finish with no error.

| run | distinct states | question |
|---|---|---|
| `ring_queue` | 1,056 | Do the ten operations, in any order, keep the indices in the memory and implement the queue? |
| `ring_force` (violation) | | Does a forced block write always keep the newest bytes? |
| `tx_ring` | 522,823 | With the lock and without: what can the interrupt's reply damage, is there always room, do its users see a queue of whole blocks, and does every reply get to the endpoint, while the main loop gets out of its waits? |
| `tx_ring_race` (violation) | | As built, without lock: is what was accepted stored? |
| `usb_in` | 203,753 | Does the host get every byte, once, in order, with an end to each transfer, and can the sender get stuck? |
| `usb_device` | 1,325,378 | Do control transfers end, with whole answers and truthful acknowledgements, and does the port go on taking commands? |
| `acq_stream` | 7,685,239 | One long acquisition and two short ones, with stop, sleep, wake-up and restart at any point: are frames the samples in order, do the counters add up, does anything old or unsettled go out? |
| `acq_loss` (violation) | | Are lost samples counted? |
| `device_control` | 29,916 | Do flags, PLL registers and hardware agree after any sequence of settings and DTR changes, in both firmwares? |
| `host_link` | 6,593,973 | Two threads, late answers, purges, split reads and what they have misread: does the PC keep in step? |
| `host_short` (violation) | | Does QueryPort buffer what it reads? |
| `sample_ring` | 3,271,393 | Does the chart go on from sample to sample, with pairs as pairs, and does its loop end, whatever was misread before? |

**The properties.**

- `ring_queue`: `ImplementsQueue` is the refinement.  It would fail at once if
  the unsigned subtraction of `Get_Length` went below zero; what keeps it from
  that, `MirrorOrder` (equal mirrors: the write index is not behind; unequal: not
  ahead), is a theorem of section 6.
- `tx_ring`: `AcceptedUnlessRaced`, between two calls the unread bytes are
  exactly those the writers were told they had written, unless an interrupt
  landed at a point the lock would cover; in the build with the lock it never
  does, so the lock is both needed and enough.  `NothingRefused`: no frame and
  no reply is ever refused or cut, the host waiting for its answers.
  `WholeBlocksUnlessRaced`: at every point of an interrupted call, memory,
  indices, mirrors and the locals of the main loop stand for a queue
  (`TxQueue`), to which a frame or a reply is added whole and in one step, and
  from which a read takes all there is at the moment it has loaded the indices,
  though a reply may come before it copies.  `AcceptedUnlessRaced` relates the
  ring to what callers were told, this one needs no record of that.
  `ReplyDelivered`: in both builds a reply written is read for the endpoint,
  unless an interrupt landed at a point the lock would cover or the main loop
  never gets out of its wait at `PP/src/cdc_acm_template.c:249`; when that can
  be is `StuckOnlyAfterAbort` of `usb_in`.
- `usb_in`: `OneTransferAtATime` (the buffer is not refilled and no transfer
  started while a packet or a completion is pending, resets included, until a
  halt is cleared), `StreamInOrder`, `EndsShort` (the empty packet after a
  multiple of 64 bytes, exactly once), `StuckOnlyAfterAbort`, and the liveness
  property `Delivered`.
- `usb_device`: `Ep0Alive`, endpoint 0 is ready again whenever the handler has
  run, but for the one request that the core drops (`Dropped`, section 5);
  `InFull`, an answer is as long as the smaller of what there is and what was
  asked for; `AckedIsDone`, what is acknowledged is in effect, a halt only if no
  packet of the endpoint was waiting for the handler (`late`); `Listening`, a configured port's OUT endpoint is
  ready or about to be served; `CommandsDecoded`, a command that is in is
  decoded with its last packet; and the liveness property `ControlEnds`, with
  the same exception as `Ep0Alive`.
- `acq_stream`: `FramesGoOn` names the only three ways to a gap (a late
  interrupt, a lapped reader, a start, stop or sleep inside `task_data_out`).
  `CountersAddUp` allows one exception, a start between the load and the store
  of `blk_read_count++`.  `NothingUnsettled` has none.  `QuietWhenStopped`: only
  a stop inside `task_data_out` lets frames go out afterwards: its old read
  pointer is stored over the 0 of the stop, and `data_buffer` looks nearly full
  from there.
- `device_control`: `StartedRuns`, `PllAsCached`, `PllInTune` (the registers of
  an awake device give the frequency that the driver reports, to one step of
  the fraction), `AnswerIsTrue`, and `RepeatIsHarmless`: a start repeated does
  not restart the acquisition, if its settings are within what `I2S_init` leaves
  alone.  Channel setting 0 is not: `PP/src/i2s_drv.h:14` documents it as the
  same as 1, `I2S_init` stores 1 for it, and `I2S_Start` compares what it stored
  with the 0 it is given, so each repetition starts anew; nor are frequencies
  outside the limits.
- `host_link`: `FramingKept`, `AnswerIsOurs`, `SamplesGoOn` and
  `GivenUpOnlyAfterMishap`, each with the mishaps that excuse it: a packet lost in
  part (`short`, `cut`), an earlier answer given up (`late`), an answer that had
  come and was purged (`purged`).  The last is worth reading: were `work_adc` not
  set by the first obeyed start, frames would be counted as foreign packets and
  every third one would end the wait for an answer.  Two things leave the
  program so: a late first answer, and a purge.  A handler sets `purge_com` and
  then `lentx`; when QueryPort looks at the first before and at the second after
  they were set, it sends the command now and purges with its next turn, the
  answer included, if it has come.  `TypeOK` (`idx_bufcom` within the bytes there
  are, `wait_cnt` within its limit, `lenrx` within `bufrx`) is claimed until a
  misread answer overruns `bufrx`, and of nothing after it.
- `sample_ring`: `ChartInOrder`, excused by an overrun, for which there is no
  test, by the two ways in which an index is set back under the other
  thread's hands, and by a misread packet (section 5).  `PairsKept` has no excuse
  where samples and the chart's indices are concerned: after a misread packet of
  an odd number of samples `ismptx` is odd, and so may be the end that
  AddCrfSamples takes from it, but the mask of line 301 has the next frame
  begin at an even place, so no current takes a voltage's.  The liveness
  property `ChartEnds` names what such an odd end does: the loop, which
  goes by two, passes it by.

**Bounds, and why they are enough.**

- `ring_queue`: SIZE 3 and blocks of 0 to 4 bytes of two values: every position
  of both indices on both laps, blocks shorter than, as long as and longer than
  the free space, the rest of the memory and the memory.
- `TxRing`: SIZE 9, FRAME 3, REPLY 2, READMAX 8, two frames a turn for 4096,
  122, at most 10, 2047 and four.  The relations kept are the ones that matter:
  a turn's frames and one reply fit in what one read takes (4·122+10 <= 2047,
  2·3+2 <= 8), a read is less than the ring, and neither block divides it, so
  that every wrap position occurs.  WORD 64 stands for 2^32; any value beyond
  twice the ring shows a negative length.  Blocks are numbered by parity, so the
  state space is finite without a bound on the number of calls.
- `usb_in`: MPS 2 and READMAX 5 for 64 and 2047 = 31·64+63: a buffer is not a
  multiple of a packet, and transfers of less than one packet, exactly one,
  two, and two and a rest all occur.  TOTAL 9 needs two full buffers.  ABORTS 2
  lets a reset, a configuration and a cleared halt follow each other.
- `usb_device`: the real sizes of packets (64) and of the request buffer (256);
  RXBUF 128, two packets, for 2048, so that a command may fill it.  Answers
  shorter than, as long as and longer than asked for, of less than a packet,
  whole packets and none, one of them misaligned, and one misaligned and longer
  than the request buffer; requests with data, accepted, refused and too long;
  commands of two packets and of exactly one.  ABANDONS 1 lets any transfer be
  given up at any packet for any other; a second in a row finds the same fields
  in the same states (the theorems of section 6 hold for any number).  WORD is
  65536 for 2^32: the words only matter when they go below zero.
- `Acquisition`: 8 samples, blocks of 2, frames of 3 for 1024, 32, 40: the buffer
  is a multiple of the block but not of the frame, and a frame is longer than a
  block but not a multiple.  WAKEUP 1 for 512.  `Scopes` bounds starts and
  words together: one start with 14 words goes round the buffer and laps the
  reader; two with 9 each go past the buffer's end, with a restart at any point.
- `device_control`: both sides of every limit of the PLL's bands and of
  `I2S_init`; channel settings 0, 1, 3 and one with bits beyond the mask; both
  firmwares.  Nothing is bounded.
- `host_link`: two commands and three frames; LIMIT 2 for 3 foreign packets;
  CHUNK 4 and BUFCOM 6 for 235 and 467 bytes: a read may end in mid-packet, take
  two whole packets (with 3 it could not, and no run saw two frames counted in
  one QueryPort), and overflow `bufcom` after an answer has been given up.
  BUFRX is the real 64, and a misread answer has 0, 8 or 65 bytes: none, a
  status's, and one more than there is room for.
- `sample_ring`: SIZE 10 with frames of 4 and points of 2 for 2^22, 40 and 2: a
  frame does not divide the ring, two fit and a third laps it, so TOTAL 12
  reaches an overrun; MAXSAMPLES 3 ends the chart inside a frame.  A misread
  packet has 3 samples and counts as a frame in TOTAL: up to three of them come
  in any order with frames.

**Deadlock** is checked except in `usb_in`, where the system may really stop:
after a reset or a repeated configuration nobody clears the flag the main loop
waits for.

**Fairness.**

- `UsbCdc.FairSpec`: weak fairness of the main loop (it has no other work and is
  preempted by finite interrupts only), of the pending interrupt, of the host
  taking packets (the PC reads as long as the port is open), and of the first
  reset and configuration.  Nothing is assumed of later ones or of the writers.
- `TxRing.FairSpec`: weak fairness of the main loop everywhere but at its wait
  for the endpoint (`ReadOut`), which may last any time and for ever: nothing is
  assumed of the endpoint.  The interrupt may come any
  number of times, but only between answers the host is owed, so it cannot hold
  the loop off for ever.
- `UsbDevice.FairSpec`: weak fairness of each branch of the handler (a set bit
  of the status is served), of the host continuing a control transfer it began
  (a USB host has time-outs of its own, which are `Setup` and `BusReset`) and
  of a command's packets.  Nothing is assumed of new requests or resets.
- `SampleRing.FairSpec`: weak fairness of the GUI thread inside AddCrfSamples,
  and of its waits for an answer, which end by their own time-outs.  Nothing is
  assumed of the port thread.

The other modules assume none: their properties are safety.

## 5. Findings

- **`ring_force`** (code): when a forced block write passes the end of the
  memory and overtakes a reader on the same lap, `Ring_Buffer_Write_Force`
  complements both mirrors (`PP/src/ring_buffer.c:315`) and leaves a ring that
  looks empty.  No caller in the firmware uses it.  `ByteQueue.PutForceBlock`
  admits this outcome, so that the refinement speaks of the code as it is.
- **`tx_ring_race`** (code against doc): without the lock a reply written in the
  middle of the main loop's write overlays it, and both are told that all was
  written (`ring_buffer.c:221`, "Length of data writted actually").
- **`acq_loss`** (code against doc): samples overwritten before they were sent are
  counted nowhere; `cmd_cfg.h:38` says `to_cnt` counts samples not transmitted.
- **`host_short`** (code): QueryPort advances `idx_bufcom` only after a whole
  packet, so a read that ends inside the first packet is forgotten; the comment
  there says "буферизовать ввод" (buffer the input).

Met while modelling, and no property's violation:

- the "ReStart" branch of `I2S_Start` (`i2s_drv.c:373`) cannot be reached;
  `I2S_Stop` leaves the DMA running; `I2S_init` accepts 512 kHz to 96 MHz where
  `i2s_drv.h:12` says 5 to 50; `rd_cnt` counts frames;
- of two commands in one OUT transfer only the first is answered; a command of
  exactly 64 bytes does not end its transfer, so it runs together with the next
  unless the host ends it with an empty packet (`CommandsDecoded` excuses this);
- SET_CONFIGURATION(0) is stalled, though `usbd_core.c:362` says that it
  unconfigures: no descriptor has that number;
- an answer that is not aligned to four bytes and longer than the request buffer
  of 256 bytes is neither sent nor refused (`usbd_core.c:1017`): endpoint 0 is
  deaf until a bus reset.  No answer of this firmware is that long (the longest
  is the configuration, of 75 bytes), so the request in the run stands for a
  longer descriptor;
- SET_FEATURE(ENDPOINT_HALT) of the bulk OUT endpoint is undone by the handler
  if a packet was waiting: asking for the next one clears the stall
  (`bflb_usb_v1.c:463`, `:508`), after the host has been told of it;
- only the first bus reset is handled: its handler enables the other interrupts
  again without its own (`bflb_usb_v1.c:564-569`), so after a later one
  endpoints and configuration are those of before;
- CLEAR_FEATURE(ENDPOINT_HALT) of the IN endpoint makes it ready with nothing
  started: a packet of whatever is in the FIFO goes out, and its interrupt is
  taken for the end of a transfer;
- an empty answer gets two empty packets, and a status packet that comes with
  none of the driver's reads before it still counts the bytes of the last
  transfer (`bflb_usb_v1.c:551`); the device gets over both;
- `SMP_BUF_CNT - 1` as a mask (`MainFrm.pas:301`) clears only the lowest bit;
  that bit is what keeps the pairs after the next point;
- once QueryPort is out of step with the packets (`host_short` is one way to
  it), it checks of a length only that it is not above `MAX_BLK_CNT`.  A packet of
  an odd number of samples so misread leaves `ismptx` odd (`MainFrm.pas:300`,
  `:307`); when the chart is then drawn in pairs, its loop (`:977`) does not meet
  that end: it goes round the ring until the chart is full, and for ever
  while a trigger is waited for (`ChartEnds` has this as its only exception);
- an answer so misread is moved into `bufrx`, 64 bytes, whatever its length, up
  to 232 (`MainFrm.pas:333-335`);
- the chart may be wrong after "clear" in the middle of a frame, whose end
  publishes the port thread's old index, and after a purge that is consumed
  while AddCrfSamples runs, which publishes its own old index: then what is in
  the ring is charted again.

## 6. Proofs

Checked by TLAPS for every value of the constants that the ASSUMEs allow:
`SizeAssumption`, `ByteAssumption`, `BlockAssumption` and `LengthAssumption` of
`RingBuffer`; those on the sizes in `TxRing` with `CapacityAssumption` (the
frames of a turn and the answers outstanding fit in one read: 4·122 + 10 <=
2047); `PacketAssumption` and `BoundAssumption` of `UsbCdc`; `SizeAssumption` of
`UsbDevice` (a `wLength` is less than the word, requests with data are of known
effect, the receive buffer is a multiple of the packet, 2048 = 32·64, and a
command fits in it); `GeometryAssumption` (the buffer is a multiple of the
interrupt's block) and `BoundAssumption` of `Acquisition`; `FreqAssumption` and
`LimitAssumption` (no frequency above 96 MHz, the limit of `I2S_init`) of
`DeviceControl`; `LinkAssumption` (a read fits in `bufcom`); `RingAssumption`
(the ring is even and longer than a frame, misread ones included).  The bounds of the models (`TOTAL`,
`ABORTS`, `ABANDONS`, `Scopes`, `COMMANDS`, `FRAMES`) are among these constants,
so the theorems hold for runs of any length.

- **Indices** (`RingBuffer_proofs`): `IndexInv == TypeOK /\ MirrorOrder` is
  inductive; neither half is alone, since a wrong order of the indices makes the
  length, and with it the next index, leave its range.  From it `TypeCorrect`
  and `MirrorOrderHolds`.
- **Queue** (`RingBuffer_proofs`, `QueueRefinement`): the ring implements
  `ByteQueue` under `Contents`.  One lemma per index movement says what it does
  to `Contents`: `WriteAppends`, `ReadDrops`, `ForceShifts` (one byte pushes the
  oldest out), `ForceBlockShifts` and `ForceBlockEmpties` (the two outcomes of a
  forced block).  `StepQueue` then maps each of the ten operations.
- **Transmit ring** (`TxRing_proofs`): the arithmetic of the indices is that of
  `RingBuffer`, but with an interrupt between any two accesses.  `RingInv`
  says, for every place the main loop can be at, how far the indices are apart
  (`IndexInv`), which bytes are between them (`MemoryInv`), which indices,
  mirrors and lengths are in its locals (`StageInv`) and how much is on the way
  (`TrafficInv`).  An answer
  written by the interrupt at a point the lock would not cover leaves all of
  that true; at another it marks the state `raced`, and the invariant is
  excused.  From it `TypeCorrect`, `NothingLost`, `NeverRefused` (what is in the
  ring is no more than the frames of this turn and the answers owed) and, since
  the build with the lock never races, `LockKeepsAll`: there, what
  `tx_ring_race` refutes for the build as it is holds without an excuse.
- **Transmit ring as a queue** (`TxRing_proofs`, `WholeBlocks`, `LockedIsQueue`):
  the mapping `InQueue`, `InCall` reads the memory between the indices, corrected
  for what is half done: a mirror about to be flipped, a frame behind the index
  that its call has not returned for, the bytes a read has found (`Found`) or
  copied (`Ahead`) and not passed.  `Split` is the lemma everything rests on:
  where `RingInv` holds, what the mapping reads is what is owed, parted at
  `Found`.  Each step of the main loop is then a step of the queue or none
  (`QueueQuiet`, `QueueFrame`, `QueueTaken`, `QueueGiven`), an interrupt where the
  lock would let it in is `PutReply` (`QueueReply`): the room in the abstract
  queue is `TrafficInv`.  Since the build with the lock is never raced
  (`NeverRaced`), it implements `TxQueue` outright.
- **Sender** (`UsbCdc_proofs`): `FlagInv` adds to `OneTransferAtATime` that the
  main loop holds the flag from claim to start, that a clear flag means no
  packet and no completion pending, and that the two never are together.
  `NeverStuckUnasked` needs `OpenInv`: without an abort the endpoint stays
  open once there are bytes, so `usbd_ep_start_write` cannot refuse.
  `StreamStaysInOrder` and `AlwaysEndsShort` rest on `InStream`, which says for
  every place a byte can be in (ring, `write_buffer`, transfer, packet, host)
  which byte is the next one there, so that each handing over keeps the number.
  `TypeCorrect` rests on `FitsInv`: what is in transfer is what was read.
- **Control transfers** (`UsbDevice_proofs`): `AliveInv` for
  `Ep0DeafOnlyIfDropped` (each branch of the handler but one ends in one of four
  ways to make endpoint 0 ready). `ListenInv` follows SET_CONFIGURATION from its SETUP to its status.
  `AnswerInv` counts the bytes of an answer over host, transfer and residue, a
  packet that the host has taken and the handler not yet seen being counted for
  both. `AckInv` keeps, for each stage of a transfer, what the device has
  decided of the request, and of a halt that no packet can end it any more, or
  one was there (`late`).  `CommandsReachDecoder` needs `PortInv`, how much of
  the receive buffer is left (always whole packets), and `DecodeInv`, that what
  has arrived of a command and what the host still owes of it are the command,
  over a packet taken and not yet handled.  `TypeCorrect` is by `TypeInv`, which
  adds the ranges of the driver's records to these; that the host never gets
  more than it asked for takes `AnswerInv`.  Nothing is said there of the sign of
  a residue of endpoint 0: it is a word, and wraps.
- **Samples** (`Acquisition_proofs`): `TypeInv` shows that the write pointer
  stays on a multiple of the block, hence that the unwrapped stores of
  `dma_i2s_isr` stay in `data_buffer`.  `NothingUnsettled` needs two invariants:
  `ReceiverInv`, that while started the words received are at least those of the
  buffers dropped and pending, and which word is at which place of
  `i2s_rx_buffer` (a late interrupt drops a newer buffer than it should, never
  an older one), and `UnsettledInv`, that `data_buffer` and the frame only ever
  hold samples settled in some session, so that even the stale frames after a
  cut have none other.  `FrameInv`, for `FramesInSequence`, says of a started
  device without loss or cut which sample is at which place of `i2s_rx_buffer`
  (`Incoming`), of `data_buffer` (`Buffered`) and of the frame (`Framed`), so
  that the block an interrupt copies goes on where the last one ended.
  `QuietInv`: a stopped device that was not cut has both pointers and the local
  one at 0.  `CountInv` splits the sum of the counters at the half-done
  increment.
- **Settings** (`DeviceControl_proofs`): `Consistent`, the types and the three
  invariants, is inductive; `AnswerIsTrue` needs that asleep nothing is started.
  `RepeatNeverRestarts` is an action property; it needs `RunsAsAsked`, that
  what runs is what the last obeyed setting asked for, as `I2S_init` changes it.
  `AlwaysInTune` is about numbers, and shows for every frequency up to 96 MHz
  (`LimitAssumption`) what the run shows at the limits of the bands: the columns
  of bytes with their carries have the high word of the 64-bit product
  (`Columns`, `Carried`, `HighWordExact`), `Fraction` is the whole part of the exact
  quotient (`FractionExact`), and in each of the six branches the constant is so
  near to the ratio of the clocks that the two differ by one step at most
  (`Tuned1` to `Tuned6`).
- **Sample ring** (`SampleRing_proofs`): `TypeCorrect`, the indices of both threads
  stay in the ring whatever is set back when, and whatever the length of a
  misread packet.  `PairsStay` is about parities: a
  sample's number and its place differ in parity at every step (`InStep`), so no
  order of the two threads can swap the channels; a misread packet gives no
  numbers, and the frame behind it begins at an even place wherever it ended.  `ChartStaysInOrder`, for frames of an
  even length and points of one or two samples, is by `ChartInv`: unless the
  ring was overrun, an index was set back under the other thread's hands or a
  packet was misread, the
  distances of `irx`, `end`, `ismprx`, `ismptx` and `itx` from the last sample are
  those of their order, and the next point is the one behind the last.  `Aligned`
  gives it that the mask of StartFrame changes nothing: all indices are even.
- **PC's port** (`HostLink_proofs`): `PlaceInv`, `WholeInv` and `CountInv` (that
  `idx_bufcom` is where the port thread's place in QueryPort says, that a packet
  looked at is there as a whole, and that no command is sent twice) and `FitInv`
  (`lenrx` fits `bufrx` until an answer does not) give `TypeCorrect`.  `StreamInv` is about `bufcom` and the port's bytes as one
  sequence: unless something was lost in part, it is heads with their rests, its
  frames are the last ones sent, in order and without a gap, and while samples
  are stored the first of them is the one due.  From it
  `PacketsInStep` and `SamplesInSequence`.  `TalkInv`: without a mishap there is one
  answer at most under way, to the command in `buftx`, and `wait_id`, `wait_cnt`,
  `lentx` and the port thread's place agree with it; until `work_adc` is set
  there are no frames, or they are behind the answer that sets it.  From it
  `AnswersAreOurs` and `NeverGivenUp`.  The first attempt at the last one failed
  for a good reason: an answer that a purge throws away ends in a wait given up
  without anything being late.  The run had not shown it, because with CHUNK 3
  no read took two whole packets; the property now names that mishap
  (`purged`), and the run uses CHUNK 4.

Only model-checked: the liveness properties (`Delivered`, `ReplyDelivered`,
`ControlEnds`, `ChartEnds`), since fairness and ENABLED are beyond the prover.
Every invariant and action property of the passing runs is a theorem, and
so are both refinements, `ring_queue`'s and `tx_ring`'s.

## 7. What is not modelled, and abstractions

- **Ring buffer**: initialisation with other memory, and the callbacks of the
  callback variants (a callback that calls the ring again).
- **TxRing**: an interrupt is atomic; unlock inside an interrupt handler would
  enable interrupts there (`usb_buffer.c:28-44`).  The space is computed before
  the lock is taken; that is harmless with one answer outstanding.  A host
  that gives answers up, as the PC program does after some 60 ms, may have more
  outstanding: with three the build with lock fails too.
- **UsbCdc**: IN-done with the endpoint disabled; a halt being set on the bulk IN
  endpoint (its clearing is modelled).
- **UsbDevice**: what is in descriptors, strings and other answers (an answer is
  its length); SET_ADDRESS (the address is not modelled; on endpoint 0 it goes
  the way of the other requests without data); remote wake-up, test modes,
  vendor requests; the "setup fail" return (`bflb_usb_v1.c:520`), for a SETUP
  that is not 8 bytes long; the FIFOs and registers of the endpoints.  Which bit
  of the interrupt status is served first is left open, except that a reset and
  its end come last.
- **Acquisition**: word sizes, the masking of samples, the mono and stereo
  packing; the ring may refuse any frame (`TxRing` shows that it refuses none).
- **DeviceControl**: a frequency sent in part (a CAD of 3 to 5 bytes) is taken
  whole or not at all; a CAD of size 0 only reads; the order in which the PLL's
  registers are written and its settling delays.  CMD_DEV_VER, CMD_DEV_STA and
  unknown commands change nothing; CMD_DEV_DBG reads and writes memory at any
  address, so nothing can be said of a device it was used on.
- **HostLink**: opening, closing and finding the port and the device; error
  replies, which the firmware never sends for these commands; the number of
  bytes of a packet; `Inc(wait_cnt)` is one step, so an update by the GUI's
  time-out is not lost in it; `PurgeComm` drops any beginning of what is under
  way; WriteFile returns after sending, so it has nothing to purge; what the
  program does after a misread answer has overrun `bufrx`.
- **SampleRing**: the values of samples, the trigger (a point need not be
  counted) and the drawing; the limit that the settings form puts on
  `MaxSamples` so that a chart is shorter than the ring (`MainFrm.pas:1397`).
- **Not at all**: the DMA driver, charts, files, forms, build files, and the rest
  of the SDK.  Most of the repository's lines are the Bouffalo SDK (register
  headers, flash tables, start-up code, drivers of peripherals that this program
  does not use, a DSP library) and CherryUSB's other classes and ports, in two
  copies, one for each firmware tree.  They are straight-line register access or
  are not reached from `main.c`; the program's own code is what the modules
  above cover.

## 8. What is left

Modelling: compositions of two modules (`TxQueue` with `UsbCdc`, so that replies
reach the host whole: the refinement of section 6 allows it in place of `TxRing`; `Acquisition` with `DeviceControl`, against an abstract
device that is idle, settling or streaming; `HostLink` with a lossless link);
opening and closing the port on the PC; the answers a host gives up, with the
number outstanding as a parameter of `TxRing`.

Proofs: the safety of the compositions above, once they are modelled, from the
invariants of their parts; the liveness properties stay with TLC.
