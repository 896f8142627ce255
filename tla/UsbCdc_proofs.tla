---------------------------- MODULE UsbCdc_proofs -----------------------------
(***************************************************************************)
(* The flag between usb_dc_send_from_ringbuffer and the USB interrupt      *)
(* keeps their transfers apart, and is only left set for ever when the     *)
(* host breaks in: for every packet and buffer size.                       *)
(***************************************************************************)
EXTENDS UsbCdc, TLAPS

(* OneTransferAtATime is not inductive.  What carries it is that the loop  *)
(* holds the flag while it works on a transfer, and that a clear flag      *)
(* means that no packet is under way.                                      *)
Holding == {"read", "release"} \cup Starting

FifoRecord(f) ==
  /\ DOMAIN f = {"ready", "from", "len"} /\ f.ready \in BOOLEAN
  /\ f = [x \in DOMAIN f |-> f[x]]

Records ==
  /\ pc \in {"wait", "claim", "read", "release"} \cup Starting
  /\ ep_tx_busy_flag \in BOOLEAN /\ in_done \in BOOLEAN
  /\ FifoRecord(fifo)
  /\ aborts \in Nat /\ halt_cleared \in BOOLEAN

FlagInv ==
  /\ Records
  /\ aborts = 0 => ~ halt_cleared
  /\ ~ halt_cleared =>
       /\ OneTransferAtATime
       /\ pc \in Holding => ep_tx_busy_flag
       /\ ~ ep_tx_busy_flag => ~ InFlight
       /\ ~ (in_done /\ fifo.ready)

LEMMA FifoStaysRecord ==
  ASSUME NEW f, FifoRecord(f), NEW from, NEW len
  PROVE  /\ FifoRecord(Packet(from, len)) /\ Packet(from, len).ready
         /\ FifoRecord([f EXCEPT !.ready = FALSE]) /\ ~ [f EXCEPT !.ready = FALSE].ready
BY DEF FifoRecord, Packet

LEMMA FlagInit == Init => FlagInv
<1> SUFFICES ASSUME Init PROVE FlagInv
  OBVIOUS
<1>1. ~ InFlight
  BY DEF Init, InFlight
<1>2. Records
  BY DEF Init, Records, FifoRecord
<1> QED BY <1>1, <1>2 DEF Init, FlagInv, OneTransferAtATime, Holding, Starting, InFlight

(* The steps of the main loop. *)
LEMMA FlagMain == FlagInv /\ (Produce \/ Main) => FlagInv'
<1> SUFFICES ASSUME FlagInv, Produce \/ Main PROVE FlagInv'
  OBVIOUS
<1> USE DEF FlagInv, OneTransferAtATime, Holding, Starting, InFlight
<1>1. CASE Produce
  BY <1>1 DEF Produce, Records, usb, bus
<1>2. CASE Poll
  BY <1>2 DEF Poll, Records, usb, bus
<1>3. CASE Claim
  BY <1>3 DEF Claim, Records, usb, bus
<1>4. CASE ReadRing
  BY <1>4 DEF ReadRing, Records, usb, bus
<1>5. CASE Release
  BY <1>5 DEF Release, Records, usb, bus
<1>6. CASE StartCheck
  BY <1>6 DEF StartCheck, Records, usb, bus
<1>7. CASE StartFields
  BY <1>7 DEF StartFields, Records, usb, bus
<1>8. CASE StartReady
  <2>1. fifo' = Packet(in_ep.xfer_buf, Smaller(write_buffer.len, Mps(in_ep)))
        /\ pc' = "wait" /\ pc = "ready"
        /\ UNCHANGED <<ep_tx_busy_flag, in_done, aborts, halt_cleared>>
    BY <1>8 DEF StartReady, bus
  <2>2. fifo'.ready = TRUE /\ Records'
    BY <2>1, FifoStaysRecord DEF Records
  <2> QED BY <2>1, <2>2
<1> QED BY <1>1, <1>2, <1>3, <1>4, <1>5, <1>6, <1>7, <1>8 DEF Main

(* The callback sends the empty packet, or clears the flag and leaves the  *)
(* endpoint as it is.                                                      *)
LEMMA BulkInOutcome ==
  ASSUME Records, NEW ep, NEW n, bulk_in(ep, n)
  PROVE  \/ /\ ep_tx_busy_flag' = ep_tx_busy_flag
            /\ fifo' = Packet(0, 0) /\ in_ep' = Transfer(ep, 0, 0)
         \/ /\ ep_tx_busy_flag' = FALSE
            /\ fifo' = fifo /\ in_ep' = ep
BY DEF bulk_in

(* The interrupt and the host. *)
LEMMA FlagBus == FlagInv /\ Bus => FlagInv'
<1> SUFFICES ASSUME FlagInv, Bus PROVE FlagInv'
  OBVIOUS
<1> USE DEF FlagInv, OneTransferAtATime, Holding, Starting, InFlight
<1>1. CASE HostIn
  <2>1. fifo' = [fifo EXCEPT !.ready = FALSE] /\ in_done' = TRUE /\ fifo.ready
        /\ UNCHANGED <<pc, ep_tx_busy_flag, aborts, halt_cleared>>
    BY <1>1 DEF HostIn, main, bus
  <2>2. fifo'.ready = FALSE /\ Records'
    BY <2>1, FifoStaysRecord DEF FifoRecord, Records
  <2>3. ~ halt_cleared => pc = "wait" /\ ep_tx_busy_flag
    BY <2>1 DEF Records
  <2> QED BY <2>1, <2>2, <2>3
<1>2. CASE InDone
  <2> DEFINE ep == Account(in_ep)
  <2>1. in_done /\ in_done' = FALSE /\ UNCHANGED <<pc, aborts, halt_cleared>>
    BY <1>2 DEF InDone, main, bus
  <2>2. ~ halt_cleared => pc = "wait" /\ ep_tx_busy_flag /\ ~ fifo.ready
    BY <2>1 DEF Records
  <2>3. \/ ep_tx_busy_flag' = ep_tx_busy_flag /\ \E from, len : fifo' = Packet(from, len)
        \/ ep_tx_busy_flag' = FALSE /\ fifo' = fifo
    <3>1. CASE ep.xfer_len = 0 /\ bulk_in(ep, ep.actual_xfer_len)
      BY <3>1, BulkInOutcome
    <3>2. CASE fifo' = Packet(ep.xfer_buf, Smaller(ep.xfer_len, Mps(ep)))
               /\ UNCHANGED ep_tx_busy_flag
      BY <3>2
    <3> QED BY <1>2, <3>1, <3>2 DEF InDone
  <2>4. CASE ep_tx_busy_flag' = ep_tx_busy_flag /\ \E from, len : fifo' = Packet(from, len)
    <3>1. PICK from, len : fifo' = Packet(from, len)
      BY <2>4
    <3>2. FifoRecord(fifo') /\ fifo'.ready
      BY <3>1, FifoStaysRecord DEF Records
    <3>3. Records'
      BY <2>1, <2>4, <3>2 DEF Records
    <3> QED BY <2>1, <2>2, <2>4, <3>2, <3>3
  <2>5. CASE ep_tx_busy_flag' = FALSE /\ fifo' = fifo
    <3>1. Records'
      BY <2>1, <2>5 DEF Records
    <3> QED BY <2>1, <2>2, <2>5, <3>1
  <2> QED BY <2>3, <2>4, <2>5
<1>3. CASE Reset
  BY <1>3 DEF Reset, main, Records
<1>4. CASE ResetUnseen
  <2>1. FifoRecord(fifo') /\ (fifo'.ready => fifo.ready)
    BY <1>4, FifoStaysRecord DEF ResetUnseen, Records
  <2>2. /\ UNCHANGED <<pc, ep_tx_busy_flag, in_done, halt_cleared>>
        /\ aborts' = aborts + 1
    BY <1>4 DEF ResetUnseen, main
  <2>3. Records' /\ aborts' # 0
    BY <2>1, <2>2 DEF Records
  <2> QED BY <2>1, <2>2, <2>3
<1>5. CASE SetConfiguration
  <2>1. /\ fifo' = [fifo EXCEPT !.ready = FALSE] /\ ~ in_done
        /\ UNCHANGED <<pc, ep_tx_busy_flag, in_done, halt_cleared>>
        /\ aborts' = aborts \/ aborts' = aborts + 1
    BY <1>5 DEF SetConfiguration, main
  <2>2. FifoRecord(fifo') /\ ~ fifo'.ready
    BY <2>1, FifoStaysRecord DEF Records
  <2>3. aborts' \in Nat /\ (aborts' = 0 => aborts = 0)
    BY <2>1 DEF Records
  <2>4. Records'
    <3>1. UNCHANGED <<pc, ep_tx_busy_flag, in_done, halt_cleared>>
      BY <2>1
    <3> QED BY <2>2, <2>3, <3>1, Zenon DEF Records, FlagInv
  <2> QED BY <2>1, <2>2, <2>3, <2>4
<1>6. CASE ClearHalt
  <2>1. /\ UNCHANGED <<pc, ep_tx_busy_flag, in_done>>
        /\ aborts' = aborts + 1 /\ halt_cleared' = TRUE
        /\ fifo' = fifo \/ fifo' = Packet(0, 0)
    BY <1>6 DEF ClearHalt, main
  <2>2. FifoRecord(fifo')
    BY <2>1, FifoStaysRecord, Zenon DEF Records, FlagInv
  <2>3. aborts' \in Nat /\ aborts' # 0
    BY <2>1 DEF Records
  <2>4. Records'
    BY <2>1, <2>2, <2>3, Zenon DEF Records, FlagInv
  <2> QED BY <2>1, <2>3, <2>4
<1> QED BY <1>1, <1>2, <1>3, <1>4, <1>5, <1>6 DEF Bus

(* The invariant is kept by every step. *)
LEMMA FlagNext == FlagInv /\ [Next]_vars => FlagInv'
<1>1. FlagInv /\ UNCHANGED vars => FlagInv'
  BY DEF vars, main, usb, bus, FlagInv, Records, OneTransferAtATime, Holding, Starting,
         InFlight
<1> QED BY <1>1, FlagMain, FlagBus DEF Next

(* write_buffer and the transfer fields are only written by the loop with  *)
(* no packet under way, resets and configurations included, until a halt   *)
(* is cleared.                                                             *)
THEOREM NeverTwoTransfers == Spec => []OneTransferAtATime
<1>1. FlagInv => OneTransferAtATime
  BY DEF FlagInv, OneTransferAtATime
<1> QED BY <1>1, FlagInit, FlagNext, PTL DEF Spec

-------------------------------------------------------------------------------
(* A configured endpoint stays open, for the only reset that would close   *)
(* it comes first; the first byte, and so the first transfer, comes after  *)
(* it was opened.                                                          *)
EpRecord(ep) ==
  /\ DOMAIN ep = {"ep_enable", "xfer_buf", "xfer_len", "actual_xfer_len"}
  /\ ep = [x \in DOMAIN ep |-> ep[x]]
  /\ ep.ep_enable \in BOOLEAN

OpenInv ==
  /\ FlagInv
  /\ EpRecord(in_ep)
  /\ put \in Nat /\ taken \in Nat /\ taken <= put
  /\ reset_en => ~ in_ep.ep_enable
  /\ aborts = 0 =>
       /\ put > 0 \/ InFlight \/ pc \in Starting => in_ep.ep_enable
       /\ ~ Stuck

LEMMA SmallerOf ==
  ASSUME NEW a \in Nat, NEW b \in Nat
  PROVE  Smaller(a, b) \in Nat /\ Smaller(a, b) <= a /\ Smaller(a, b) <= b
BY DEF Smaller

LEMMA EpKept ==
  ASSUME NEW ep, EpRecord(ep), NEW from, NEW len
  PROVE  /\ EpRecord(Transfer(ep, from, len)) /\ Transfer(ep, from, len).ep_enable = ep.ep_enable
         /\ EpRecord(Account(ep)) /\ Account(ep).ep_enable = ep.ep_enable
BY DEF EpRecord, Transfer, Account

LEMMA OpenInit == Init => OpenInv
<1> SUFFICES ASSUME Init PROVE OpenInv
  OBVIOUS
<1>1. EpRecord(in_ep)
  BY DEF Init, Idle, EpRecord
<1>2. ~ Stuck /\ ~ InFlight /\ pc \notin Starting
  BY DEF Init, Stuck, InFlight, Starting
<1>3. put \in Nat /\ taken \in Nat /\ taken <= put /\ put = 0 /\ ~ in_ep.ep_enable
  BY DEF Init, Idle
<1> QED BY <1>1, <1>2, <1>3, FlagInit DEF OpenInv

LEMMA OpenMain == OpenInv /\ (Produce \/ Main) => OpenInv'
<1> SUFFICES ASSUME OpenInv, Produce \/ Main PROVE OpenInv'
  OBVIOUS
<1>0. FlagInv /\ FlagInv'
  BY FlagMain DEF OpenInv
<1> USE <1>0 DEF OpenInv, Starting, InFlight, Stuck
<1>1. CASE Produce
  BY <1>1 DEF Produce, usb, bus
<1>2. CASE Poll
  BY <1>2 DEF Poll, usb, bus
<1>3. CASE Claim
  BY <1>3 DEF Claim, usb, bus
<1>4. CASE ReadRing
  <2> DEFINE len == Smaller(READMAX, put - taken)
  <2>1. put - taken \in Nat /\ READMAX \in Nat
    BY PacketAssumption
  <2>2. len \in Nat /\ len <= put - taken
    BY <2>1, SmallerOf
  <2>3. CASE len = 0 /\ pc' = "release" /\ UNCHANGED <<taken, write_buffer>>
    BY <1>4, <2>3 DEF ReadRing, usb, bus
  <2>4. CASE len # 0 /\ taken' = taken + len /\ pc' = "check"
    <3>1. put > 0 /\ taken' \in Nat /\ taken' <= put
      BY <2>2, <2>4
    <3> QED BY <1>4, <2>4, <3>1 DEF ReadRing, usb, bus
  <2> QED BY <1>4, <2>3, <2>4 DEF ReadRing
<1>5. CASE Release
  BY <1>5 DEF Release, usb, bus
<1>6. CASE StartCheck
  BY <1>6 DEF StartCheck, usb, bus
<1>7. CASE StartFields
  <2>1. EpRecord(in_ep') /\ in_ep'.ep_enable = in_ep.ep_enable
    BY <1>7, EpKept DEF StartFields
  <2> QED BY <1>7, <2>1 DEF StartFields, bus
<1>8. CASE StartReady
  BY <1>8 DEF StartReady, Packet, bus
<1> QED BY <1>1, <1>2, <1>3, <1>4, <1>5, <1>6, <1>7, <1>8 DEF Main

LEMMA OpenBus == OpenInv /\ Bus => OpenInv'
<1> SUFFICES ASSUME OpenInv, Bus PROVE OpenInv'
  OBVIOUS
<1>0. FlagInv /\ FlagInv'
  BY FlagBus DEF OpenInv
<1> USE <1>0 DEF OpenInv, InFlight, Stuck
<1>1. CASE HostIn
  BY <1>1 DEF HostIn, main, bus
<1>2. CASE InDone
  <2> DEFINE ep == Account(in_ep)
  <2>1. in_ep.ep_enable /\ EpRecord(ep) /\ ep.ep_enable
    BY <1>2, EpKept DEF InDone
  <2>2. EpRecord(in_ep') /\ in_ep'.ep_enable /\ (fifo'.ready \/ ~ ep_tx_busy_flag')
    <3>1. CASE ep.xfer_len = 0 /\ bulk_in(ep, ep.actual_xfer_len)
      <4>1. Records
        BY DEF FlagInv
      <4>2. EpRecord(Transfer(ep, 0, 0)) /\ Transfer(ep, 0, 0).ep_enable
        BY <2>1, EpKept
      <4>3. Packet(0, 0).ready
        BY DEF Packet
      <4> HIDE DEF ep
      <4> QED BY <2>1, <3>1, <4>1, <4>2, <4>3, BulkInOutcome
    <3>2. CASE in_ep' = ep /\ fifo' = Packet(ep.xfer_buf, Smaller(ep.xfer_len, Mps(ep)))
      BY <2>1, <3>2 DEF Packet
    <3> QED BY <1>2, <3>1, <3>2 DEF InDone
  <2> QED BY <1>2, <2>1, <2>2 DEF InDone, main, bus
<1>3. CASE Reset
  <2>1. UNCHANGED <<pc, ep_tx_busy_flag, in_done, fifo, put, taken, aborts>>
    BY <1>3 DEF Reset, main
  <2>2. EpRecord(in_ep')
    BY <1>3 DEF Reset, Idle, EpRecord
  <2>3. reset_en /\ ~ reset_en'
    BY <1>3 DEF Reset
  <2> QED BY <2>1, <2>2, <2>3
<1>4. CASE ResetUnseen \/ ClearHalt
  <2>1. aborts' = aborts + 1 /\ UNCHANGED <<put, taken, in_ep>>
    BY <1>4 DEF ResetUnseen, ClearHalt, main
  <2>2. aborts' # 0
    BY <2>1 DEF FlagInv, Records
  <2>3. reset_en' = reset_en
    BY <1>4 DEF ResetUnseen, ClearHalt
  <2> QED BY <1>4, <2>1, <2>2, <2>3 DEF ResetUnseen, ClearHalt
<1>5. CASE SetConfiguration
  <2>1. EpRecord(in_ep') /\ in_ep'.ep_enable
    BY <1>5 DEF SetConfiguration, EpRecord
  <2>2. CASE ~ in_ep.ep_enable /\ UNCHANGED aborts
    <3>1. UNCHANGED <<pc, ep_tx_busy_flag, in_done, put, taken>>
      BY <1>5 DEF SetConfiguration, main
    <3>2. fifo' = [fifo EXCEPT !.ready = FALSE] /\ ~ reset_en'
      BY <1>5 DEF SetConfiguration
    <3>3. aborts = 0 => ~ fifo.ready /\ ~ in_done
      BY <2>2
    <3>4. aborts = 0 => ~ Stuck'
      BY <3>1, <3>2, <3>3
    <3> QED BY <2>1, <2>2, <3>1, <3>2, <3>4
  <2>3. CASE aborts' = aborts + 1
    <3>1. aborts' # 0 /\ ~ reset_en'
      BY <1>5, <2>3 DEF SetConfiguration, FlagInv, Records
    <3> QED BY <1>5, <2>1, <3>1 DEF SetConfiguration, main
  <2> QED BY <1>5, <2>2, <2>3 DEF SetConfiguration
<1> QED BY <1>1, <1>2, <1>3, <1>4, <1>5 DEF Bus

LEMMA OpenNext == OpenInv /\ [Next]_vars => OpenInv'
<1>1. OpenInv /\ UNCHANGED vars => OpenInv'
  <2>1. FlagInv /\ UNCHANGED vars => FlagInv'
    BY FlagNext
  <2> QED BY <2>1 DEF vars, main, usb, bus, OpenInv, EpRecord, Starting, InFlight, Stuck
<1> QED BY <1>1, OpenMain, OpenBus DEF Next

(* The loop never waits for an interrupt that cannot come, unless the bus  *)
(* was reset, the device configured anew or a halt cleared.                *)
THEOREM NeverStuckUnasked == Spec => []StuckOnlyAfterAbort
<1>1. OpenInv => StuckOnlyAfterAbort
  BY DEF OpenInv, FlagInv, Records, StuckOnlyAfterAbort
<1> QED BY <1>1, OpenInit, OpenNext, PTL DEF Spec
-------------------------------------------------------------------------------
(* Where the next byte for the host is: in the ring, in write_buffer, in   *)
(* the transfer, or in the packet that is ready; and, for the end of       *)
(* transfers, that all packets but the last one are whole.                 *)
Numbers ==
  /\ taken \in Nat /\ host.next \in Nat
  /\ write_buffer.from \in Nat /\ write_buffer.len \in Nat
  /\ in_ep.xfer_buf \in Nat /\ in_ep.xfer_len \in Nat /\ in_ep.actual_xfer_len \in Nat

InRing == ~ InFlight /\ pc \notin Starting => host.next = taken
InBuffer ==
  pc \in {"check", "fields"} =>
    /\ write_buffer.len > 0 /\ write_buffer.from = host.next
    /\ write_buffer.from + write_buffer.len = taken
InTransfer ==
  pc = "ready" =>
    /\ in_ep.xfer_len > 0 /\ in_ep.xfer_len = write_buffer.len
    /\ in_ep.xfer_buf = host.next /\ in_ep.xfer_buf + in_ep.xfer_len = taken
    /\ in_ep.actual_xfer_len = 0
InPacket ==
  fifo.ready =>
    /\ fifo.len = Smaller(in_ep.xfer_len, MPS)
    /\ in_ep.xfer_len = 0 => host.next = taken
    /\ in_ep.xfer_len > 0 =>
         /\ fifo.from = in_ep.xfer_buf /\ in_ep.xfer_buf = host.next
         /\ in_ep.xfer_buf + in_ep.xfer_len = taken
WithHost ==
  in_done =>
    /\ host.last = Smaller(in_ep.xfer_len, MPS)
    /\ in_ep.xfer_len = 0 => host.next = taken
    /\ in_ep.xfer_len > 0 =>
         /\ host.next = in_ep.xfer_buf + Smaller(in_ep.xfer_len, MPS)
         /\ in_ep.xfer_buf + in_ep.xfer_len = taken
WholeSoFar == InFlight => in_ep.actual_xfer_len % MPS = 0
ShortAtRest ==
  ~ ep_tx_busy_flag \/ pc \in {"claim", "read", "release"} => host.last # MPS

InStream ==
  /\ Numbers /\ ~ host.torn /\ InRing /\ InBuffer /\ InTransfer /\ InPacket
  /\ WithHost /\ WholeSoFar /\ ShortAtRest

StreamInv == OpenInv /\ (aborts = 0 => InStream)

LEMMA StreamInit == Init => StreamInv
<1> SUFFICES ASSUME Init PROVE InStream
  BY OpenInit DEF StreamInv
<1>1. MPS \in Nat \ {0}
  BY PacketAssumption
<1>2. ~ fifo.ready /\ ~ in_done /\ pc = "wait" /\ taken = 0 /\ host.next = 0
      /\ host.last = 0 /\ ~ host.torn /\ Numbers
  BY DEF Init, Idle, Numbers
<1> QED BY <1>1, <1>2 DEF InStream, InRing, InBuffer, InTransfer, InPacket, WithHost,
           WholeSoFar, ShortAtRest, InFlight, Starting

(* While a packet is under way the loop waits and the endpoint is open.    *)
LEMMA LoopWaits ==
  ASSUME OpenInv, aborts = 0, InFlight
  PROVE  pc = "wait" /\ ep_tx_busy_flag /\ in_ep.ep_enable /\ ~ (in_done /\ fifo.ready)
BY DEF OpenInv, FlagInv, Records, OneTransferAtATime, Starting, InFlight

LEMMA StreamMain ==
  ASSUME OpenInv, aborts = 0, InStream, Produce \/ Main
  PROVE  InStream'
<1>1. MPS \in Nat \ {0} /\ READMAX \in Nat \ {0}
  BY PacketAssumption
<1>2. pc \in {"check", "fields", "ready"} => in_ep.ep_enable /\ ~ fifo.ready /\ ~ in_done
  BY DEF OpenInv, FlagInv, OneTransferAtATime, Starting, InFlight
<1>3. pc \in {"claim", "read", "release"} => ~ fifo.ready /\ ~ in_done
  BY DEF OpenInv, FlagInv, OneTransferAtATime, InFlight
<1> USE DEF InStream, Numbers, InRing, InBuffer, InTransfer, InPacket, WithHost,
            WholeSoFar, ShortAtRest, InFlight, Starting
<1>4. CASE Produce
  BY <1>4 DEF Produce, usb
<1>5. CASE Poll
  BY <1>5 DEF Poll, usb
<1>6. CASE Claim
  BY <1>6, <1>3 DEF Claim, usb
<1>7. CASE ReadRing
  <2> DEFINE len == Smaller(READMAX, put - taken)
  <2>1. put - taken \in Nat /\ READMAX \in Nat
    BY <1>1 DEF OpenInv
  <2>2. len \in Nat
    BY <2>1, SmallerOf
  <2>3. pc = "read" /\ UNCHANGED <<ep_tx_busy_flag, in_ep, fifo, in_done, host>>
    BY <1>7 DEF ReadRing, usb
  <2>4. CASE len = 0 /\ pc' = "release" /\ UNCHANGED <<taken, write_buffer>>
    BY <1>3, <2>3, <2>4
  <2>5. CASE len # 0 /\ write_buffer' = [from |-> taken, len |-> len]
             /\ taken' = taken + len /\ pc' = "check"
    <3>1. write_buffer'.from = taken /\ write_buffer'.len = len /\ len > 0
      BY <2>2, <2>5
    <3> HIDE DEF len
    <3> QED BY <1>3, <2>2, <2>3, <2>5, <3>1
  <2> QED BY <1>7, <2>4, <2>5 DEF ReadRing
<1>8. CASE Release
  BY <1>8, <1>3 DEF Release, usb
<1>9. CASE StartCheck
  BY <1>9, <1>2 DEF StartCheck, usb
<1>10. CASE StartFields
  <2>1. /\ in_ep'.xfer_buf = write_buffer.from /\ in_ep'.xfer_len = write_buffer.len
        /\ in_ep'.actual_xfer_len = 0
    BY <1>10 DEF StartFields, Transfer, OpenInv, EpRecord
  <2>2. /\ pc = "fields" /\ pc' = "ready"
        /\ UNCHANGED <<taken, write_buffer, ep_tx_busy_flag, fifo, in_done, host>>
    BY <1>10 DEF StartFields
  <2> QED BY <1>2, <2>1, <2>2
<1>11. CASE StartReady
  <2>1. /\ pc = "ready" /\ pc' = "wait"
        /\ UNCHANGED <<taken, write_buffer, ep_tx_busy_flag, in_ep, in_done, host>>
    BY <1>11 DEF StartReady
  <2>2. /\ fifo'.ready /\ fifo'.from = in_ep.xfer_buf
        /\ fifo'.len = Smaller(write_buffer.len, MPS)
    BY <1>11, <1>2, <2>1 DEF StartReady, Packet, Mps
  <2>3. ep_tx_busy_flag
    BY <2>1 DEF OpenInv, FlagInv, Holding, Records
  <2>4. 0 % MPS = 0
    BY <1>1
  <2> QED BY <1>2, <2>1, <2>2, <2>3, <2>4
<1> QED BY <1>4, <1>5, <1>6, <1>7, <1>8, <1>9, <1>10, <1>11 DEF Main

(* A whole packet more leaves a whole number of packets. *)
LEMMA WholePacketMore ==
  ASSUME NEW m \in Nat \ {0}, NEW a \in Nat, a % m = 0
  PROVE  (a + m) % m = 0
<1>1. a = m * (a \div m) /\ a \div m \in Nat
  OBVIOUS
<1>2. PICK q \in Nat : a = m * q
  BY <1>1
<1>3. a + m = m * (q + 1)
  BY <1>2
<1>4. (m * (q + 1)) % m = 0
  OBVIOUS
<1> QED BY <1>3, <1>4

LEMMA StreamHostIn ==
  ASSUME OpenInv, aborts = 0, InStream, HostIn
  PROVE  InStream'
<1>1. MPS \in Nat \ {0}
  BY PacketAssumption
<1>2. pc = "wait" /\ ep_tx_busy_flag /\ fifo.ready
  BY LoopWaits DEF HostIn, InFlight
<1>3. /\ ~ fifo'.ready /\ in_done'
      /\ UNCHANGED <<taken, pc, write_buffer, ep_tx_busy_flag, in_ep>>
  BY DEF HostIn, main
<1>4. /\ host'.next = IF fifo.len = 0 THEN host.next ELSE fifo.from + fifo.len
      /\ host'.last = fifo.len
      /\ host'.torn = (host.torn \/ (fifo.len > 0 /\ fifo.from # host.next))
  BY DEF HostIn
<1>5. fifo.len \in Nat /\ (fifo.len = 0 <=> in_ep.xfer_len = 0)
  BY <1>1, <1>2 DEF InStream, InPacket, Numbers, Smaller
<1>6. host'.next \in Nat /\ ~ host'.torn
  <2>1. host.next \in Nat /\ in_ep.xfer_len \in Nat /\ ~ host.torn
    BY DEF InStream, Numbers
  <2>2. CASE in_ep.xfer_len = 0
    <3>1. fifo.len = 0 /\ ~ (fifo.len > 0)
      BY <1>5, <2>2
    <3>2. host'.next = host.next
      BY <1>4, <3>1
    <3>3. ~ host'.torn
      BY <1>4, <2>1, <3>1, Zenon
    <3> QED BY <2>1, <3>2, <3>3, Zenon
  <2>3. CASE in_ep.xfer_len > 0
    <3>1. fifo.from = host.next
      BY <1>2, <2>3 DEF InStream, InPacket
    <3>2. host'.next = fifo.from + fifo.len
      BY <1>4, <1>5, <2>1, <2>3
    <3>3. ~ host'.torn
      BY <1>4, <2>1, <3>1
    <3> QED BY <1>5, <2>1, <3>1, <3>2, <3>3
  <2> QED BY <2>1, <2>2, <2>3
<1>7. WithHost'
  BY <1>1, <1>2, <1>3, <1>4, <1>5 DEF InStream, InPacket, Numbers, WithHost, Smaller
<1>8. Numbers'
  BY <1>3, <1>6 DEF InStream, Numbers
<1>9. WholeSoFar' /\ InRing' /\ InBuffer' /\ InTransfer' /\ InPacket' /\ ShortAtRest'
  BY <1>2, <1>3 DEF InStream, WholeSoFar, InFlight, InRing, InBuffer, InTransfer, InPacket,
                    ShortAtRest
<1> QED BY <1>6, <1>7, <1>8, <1>9 DEF InStream

LEMMA StreamInDone ==
  ASSUME OpenInv, aborts = 0, InStream, InDone
  PROVE  InStream'
<1> DEFINE ep == Account(in_ep)
           tx == Smaller(in_ep.xfer_len, MPS)
<1>1. MPS \in Nat \ {0}
  BY PacketAssumption
<1>2. in_done /\ in_ep.ep_enable /\ pc = "wait" /\ ep_tx_busy_flag /\ ~ fifo.ready
  BY LoopWaits DEF InDone, InFlight
<1>3. /\ ~ in_done' /\ pc' = "wait"
      /\ UNCHANGED <<taken, write_buffer, host>>
  BY <1>2 DEF InDone, main
<1>4. /\ ep.xfer_buf = in_ep.xfer_buf + tx /\ ep.xfer_len = in_ep.xfer_len - tx
      /\ ep.actual_xfer_len = in_ep.actual_xfer_len + tx /\ ep.ep_enable
  BY <1>2 DEF Account, Mps, OpenInv, EpRecord
<1>5. /\ in_ep.xfer_buf \in Nat /\ in_ep.xfer_len \in Nat /\ in_ep.actual_xfer_len \in Nat
      /\ taken \in Nat /\ host.next \in Nat
  BY DEF InStream, Numbers
<1>6. /\ tx \in Nat /\ tx <= MPS /\ tx <= in_ep.xfer_len /\ (tx < MPS => tx = in_ep.xfer_len)
      /\ (tx = 0 => in_ep.xfer_len = 0)
  BY <1>1, <1>5 DEF Smaller
<1>7. /\ host.last = tx /\ ~ host.torn
      /\ in_ep.xfer_len = 0 => host.next = taken
      /\ in_ep.xfer_len > 0 =>
           host.next = in_ep.xfer_buf + tx /\ in_ep.xfer_buf + in_ep.xfer_len = taken
  BY <1>2 DEF InStream, WithHost
<1>8. in_ep.actual_xfer_len % MPS = 0
  BY <1>2 DEF InStream, WholeSoFar, InFlight
<1>9. tx = MPS => ep.actual_xfer_len % MPS = 0 /\ ep.actual_xfer_len # 0
  <2>1. (in_ep.actual_xfer_len + MPS) % MPS = 0
    BY <1>1, <1>5, <1>8, WholePacketMore
  <2> QED BY <1>1, <1>4, <1>5, <2>1
<1>10. /\ ep.xfer_buf \in Nat /\ ep.xfer_len \in Nat /\ ep.actual_xfer_len \in Nat
       /\ ep.xfer_len = 0 => host.next = taken
       /\ ep.xfer_len > 0 =>
            tx = MPS /\ ep.xfer_buf = host.next /\ ep.xfer_buf + ep.xfer_len = taken
  <2> HIDE DEF ep, tx
  <2>1. /\ ep.xfer_buf \in Nat /\ ep.xfer_len \in Nat /\ ep.actual_xfer_len \in Nat
        /\ ep.xfer_len = 0 => tx = in_ep.xfer_len
    BY <1>1, <1>4, <1>5, <1>6
  <2>2. ep.xfer_len > 0 => tx = MPS /\ in_ep.xfer_len > 0
    BY <1>1, <1>4, <1>5, <1>6
  <2>3. CASE ep.xfer_len = 0
    <3>1. CASE in_ep.xfer_len = 0
      BY <1>7, <2>1, <2>3, <3>1
    <3>2. CASE in_ep.xfer_len > 0
      BY <1>5, <1>7, <2>1, <2>3, <3>2
    <3> QED BY <1>5, <3>1, <3>2
  <2>4. CASE ep.xfer_len > 0
    <3>1. host.next = in_ep.xfer_buf + tx /\ in_ep.xfer_buf + in_ep.xfer_len = taken
      BY <1>7, <2>2, <2>4
    <3> QED BY <1>4, <1>5, <1>6, <2>1, <2>2, <2>4, <3>1
  <2> QED BY <2>1, <2>3, <2>4
<1> HIDE DEF ep, tx
<1>11. CASE ep.xfer_len # 0 /\ in_ep' = ep
            /\ fifo' = Packet(ep.xfer_buf, Smaller(ep.xfer_len, Mps(ep)))
            /\ UNCHANGED ep_tx_busy_flag
  <2>1. fifo'.ready /\ fifo'.from = ep.xfer_buf /\ fifo'.len = Smaller(ep.xfer_len, MPS)
    BY <1>4, <1>11 DEF Packet, Mps
  <2>2. ep_tx_busy_flag' /\ in_ep' = ep /\ ep.xfer_len > 0
    BY <1>2, <1>10, <1>11
  <2>3. Numbers' /\ ~ host'.torn
    BY <1>3, <1>7, <1>10, <2>2 DEF InStream, Numbers
  <2>4. InPacket' /\ WithHost'
    BY <1>3, <1>10, <2>1, <2>2 DEF InPacket, WithHost
  <2>5. WholeSoFar'
    BY <1>9, <1>10, <2>2 DEF WholeSoFar
  <2>6. InRing' /\ InBuffer' /\ InTransfer' /\ ShortAtRest'
    BY <1>3, <2>1, <2>2 DEF InRing, InBuffer, InTransfer, ShortAtRest, InFlight
  <2> QED BY <2>3, <2>4, <2>5, <2>6 DEF InStream
<1>12. CASE ep.xfer_len = 0 /\ in_ep' = Transfer(ep, 0, 0) /\ fifo' = Packet(0, 0)
            /\ UNCHANGED ep_tx_busy_flag
  <2>1. fifo'.ready /\ fifo'.len = 0
    BY <1>12 DEF Packet
  <2>2. in_ep'.xfer_buf = 0 /\ in_ep'.xfer_len = 0 /\ in_ep'.actual_xfer_len = 0
    <3>1. EpRecord(ep)
      BY EpKept DEF OpenInv, ep
    <3> QED BY <1>12, <3>1 DEF Transfer, EpRecord
  <2>3. ep_tx_busy_flag' /\ host.next = taken
    BY <1>2, <1>10, <1>12
  <2>4. Numbers' /\ ~ host'.torn
    BY <1>3, <1>7, <2>2 DEF InStream, Numbers
  <2>5. InPacket' /\ WithHost' /\ WholeSoFar'
    BY <1>1, <1>3, <2>1, <2>2, <2>3 DEF InPacket, WithHost, WholeSoFar, Smaller
  <2>6. InRing' /\ InBuffer' /\ InTransfer' /\ ShortAtRest'
    BY <1>3, <2>1, <2>3 DEF InRing, InBuffer, InTransfer, ShortAtRest, InFlight
  <2> QED BY <2>4, <2>5, <2>6 DEF InStream
<1>13. CASE ep.xfer_len = 0 /\ in_ep' = ep /\ UNCHANGED fifo
            /\ ~ (ep.actual_xfer_len % MPS = 0 /\ ep.actual_xfer_len # 0)
  <2>1. tx # MPS
    BY <1>9, <1>13
  <2>2. Numbers' /\ ~ host'.torn
    BY <1>3, <1>7, <1>10, <1>13 DEF InStream, Numbers
  <2>3. ~ InFlight' /\ ~ fifo'.ready
    BY <1>2, <1>3, <1>13 DEF InFlight
  <2>4. InPacket' /\ WithHost' /\ WholeSoFar'
    BY <1>3, <2>3 DEF InPacket, WithHost, WholeSoFar
  <2>5. InRing' /\ InBuffer' /\ InTransfer' /\ ShortAtRest'
    BY <1>3, <1>7, <1>10, <1>13, <2>1 DEF InRing, InBuffer, InTransfer, ShortAtRest
  <2> QED BY <2>2, <2>4, <2>5 DEF InStream
<1> QED
  <2>1. \/ ep.xfer_len = 0 /\ bulk_in(ep, ep.actual_xfer_len)
        \/ /\ ep.xfer_len # 0 /\ in_ep' = ep
           /\ fifo' = Packet(ep.xfer_buf, Smaller(ep.xfer_len, Mps(ep)))
           /\ UNCHANGED ep_tx_busy_flag
    BY DEF InDone, ep
  <2> QED BY <1>11, <1>12, <1>13, <2>1 DEF bulk_in

(* The host's other steps: the endpoint is opened with nothing under way,  *)
(* or the bus was not left alone.                                          *)
LEMMA StreamBus ==
  ASSUME OpenInv, aborts = 0, InStream, Bus, aborts' = 0
  PROVE  InStream'
<1>1. CASE HostIn
  BY <1>1, StreamHostIn
<1>2. CASE InDone
  BY <1>2, StreamInDone
<1>3. CASE Reset
  <2>1. ~ InFlight /\ pc \notin Starting
    BY <1>3 DEF Reset, OpenInv
  <2>2. UNCHANGED <<taken, pc, write_buffer, ep_tx_busy_flag, fifo, in_done, host>>
    BY <1>3 DEF Reset, main
  <2>3. in_ep'.xfer_buf = 0 /\ in_ep'.xfer_len = 0 /\ in_ep'.actual_xfer_len = 0
    BY <1>3 DEF Reset, Idle
  <2> QED BY <2>1, <2>2, <2>3
          DEF InStream, Numbers, InRing, InBuffer, InTransfer, InPacket, WithHost, WholeSoFar,
              ShortAtRest, InFlight, Starting
<1>4. CASE ResetUnseen \/ ClearHalt
  BY <1>4 DEF ResetUnseen, ClearHalt
<1>5. CASE SetConfiguration
  <2>1. ~ in_ep.ep_enable
    BY <1>5 DEF SetConfiguration
  <2>2. ~ InFlight /\ pc \notin Starting
    BY <2>1 DEF OpenInv
  <2>3. UNCHANGED <<taken, pc, write_buffer, ep_tx_busy_flag, in_done, host>>
    BY <1>5 DEF SetConfiguration, main
  <2>4. /\ in_ep'.xfer_buf = in_ep.xfer_buf /\ in_ep'.xfer_len = in_ep.xfer_len
        /\ in_ep'.actual_xfer_len = in_ep.actual_xfer_len /\ ~ fifo'.ready
    BY <1>5, <2>2 DEF SetConfiguration, InFlight
  <2> QED BY <2>2, <2>3, <2>4
          DEF InStream, Numbers, InRing, InBuffer, InTransfer, InPacket, WithHost, WholeSoFar,
              ShortAtRest, InFlight, Starting
<1> QED BY <1>1, <1>2, <1>3, <1>4, <1>5 DEF Bus

LEMMA StreamNext == StreamInv /\ [Next]_vars => StreamInv'
<1> SUFFICES ASSUME StreamInv, [Next]_vars, aborts' = 0 PROVE InStream'
  BY OpenNext DEF StreamInv
<1>1. OpenInv /\ aborts \in Nat
  BY DEF StreamInv, OpenInv, FlagInv, Records
<1>2. aborts = 0
  <2>1. CASE Produce \/ Main
    BY <2>1 DEF Produce, Main, Poll, Claim, ReadRing, Release, StartCheck, StartFields,
                StartReady, bus
  <2>2. CASE Bus
    BY <1>1, <2>2 DEF Bus, HostIn, InDone, Reset, ResetUnseen, SetConfiguration, ClearHalt, bus
  <2>3. CASE UNCHANGED vars
    BY <2>3 DEF vars, bus
  <2> QED BY <2>1, <2>2, <2>3 DEF Next
<1>3. InStream
  BY <1>2 DEF StreamInv
<1>4. CASE UNCHANGED vars
  BY <1>3, <1>4 DEF vars, main, usb, bus, InStream, Numbers, InRing, InBuffer, InTransfer,
        InPacket, WithHost, WholeSoFar, ShortAtRest, InFlight, Starting
<1> QED BY <1>1, <1>2, <1>3, <1>4, StreamMain, StreamBus DEF Next

(* The host has never got further than the loop has read. *)
LEMMA NeverAhead ==
  ASSUME OpenInv, InStream
  PROVE  host.next <= taken
<1>1. MPS \in Nat \ {0}
  BY PacketAssumption
<1>2. pc \in {"wait", "claim", "read", "release"} \cup Starting
  BY DEF OpenInv, FlagInv, Records
<1> QED BY <1>1, <1>2 DEF InStream, Numbers, InRing, InBuffer, InTransfer, InPacket, WithHost,
                 InFlight, Starting, Smaller

(* Left alone, the host receives the bytes of usb_tx_rb in their order and *)
(* each once, however they fall into buffers, transfers and packets.       *)
THEOREM StreamStaysInOrder == Spec => []StreamInOrder
<1>1. StreamInv => StreamInOrder
  BY NeverAhead DEF StreamInv, StreamInOrder, InStream
<1> QED BY <1>1, StreamInit, StreamNext, PTL DEF Spec

(* A clear ep_tx_busy_flag means that the last packet was a short one, for *)
(* every packet size and every length of the transfers.                    *)
THEOREM AlwaysEndsShort == Spec => []EndsShort
<1>1. StreamInv => EndsShort
  BY DEF StreamInv, EndsShort, InStream, ShortAtRest
<1> QED BY <1>1, StreamInit, StreamNext, PTL DEF Spec

-------------------------------------------------------------------------------
(* What bounds the numbers, whatever the host does: the rest of a transfer *)
(* stays inside the bytes that were read from the ring, and what is done   *)
(* of it and what is left are together no more than a buffer.              *)
BufferFits(b) ==
  /\ b \in [from : 0 .. TOTAL, len : 0 .. READMAX]
  /\ b.from + b.len <= TOTAL
TransferFits(ep) ==
  /\ ep \in [ep_enable : BOOLEAN, xfer_buf : 0 .. TOTAL,
             xfer_len : 0 .. READMAX, actual_xfer_len : 0 .. READMAX]
  /\ ep.xfer_buf + ep.xfer_len <= TOTAL
  /\ ep.xfer_len + ep.actual_xfer_len <= READMAX
PacketFits(f) ==
  /\ f \in [ready : BOOLEAN, from : 0 .. TOTAL, len : 0 .. MPS]
  /\ f.len <= READMAX

Counters ==
  /\ put \in 0 .. TOTAL /\ taken \in 0 .. put
  /\ host \in [next : 0 .. TOTAL + READMAX, last : 0 .. MPS, torn : BOOLEAN]
  /\ reset_en \in BOOLEAN /\ aborts \in 0 .. ABORTS /\ halt_cleared \in BOOLEAN

FitsInv ==
  /\ Counters
  /\ BufferFits(write_buffer) /\ TransferFits(in_ep) /\ PacketFits(fifo)

LEMMA Bounds ==
  /\ MPS \in Nat \ {0} /\ READMAX \in Nat \ {0} /\ TOTAL \in Nat /\ ABORTS \in Nat
BY PacketAssumption, BoundAssumption

LEMMA TransferMade ==
  ASSUME NEW ep, TransferFits(ep), NEW from \in 0 .. TOTAL, NEW len \in 0 .. READMAX,
         from + len <= TOTAL
  PROVE  TransferFits(Transfer(ep, from, len))
<1> DEFINE t == Transfer(ep, from, len)
<1>1. 0 \in 0 .. READMAX /\ len + 0 <= READMAX
  BY Bounds
<1>2. /\ t \in [ep_enable : BOOLEAN, xfer_buf : 0 .. TOTAL,
               xfer_len : 0 .. READMAX, actual_xfer_len : 0 .. READMAX]
      /\ t.xfer_buf = from /\ t.xfer_len = len /\ t.actual_xfer_len = 0
  BY <1>1 DEF TransferFits, Transfer
<1> QED BY <1>1, <1>2 DEF TransferFits

LEMMA TransferAccounted ==
  ASSUME NEW ep, TransferFits(ep)
  PROVE  TransferFits(Account(ep))
<1> DEFINE a  == Account(ep)
           tx == Smaller(ep.xfer_len, Mps(ep))
<1>1. /\ ep.xfer_buf \in 0 .. TOTAL /\ ep.xfer_len \in 0 .. READMAX
      /\ ep.actual_xfer_len \in 0 .. READMAX
      /\ ep.xfer_buf + ep.xfer_len <= TOTAL /\ ep.xfer_len + ep.actual_xfer_len <= READMAX
  BY DEF TransferFits
<1>2. Mps(ep) \in Nat
  BY Bounds DEF Mps
<1>3. tx \in Nat /\ tx <= ep.xfer_len
  BY <1>1, <1>2 DEF Smaller
<1>4. a = [ep EXCEPT !.xfer_buf = @ + tx, !.xfer_len = @ - tx, !.actual_xfer_len = @ + tx]
  BY DEF Account
<1> HIDE DEF a, tx
<1>5. /\ ep.xfer_buf + tx \in 0 .. TOTAL /\ ep.xfer_len - tx \in 0 .. READMAX
      /\ ep.actual_xfer_len + tx \in 0 .. READMAX
      /\ (ep.xfer_buf + tx) + (ep.xfer_len - tx) <= TOTAL
      /\ (ep.xfer_len - tx) + (ep.actual_xfer_len + tx) <= READMAX
  BY <1>1, <1>3, Bounds
<1>6. /\ a \in [ep_enable : BOOLEAN, xfer_buf : 0 .. TOTAL,
               xfer_len : 0 .. READMAX, actual_xfer_len : 0 .. READMAX]
      /\ a.xfer_buf = ep.xfer_buf + tx /\ a.xfer_len = ep.xfer_len - tx
      /\ a.actual_xfer_len = ep.actual_xfer_len + tx
  BY <1>4, <1>5 DEF TransferFits
<1>7. TransferFits(a)
  BY <1>5, <1>6 DEF TransferFits
<1> QED BY <1>7 DEF a

LEMMA PacketMade ==
  ASSUME NEW from \in 0 .. TOTAL, NEW len \in 0 .. READMAX, NEW ep
  PROVE  /\ PacketFits(Packet(from, Smaller(len, Mps(ep))))
         /\ PacketFits(Packet(0, 0))
<1>1. Mps(ep) \in 0 .. MPS
  BY Bounds DEF Mps
<1>2. Smaller(len, Mps(ep)) \in 0 .. MPS /\ Smaller(len, Mps(ep)) <= READMAX
  BY <1>1, Bounds DEF Smaller
<1>3. PacketFits(Packet(from, Smaller(len, Mps(ep))))
  BY <1>2 DEF PacketFits, Packet
<1>4. PacketFits(Packet(0, 0))
  BY Bounds DEF PacketFits, Packet
<1> QED BY <1>3, <1>4

LEMMA PacketTaken ==
  ASSUME NEW f, PacketFits(f)
  PROVE  PacketFits([f EXCEPT !.ready = FALSE])
BY DEF PacketFits

LEMMA FitsInit == Init => FitsInv
<1> SUFFICES ASSUME Init PROVE FitsInv
  OBVIOUS
<1>1. Counters
  <2>1. 0 \in 0 .. TOTAL /\ 0 \in 0 .. 0 /\ 0 \in 0 .. ABORTS /\ 0 \in 0 .. MPS
        /\ 0 \in 0 .. TOTAL + READMAX
    BY Bounds
  <2>2. host \in [next : 0 .. TOTAL + READMAX, last : 0 .. MPS, torn : BOOLEAN]
    BY <2>1 DEF Init
  <2>3. reset_en \in BOOLEAN /\ halt_cleared \in BOOLEAN
    BY DEF Init
  <2> QED BY <2>1, <2>2, <2>3 DEF Init, Counters
<1>2. BufferFits(write_buffer) /\ PacketFits(fifo)
  BY Bounds DEF Init, BufferFits, PacketFits
<1>3. TransferFits(in_ep)
  BY Bounds DEF Init, Idle, TransferFits
<1> QED BY <1>1, <1>2, <1>3 DEF FitsInv

LEMMA FitsMain == FitsInv /\ (Produce \/ Main) => FitsInv'
<1> SUFFICES ASSUME FitsInv, Produce \/ Main PROVE FitsInv'
  OBVIOUS
<1>1. CASE Produce
  <2>1. put' \in 0 .. TOTAL /\ taken' \in 0 .. put'
    BY <1>1, Bounds DEF Produce, FitsInv, Counters
  <2> QED BY <1>1, <2>1 DEF Produce, FitsInv, Counters, usb, bus
<1>2. CASE Poll \/ Claim \/ Release \/ StartCheck
  BY <1>2 DEF Poll, Claim, Release, StartCheck, FitsInv, Counters, usb, bus
<1>3. CASE ReadRing
  <2> DEFINE len == Smaller(READMAX, put - taken)
  <2>1. /\ put' = put /\ host' = host /\ in_ep' = in_ep /\ fifo' = fifo
        /\ reset_en' = reset_en /\ aborts' = aborts /\ halt_cleared' = halt_cleared
    BY <1>3 DEF ReadRing, usb, bus
  <2>2. put \in 0 .. TOTAL /\ taken \in 0 .. put
    BY DEF FitsInv, Counters
  <2>3. len \in 0 .. READMAX /\ taken + len \in 0 .. put /\ taken \in 0 .. TOTAL
        /\ taken + len <= TOTAL
    BY <2>2, Bounds DEF Smaller
  <2>4. \/ taken' = taken /\ write_buffer' = write_buffer
        \/ taken' = taken + len /\ write_buffer' = [from |-> taken, len |-> len]
    BY <1>3 DEF ReadRing
  <2> HIDE DEF len
  <2>5. BufferFits([from |-> taken, len |-> len])
    BY <2>3 DEF BufferFits
  <2>6. taken' \in 0 .. put' /\ BufferFits(write_buffer')
    BY <2>1, <2>2, <2>3, <2>4, <2>5 DEF FitsInv
  <2> QED BY <2>1, <2>6 DEF FitsInv, Counters
<1>4. CASE StartFields
  <2>1. TransferFits(in_ep')
    <3>1. /\ write_buffer.from \in 0 .. TOTAL /\ write_buffer.len \in 0 .. READMAX
          /\ write_buffer.from + write_buffer.len <= TOTAL /\ TransferFits(in_ep)
      BY DEF FitsInv, BufferFits
    <3> QED BY <1>4, <3>1, TransferMade DEF StartFields
  <2> QED BY <1>4, <2>1 DEF StartFields, FitsInv, Counters, bus
<1>5. CASE StartReady
  <2>1. PacketFits(fifo')
    <3>1. in_ep.xfer_buf \in 0 .. TOTAL /\ write_buffer.len \in 0 .. READMAX
      BY DEF FitsInv, BufferFits, TransferFits
    <3> QED BY <1>5, <3>1, PacketMade DEF StartReady
  <2> QED BY <1>5, <2>1 DEF StartReady, FitsInv, Counters, bus
<1> QED BY <1>1, <1>2, <1>3, <1>4, <1>5 DEF Main

LEMMA FitsHostIn ==
  ASSUME FitsInv, HostIn
  PROVE  FitsInv'
<1>1. /\ host' = [next |-> IF fifo.len = 0 THEN host.next ELSE fifo.from + fifo.len,
                  last |-> fifo.len,
                  torn |-> host.torn \/ (fifo.len > 0 /\ fifo.from # host.next)]
      /\ fifo' = [fifo EXCEPT !.ready = FALSE]
  BY DEF HostIn
<1>2. /\ put' = put /\ taken' = taken /\ write_buffer' = write_buffer /\ in_ep' = in_ep
      /\ reset_en' = reset_en /\ aborts' = aborts /\ halt_cleared' = halt_cleared
  BY DEF HostIn, main, bus
<1>3. /\ fifo.from \in 0 .. TOTAL /\ fifo.len \in 0 .. MPS /\ fifo.len <= READMAX
      /\ host.next \in 0 .. TOTAL + READMAX
  BY DEF FitsInv, PacketFits, Counters
<1>4. (IF fifo.len = 0 THEN host.next ELSE fifo.from + fifo.len) \in 0 .. TOTAL + READMAX
  BY <1>3, Bounds
<1>5. (host.torn \/ (fifo.len > 0 /\ fifo.from # host.next)) \in BOOLEAN
  OBVIOUS
<1>6. host' \in [next : 0 .. TOTAL + READMAX, last : 0 .. MPS, torn : BOOLEAN]
  BY <1>1, <1>3, <1>4, <1>5, Zenon
<1>7. PacketFits(fifo')
  BY <1>1, PacketTaken DEF FitsInv
<1> QED BY <1>2, <1>6, <1>7 DEF FitsInv, Counters

LEMMA FitsInDone ==
  ASSUME FitsInv, InDone
  PROVE  FitsInv'
<1> DEFINE ep == Account(in_ep)
<1>1. TransferFits(ep)
  BY TransferAccounted DEF FitsInv
<1>2. /\ put' = put /\ taken' = taken /\ write_buffer' = write_buffer /\ host' = host
      /\ reset_en' = reset_en /\ aborts' = aborts /\ halt_cleared' = halt_cleared
  BY DEF InDone, main, bus
<1>3. \/ in_ep' = Transfer(ep, 0, 0) /\ fifo' = Packet(0, 0)
      \/ in_ep' = ep /\ fifo' = fifo
      \/ in_ep' = ep /\ fifo' = Packet(ep.xfer_buf, Smaller(ep.xfer_len, Mps(ep)))
  BY DEF InDone, bulk_in
<1> HIDE DEF ep
<1>4. TransferFits(Transfer(ep, 0, 0))
  <2>1. 0 \in 0 .. TOTAL /\ 0 \in 0 .. READMAX /\ 0 + 0 <= TOTAL
    BY Bounds
  <2> QED BY <1>1, <2>1, TransferMade
<1>5. PacketFits(Packet(ep.xfer_buf, Smaller(ep.xfer_len, Mps(ep)))) /\ PacketFits(Packet(0, 0))
  <2>1. ep.xfer_buf \in 0 .. TOTAL /\ ep.xfer_len \in 0 .. READMAX
    BY <1>1 DEF TransferFits
  <2> QED BY <2>1, PacketMade
<1>6. TransferFits(in_ep') /\ PacketFits(fifo')
  BY <1>1, <1>3, <1>4, <1>5 DEF FitsInv
<1> QED BY <1>2, <1>6 DEF FitsInv, Counters

LEMMA FitsBus == FitsInv /\ Bus => FitsInv'
<1> SUFFICES ASSUME FitsInv, Bus PROVE FitsInv'
  OBVIOUS
<1>1. CASE HostIn
  BY <1>1, FitsHostIn
<1>2. CASE InDone
  BY <1>2, FitsInDone
<1>3. CASE Reset
  <2>1. TransferFits(Idle)
    BY Bounds DEF Idle, TransferFits
  <2> QED BY <1>3, <2>1 DEF Reset, FitsInv, Counters, main
<1>4. CASE ResetUnseen \/ SetConfiguration \/ ClearHalt
  <2>1. aborts' \in 0 .. ABORTS
    BY <1>4, Bounds DEF ResetUnseen, SetConfiguration, ClearHalt, FitsInv, Counters
  <2>2. halt_cleared' \in BOOLEAN
    BY <1>4 DEF ResetUnseen, SetConfiguration, ClearHalt, FitsInv, Counters
  <2>3. /\ put' = put /\ taken' = taken /\ write_buffer' = write_buffer /\ host' = host
        /\ reset_en' = reset_en
    BY <1>4 DEF ResetUnseen, SetConfiguration, ClearHalt, main
  <2>4. PacketFits(fifo')
    <3>1. fifo' \in {fifo, [fifo EXCEPT !.ready = FALSE], Packet(0, 0)}
      BY <1>4 DEF ResetUnseen, SetConfiguration, ClearHalt
    <3>2. PacketFits(Packet(0, 0))
      BY Bounds DEF PacketFits, Packet
    <3> QED BY <3>1, <3>2, PacketTaken DEF FitsInv
  <2>5. TransferFits(in_ep')
    <3>1. in_ep' = in_ep \/ in_ep' = [in_ep EXCEPT !.ep_enable = TRUE]
      BY <1>4 DEF ResetUnseen, SetConfiguration, ClearHalt
    <3>2. TransferFits([in_ep EXCEPT !.ep_enable = TRUE])
      BY DEF FitsInv, TransferFits
    <3> QED BY <3>1, <3>2 DEF FitsInv
  <2> QED BY <2>1, <2>2, <2>3, <2>4, <2>5 DEF FitsInv, Counters
<1> QED BY <1>1, <1>2, <1>3, <1>4 DEF Bus

LEMMA FitsNext == FitsInv /\ [Next]_vars => FitsInv'
<1>1. FitsInv /\ UNCHANGED vars => FitsInv'
  BY DEF vars, main, usb, bus, FitsInv, Counters
<1> QED BY <1>1, FitsMain, FitsBus DEF Next

(* The numbers of the endpoint driver stay in range, under every reset,    *)
(* configuration and cleared halt: an unsigned xfer_len never passes below *)
(* zero, and a packet is never longer than the endpoint's.                 *)
THEOREM TypeCorrect == Spec => []TypeOK
<1>1. FitsInv /\ FlagInv => TypeOK
  BY DEF FitsInv, Counters, BufferFits, TransferFits, PacketFits, FlagInv, Records, TypeOK
<1> QED BY <1>1, FitsInit, FitsNext, FlagInit, FlagNext, PTL DEF Spec
================================================================================
