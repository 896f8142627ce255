------------------------------- MODULE UsbCdc ---------------------------------
(***************************************************************************)
(* The bulk IN path: usb_dc_send_from_ringbuffer in the main loop, the     *)
(* endpoint driver (usbd_ep_start_write, USBD_IRQHandler of the BL702) and *)
(* the completion callback usbd_cdc_acm_bulk_in, with the host taking      *)
(* packets, resetting the bus, configuring the device and clearing a halt. *)
(*                                                                         *)
(* Bytes are numbered in the order they enter usb_tx_rb, so a buffer is an *)
(* interval of numbers and what the host received is the next one it       *)
(* expects.  An interrupt is one action; the main loop may be interrupted  *)
(* between any two accesses to what it shares with the interrupt.          *)
(***************************************************************************)
EXTENDS Integers

CONSTANTS
  MPS,      \* CDC_MAX_MPS
  READMAX,  \* USBD_TXBUFSIZE - 1
  TOTAL,    \* bound: bytes ever written to usb_tx_rb
  ABORTS    \* bound: resets, configurations and cleared halts of a device
            \* that has a configuration

ASSUME PacketAssumption == MPS \in Nat \ {0} /\ READMAX \in Nat \ {0}
ASSUME BoundAssumption  == TOTAL \in Nat /\ ABORTS \in Nat

VARIABLES
  put,       \* bytes written to usb_tx_rb so far
  taken,     \* bytes read from it so far
  pc,        \* where the main loop is
  write_buffer,     \* the bytes in write_buffer: [from, len]
  ep_tx_busy_flag,
  in_ep,     \* g_bl_udc.in_ep[ep]: ep_enable and ep_mps as one, the transfer
  fifo,      \* the endpoint's packet: [ready, from, len]
  in_done,   \* the endpoint's bit of the interrupt status
  reset_en,  \* USB_CR_USB_RESET_EN in USB_INT_EN
  host,      \* ghost: next byte expected, length of the last packet, torn
  aborts,    \* ghost: how often the host broke in, up to ABORTS
  halt_cleared \* ghost: once by clearing a halt

main == <<put, taken, pc, write_buffer>>
usb  == <<in_ep, fifo, in_done>>
bus  == <<reset_en, aborts, halt_cleared>>
vars == <<main, ep_tx_busy_flag, usb, host, bus>>

Smaller(a, b) == IF a < b THEN a ELSE b

Idle == [ep_enable |-> FALSE, xfer_buf |-> 0, xfer_len |-> 0, actual_xfer_len |-> 0]
Mps(ep) == IF ep.ep_enable THEN MPS ELSE 0

(* Somebody will still report the end of a packet. *)
InFlight == fifo.ready \/ in_done

-------------------------------------------------------------------------------
(* The transfer fields, the packet and the completion. *)
Transfer(ep, from, len) ==
  [ep EXCEPT !.xfer_buf = from, !.xfer_len = len, !.actual_xfer_len = 0]

(* bflb_usb_mem2fifo and bflb_usb_ep_set_ready. *)
Packet(from, len) == [ready |-> TRUE, from |-> from, len |-> len]

(* seeded faults: a whole packet is accounted for however short the rest;  *)
(* the buffer pointer stays where it was.                                  *)
AccountWhole(ep) ==
  [ep EXCEPT !.xfer_buf = @ + MPS, !.xfer_len = @ - MPS, !.actual_xfer_len = @ + MPS]
AccountInPlace(ep) ==
  LET tx_count == Smaller(ep.xfer_len, Mps(ep)) IN
    [ep EXCEPT !.xfer_len = @ - tx_count, !.actual_xfer_len = @ + tx_count]

(* USBD_IRQHandler accounts for the packet the host has taken. *)
Account(ep) ==
  LET tx_count == Smaller(ep.xfer_len, Mps(ep)) IN
    [ep EXCEPT !.xfer_buf = @ + tx_count,
               !.xfer_len = @ - tx_count,
               !.actual_xfer_len = @ + tx_count]

(* seeded faults: no zero length packet; the flag is cleared with it. *)
bulk_in_no_zlp(ep, nbytes) ==
  /\ ep_tx_busy_flag' = FALSE
  /\ in_ep' = ep /\ UNCHANGED fifo
bulk_in_frees(ep, nbytes) ==
  /\ ep_tx_busy_flag' = FALSE
  /\ IF nbytes % MPS = 0 /\ nbytes # 0
     THEN in_ep' = Transfer(ep, 0, 0) /\ fifo' = Packet(0, 0)
     ELSE in_ep' = ep /\ UNCHANGED fifo

(* usbd_cdc_acm_bulk_in: whole packets only are ended by an empty one. *)
bulk_in(ep, nbytes) ==
  \/ /\ nbytes % MPS = 0 /\ nbytes # 0
     /\ in_ep' = Transfer(ep, 0, 0) /\ fifo' = Packet(0, 0)
     /\ UNCHANGED ep_tx_busy_flag
  \/ /\ ~ (nbytes % MPS = 0 /\ nbytes # 0)
     /\ ep_tx_busy_flag' = FALSE
     /\ in_ep' = ep /\ UNCHANGED fifo

-------------------------------------------------------------------------------
(* main starts the loop with an empty ring; the host configures later. *)
Init ==
  /\ put = 0 /\ taken = 0 /\ pc = "wait"
  /\ write_buffer = [from |-> 0, len |-> 0]
  /\ ep_tx_busy_flag = FALSE
  /\ in_ep = Idle
  /\ fifo = [ready |-> FALSE, from |-> 0, len |-> 0] /\ in_done = FALSE
  /\ host = [next |-> 0, last |-> 0, torn |-> FALSE]
  /\ reset_en = TRUE /\ aborts = 0 /\ halt_cleared = FALSE

(* A byte more in usb_tx_rb, of a frame or of a reply: the host starts the *)
(* acquisition, and asks for replies, after it configured the device.      *)
Produce ==
  /\ put < TOTAL
  /\ in_ep.ep_enable \/ put > 0
  /\ put' = put + 1
  /\ UNCHANGED <<taken, pc, write_buffer, ep_tx_busy_flag, usb, host, bus>>

(* while (ep_tx_busy_flag); *)
Poll ==
  /\ pc = "wait" /\ ~ ep_tx_busy_flag
  /\ pc' = "claim"
  /\ UNCHANGED <<put, taken, write_buffer, ep_tx_busy_flag, usb, host, bus>>

Claim ==
  /\ pc = "claim"
  /\ ep_tx_busy_flag' = TRUE /\ pc' = "read"
  /\ UNCHANGED <<put, taken, write_buffer, usb, host, bus>>

(* Ring_Buffer_Read of at most USBD_TXBUFSIZE - 1 bytes. *)
ReadRing ==
  /\ pc = "read"
  /\ LET len == Smaller(READMAX, put - taken) IN
       \/ /\ len = 0
          /\ pc' = "release"
          /\ UNCHANGED <<taken, write_buffer>>
       \/ /\ len # 0
          /\ write_buffer' = [from |-> taken, len |-> len]
          /\ taken' = taken + len
          /\ pc' = "check"
  /\ UNCHANGED <<put, ep_tx_busy_flag, usb, host, bus>>

(* seeded fault: the flag stays set when there was nothing to send. *)
ReleaseForgotten ==
  /\ pc = "release"
  /\ pc' = "wait"
  /\ UNCHANGED <<put, taken, write_buffer, ep_tx_busy_flag, usb, host, bus>>

Release ==
  /\ pc = "release"
  /\ ep_tx_busy_flag' = FALSE /\ pc' = "wait"
  /\ UNCHANGED <<put, taken, write_buffer, usb, host, bus>>

(* usbd_ep_start_write: -2 from an endpoint that is not open goes unseen   *)
(* and leaves the flag set.                                                *)
StartCheck ==
  /\ pc = "check"
  /\ pc' = IF in_ep.ep_enable THEN "fields" ELSE "wait"
  /\ UNCHANGED <<put, taken, write_buffer, ep_tx_busy_flag, usb, host, bus>>

StartFields ==
  /\ pc = "fields"
  /\ in_ep' = Transfer(in_ep, write_buffer.from, write_buffer.len)
  /\ pc' = "ready"
  /\ UNCHANGED <<put, taken, write_buffer, ep_tx_busy_flag, fifo, in_done, host, bus>>

StartReady ==
  /\ pc = "ready"
  /\ fifo' = Packet(in_ep.xfer_buf, Smaller(write_buffer.len, Mps(in_ep)))
  /\ pc' = "wait"
  /\ UNCHANGED <<put, taken, write_buffer, ep_tx_busy_flag, in_ep, in_done, host, bus>>

Main ==
  \/ Poll \/ Claim \/ ReadRing \/ Release
  \/ StartCheck \/ StartFields \/ StartReady

-------------------------------------------------------------------------------
(* The host polls an endpoint of a configured device and takes its packet. *)
HostIn ==
  /\ in_ep.ep_enable /\ fifo.ready
  /\ host' = [next |-> IF fifo.len = 0 THEN host.next ELSE fifo.from + fifo.len,
              last |-> fifo.len,
              torn |-> host.torn \/ (fifo.len > 0 /\ fifo.from # host.next)]
  /\ fifo' = [fifo EXCEPT !.ready = FALSE]
  /\ in_done' = TRUE
  /\ UNCHANGED <<main, ep_tx_busy_flag, in_ep, bus>>

(* seeded fault: the next packet is put in the FIFO and not made ready. *)
InDoneNotReady ==
  /\ in_done /\ in_ep.ep_enable
  /\ in_done' = FALSE
  /\ LET ep == Account(in_ep) IN
       IF ep.xfer_len = 0 THEN bulk_in(ep, ep.actual_xfer_len)
       ELSE in_ep' = ep /\ UNCHANGED <<fifo, ep_tx_busy_flag>>
  /\ UNCHANGED <<main, host, bus>>

(* The IN branch of USBD_IRQHandler. *)
InDone ==
  /\ in_done /\ in_ep.ep_enable
  /\ in_done' = FALSE
  /\ LET ep == Account(in_ep) IN
       \/ /\ ep.xfer_len = 0
          /\ bulk_in(ep, ep.actual_xfer_len)
       \/ /\ ep.xfer_len # 0
          /\ in_ep' = ep
          /\ fifo' = Packet(ep.xfer_buf, Smaller(ep.xfer_len, Mps(ep)))
          /\ UNCHANGED ep_tx_busy_flag
  /\ UNCHANGED <<main, host, bus>>

(* The reset branch, which finds g_bl_udc as it was at boot: it also takes *)
(* the reset bit out of USB_INT_EN, and usb_dc_init is not called again.   *)
Reset ==
  /\ reset_en /\ reset_en' = FALSE
  /\ in_ep' = Idle
  /\ UNCHANGED <<main, ep_tx_busy_flag, fifo, in_done, host, aborts, halt_cleared>>

(* Of a later reset the program learns nothing; whether the controller     *)
(* drops a packet it was given is its own affair.                          *)
ResetUnseen ==
  /\ ~ reset_en /\ in_ep.ep_enable /\ aborts < ABORTS
  /\ aborts' = aborts + 1
  /\ fifo' = [fifo EXCEPT !.ready = FALSE] \/ UNCHANGED fifo
  /\ UNCHANGED <<main, ep_tx_busy_flag, in_ep, in_done, host, reset_en, halt_cleared>>

(* SET_CONFIGURATION, also of a device that has a configuration: the       *)
(* endpoint is opened and answers NAK until the next start; neither the    *)
(* core nor the CDC class touches ep_tx_busy_flag.                         *)
SetConfiguration ==
  /\ ~ reset_en /\ ~ in_done
  /\ \/ ~ in_ep.ep_enable /\ UNCHANGED aborts
     \/ in_ep.ep_enable /\ aborts < ABORTS /\ aborts' = aborts + 1
  /\ in_ep' = [in_ep EXCEPT !.ep_enable = TRUE]
  /\ fifo' = [fifo EXCEPT !.ready = FALSE]
  /\ UNCHANGED <<main, ep_tx_busy_flag, in_done, host, reset_en, halt_cleared>>

(* CLEAR_FEATURE(ENDPOINT_HALT): the endpoint is made ready with whatever  *)
(* is in its FIFO, which is nothing between transfers.                     *)
ClearHalt ==
  /\ in_ep.ep_enable /\ aborts < ABORTS
  /\ aborts' = aborts + 1 /\ halt_cleared' = TRUE
  /\ fifo' = IF fifo.ready THEN fifo ELSE Packet(0, 0)
  /\ UNCHANGED <<main, ep_tx_busy_flag, in_ep, in_done, host, reset_en>>

Bus == HostIn \/ InDone \/ Reset \/ ResetUnseen \/ SetConfiguration \/ ClearHalt

Next == Produce \/ Main \/ Bus

Spec == Init /\ [][Next]_vars

(* The main loop and the interrupt run; the host resets the device, gives  *)
(* it its configuration, and keeps reading while the port is open.         *)
FairSpec ==
  /\ Spec
  /\ WF_vars(Main) /\ WF_vars(InDone) /\ WF_vars(HostIn)
  /\ WF_vars(Reset) /\ WF_vars(SetConfiguration /\ ~ in_ep.ep_enable)

-------------------------------------------------------------------------------
Starting == {"check", "fields", "ready"}

(* Numbers of bytes stay in range: the remaining length of a transfer is   *)
(* never taken below zero (it is unsigned in the driver).                  *)
TypeOK ==
  /\ put \in 0 .. TOTAL /\ taken \in 0 .. put
  /\ pc \in {"wait", "claim", "read", "release"} \cup Starting
  /\ write_buffer \in [from : 0 .. TOTAL, len : 0 .. READMAX]
  /\ ep_tx_busy_flag \in BOOLEAN
  /\ in_ep \in [ep_enable : BOOLEAN, xfer_buf : 0 .. TOTAL,
                xfer_len : 0 .. READMAX, actual_xfer_len : 0 .. READMAX]
  /\ fifo \in [ready : BOOLEAN, from : 0 .. TOTAL, len : 0 .. MPS]
  /\ in_done \in BOOLEAN
  /\ host \in [next : 0 .. TOTAL + READMAX, last : 0 .. MPS, torn : BOOLEAN]
  /\ reset_en \in BOOLEAN /\ aborts \in 0 .. ABORTS /\ halt_cleared \in BOOLEAN

(* write_buffer is refilled, and usbd_ep_start_write called, only when no  *)
(* packet is waiting for the host or for its interrupt, whatever resets    *)
(* and configurations came between: the flag is the only thing that keeps  *)
(* the two apart.  A cleared halt sends a packet nobody started, whose     *)
(* interrupt accounts for a transfer that may just be beginning.           *)
OneTransferAtATime ==
  pc \in {"claim", "read", "release"} \cup Starting /\ ~ halt_cleared => ~ InFlight

(* Unless the host breaks in, it gets the bytes of the ring in order, each *)
(* once: packets of a transfer, transfers, and the empty packets between   *)
(* them.                                                                   *)
StreamInOrder == aborts = 0 => ~ host.torn /\ host.next <= taken

(* When the flag is clear the host has seen a short packet last: a read    *)
(* request of the host is never left open on data it already has           *)
(* ("send zlp").                                                           *)
EndsShort == aborts = 0 /\ ~ ep_tx_busy_flag => host.last # MPS

(* The main loop waits for an interrupt that cannot come. *)
Stuck == pc = "wait" /\ ep_tx_busy_flag /\ ~ InFlight

(* The wait for the endpoint is only ever endless after a reset or a       *)
(* repeated configuration (usbd_configure_done_callback does not clear the *)
(* flag) or a cleared halt: no order of the loop's steps and the interrupt *)
(* leaves the flag set with nothing sent.                                  *)
StuckOnlyAfterAbort == Stuck => aborts > 0

(* Every byte written to the ring reaches the host, if the bus is left     *)
(* alone and the host reads on.                                            *)
Delivered ==
  \A n \in 1 .. TOTAL : put >= n ~> (host.next >= n \/ aborts > 0)
================================================================================
