------------------------------- MODULE TxQueue --------------------------------
(***************************************************************************)
(* What usb_tx_rb promises its three users, task_data_out, the bulk OUT    *)
(* callback and usb_dc_send_from_ringbuffer: a queue of whole blocks.  A   *)
(* frame or a reply goes in at once or not at all, a read takes all there  *)
(* is at once and hands out just that, and a reply may come between the    *)
(* taking and the handing out.                                             *)
(***************************************************************************)
EXTENDS Integers, Sequences

CONSTANTS
  FRAME,    \* the length of a data frame
  REPLY,    \* the length of a reply
  READMAX   \* what one read takes at most

VARIABLES
  queue,    \* the bytes nobody has taken
  hand,     \* those taken by a read that has not handed them out
  seq       \* parity of the next frame and of the next reply

Block(kind, n, len) == [i \in 1 .. len |-> <<kind, n, i>>]

(* With n more bytes the next read still takes everything. *)
RoomFor(n) == Len(hand) + Len(queue) + n <= READMAX

Init ==
  /\ queue = << >> /\ hand = << >>
  /\ seq = [frame |-> 0, reply |-> 0]

PutFrame ==
  /\ hand = << >> /\ RoomFor(FRAME)
  /\ queue' = queue \o Block("frame", seq.frame, FRAME)
  /\ seq' = [seq EXCEPT !.frame = 1 - @]
  /\ UNCHANGED hand

PutReply ==
  /\ RoomFor(REPLY)
  /\ queue' = queue \o Block("reply", seq.reply, REPLY)
  /\ seq' = [seq EXCEPT !.reply = 1 - @]
  /\ UNCHANGED hand

TakeAll ==
  /\ hand = << >> /\ queue # << >>
  /\ hand' = queue /\ queue' = << >>
  /\ UNCHANGED seq

HandOut ==
  /\ hand # << >> /\ hand' = << >>
  /\ UNCHANGED <<queue, seq>>

Next == PutFrame \/ PutReply \/ TakeAll \/ HandOut
Spec == Init /\ [][Next]_<<queue, hand, seq>>
===============================================================================
