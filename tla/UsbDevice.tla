------------------------------ MODULE UsbDevice ---------------------------------
(***************************************************************************)
(* What USBD_IRQHandler does besides the bulk IN endpoint of UsbCdc:       *)
(* control transfers over endpoint 0 (the driver, the device core and the  *)
(* CDC class behind it), the bulk OUT endpoint with its callback, and bus  *)
(* resets.  All of it runs in the one interrupt, whose branches are the    *)
(* actions here; between two of them the host goes on.                     *)
(*                                                                         *)
(* The controller's side is external: an endpoint takes one packet for     *)
(* every time it was made ready and reports it by its bit of the interrupt *)
(* status; a SETUP is taken by a ready endpoint 0, stalled or not.         *)
(***************************************************************************)
EXTENDS Integers

CONSTANTS
  MPS,      \* USB_CTRL_EP_MPS and CDC_MAX_MPS, 64
  REQBUF,   \* CONFIG_USBDEV_REQUEST_BUFFER_LEN
  RXBUF,    \* USBD_RXBUFSIZE
  Asks,     \* what the host asks for: <<bytes there are, wLength, where>>
  Puts,     \* requests with data for the device: <<wLength, what they do>>
  Commands, \* what it writes to the port: <<bytes, head.size>>
  ABANDONS  \* bound: control transfers the host gives up for another

WORD == 65536 \* stands for 2^32

ASSUME SizeAssumption ==
  /\ MPS \in Nat \ {0} /\ REQBUF \in Nat
  /\ RXBUF \in Nat \ {0} /\ RXBUF % MPS = 0 /\ RXBUF < WORD      \* 32 packets
  /\ \A a \in Asks : /\ a[1] \in Nat /\ a[2] \in Nat /\ a[2] < WORD \* a wLength
                     /\ a[3] \in {"aligned", "misaligned"}  \* to four bytes
  /\ \A p \in Puts : /\ p[1] \in Nat \ {0} /\ p[1] < WORD
                     /\ p[2] \in {"line coding", "unknown"}
  /\ Commands \subseteq (0 .. RXBUF) \X Nat     \* at most 2 + 255 bytes of 2048
  /\ ABANDONS \in Nat

VARIABLES
  irq,        \* the bits of the interrupt status that are set
  reset_en,   \* USB_CR_USB_RESET_EN in USB_INT_EN
  ep0,        \* the controller's endpoint 0: [rdy, stall, tx, rx]
  in0, out0,  \* g_bl_udc.in_ep[0], out_ep[0]: [xfer_len, actual_xfer_len]
  core,       \* usbd_core_cfg: [setup, residue, zlp_flag, configuration]
  out2,       \* out_ep[2] and its controller side
  rx2,        \* the packet in its FIFO: [len, head]
  head,       \* head.size in read_buffer while a command comes in
  ctl,        \* host: [stage, req, got] of its control transfer
  write,      \* host: [left, len, size] of the command it is writing
  told,       \* ghost: the host has seen SET_CONFIGURATION done
  owed,       \* ghost: commands the device has in full and has not decoded
  mishap,     \* ghost: two commands ran together, or one was cut
  late,       \* ghost: the last halt came with a packet yet to be handled
  abandons    \* ghost

device  == <<in0, out0, core>>
bulk    == <<out2, rx2, head, write, owed, mishap, late>>
vars    == <<irq, reset_en, ep0, device, bulk, ctl, told, abandons>>

PAYLOAD == 255    \* where head.size is, in a packet that has no header
Smaller(a, b) == IF a < b THEN a ELSE b

(* A request: its direction, wLength, what it is to do, and how many bytes *)
(* the device has for it.                                                  *)
Request(dir, wLength, effect, len) ==
  [dir |-> dir, wLength |-> wLength, effect |-> effect, len |-> len]

Requests ==
     {Request("in", a[2], a[3], a[1]) : a \in Asks}
  \cup {Request("in", 10, "unknown", 0)}
  \cup {Request("out", p[1], p[2], 0) : p \in Puts}
  \cup {Request("out", 0, e, 0) : e \in {"configure", "unconfigure", "halt", "clear halt"}}

Unconfigured == [setup |-> Request("out", 0, "unconfigure", 0), residue |-> 0,
                 zlp_flag |-> FALSE, configuration |-> 0]
NothingToWrite == [left |-> 0, len |-> 0, size |-> 0]
Ep0Bits == {"setup", "in", "out"}

Init ==
  /\ irq = {} /\ reset_en = TRUE
  /\ ep0 = [rdy |-> FALSE, stall |-> FALSE, tx |-> 0, rx |-> 0]
  /\ in0 = [xfer_len |-> 0, actual_xfer_len |-> 0] /\ out0 = in0
  /\ core = Unconfigured
  /\ out2 = [ep_enable |-> FALSE, rdy |-> FALSE, stall |-> FALSE,
             xfer_len |-> 0, actual_xfer_len |-> 0]
  /\ rx2 = [len |-> 0, head |-> 0] /\ head = 0
  /\ ctl = [stage |-> "idle", req |-> Unconfigured.setup, got |-> 0]
  /\ write = NothingToWrite
  /\ told = FALSE /\ owed = 0 /\ mishap = FALSE /\ late = FALSE /\ abandons = 0

-------------------------------------------------------------------------------
(* The driver's calls for endpoint 0. *)
Ready   == ep0' = [rdy |-> TRUE, stall |-> FALSE, tx |-> 0, rx |-> 0]
StalledOnly == ep0' = [ep0 EXCEPT !.stall = TRUE]     \* seeded fault
Stalled == ep0' = [rdy |-> TRUE, stall |-> TRUE, tx |-> 0, rx |-> 0]

StartWrite(n) ==
  /\ in0' = [xfer_len |-> n, actual_xfer_len |-> 0]
  /\ ep0' = [rdy |-> TRUE, stall |-> FALSE, tx |-> Smaller(n, MPS), rx |-> 0]

StartRead(n) ==
  /\ out0' = [xfer_len |-> n, actual_xfer_len |-> 0]
  /\ Ready

(* usbd_ep_start_read of the bulk OUT endpoint, whole buffer. *)
Armed(ep) == [ep EXCEPT !.rdy = TRUE, !.stall = FALSE,
                        !.xfer_len = RXBUF, !.actual_xfer_len = 0]

(* usbd_setup_request_handler: what is refused; SET_CONFIGURATION of 0     *)
(* finds no such configuration, endpoints can be halted when configured.   *)
Refused(req) ==
  \/ req.effect \in {"unknown", "unconfigure"}
  \/ req.effect \in {"halt", "clear halt"} /\ core.configuration = 0

(* seeded fault: the configuration found is not kept. *)
CarryOutUnkept(req) ==
  /\ core' = [core EXCEPT !.setup = req, !.residue = Smaller(req.len, req.wLength)]
  /\ out2' = IF req.effect = "configure" THEN Armed([out2 EXCEPT !.ep_enable = TRUE]) ELSE out2
  /\ UNCHANGED mishap

(* What the requests change: usbd_set_configuration with the callback that *)
(* arms the OUT endpoint, stalls.  DTR and what it does to the converter   *)
(* are in DeviceControl.                                                   *)
CarryOut(req) ==
  /\ core' = [core EXCEPT !.setup = req, !.residue = Smaller(req.len, req.wLength),
                !.zlp_flag = req.wLength > req.len /\ req.len % MPS = 0,
                !.configuration = IF req.effect = "configure" THEN 1 ELSE @]
  /\ out2' = CASE req.effect = "configure"  -> Armed([out2 EXCEPT !.ep_enable = TRUE])
               [] req.effect = "halt"       -> [out2 EXCEPT !.stall = TRUE]
               [] req.effect = "clear halt" -> [out2 EXCEPT !.rdy = TRUE, !.stall = FALSE]
               [] OTHER                     -> out2
  /\ mishap' = (mishap \/ (req.effect = "configure" /\ told /\ out2.actual_xfer_len > 0))

NothingDone == UNCHANGED <<out2, mishap>>

(* Data that is not aligned is copied to req_data, if it fits there: if    *)
(* not the core returns, and neither answers nor refuses.                  *)
Dropped(req) ==
  req.effect = "misaligned" /\ Smaller(req.len, req.wLength) > REQBUF

(* The SETUP branch, usbd_event_ep0_setup_complete_handler. *)
SetupDone ==
  LET req == ctl.req IN
  /\ "setup" \in irq /\ irq' = irq \ {"setup"}
  /\ \/ /\ req.dir = "out" /\ req.wLength > REQBUF      \* Request buffer too small
        /\ Stalled
        /\ core' = [core EXCEPT !.setup = req]
        /\ NothingDone /\ UNCHANGED <<in0, out0>>
     \/ /\ req.dir = "out" /\ req.wLength \in 1 .. REQBUF
        /\ StartRead(req.wLength)
        /\ core' = [core EXCEPT !.setup = req, !.residue = req.wLength, !.zlp_flag = FALSE]
        /\ NothingDone /\ UNCHANGED in0
     \/ /\ req.dir = "in" \/ req.wLength = 0
        /\ Refused(req)
        /\ Stalled
        /\ core' = [core EXCEPT !.setup = req, !.residue = req.wLength, !.zlp_flag = FALSE]
        /\ NothingDone /\ UNCHANGED <<in0, out0>>
     \/ /\ req.dir = "in" \/ req.wLength = 0
        /\ ~ Refused(req) /\ ~ Dropped(req)
        /\ CarryOut(req)
        /\ StartWrite(Smaller(req.len, req.wLength))
        /\ UNCHANGED out0
     \/ /\ Dropped(req)
        /\ core' = [core EXCEPT !.setup = req, !.residue = Smaller(req.len, req.wLength),
                                !.zlp_flag = FALSE]
        /\ NothingDone /\ UNCHANGED <<ep0, in0, out0>>
  /\ late' = (req.effect = "halt" /\ "out2" \in irq)
  /\ UNCHANGED <<reset_en, rx2, head, ctl, write, told, owed, abandons>>

(* seeded faults: the rest of an answer is not sent; its status is not read. *)
InCompleteOnce(residue, in) ==
  /\ core' = [core EXCEPT !.residue = 0] /\ in0' = in
  /\ IF core.setup.dir = "in" /\ core.setup.wLength > 0
     THEN StartRead(0) ELSE Ready /\ UNCHANGED out0
InCompleteNoStatus(residue, in) ==
  IF residue # 0
  THEN core' = [core EXCEPT !.residue = residue] /\ StartWrite(residue) /\ UNCHANGED out0
  ELSE core' = [core EXCEPT !.residue = 0] /\ in0' = in /\ UNCHANGED <<ep0, out0>>

(* usbd_event_ep0_in_complete_handler and, after a status, the driver. *)
InComplete(residue, in) ==
  \/ /\ residue # 0
     /\ core' = [core EXCEPT !.residue = residue]
     /\ StartWrite(residue) /\ UNCHANGED out0
  \/ /\ residue = 0 /\ core.zlp_flag
     /\ core' = [core EXCEPT !.residue = 0, !.zlp_flag = FALSE]
     /\ StartWrite(0) /\ UNCHANGED out0
  \/ /\ residue = 0 /\ ~ core.zlp_flag
     /\ core' = [core EXCEPT !.residue = 0]
     /\ in0' = in
     /\ IF core.setup.dir = "in" /\ core.setup.wLength > 0
        THEN StartRead(0) ELSE Ready /\ UNCHANGED out0

InDone ==
  LET tx_count == Smaller(in0.xfer_len, MPS)
      in       == [xfer_len |-> in0.xfer_len - tx_count,
                   actual_xfer_len |-> in0.actual_xfer_len + tx_count] IN
  /\ "in" \in irq /\ irq' = irq \ {"in"}
  /\ InComplete((core.residue - in.actual_xfer_len) % WORD, in)
  /\ UNCHANGED <<reset_en, bulk, ctl, told, abandons>>

(* usbd_event_ep0_out_complete_handler.  A status packet read without a    *)
(* usbd_ep_start_read before it still counts the last transfer's bytes.    *)
OutDone ==
  LET out     == [xfer_len |-> (out0.xfer_len - ep0.rx) % WORD,
                  actual_xfer_len |-> out0.actual_xfer_len + ep0.rx]
      residue == (core.residue - out.actual_xfer_len) % WORD IN
  /\ "out" \in irq /\ irq' = irq \ {"out"}
  /\ \/ /\ out.actual_xfer_len = 0
        /\ Ready /\ out0' = out
        /\ UNCHANGED <<in0, core>>
     \/ /\ out.actual_xfer_len > 0 /\ residue # 0
        /\ StartRead(residue)
        /\ core' = [core EXCEPT !.residue = residue]
        /\ UNCHANGED in0
     \/ /\ out.actual_xfer_len > 0 /\ residue = 0
        /\ IF Refused(core.setup) THEN Stalled /\ UNCHANGED in0 ELSE StartWrite(0)
        /\ core' = [core EXCEPT !.residue = 0]
        /\ out0' = out
  /\ UNCHANGED <<reset_en, bulk, ctl, told, abandons>>

(* seeded fault: the callback does not ask for the next command. *)
OutCompleteUnarmed(out, size) ==
  /\ out2' = out
  /\ owed' = IF out.actual_xfer_len >= 2 + size /\ owed > 0 THEN owed - 1 ELSE owed

(* usbd_cdc_acm_bulk_out: two bytes of header, then head.size. *)
OutComplete(out, size) ==
  /\ out2' = Armed(out)
  /\ owed' = IF out.actual_xfer_len >= 2 + size /\ owed > 0 THEN owed - 1 ELSE owed

(* seeded faults: every packet ends the transfer; only a short one does. *)
EndsAlways(out) == TRUE
EndsShort(out) == rx2.len < MPS
EndsTransfer(out) == rx2.len < MPS \/ out.xfer_len = 0

(* The bulk OUT branch. *)
BulkOutDone ==
  LET out == [out2 EXCEPT !.xfer_len = (@ - rx2.len) % WORD,
                          !.actual_xfer_len = @ + rx2.len]
      size == IF out2.actual_xfer_len = 0 THEN rx2.head ELSE head IN
  /\ "out2" \in irq /\ irq' = irq \ {"out2"}
  /\ rx2' = [len |-> 0, head |-> 0]
  /\ \/ /\ EndsTransfer(out)
        /\ OutComplete(out, size) /\ head' = 0
     \/ /\ ~ EndsTransfer(out)
        /\ out2' = [out EXCEPT !.rdy = TRUE, !.stall = FALSE] /\ head' = size
        /\ UNCHANGED owed
  /\ UNCHANGED <<reset_en, ep0, device, write, mishap, late, ctl, told, abandons>>

(* USB_RESET_INT, after the other bits; it leaves the reset bit disabled,  *)
(* so that only the first bus reset gets here.                             *)
Reset ==
  /\ "reset" \in irq /\ irq \cap {"setup", "in", "out", "out2"} = {}
  /\ irq' = irq \ {"reset"} /\ reset_en' = FALSE
  /\ in0' = [xfer_len |-> 0, actual_xfer_len |-> 0] /\ out0' = in0'
  /\ core' = [core EXCEPT !.configuration = 0]
  /\ out2' = [out2 EXCEPT !.ep_enable = FALSE, !.xfer_len = 0, !.actual_xfer_len = 0]
  /\ UNCHANGED <<ep0, rx2, head, write, owed, mishap, late, ctl, told, abandons>>

(* USB_REND_INT: the bus is out of reset. *)
Rend ==
  /\ irq = {"rend"} /\ irq' = {}
  /\ Ready
  /\ UNCHANGED <<reset_en, device, bulk, ctl, told, abandons>>

Handler == SetupDone \/ InDone \/ OutDone \/ BulkOutDone \/ Reset \/ Rend

-------------------------------------------------------------------------------
(* The host and the controller. *)
BusUp == irq \cap {"reset", "rend"} = {}

(* Endpoint 0 is ready and no packet of it waits for the handler. *)
Listens == ep0.rdy /\ BusUp /\ irq \cap Ep0Bits = {}

(* The controller may forget what was ready.  A reset of a bus that was in *)
(* use counts as giving up, unless the device does not answer.             *)
BusReset ==
  /\ BusUp /\ irq' = irq \cup {"rend"} \cup (IF reset_en THEN {"reset"} ELSE {})
  /\ ctl.stage = "idle" \/ abandons < ABANDONS \/ (irq = {} /\ ~ Listens)
  /\ abandons' = IF ctl.stage # "idle" /\ abandons < ABANDONS THEN abandons + 1 ELSE abandons
  /\ \E keep \in BOOLEAN :
       /\ ep0' = [ep0 EXCEPT !.rdy = @ /\ keep]
       /\ out2' = [out2 EXCEPT !.rdy = @ /\ keep]
  /\ ctl' = [stage |-> "idle", req |-> Unconfigured.setup, got |-> 0]
  /\ write' = NothingToWrite /\ owed' = 0 /\ mishap' = FALSE
  /\ told' = FALSE
  /\ UNCHANGED <<reset_en, device, rx2, head, late>>

(* A request, perhaps in place of one that has not ended.  The device is   *)
(* configured before it is told to use the port, and not amid a command.   *)
Setup ==
  /\ Listens
  /\ ctl.stage \in {"data", "status"} => abandons < ABANDONS
  /\ abandons' = IF ctl.stage \in {"data", "status"} THEN abandons + 1 ELSE abandons
  /\ \E req \in Requests :
       ctl' = [stage |-> IF req.wLength > 0 THEN "data" ELSE "status",
               req |-> req, got |-> 0]
  /\ irq' = irq \cup {"setup"}
  /\ ep0' = [ep0 EXCEPT !.rdy = FALSE]
  /\ UNCHANGED <<reset_en, device, bulk, told>>

HostStep(bit) ==
  /\ Listens /\ ~ ep0.stall
  /\ irq' = irq \cup {bit}
  /\ UNCHANGED <<reset_en, device, bulk, abandons>>

(* A packet of data from the device; less than a whole one is the last. *)
TakeIn ==
  /\ ctl.stage = "data" /\ ctl.req.dir = "in"
  /\ HostStep("in")
  /\ LET got == ctl.got + ep0.tx IN
       ctl' = [ctl EXCEPT !.got = got,
                 !.stage = IF ep0.tx < MPS \/ got >= ctl.req.wLength THEN "status" ELSE @]
  /\ ep0' = [ep0 EXCEPT !.rdy = FALSE] /\ UNCHANGED told

StatusOut ==
  /\ ctl.stage = "status" /\ ctl.req.dir = "in"
  /\ HostStep("out")
  /\ ctl' = [ctl EXCEPT !.stage = "done"]
  /\ ep0' = [ep0 EXCEPT !.rdy = FALSE, !.rx = 0] /\ UNCHANGED told

SendOut ==
  /\ ctl.stage = "data" /\ ctl.req.dir = "out"
  /\ HostStep("out")
  /\ LET n == Smaller(ctl.req.wLength - ctl.got, MPS) IN
       /\ ctl' = [ctl EXCEPT !.got = @ + n,
                    !.stage = IF ctl.got + n = ctl.req.wLength THEN "status" ELSE @]
       /\ ep0' = [ep0 EXCEPT !.rdy = FALSE, !.rx = n]
  /\ UNCHANGED told

StatusIn ==
  /\ ctl.stage = "status" /\ ctl.req.dir = "out"
  /\ HostStep("in")
  /\ ctl' = [ctl EXCEPT !.stage = "done"]
  /\ ep0' = [ep0 EXCEPT !.rdy = FALSE]
  /\ told' = (told \/ ctl.req.effect = "configure")

(* The answer is STALL; endpoint 0 stays as it is. *)
StalledSeen ==
  /\ ctl.stage \in {"data", "status"} /\ Listens /\ ep0.stall
  /\ ctl' = [ctl EXCEPT !.stage = "stalled", !.got = 0]
  /\ UNCHANGED <<irq, reset_en, ep0, device, bulk, told, abandons>>

(* A command is written to the port, and goes out in packets. *)
HostWrite ==
  /\ told /\ write.left = 0
  /\ \E c \in Commands : write' = [left |-> c[1], len |-> c[1], size |-> c[2]]
  /\ UNCHANGED <<irq, reset_en, ep0, device, out2, rx2, head, owed, mishap, late,
                 ctl, told, abandons>>

BulkOut ==
  LET n == Smaller(write.left, MPS) IN
  /\ write.left > 0 /\ BusUp /\ "out2" \notin irq
  /\ out2.ep_enable /\ out2.rdy /\ ~ out2.stall
  /\ out2' = [out2 EXCEPT !.rdy = FALSE]
  /\ rx2' = [len |-> n, head |-> IF write.left = write.len THEN write.size ELSE PAYLOAD]
  /\ irq' = irq \cup {"out2"}
  /\ write' = IF n = write.left THEN NothingToWrite ELSE [write EXCEPT !.left = @ - n]
  /\ mishap' = (mishap \/ (write.left = n /\ write.len % MPS = 0))
  /\ owed' = IF write.left = n /\ write.len >= 2 + write.size /\ ~ mishap'
             THEN owed + 1 ELSE owed
  /\ UNCHANGED <<reset_en, ep0, device, head, late, ctl, told, abandons>>

Host == Setup \/ TakeIn \/ StatusOut \/ SendOut \/ StatusIn \/ StalledSeen
Next == Handler \/ Host \/ BusReset \/ HostWrite \/ BulkOut

Spec == Init /\ [][Next]_vars
(* Interrupts are taken, and the host goes on with what it began. *)
Continue == TakeIn \/ StatusOut \/ SendOut \/ StatusIn \/ StalledSeen
FairSpec ==
  /\ Spec
  /\ WF_vars(SetupDone) /\ WF_vars(InDone) /\ WF_vars(OutDone)
  /\ WF_vars(BulkOutDone) /\ WF_vars(Reset) /\ WF_vars(Rend)
  /\ WF_vars(Continue) /\ WF_vars(BulkOut)

-------------------------------------------------------------------------------
TransferRecord == [xfer_len : Nat, actual_xfer_len : Nat]

(* Every variable keeps its type, over the whole of a legal run: no packet *)
(* is more than is left of the bulk OUT buffer, none of endpoint 0 more    *)
(* than was asked for.  The words of endpoint 0 are taken modulo WORD and  *)
(* do wrap; nothing is said of them but that.                              *)
TypeOK ==
  /\ irq \subseteq Ep0Bits \cup {"out2", "reset", "rend"}
  /\ reset_en \in BOOLEAN
  /\ ep0 \in [rdy : BOOLEAN, stall : BOOLEAN, tx : 0 .. MPS, rx : 0 .. MPS]
  /\ in0 \in TransferRecord /\ out0 \in TransferRecord
  /\ core.setup \in Requests /\ core.residue \in 0 .. WORD - 1
  /\ core.zlp_flag \in BOOLEAN /\ core.configuration \in {0, 1}
  /\ out2.xfer_len \in 0 .. RXBUF /\ out2.actual_xfer_len \in 0 .. RXBUF
  /\ rx2.len \in 0 .. MPS /\ head \in Nat
  /\ ctl.stage \in {"idle", "data", "status", "done", "stalled"}
  /\ ctl.req \in Requests /\ ctl.got \in 0 .. ctl.req.wLength
  /\ told \in BOOLEAN /\ owed \in Nat /\ mishap \in BOOLEAN
  /\ late \in BOOLEAN
  /\ abandons \in 0 .. ABANDONS

(* Whatever the host asked for, refused or gave up, endpoint 0 takes the   *)
(* next packet once the handler has run: each path of the control transfer *)
(* ends in a usbd_ep_start_read, a usbd_ep_start_write, a stall or a       *)
(* bflb_usb_ep_set_ready, but for one, a misaligned answer longer than     *)
(* req_data (usbd_core.c:1017), which leaves it deaf until a bus reset.    *)
Ep0Alive ==
  ~ reset_en /\ BusUp /\ irq \cap Ep0Bits = {} => ep0.rdy \/ Dropped(core.setup)

(* At the end of an IN transfer the host has what there is, as much of it  *)
(* as it asked for: packets, the split of ep0_data_buf_residue and the     *)
(* zero length packet of zlp_flag.                                         *)
InFull ==
  ctl.stage \in {"status", "done"} /\ ctl.req.dir = "in" =>
    ctl.got = Smaller(ctl.req.len, ctl.req.wLength)

(* What the host saw acknowledged is in effect, and nothing refused is     *)
(* ever acknowledged.  A halt of the OUT endpoint lasts, unless a packet   *)
(* of it was yet to be handled: the handler, asking for the next packet,   *)
(* ends the halt (bflb_usb_v1.c:463 and :508, by bflb_usb_ep_set_ready).   *)
AckedIsDone ==
  ctl.stage = "done" =>
    /\ ctl.req.effect \notin {"unknown", "unconfigure"}
    /\ ctl.req.effect = "configure" => core.configuration = 1
    /\ ctl.req.effect = "clear halt" => ~ out2.stall
    /\ ctl.req.effect = "halt" => out2.stall \/ late

(* From SET_CONFIGURATION to the next bus reset the port takes commands:   *)
(* its OUT endpoint is ready, or a packet of it waits for the handler.     *)
Listening == told => out2.ep_enable /\ (out2.rdy \/ "out2" \in irq)

(* A command that arrived in full is given to cmd_decode with its last     *)
(* packet, unless it ran together with another or was cut.                 *)
CommandsDecoded == ~ mishap /\ "out2" \notin irq => owed = 0

(* A control transfer the host goes on with comes to an end, unless its    *)
(* request is the one the device core drops.                               *)
ControlEnds ==
  ctl.stage \in {"data", "status"} ~>
    ctl.stage \notin {"data", "status"} \/ Dropped(ctl.req)
===============================================================================
