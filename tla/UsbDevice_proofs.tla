--------------------------- MODULE UsbDevice_proofs ----------------------------
(***************************************************************************)
(* For every packet and buffer size, every set of requests and commands    *)
(* and any number of abandoned transfers: endpoint 0 stays ready, but for  *)
(* one request that is dropped, a configured port listens, an answer       *)
(* arrives whole, what is acknowledged is done, a command reaches          *)
(* cmd_decode, and every variable keeps its type.                          *)
(***************************************************************************)
EXTENDS UsbDevice, TLAPS

-------------------------------------------------------------------------------
(* Endpoint 0.  The handler of the first bus reset may run only with the   *)
(* end of that reset still to come, which is what makes it ready again.    *)
AliveInv ==
  /\ Ep0Alive /\ "setup" \in DOMAIN core
  /\ "reset" \in irq => "rend" \in irq

LEMMA MadeReady ==
  ASSUME NEW n
  PROVE  /\ Ready => ep0'.rdy
         /\ Stalled => ep0'.rdy
         /\ StartWrite(n) => ep0'.rdy
         /\ StartRead(n) => ep0'.rdy
BY DEF Ready, Stalled, StartWrite, StartRead

LEMMA HandlerReadies ==
  /\ SetupDone =>
       \/ ep0'.rdy
       \/ /\ Dropped(ctl.req)
          /\ core' = [core EXCEPT !.setup = ctl.req,
                        !.residue = Smaller(ctl.req.len, ctl.req.wLength),
                        !.zlp_flag = FALSE]
  /\ InDone \/ OutDone => ep0'.rdy
<1>1. ASSUME SetupDone
      PROVE  \/ ep0'.rdy
             \/ /\ Dropped(ctl.req)
                /\ core' = [core EXCEPT !.setup = ctl.req,
                              !.residue = Smaller(ctl.req.len, ctl.req.wLength),
                              !.zlp_flag = FALSE]
  <2>1. \/ Stalled \/ StartRead(ctl.req.wLength)
        \/ StartWrite(Smaller(ctl.req.len, ctl.req.wLength))
        \/ /\ Dropped(ctl.req)
           /\ core' = [core EXCEPT !.setup = ctl.req,
                         !.residue = Smaller(ctl.req.len, ctl.req.wLength),
                         !.zlp_flag = FALSE]
    BY <1>1, Zenon DEF SetupDone
  <2> QED BY <2>1, MadeReady, Zenon
<1>2. InDone => ep0'.rdy
  BY MadeReady, Zenon DEF InDone, InComplete
<1>3. OutDone => ep0'.rdy
  BY MadeReady, Zenon DEF OutDone
<1> QED BY <1>1, <1>2, <1>3

LEMMA AliveNext == AliveInv /\ [Next]_vars => AliveInv'
<1> SUFFICES ASSUME AliveInv, [Next]_vars PROVE AliveInv'
  OBVIOUS
<1>0. "setup" \in DOMAIN core'
  BY DEF AliveInv, Next, Handler, SetupDone, CarryOut, InDone, InComplete, OutDone, BulkOutDone,
         Reset, Rend, Host, Setup, TakeIn, StatusOut, SendOut, StatusIn, StalledSeen, HostStep,
         BusReset, HostWrite, BulkOut, vars, device
<1> USE <1>0 DEF AliveInv, Ep0Alive, BusUp, Ep0Bits
<1>1. CASE SetupDone \/ InDone \/ OutDone
  <2>1. ep0'.rdy \/ Dropped(core'.setup)
    BY <1>1, HandlerReadies
  <2>2. \E bit \in Ep0Bits : irq' = irq \ {bit}
    BY <1>1 DEF SetupDone, InDone, OutDone
  <2> QED BY <2>1, <2>2
<1>2. CASE BulkOutDone
  BY <1>2 DEF BulkOutDone, device
<1>3. CASE Reset
  BY <1>3 DEF Reset
<1>4. CASE Rend
  BY <1>4 DEF Rend, Ready
<1>5. CASE Setup
  BY <1>5 DEF Setup, Listens
<1>6. CASE TakeIn \/ StatusOut \/ SendOut \/ StatusIn
  <2>1. \E bit \in Ep0Bits : irq' = irq \cup {bit}
    BY <1>6 DEF TakeIn, StatusOut, SendOut, StatusIn, HostStep
  <2> QED BY <2>1
<1>7. CASE StalledSeen \/ HostWrite \/ UNCHANGED vars
  BY <1>7 DEF StalledSeen, HostWrite, vars, device
<1>8. CASE BusReset
  BY <1>8 DEF BusReset
<1>9. CASE BulkOut
  BY <1>9 DEF BulkOut, device
<1> QED BY <1>1, <1>2, <1>3, <1>4, <1>5, <1>6, <1>7, <1>8, <1>9 DEF Next, Handler, Host

(* No request, refusal, stall, abandoned transfer or bus reset leaves      *)
(* endpoint 0 without an end that makes it ready, but the request for a    *)
(* misaligned answer longer than the request buffer.                       *)
THEOREM Ep0DeafOnlyIfDropped == Spec => []Ep0Alive
<1>1. Init => AliveInv
  BY DEF Init, AliveInv, Ep0Alive, Unconfigured
<1>2. AliveInv => Ep0Alive
  BY DEF AliveInv
<1> QED BY <1>1, <1>2, AliveNext, PTL DEF Spec

-------------------------------------------------------------------------------
(* What the host knows of a request: SET_CONFIGURATION has no data.        *)
IsRecord(r, fields) == r = [x \in fields |-> r[x]]

Asked ==
  /\ "rdy" \in DOMAIN ep0
  /\ IsRecord(ctl, {"stage", "req", "got"})
  /\ ctl.req \in Requests

LEMMA WordSize == WORD \in Nat /\ WORD > 10
BY DEF WORD

LEMMA Sizes == MPS \in Nat \ {0} /\ REQBUF \in Nat
BY SizeAssumption, Zenon

LEMMA RequestFacts ==
  ASSUME NEW req \in Requests
  PROVE  /\ req.len \in Nat /\ req.wLength \in Nat /\ req.wLength < WORD
         /\ req.effect = "configure" => req.dir = "out" /\ req.wLength = 0
         /\ req.effect = "misaligned" => req.dir = "in"
<1>1. CASE \E a \in Asks : req = Request("in", a[2], a[3], a[1])
  <2>1. PICK a \in Asks : req = Request("in", a[2], a[3], a[1])
    BY <1>1
  <2>2. a[1] \in Nat /\ a[2] \in Nat /\ a[2] < WORD /\ a[3] \in {"aligned", "misaligned"}
    BY SizeAssumption
  <2> QED BY <2>1, <2>2 DEF Request
<1>2. CASE req = Request("in", 10, "unknown", 0)
  BY <1>2, WordSize DEF Request
<1>3. CASE \E p \in Puts : req = Request("out", p[1], p[2], 0)
  <2>1. PICK p \in Puts : req = Request("out", p[1], p[2], 0)
    BY <1>3
  <2>2. p[1] \in Nat /\ p[1] < WORD /\ p[2] \in {"line coding", "unknown"}
    BY SizeAssumption
  <2> QED BY <2>1, <2>2 DEF Request
<1>4. CASE \E e \in {"configure", "unconfigure", "halt", "clear halt"} :
             req = Request("out", 0, e, 0)
  <2>1. PICK e : req = Request("out", 0, e, 0)
    BY <1>4
  <2>2. req.dir = "out" /\ req.wLength = 0 /\ req.len = 0 /\ req.effect # "misaligned"
    BY <1>4, <2>1 DEF Request
  <2> QED BY <2>2, WordSize
<1> QED BY <1>1, <1>2, <1>3, <1>4 DEF Requests

LEMMA AskedNext == Asked /\ [Next]_vars => Asked'
<1> SUFFICES ASSUME Asked, [Next]_vars PROVE Asked'
  OBVIOUS
<1>0. "rdy" \in DOMAIN ep0'
  <2>1. CASE SetupDone
    BY <2>1 DEF SetupDone, Stalled, StartRead, StartWrite, Ready, Asked
  <2>2. CASE InDone
    BY <2>2 DEF InDone, InComplete, StartRead, StartWrite, Ready
  <2>3. CASE OutDone
    BY <2>3 DEF OutDone, Stalled, StartRead, StartWrite, Ready
  <2>4. CASE BulkOutDone \/ Reset \/ Rend
    BY <2>4 DEF BulkOutDone, Reset, Rend, Ready, Asked
  <2>5. CASE Host
    BY <2>5 DEF Host, Setup, TakeIn, StatusOut, SendOut, StatusIn, StalledSeen, Asked
  <2>6. CASE BusReset \/ HostWrite \/ BulkOut \/ UNCHANGED vars
    BY <2>6 DEF BusReset, HostWrite, BulkOut, vars, Asked
  <2> QED BY <2>1, <2>2, <2>3, <2>4, <2>5, <2>6 DEF Next, Handler
<1> USE <1>0 DEF Asked, IsRecord
<1>1. CASE Handler
  BY <1>1 DEF Handler, SetupDone, InDone, OutDone, BulkOutDone, Reset, Rend
<1>2. CASE Setup
  BY <1>2 DEF Setup
<1>3. CASE TakeIn
  BY <1>3 DEF TakeIn
<1>4. CASE StatusOut
  BY <1>4 DEF StatusOut
<1>5. CASE SendOut
  BY <1>5 DEF SendOut
<1>6. CASE StatusIn
  BY <1>6 DEF StatusIn
<1>7. CASE StalledSeen
  BY <1>7 DEF StalledSeen
<1>8. CASE BusReset
  BY <1>8 DEF BusReset, Requests, Unconfigured
<1>9. CASE HostWrite \/ BulkOut \/ UNCHANGED vars
  BY <1>9 DEF HostWrite, BulkOut, vars
<1> QED BY <1>1, <1>2, <1>3, <1>4, <1>5, <1>6, <1>7, <1>8, <1>9 DEF Next, Host

(* The port.  Once the host knows of the configuration, and already while  *)
(* it waits for the status of it, the OUT endpoint is open and either      *)
(* ready or about to be served; while the bus is reset it knows nothing.   *)
PortOpen == out2.ep_enable /\ (out2.rdy \/ "out2" \in irq)

ListenInv ==
  /\ Asked
  /\ IsRecord(out2, {"ep_enable", "rdy", "stall", "xfer_len", "actual_xfer_len"})
  /\ Listening
  /\ "reset" \in irq => "rend" \in irq
  /\ "rend" \in irq => ~ told /\ ctl.stage = "idle"
  /\ ctl.req.effect = "configure" =>
       /\ ctl.stage # "data"
       /\ ctl.stage = "status" => "setup" \in irq \/ PortOpen

LEMMA ListenInit == Init => ListenInv
<1> SUFFICES ASSUME Init PROVE ListenInv
  OBVIOUS
<1>1. Asked
  BY DEF Init, Asked, IsRecord, Requests, Unconfigured
<1>2. ctl.req.effect # "configure"
  BY DEF Init, Unconfigured, Request
<1> QED BY <1>1, <1>2 DEF Init, ListenInv, IsRecord, Listening

(* What the handler leaves of the OUT endpoint. *)
LEMMA SetupKeepsPort ==
  ASSUME ListenInv, SetupDone
  PROVE  /\ IsRecord(out2', {"ep_enable", "rdy", "stall", "xfer_len", "actual_xfer_len"})
         /\ PortOpen => PortOpen'
         /\ ctl.req.effect = "configure" => PortOpen'
<1>1. irq' = irq \ {"setup"} /\ ctl.req \in Requests
  BY DEF SetupDone, ListenInv, Asked
<1>2. \/ out2' = out2 /\ ctl.req.effect # "configure"
      \/ CarryOut(ctl.req)
  <2>1. \/ NothingDone /\ (ctl.req.wLength # 0 \/ Refused(ctl.req) \/ Dropped(ctl.req))
        \/ CarryOut(ctl.req)
    <3>1. \/ NothingDone /\ ctl.req.wLength > REQBUF
          \/ NothingDone /\ ctl.req.wLength \in 1 .. REQBUF
          \/ NothingDone /\ (Refused(ctl.req) \/ Dropped(ctl.req))
          \/ CarryOut(ctl.req)
      BY Zenon DEF SetupDone
    <3>2. ctl.req.wLength > REQBUF \/ ctl.req.wLength \in 1 .. REQBUF => ctl.req.wLength # 0
      BY <1>1, RequestFacts, Sizes
    <3> QED BY <3>1, <3>2, Zenon
  <2>2. NothingDone => out2' = out2
    BY DEF NothingDone
  <2>3. ctl.req.effect = "configure" =>
          ctl.req.wLength = 0 /\ ~ Refused(ctl.req) /\ ~ Dropped(ctl.req)
    BY <1>1, RequestFacts DEF Refused, Dropped
  <2> QED BY <2>1, <2>2, <2>3
<1>3. CASE out2' = out2 /\ ctl.req.effect # "configure"
  BY <1>1, <1>3 DEF ListenInv, PortOpen
<1>4. CASE CarryOut(ctl.req)
  BY <1>1, <1>4 DEF CarryOut, ListenInv, PortOpen, IsRecord, Armed
<1> QED BY <1>2, <1>3, <1>4

LEMMA BulkKeepsPort ==
  ASSUME ListenInv, BulkOutDone
  PROVE  /\ IsRecord(out2', {"ep_enable", "rdy", "stall", "xfer_len", "actual_xfer_len"})
         /\ out2.ep_enable => PortOpen'
         /\ ~ out2'.stall
<1> DEFINE out == [out2 EXCEPT !.xfer_len = (@ - rx2.len) % WORD,
                               !.actual_xfer_len = @ + rx2.len]
<1>1. \/ out2' = Armed(out)
      \/ out2' = [out EXCEPT !.rdy = TRUE, !.stall = FALSE]
  BY DEF BulkOutDone, OutComplete
<1>2. IsRecord(out, {"ep_enable", "rdy", "stall", "xfer_len", "actual_xfer_len"})
      /\ out.ep_enable = out2.ep_enable
  BY DEF ListenInv, IsRecord
<1> HIDE DEF out
<1> QED BY <1>1, <1>2 DEF Armed, IsRecord, PortOpen

LEMMA ListenHandler == ListenInv /\ Handler => ListenInv'
<1> SUFFICES ASSUME ListenInv, Handler PROVE ListenInv'
  OBVIOUS
<1>1. Asked'
  BY AskedNext DEF ListenInv, Next
<1>2. UNCHANGED <<ctl, told>>
  BY DEF Handler, SetupDone, InDone, OutDone, BulkOutDone, Reset, Rend
<1>3. CASE SetupDone
  <2>1. irq' = irq \ {"setup"}
    BY <1>3 DEF SetupDone
  <2> QED BY <1>1, <1>2, <1>3, <2>1, SetupKeepsPort DEF ListenInv, Listening, PortOpen
<1>4. CASE InDone \/ OutDone \/ Rend
  <2>1. /\ out2' = out2 /\ irq' \subseteq irq
        /\ irq \ irq' \subseteq {"in", "out", "rend"}
        /\ "rend" \in irq \ irq' => "reset" \notin irq'
    BY <1>4 DEF InDone, OutDone, Rend, bulk
  <2> QED BY <1>1, <1>2, <2>1 DEF ListenInv, Listening, PortOpen
<1>5. CASE BulkOutDone
  <2>1. irq' = irq \ {"out2"}
    BY <1>5 DEF BulkOutDone
  <2> QED BY <1>1, <1>2, <1>5, <2>1, BulkKeepsPort DEF ListenInv, Listening, PortOpen
<1>6. CASE Reset
  <2>1. irq' = irq \ {"reset"} /\ "reset" \in irq
        /\ out2' = [out2 EXCEPT !.ep_enable = FALSE, !.xfer_len = 0, !.actual_xfer_len = 0]
    BY <1>6 DEF Reset
  <2>2. ~ told /\ ctl.stage = "idle"
    BY <2>1 DEF ListenInv
  <2> QED BY <1>1, <1>2, <2>1, <2>2 DEF ListenInv, Listening, IsRecord
<1> QED BY <1>3, <1>4, <1>5, <1>6 DEF Handler

LEMMA ListenHost == ListenInv /\ Host => ListenInv'
<1> SUFFICES ASSUME ListenInv, Host PROVE ListenInv'
  OBVIOUS
<1>1. Asked' /\ IsRecord(ctl, {"stage", "req", "got"}) /\ ctl.req \in Requests
  BY AskedNext DEF ListenInv, Next, Asked
<1>2. out2' = out2
  BY DEF Host, Setup, TakeIn, StatusOut, SendOut, StatusIn, StalledSeen, HostStep, bulk
<1>3. irq \cap {"setup", "in", "out", "reset", "rend"} = {}
  BY DEF Host, Setup, TakeIn, StatusOut, SendOut, StatusIn, StalledSeen, HostStep, Listens,
         BusUp, Ep0Bits
<1>4. CASE Setup
  <2>1. irq' = irq \cup {"setup"} /\ told' = told
    BY <1>4 DEF Setup
  <2>2. PICK req \in Requests :
          ctl' = [stage |-> IF req.wLength > 0 THEN "data" ELSE "status",
                  req |-> req, got |-> 0]
    BY <1>4 DEF Setup
  <2>3. ctl'.req.effect = "configure" => ctl'.stage # "data"
    BY <2>2, RequestFacts
  <2> QED BY <1>1, <1>2, <1>3, <2>1, <2>3 DEF ListenInv, Listening, PortOpen
<1>5. CASE TakeIn \/ SendOut
  <2>1. ctl.stage = "data" /\ ctl'.req = ctl.req /\ told' = told
    BY <1>1, <1>5 DEF TakeIn, SendOut, IsRecord
  <2>2. irq' = irq \cup {"in"} \/ irq' = irq \cup {"out"}
    BY <1>5 DEF TakeIn, SendOut, HostStep
  <2> QED BY <1>1, <1>2, <1>3, <2>1, <2>2 DEF ListenInv, Listening, PortOpen
<1>6. CASE StatusOut \/ StalledSeen
  <2>1. ctl'.stage \in {"done", "stalled"} /\ ctl'.req = ctl.req /\ told' = told
    BY <1>1, <1>6 DEF StatusOut, StalledSeen, IsRecord
  <2>2. irq' = irq \cup {"out"} \/ irq' = irq
    BY <1>6 DEF StatusOut, StalledSeen, HostStep
  <2> QED BY <1>1, <1>2, <1>3, <2>1, <2>2 DEF ListenInv, Listening, PortOpen
<1>7. CASE StatusIn
  <2>1. /\ ctl.stage = "status" /\ ctl'.stage = "done" /\ ctl'.req = ctl.req
        /\ told' = (told \/ ctl.req.effect = "configure")
    BY <1>1, <1>7 DEF StatusIn, IsRecord
  <2>2. irq' = irq \cup {"in"}
    BY <1>7 DEF StatusIn, HostStep
  <2> QED BY <1>1, <1>2, <1>3, <2>1, <2>2 DEF ListenInv, Listening, PortOpen
<1> QED BY <1>4, <1>5, <1>6, <1>7 DEF Host

LEMMA ListenOther ==
  ListenInv /\ (BusReset \/ HostWrite \/ BulkOut \/ UNCHANGED vars) => ListenInv'
<1> SUFFICES ASSUME ListenInv, BusReset \/ HostWrite \/ BulkOut \/ UNCHANGED vars
             PROVE  ListenInv'
  OBVIOUS
<1>1. Asked'
  BY AskedNext DEF ListenInv, Next
<1>2. CASE BusReset
  <2>1. ~ told' /\ ctl'.stage = "idle"
    BY <1>2 DEF BusReset
  <2>2. "rend" \in irq'
    BY <1>2 DEF BusReset
  <2>3. \E keep \in BOOLEAN : out2' = [out2 EXCEPT !.rdy = @ /\ keep]
    BY <1>2 DEF BusReset
  <2> QED BY <1>1, <2>1, <2>2, <2>3 DEF ListenInv, Listening, IsRecord
<1>3. CASE HostWrite
  BY <1>1, <1>3 DEF HostWrite, ListenInv, Listening, PortOpen
<1>4. CASE BulkOut
  <2>1. /\ irq' = irq \cup {"out2"} /\ UNCHANGED <<ctl, told>>
        /\ out2' = [out2 EXCEPT !.rdy = FALSE] /\ out2.ep_enable
    BY <1>4 DEF BulkOut
  <2> QED BY <1>1, <2>1 DEF ListenInv, Listening, PortOpen, IsRecord
<1>5. CASE UNCHANGED vars
  BY <1>1, <1>5 DEF vars, bulk, ListenInv, Listening, PortOpen
<1> QED BY <1>2, <1>3, <1>4, <1>5

(* From the status of SET_CONFIGURATION to the next bus reset every path   *)
(* of the bulk OUT callback, of configurations and of halts ends with the  *)
(* endpoint asking for the next packet.                                    *)
THEOREM PortAlwaysListens == Spec => []Listening
<1>1. ListenInv /\ [Next]_vars => ListenInv'
  BY ListenHandler, ListenHost, ListenOther DEF Next
<1>2. ListenInv => Listening
  BY DEF ListenInv
<1> QED BY <1>1, <1>2, ListenInit, PTL DEF Spec

-------------------------------------------------------------------------------
(* Answers.  While the host reads one, what it has and what the device     *)
(* still holds are what it is to get: with a packet ready, and, counting   *)
(* that packet twice, with a whole packet taken that the handler has yet   *)
(* to account for.  Only a whole packet leaves the host reading on.        *)
Wanted == Smaller(ctl.req.len, ctl.req.wLength)

Holds(more) ==
  /\ core.residue \in Nat /\ core.residue < WORD /\ in0.xfer_len = core.residue
  /\ ctl.got + core.residue = Wanted + more

Prepared ==
  /\ Holds(0)
  /\ ep0.tx = Smaller(core.residue, MPS)
  /\ core.residue > 0 => in0.actual_xfer_len = 0
Fetched == Holds(MPS) /\ core.residue >= MPS /\ in0.actual_xfer_len = 0

Reading ==
  /\ ctl.got \in Nat /\ "out" \notin irq
  /\ "setup" \in irq => "in" \notin irq /\ ctl.got = 0 /\ ~ ep0.rdy
  /\ "in" \in irq => Fetched
  /\ "setup" \notin irq /\ "in" \notin irq /\ ep0.rdy /\ ~ ep0.stall => Prepared

AnswerInv ==
  /\ ListenInv
  /\ IsRecord(core, {"setup", "residue", "zlp_flag", "configuration"})
  /\ InFull
  /\ ctl.stage = "data" /\ ctl.req.dir = "in" => Reading

LEMMA WantedSize ==
  ASSUME Asked
  PROVE  /\ Wanted \in Nat /\ Wanted <= ctl.req.wLength /\ Wanted < WORD
         /\ ctl.req.wLength \in Nat /\ (ctl.req.wLength = 0 => Wanted = 0)
<1>1. ctl.req.len \in Nat /\ ctl.req.wLength \in Nat /\ ctl.req.wLength < WORD
  BY RequestFacts DEF Asked
<1> QED BY <1>1, WordSize DEF Wanted, Smaller

LEMMA WordsSmall ==
  ASSUME NEW w \in Nat, NEW n \in Nat, n < w
  PROVE  n % w = n
OBVIOUS

LEMMA AnswerInit == Init => AnswerInv
<1> SUFFICES ASSUME Init PROVE AnswerInv
  OBVIOUS
<1>1. ctl.stage = "idle"
  BY DEF Init
<1>2. IsRecord(core, {"setup", "residue", "zlp_flag", "configuration"})
  BY DEF Init, Unconfigured, IsRecord
<1> QED BY <1>1, <1>2, ListenInit DEF AnswerInv, InFull

(* SetupDone prepares the first packet, or stalls, or leaves it at that. *)
LEMMA AnswerSetup ==
  ASSUME AnswerInv, SetupDone, ctl.stage = "data", ctl.req.dir = "in"
  PROVE  Reading'
<1>1. irq' = irq \ {"setup"} /\ "setup" \in irq /\ ctl' = ctl
  BY DEF SetupDone
<1>2. /\ ctl.got = 0 /\ ~ ep0.rdy
      /\ "in" \notin irq' /\ "out" \notin irq' /\ "setup" \notin irq'
  BY <1>1 DEF AnswerInv, Reading
<1>3. \/ Stalled
      \/ CarryOut(ctl.req) /\ StartWrite(Wanted)
      \/ ep0' = ep0
  BY Zenon DEF SetupDone, Wanted
<1>4. CASE Stalled
  <2>1. ep0'.stall
    BY <1>4 DEF Stalled
  <2> QED BY <1>1, <1>2, <2>1 DEF Reading
<1>5. CASE CarryOut(ctl.req) /\ StartWrite(Wanted)
  <2>1. core'.residue = Wanted
    BY <1>5 DEF CarryOut, AnswerInv, IsRecord, Wanted
  <2>2. /\ in0'.xfer_len = Wanted /\ in0'.actual_xfer_len = 0
        /\ ep0'.tx = Smaller(Wanted, MPS)
    BY <1>5 DEF StartWrite
  <2>3. Wanted' = Wanted
    BY <1>1 DEF Wanted
  <2>4. Wanted \in Nat /\ Wanted < WORD
    BY WantedSize DEF AnswerInv, ListenInv
  <2>5. Prepared'
    BY <1>1, <1>2, <2>1, <2>2, <2>3, <2>4 DEF Prepared, Holds
  <2> QED BY <1>1, <1>2, <2>5 DEF Reading
<1>6. CASE ep0' = ep0
  BY <1>1, <1>2, <1>6 DEF Reading
<1> QED BY <1>3, <1>4, <1>5, <1>6

(* InDone prepares the next packet, or the empty one. *)
LEMMA AnswerIn ==
  ASSUME AnswerInv, InDone, ctl.stage = "data", ctl.req.dir = "in"
  PROVE  Reading'
<1> DEFINE tx_count == Smaller(in0.xfer_len, MPS)
           in == [xfer_len |-> in0.xfer_len - tx_count,
                  actual_xfer_len |-> in0.actual_xfer_len + tx_count]
           residue == (core.residue - in.actual_xfer_len) % WORD
<1>1. /\ irq' = irq \ {"in"} /\ "in" \in irq /\ ctl' = ctl
      /\ InComplete(residue, in)
  BY DEF InDone
<1>2. Fetched /\ ctl.got \in Nat /\ "out" \notin irq /\ "setup" \notin irq
  BY <1>1 DEF AnswerInv, Reading
<1>3. Wanted' = Wanted /\ Wanted \in Nat /\ Wanted < WORD /\ MPS \in Nat \ {0}
  BY <1>1, WantedSize, Sizes DEF AnswerInv, ListenInv, Wanted
<1>4. tx_count = MPS
  BY <1>2, <1>3 DEF Fetched, Holds, Smaller
<1>5. residue = core.residue - MPS
  <2>1. in.actual_xfer_len = MPS
    BY <1>2, <1>3, <1>4 DEF Fetched
  <2>2. core.residue - MPS \in Nat /\ core.residue - MPS < WORD
    BY <1>2, <1>3, WordSize DEF Fetched, Holds
  <2> QED BY <2>1, <2>2, WordSize, WordsSmall
<1>6. residue \in Nat /\ residue < WORD /\ ctl.got + residue = Wanted
  BY <1>2, <1>3, <1>5, WordSize DEF Fetched, Holds
<1>7. in.xfer_len = residue
  BY <1>2, <1>4, <1>5 DEF Fetched, Holds
<1> HIDE DEF in, residue
<1>8. core'.residue = residue
  <2>1. \/ core' = [core EXCEPT !.residue = residue]
        \/ residue = 0 /\ core' = [core EXCEPT !.residue = 0, !.zlp_flag = FALSE]
        \/ residue = 0 /\ core' = [core EXCEPT !.residue = 0]
    BY <1>1 DEF InComplete
  <2> QED BY <2>1 DEF AnswerInv, IsRecord
<1>9. /\ in0'.xfer_len = residue /\ ep0'.tx = Smaller(residue, MPS)
      /\ residue > 0 => in0'.actual_xfer_len = 0
  <2>1. \/ StartWrite(residue)
        \/ residue = 0 /\ StartWrite(0)
        \/ residue = 0 /\ in0' = in /\ (StartRead(0) \/ Ready)
    BY <1>1 DEF InComplete
  <2>2. Smaller(0, MPS) = 0
    BY <1>3 DEF Smaller
  <2> QED BY <1>6, <1>7, <2>1, <2>2 DEF StartWrite, StartRead, Ready
<1>10. Prepared'
  BY <1>1, <1>3, <1>6, <1>8, <1>9 DEF Prepared, Holds
<1> QED BY <1>1, <1>2, <1>10 DEF Reading

LEMMA AnswerHandler == AnswerInv /\ Handler => AnswerInv'
<1> SUFFICES ASSUME AnswerInv, Handler PROVE AnswerInv'
  OBVIOUS
<1>1. ListenInv'
  BY ListenHandler DEF AnswerInv
<1>2. ctl' = ctl /\ InFull'
  BY DEF Handler, SetupDone, InDone, OutDone, BulkOutDone, Reset, Rend, AnswerInv, InFull
<1>3. IsRecord(core', {"setup", "residue", "zlp_flag", "configuration"})
  <2>1. CASE SetupDone
    BY <2>1 DEF SetupDone, CarryOut, AnswerInv, IsRecord
  <2>2. CASE InDone
    BY <2>2 DEF InDone, InComplete, AnswerInv, IsRecord
  <2>3. CASE OutDone
    BY <2>3 DEF OutDone, AnswerInv, IsRecord
  <2>4. CASE BulkOutDone \/ Rend
    BY <2>4 DEF BulkOutDone, Rend, device, AnswerInv, IsRecord
  <2>5. CASE Reset
    BY <2>5 DEF Reset, AnswerInv, IsRecord
  <2> QED BY <2>1, <2>2, <2>3, <2>4, <2>5 DEF Handler
<1>4. ASSUME ctl.stage = "data", ctl.req.dir = "in" PROVE Reading'
  <2>1. CASE SetupDone
    BY <1>4, <2>1, AnswerSetup
  <2>2. CASE InDone
    BY <1>4, <2>2, AnswerIn
  <2>3. CASE OutDone
    BY <1>4, <2>3 DEF OutDone, AnswerInv, Reading
  <2>4. CASE BulkOutDone
    <3>1. irq' = irq \ {"out2"} /\ UNCHANGED <<ep0, in0, core, ctl>>
      BY <2>4 DEF BulkOutDone, device
    <3> QED BY <1>4, <3>1 DEF AnswerInv, Reading, Fetched, Prepared, Holds, Wanted
  <2>5. CASE Reset \/ Rend
    BY <1>4, <2>5 DEF Reset, Rend, AnswerInv, ListenInv
  <2> QED BY <2>1, <2>2, <2>3, <2>4, <2>5 DEF Handler
<1> QED BY <1>1, <1>2, <1>3, <1>4 DEF AnswerInv

(* The host takes a packet: the last one, or a whole one. *)
LEMMA AnswerTake ==
  ASSUME AnswerInv, TakeIn
  PROVE  /\ ctl'.stage = "status" => ctl'.got = Wanted
         /\ ctl'.stage = "data" => Reading'
         /\ ctl'.stage \in {"data", "status"} /\ ctl'.req = ctl.req
<1>1. /\ ctl.stage = "data" /\ ctl.req.dir = "in"
      /\ irq \cap {"setup", "in", "out"} = {} /\ ep0.rdy /\ ~ ep0.stall
      /\ irq' = irq \cup {"in"} /\ core' = core /\ in0' = in0
  BY DEF TakeIn, HostStep, Listens, Ep0Bits, device
<1>2. Prepared /\ ctl.got \in Nat
  BY <1>1 DEF AnswerInv, Reading
<1>3. /\ Wanted \in Nat /\ Wanted <= ctl.req.wLength /\ ctl.req.wLength \in Nat
      /\ MPS \in Nat \ {0}
  BY WantedSize, Sizes DEF AnswerInv, ListenInv
<1>4. /\ ctl'.got = ctl.got + ep0.tx /\ ctl'.req = ctl.req
      /\ ctl'.stage = IF ep0.tx < MPS \/ ctl.got + ep0.tx >= ctl.req.wLength
                      THEN "status" ELSE "data"
  BY <1>1 DEF TakeIn, AnswerInv, ListenInv, Asked, IsRecord
<1>5. Wanted' = Wanted
  BY <1>4 DEF Wanted
<1>6. /\ ep0.tx \in Nat /\ ep0.tx <= core.residue /\ ep0.tx <= MPS
      /\ ep0.tx < MPS => ep0.tx = core.residue
  BY <1>2, <1>3 DEF Prepared, Holds, Smaller
<1>7. core.residue \in Nat /\ ctl.got + core.residue = Wanted
  BY <1>2, <1>3 DEF Prepared, Holds
<1>8. CASE ep0.tx < MPS
  <2>1. ctl'.stage = "status" /\ ctl'.got = Wanted
    BY <1>4, <1>6, <1>7, <1>8
  <2> QED BY <1>4, <2>1
<1>9. CASE ctl.got + ep0.tx >= ctl.req.wLength
  <2>1. ctl'.stage = "status"
    BY <1>4, <1>9
  <2>2. ctl'.got = Wanted
    BY <1>2, <1>3, <1>4, <1>6, <1>7, <1>9
  <2> QED BY <1>4, <2>1, <2>2
<1>10. CASE ~ (ep0.tx < MPS) /\ ~ (ctl.got + ep0.tx >= ctl.req.wLength)
  <2>1. ctl'.stage = "data" /\ ep0.tx = MPS
    BY <1>3, <1>4, <1>6, <1>10
  <2>2. ctl'.got \in Nat /\ ctl'.got + core.residue = Wanted + MPS
    BY <1>2, <1>3, <1>4, <1>7, <2>1
  <2>3. core.residue >= MPS /\ core.residue > 0
    BY <1>3, <1>6, <1>7, <2>1
  <2>4. Fetched'
    BY <1>1, <1>2, <1>5, <2>2, <2>3 DEF Prepared, Fetched, Holds
  <2> QED BY <1>1, <1>4, <2>1, <2>2, <2>4 DEF Reading
<1> QED BY <1>8, <1>9, <1>10

LEMMA AnswerHost == AnswerInv /\ Host => AnswerInv'
<1> SUFFICES ASSUME AnswerInv, Host PROVE AnswerInv'
  OBVIOUS
<1>1. ListenInv'
  BY ListenHost DEF AnswerInv
<1>2. core' = core
  BY DEF Host, Setup, TakeIn, StatusOut, SendOut, StatusIn, StalledSeen, HostStep, device
<1>3. IsRecord(core', {"setup", "residue", "zlp_flag", "configuration"})
  BY <1>2 DEF AnswerInv
<1>4. CASE Setup
  <2>1. PICK req \in Requests :
          ctl' = [stage |-> IF req.wLength > 0 THEN "data" ELSE "status",
                  req |-> req, got |-> 0]
    BY <1>4 DEF Setup
  <2>2. irq \cap {"setup", "in", "out"} = {} /\ irq' = irq \cup {"setup"}
    BY <1>4 DEF Setup, Listens, Ep0Bits
  <2>3. Reading'
    <3>1. ep0' = [ep0 EXCEPT !.rdy = FALSE] /\ "rdy" \in DOMAIN ep0
      BY <1>4 DEF Setup, AnswerInv, ListenInv, Asked
    <3> QED BY <2>1, <2>2, <3>1 DEF Reading
  <2>4. ctl'.stage \in {"status", "done"} => req.wLength = 0
    BY <2>1, RequestFacts
  <2>5. InFull'
    BY <2>1, <2>4, RequestFacts DEF InFull, Smaller
  <2> QED BY <1>1, <1>3, <2>3, <2>5 DEF AnswerInv
<1>5. CASE TakeIn
  <2>1. /\ ctl'.stage = "status" => ctl'.got = Wanted
        /\ ctl'.stage = "data" => Reading'
        /\ ctl'.stage \in {"data", "status"} /\ ctl'.req = ctl.req
    BY <1>5, AnswerTake
  <2>2. InFull'
    BY <2>1 DEF InFull, Wanted
  <2> QED BY <1>1, <1>3, <2>1, <2>2 DEF AnswerInv
<1>6. CASE StatusOut
  <2>1. /\ ctl.stage = "status" /\ ctl'.stage = "done" /\ ctl'.req = ctl.req
        /\ ctl'.got = ctl.got
    BY <1>6 DEF StatusOut, AnswerInv, ListenInv, Asked, IsRecord
  <2> QED BY <1>1, <1>3, <2>1 DEF AnswerInv, InFull
<1>7. CASE SendOut \/ StatusIn
  <2>1. ctl.req.dir = "out" /\ ctl'.req = ctl.req
    BY <1>7 DEF SendOut, StatusIn, AnswerInv, ListenInv, Asked, IsRecord
  <2> QED BY <1>1, <1>3, <2>1 DEF AnswerInv, InFull
<1>8. CASE StalledSeen
  <2>1. ctl'.stage = "stalled"
    BY <1>8 DEF StalledSeen, AnswerInv, ListenInv, Asked, IsRecord
  <2> QED BY <1>1, <1>3, <2>1 DEF AnswerInv, InFull
<1> QED BY <1>4, <1>5, <1>6, <1>7, <1>8 DEF Host

LEMMA AnswerOther ==
  AnswerInv /\ (BusReset \/ HostWrite \/ BulkOut \/ UNCHANGED vars) => AnswerInv'
<1> SUFFICES ASSUME AnswerInv, BusReset \/ HostWrite \/ BulkOut \/ UNCHANGED vars
             PROVE  AnswerInv'
  OBVIOUS
<1>1. ListenInv'
  BY ListenOther DEF AnswerInv
<1>2. core' = core /\ in0' = in0
  BY DEF BusReset, HostWrite, BulkOut, vars, device
<1>3. IsRecord(core', {"setup", "residue", "zlp_flag", "configuration"})
  BY <1>2 DEF AnswerInv
<1>4. CASE BusReset
  <2>1. ctl'.stage = "idle"
    BY <1>4 DEF BusReset
  <2> QED BY <1>1, <1>3, <2>1 DEF AnswerInv, InFull
<1>5. CASE HostWrite \/ BulkOut \/ UNCHANGED vars
  <2>1. ctl' = ctl /\ ep0' = ep0 /\ (irq' = irq \/ irq' = irq \cup {"out2"})
    BY <1>5 DEF HostWrite, BulkOut, vars
  <2> QED BY <1>1, <1>2, <1>3, <2>1
          DEF AnswerInv, InFull, Reading, Fetched, Prepared, Holds, Wanted
<1> QED BY <1>4, <1>5

(* Whatever its length and the wLength, an answer arrives as long as the   *)
(* smaller of the two, in whole packets and one that ends it.              *)
THEOREM AnswersArriveWhole == Spec => []InFull
<1>1. AnswerInv /\ [Next]_vars => AnswerInv'
  BY AnswerHandler, AnswerHost, AnswerOther DEF Next
<1>2. AnswerInv => InFull
  BY DEF AnswerInv
<1> QED BY <1>1, <1>2, AnswerInit, PTL DEF Spec

-------------------------------------------------------------------------------
(* Acknowledgements.  A request without data for the device has been       *)
(* carried out when it is not stalled.  One with data is not judged before *)
(* its last packet: until then the device still expects exactly what the   *)
(* host still has, and counts with it the packet just sent.                *)
Effective ==
  /\ ctl.req.effect \notin {"unknown", "unconfigure"}
  /\ ctl.req.effect = "configure" => core.configuration = 1
  /\ ctl.req.effect = "clear halt" => ~ out2.stall
  /\ ctl.req.effect = "halt" => late \/ (out2.stall /\ "out2" \notin irq)

WithData == ctl.req.dir = "out" /\ ctl.req.wLength # 0

Expects(more) ==
  /\ core.residue \in Nat /\ core.residue < WORD /\ out0.actual_xfer_len = 0
  /\ ctl.got + core.residue = ctl.req.wLength + more

LEMMA RequestEffects ==
  ASSUME NEW req \in Requests, req.dir = "out", req.wLength # 0
  PROVE  req.effect \in {"line coding", "unknown"}
<1>1. CASE \E a \in Asks : req = Request("in", a[2], a[3], a[1])
  <2>1. PICK a \in Asks : req = Request("in", a[2], a[3], a[1])
    BY <1>1
  <2>2. req.dir = "in"
    BY <2>1 DEF Request
  <2> QED BY <2>2
<1>2. CASE req = Request("in", 10, "unknown", 0)
  BY <1>2 DEF Request
<1>3. CASE \E p \in Puts : req = Request("out", p[1], p[2], 0)
  <2>1. PICK p \in Puts : req = Request("out", p[1], p[2], 0)
    BY <1>3
  <2>2. p[2] \in {"line coding", "unknown"}
    BY SizeAssumption
  <2> QED BY <2>1, <2>2 DEF Request
<1>4. CASE \E e \in {"configure", "unconfigure", "halt", "clear halt"} :
             req = Request("out", 0, e, 0)
  <2>1. PICK e : req = Request("out", 0, e, 0)
    BY <1>4
  <2>2. req.wLength = 0
    BY <2>1 DEF Request
  <2> QED BY <2>2
<1> QED BY <1>1, <1>2, <1>3, <1>4 DEF Requests

Fresh ==
  /\ irq \cap {"in", "out"} = {} /\ ctl.got = 0
  /\ ctl.stage = "data" <=> ctl.req.wLength # 0

Sending ==
  /\ ctl.got \in Nat /\ "in" \notin irq
  /\ ctl.stage = "data" => ctl.got < ctl.req.wLength
  /\ ctl.stage = "status" => ctl.got = ctl.req.wLength
  /\ "out" \in irq => ep0.rx \in Nat \ {0} /\ Expects(ep0.rx)
  /\ "out" \notin irq /\ ctl.stage = "data" => Expects(0)
  /\ "out" \notin irq /\ ctl.stage = "status" => Effective

Judged ==
  /\ core.setup = ctl.req
  /\ irq \cap {"in", "out"} # {} => ~ ep0.stall
  /\ ~ WithData => "out" \notin irq /\ (~ ep0.stall => Effective)
  /\ WithData /\ ~ ep0.stall => Sending

Records ==
  /\ IsRecord(ep0, {"rdy", "stall", "tx", "rx"})
  /\ IsRecord(core, {"setup", "residue", "zlp_flag", "configuration"})

AckInv ==
  /\ ListenInv /\ Records
  /\ ctl.stage = "done" => "setup" \notin irq /\ Effective
  /\ ctl.stage = "data" => ctl.req.wLength # 0
  /\ ctl.stage \in {"data", "status"} /\ "setup" \in irq => Fresh
  /\ ctl.stage \in {"data", "status"} /\ "setup" \notin irq => Judged

LEMMA AckInit == Init => AckInv
<1> SUFFICES ASSUME Init PROVE AckInv
  OBVIOUS
<1>1. ctl.stage = "idle"
  BY DEF Init
<1>2. Records
  BY DEF Init, Unconfigured, IsRecord, Records
<1> QED BY <1>1, <1>2, ListenInit DEF AckInv

LEMMA RecordsNext == AckInv /\ [Next]_vars => Records'
<1> SUFFICES ASSUME AckInv, [Next]_vars PROVE Records'
  OBVIOUS
<1> USE DEF AckInv, Records, IsRecord
<1>1. CASE SetupDone
  BY <1>1 DEF SetupDone, CarryOut, Stalled, StartRead, StartWrite, Ready
<1>2. CASE InDone
  BY <1>2 DEF InDone, InComplete, StartRead, StartWrite, Ready
<1>3. CASE OutDone
  BY <1>3 DEF OutDone, Stalled, StartRead, StartWrite, Ready
<1>4. CASE BulkOutDone
  BY <1>4 DEF BulkOutDone, device
<1>5. CASE Reset
  BY <1>5 DEF Reset
<1>6. CASE Rend
  BY <1>6 DEF Rend, Ready, device
<1>7. CASE Setup \/ TakeIn \/ StatusOut \/ SendOut \/ StatusIn \/ StalledSeen
  BY <1>7 DEF Setup, TakeIn, StatusOut, SendOut, StatusIn, StalledSeen, HostStep, device
<1>8. CASE BusReset
  BY <1>8 DEF BusReset, device
<1>9. CASE HostWrite \/ BulkOut \/ UNCHANGED vars
  BY <1>9 DEF HostWrite, BulkOut, vars, device
<1> QED BY <1>1, <1>2, <1>3, <1>4, <1>5, <1>6, <1>7, <1>8, <1>9 DEF Next, Handler, Host

(* What a request does before its status, or that it is stalled. *)
LEMMA AckSetup ==
  ASSUME AckInv, SetupDone, ctl.stage \in {"data", "status"}
  PROVE  Judged'
<1>1. irq' = irq \ {"setup"} /\ "setup" \in irq /\ ctl' = ctl
  BY DEF SetupDone
<1>2. irq' \cap {"in", "out"} = {} /\ ctl.got = 0 /\ (ctl.stage = "data" <=> ctl.req.wLength # 0)
  BY <1>1 DEF AckInv, Fresh
<1>3. ctl.req \in Requests
  BY DEF AckInv, ListenInv, Asked
<1>4. core'.setup = ctl.req
  BY DEF SetupDone, CarryOut, AckInv, Records, IsRecord
<1>5. \/ Stalled
      \/ /\ WithData /\ StartRead(ctl.req.wLength)
         /\ core' = [core EXCEPT !.setup = ctl.req, !.residue = ctl.req.wLength,
                               !.zlp_flag = FALSE]
      \/ ~ WithData /\ ~ Refused(ctl.req) /\ CarryOut(ctl.req)
      \/ Dropped(ctl.req)
  <2>1. ctl.req.wLength \in 1 .. REQBUF => ctl.req.wLength # 0
    OBVIOUS
  <2>2. ctl.req.dir = "in" => ctl.req.dir # "out"
    OBVIOUS
  <2> QED BY <2>1, <2>2, Zenon DEF SetupDone, WithData
<1>6. CASE Stalled
  <2>1. ep0'.stall
    BY <1>6 DEF Stalled
  <2> QED BY <1>1, <1>2, <1>4, <2>1 DEF Judged
<1>7. CASE WithData /\ StartRead(ctl.req.wLength)
           /\ core' = [core EXCEPT !.setup = ctl.req, !.residue = ctl.req.wLength,
                                 !.zlp_flag = FALSE]
  <2>1. out0'.actual_xfer_len = 0
    BY <1>7 DEF StartRead
  <2>2. core'.residue = ctl.req.wLength
    BY <1>7 DEF AckInv, Records, IsRecord
  <2>3. ctl.req.wLength \in Nat /\ ctl.req.wLength < WORD /\ ctl.req.wLength # 0
    BY <1>3, <1>7, RequestFacts DEF WithData
  <2>4. Expects(0)' /\ ctl'.stage = "data"
    BY <1>1, <1>2, <2>1, <2>2, <2>3 DEF Expects
  <2>5. Sending'
    BY <1>1, <1>2, <2>3, <2>4 DEF Sending
  <2>6. WithData'
    BY <1>1, <1>7 DEF WithData
  <2> QED BY <1>1, <1>2, <1>4, <2>5, <2>6 DEF Judged
<1>8. CASE ~ WithData /\ ~ Refused(ctl.req) /\ CarryOut(ctl.req)
  <2>1. ctl.req.effect \notin {"unknown", "unconfigure"}
    BY <1>8 DEF Refused
  <2>2. ctl.req.effect = "configure" => core'.configuration = 1
    BY <1>8 DEF CarryOut, AckInv, Records, IsRecord
  <2>3. ctl.req.effect = "clear halt" => ~ out2'.stall
    BY <1>8 DEF CarryOut, AckInv, ListenInv, IsRecord
  <2>4. ctl.req.effect = "halt" => late' \/ (out2'.stall /\ "out2" \notin irq')
    BY <1>1, <1>8 DEF SetupDone, CarryOut, AckInv, ListenInv, IsRecord
  <2>5. Effective' /\ ~ WithData'
    BY <1>1, <1>8, <2>1, <2>2, <2>3, <2>4 DEF Effective, WithData
  <2> QED BY <1>1, <1>2, <1>4, <2>5 DEF Judged
<1>9. CASE Dropped(ctl.req)
  <2>1. ctl.req.effect = "misaligned" /\ ctl.req.dir = "in"
    BY <1>3, <1>9, RequestFacts DEF Dropped
  <2>2. Effective' /\ ~ WithData'
    BY <1>1, <2>1 DEF Effective, WithData
  <2> QED BY <1>1, <1>2, <1>4, <2>2 DEF Judged
<1> QED BY <1>5, <1>6, <1>7, <1>8, <1>9

LEMMA AckIn ==
  ASSUME AckInv, InDone, ctl.stage \in {"data", "status"}, "setup" \notin irq
  PROVE  Judged'
<1>1. irq' = irq \ {"in"} /\ "in" \in irq /\ UNCHANGED <<ctl, out2, late>>
  BY DEF InDone, bulk
<1>2. Judged /\ ~ ep0.stall /\ ~ WithData /\ Effective /\ "out" \notin irq
  BY <1>1 DEF AckInv, Judged, Sending
<1>3. ~ ep0'.stall
  BY DEF InDone, InComplete, StartWrite, StartRead, Ready
<1>4. core'.setup = core.setup /\ core'.configuration = core.configuration
  BY DEF InDone, InComplete, AckInv, Records, IsRecord
<1> QED BY <1>1, <1>2, <1>3, <1>4 DEF Judged, WithData, Effective

LEMMA AckOut ==
  ASSUME AckInv, OutDone, ctl.stage \in {"data", "status"}, "setup" \notin irq
  PROVE  Judged'
<1> DEFINE actual  == out0.actual_xfer_len + ep0.rx
           residue == (core.residue - actual) % WORD
<1>1. irq' = irq \ {"out"} /\ "out" \in irq /\ UNCHANGED <<ctl, out2>>
  BY DEF OutDone, bulk
<1>2. Judged /\ ~ ep0.stall /\ WithData /\ Sending
  BY <1>1 DEF AckInv, Judged
<1>3. ep0.rx \in Nat \ {0} /\ Expects(ep0.rx) /\ ctl.got \in Nat /\ "in" \notin irq
  BY <1>1, <1>2 DEF Sending
<1>4. ctl.req \in Requests /\ ctl.req.wLength \in Nat
  BY RequestFacts DEF AckInv, ListenInv, Asked
<1>5. actual = ep0.rx /\ actual > 0
  BY <1>3 DEF Expects
<1>6. residue \in Nat /\ residue < WORD /\ ctl.got + residue = ctl.req.wLength
  <2>1. core.residue - ep0.rx = ctl.req.wLength - ctl.got /\ ctl.got <= ctl.req.wLength
    BY <1>2, <1>3, <1>4 DEF Expects, Sending, AckInv
  <2>2. core.residue - ep0.rx \in Nat /\ core.residue - ep0.rx < WORD
    BY <1>3, <1>4, <2>1, WordSize DEF Expects
  <2>3. residue = core.residue - ep0.rx
    BY <1>5, <2>2, WordSize, WordsSmall
  <2> QED BY <1>3, <1>4, <2>1, <2>2, <2>3
<1>7. \/ residue # 0 /\ StartRead(residue) /\ core' = [core EXCEPT !.residue = residue]
      \/ /\ residue = 0 /\ core' = [core EXCEPT !.residue = 0]
         /\ \/ Refused(core.setup) /\ Stalled
            \/ ~ Refused(core.setup) /\ StartWrite(0)
  <2> HIDE DEF residue
  <2>1. actual # 0
    BY <1>5
  <2> QED BY <2>1 DEF OutDone, residue
<1> HIDE DEF actual, residue
<1>8. /\ core'.setup = core.setup /\ core'.configuration = core.configuration
      /\ core'.residue = residue
  BY <1>7 DEF AckInv, Records, IsRecord
<1>9. WithData' /\ core'.setup = ctl'.req /\ irq' \cap {"in", "out"} = {}
  BY <1>1, <1>2, <1>3, <1>8 DEF WithData, Judged
<1>10. CASE residue # 0 /\ StartRead(residue)
  <2>1. out0'.actual_xfer_len = 0
    BY <1>10 DEF StartRead
  <2>2. ctl.stage = "data"
    BY <1>2, <1>3, <1>4, <1>6, <1>10 DEF Sending
  <2>3. Expects(0)'
    BY <1>1, <1>3, <1>4, <1>6, <1>8, <2>1 DEF Expects
  <2>4. Sending'
    BY <1>1, <1>2, <1>3, <2>2, <2>3 DEF Sending
  <2> QED BY <1>9, <2>4 DEF Judged
<1>11. CASE residue = 0 /\ Refused(core.setup) /\ Stalled
  <2>1. ep0'.stall
    BY <1>11 DEF Stalled
  <2> QED BY <1>9, <2>1 DEF Judged
<1>12. CASE residue = 0 /\ ~ Refused(core.setup)
  <2>1. ctl.stage = "status"
    BY <1>2, <1>3, <1>4, <1>6, <1>12 DEF Sending
  <2>2. ctl.req.effect = "line coding"
    BY <1>2, <1>4, <1>12, RequestEffects DEF Judged, WithData, Refused
  <2>3. Effective'
    BY <1>1, <2>2 DEF Effective
  <2>4. Sending'
    BY <1>1, <1>2, <1>3, <2>1, <2>3 DEF Sending
  <2> QED BY <1>9, <2>4 DEF Judged
<1> QED BY <1>7, <1>10, <1>11, <1>12

LEMMA AckHandler == AckInv /\ Handler => AckInv'
<1> SUFFICES ASSUME AckInv, Handler PROVE AckInv'
  OBVIOUS
<1>1. ListenInv' /\ Records'
  BY ListenHandler, RecordsNext DEF AckInv, Next
<1>2. ctl' = ctl /\ irq' \subseteq irq
  BY DEF Handler, SetupDone, InDone, OutDone, BulkOutDone, Reset, Rend
<1>3. CASE SetupDone
  <2>1. irq' = irq \ {"setup"} /\ "setup" \in irq
    BY <1>3 DEF SetupDone
  <2> QED BY <1>1, <1>2, <1>3, <2>1, AckSetup DEF AckInv
<1>4. CASE InDone \/ OutDone
  <2>1. "setup" \in irq' <=> "setup" \in irq
    BY <1>4 DEF InDone, OutDone
  <2>2. /\ core'.configuration = core.configuration /\ UNCHANGED <<out2, late>>
        /\ "out2" \in irq' <=> "out2" \in irq
    BY <1>4 DEF InDone, InComplete, OutDone, AckInv, Records, IsRecord, bulk
  <2>3. Fresh => irq \cap {"in", "out"} = {}
    BY DEF Fresh
  <2>4. ctl.stage \in {"data", "status"} => "setup" \notin irq
    BY <1>4, <2>3 DEF AckInv, InDone, OutDone
  <2> QED BY <1>1, <1>2, <1>4, <2>1, <2>2, <2>4, AckIn, AckOut DEF AckInv, Effective
<1>5. CASE BulkOutDone
  <2>1. /\ irq' = irq \ {"out2"} /\ "out2" \in irq
        /\ UNCHANGED <<ep0, out0, core, late>>
    BY <1>5 DEF BulkOutDone, device
  <2>2. ~ out2'.stall
    BY <1>5, BulkKeepsPort DEF AckInv
  <2> QED BY <1>1, <1>2, <2>1, <2>2
          DEF AckInv, Fresh, Judged, Sending, Expects, WithData, Effective
<1>6. CASE Reset \/ Rend
  BY <1>1, <1>2, <1>6 DEF Reset, Rend, AckInv, ListenInv
<1> QED BY <1>3, <1>4, <1>5, <1>6 DEF Handler

LEMMA AckHost == AckInv /\ Host => AckInv'
<1> SUFFICES ASSUME AckInv, Host PROVE AckInv'
  OBVIOUS
<1>1. ListenInv' /\ Records'
  BY ListenHost, RecordsNext DEF AckInv, Next
<1>2. UNCHANGED <<core, out0, out2, late>>
  BY DEF Host, Setup, TakeIn, StatusOut, SendOut, StatusIn, StalledSeen, HostStep, device, bulk
<1>3. irq \cap {"setup", "in", "out"} = {}
  BY DEF Host, Setup, TakeIn, StatusOut, SendOut, StatusIn, StalledSeen, HostStep, Listens,
         Ep0Bits
<1>4. /\ IsRecord(ctl, {"stage", "req", "got"}) /\ ctl.req \in Requests
      /\ IsRecord(ep0, {"rdy", "stall", "tx", "rx"})
  BY DEF AckInv, ListenInv, Asked, Records
<1>5. ctl.stage \in {"data", "status"} => Judged
  BY <1>3 DEF AckInv
<1>6. CASE Setup
  <2>1. PICK req \in Requests :
          ctl' = [stage |-> IF req.wLength > 0 THEN "data" ELSE "status",
                  req |-> req, got |-> 0]
    BY <1>6 DEF Setup
  <2>2. irq' = irq \cup {"setup"}
    BY <1>6 DEF Setup
  <2>3. req.wLength \in Nat
    BY RequestFacts
  <2>4. Fresh'
    BY <1>3, <2>1, <2>2, <2>3 DEF Fresh
  <2> QED BY <1>1, <2>1, <2>2, <2>3, <2>4 DEF AckInv
<1>7. CASE TakeIn
  <2>1. /\ ctl.stage = "data" /\ ctl.req.dir = "in" /\ ~ ep0.stall
        /\ irq' = irq \cup {"in"} /\ ep0' = [ep0 EXCEPT !.rdy = FALSE]
    BY <1>7 DEF TakeIn, HostStep
  <2>2. ~ ep0'.stall
    BY <1>4, <2>1 DEF IsRecord
  <2>3. ctl'.req = ctl.req /\ ctl'.stage \in {"data", "status"}
    BY <1>4, <1>7, <2>1 DEF TakeIn, IsRecord
  <2>4. Judged'
    BY <1>2, <1>3, <1>5, <2>1, <2>2, <2>3 DEF Judged, WithData, Effective
  <2> QED BY <1>1, <1>3, <2>1, <2>3, <2>4 DEF AckInv
<1>8. CASE StatusOut \/ StatusIn
  <2>1. ctl.stage = "status" /\ ~ ep0.stall /\ (irq' = irq \cup {"in"} \/ irq' = irq \cup {"out"})
    BY <1>8 DEF StatusOut, StatusIn, HostStep
  <2>2. ctl'.req = ctl.req /\ ctl'.stage = "done"
    BY <1>4, <1>8 DEF StatusOut, StatusIn, IsRecord
  <2>3. Effective
    BY <1>3, <1>5, <2>1 DEF Judged, Sending
  <2> QED BY <1>1, <1>2, <1>3, <2>1, <2>2, <2>3 DEF AckInv, Effective
<1>9. CASE SendOut
  <2> DEFINE n == Smaller(ctl.req.wLength - ctl.got, MPS)
  <2>1. /\ ctl.stage = "data" /\ ctl.req.dir = "out" /\ ~ ep0.stall
        /\ irq' = irq \cup {"out"}
    BY <1>9 DEF SendOut, HostStep
  <2>2. WithData /\ Sending /\ Expects(0) /\ core.setup = ctl.req
    BY <1>3, <1>5, <2>1 DEF AckInv, WithData, Judged, Sending
  <2>3. /\ ctl.got \in Nat /\ ctl.req.wLength \in Nat /\ ctl.got < ctl.req.wLength
        /\ MPS \in Nat \ {0}
    BY <1>4, <2>1, <2>2, RequestFacts, Sizes DEF Sending
  <2>4. n \in Nat \ {0} /\ n <= ctl.req.wLength - ctl.got
    BY <2>3 DEF Smaller
  <2>5. /\ ctl'.got = ctl.got + n /\ ctl'.req = ctl.req
        /\ ctl'.stage = IF ctl.got + n = ctl.req.wLength THEN "status" ELSE "data"
    BY <1>4, <1>9, <2>1 DEF SendOut, IsRecord
  <2>6. ~ ep0'.stall /\ ep0'.rx = n
    BY <1>4, <1>9, <2>1 DEF SendOut, IsRecord
  <2> HIDE DEF n
  <2>7. Expects(ep0.rx)'
    BY <1>2, <2>2, <2>3, <2>4, <2>5, <2>6 DEF Expects
  <2>8. Sending'
    BY <1>3, <2>1, <2>3, <2>4, <2>5, <2>6, <2>7 DEF Sending
  <2>9. Judged'
    BY <1>2, <2>2, <2>5, <2>6, <2>8 DEF Judged, WithData
  <2> QED BY <1>1, <1>3, <2>1, <2>2, <2>5, <2>9 DEF AckInv, WithData
<1>10. CASE StalledSeen
  <2>1. ctl'.stage = "stalled"
    BY <1>4, <1>10 DEF StalledSeen, IsRecord
  <2> QED BY <1>1, <2>1 DEF AckInv
<1> QED BY <1>6, <1>7, <1>8, <1>9, <1>10 DEF Host

LEMMA AckOther ==
  AckInv /\ (BusReset \/ HostWrite \/ BulkOut \/ UNCHANGED vars) => AckInv'
<1> SUFFICES ASSUME AckInv, BusReset \/ HostWrite \/ BulkOut \/ UNCHANGED vars
             PROVE  AckInv'
  OBVIOUS
<1>1. ListenInv' /\ Records'
  BY ListenOther, RecordsNext DEF AckInv, Next
<1>2. CASE BusReset
  <2>1. ctl'.stage = "idle"
    BY <1>2 DEF BusReset
  <2> QED BY <1>1, <2>1 DEF AckInv
<1>3. CASE HostWrite \/ BulkOut \/ UNCHANGED vars
  <2>1. /\ UNCHANGED <<ctl, ep0, core, out0, late>>
        /\ irq' = irq \/ (irq' = irq \cup {"out2"} /\ ~ out2.stall)
    BY <1>3 DEF HostWrite, BulkOut, vars, device, bulk
  <2>2. out2'.stall = out2.stall
    BY <1>3 DEF HostWrite, BulkOut, vars, bulk, AckInv, ListenInv, IsRecord
  <2>3. /\ "setup" \in irq' <=> "setup" \in irq
        /\ "in" \in irq' <=> "in" \in irq
        /\ "out" \in irq' <=> "out" \in irq
        /\ irq' \cap {"in", "out"} = irq \cap {"in", "out"}
        /\ out2.stall => ("out2" \in irq' <=> "out2" \in irq)
    BY <2>1
  <2>4. Effective => Effective'
    BY <2>1, <2>2, <2>3 DEF Effective
  <2>5. Fresh => Fresh'
    BY <2>1, <2>3 DEF Fresh
  <2>6. Sending => Sending'
    BY <2>1, <2>3, <2>4 DEF Sending, Expects
  <2>7. Judged => Judged'
    BY <2>1, <2>3, <2>4, <2>6 DEF Judged, WithData
  <2> QED BY <1>1, <2>1, <2>3, <2>4, <2>5, <2>7 DEF AckInv
<1> QED BY <1>2, <1>3

(* A request whose status the host has seen is one the device knows, and   *)
(* has been carried out; the data of a request count to the byte before it *)
(* is judged.  A halt lasts, but for a packet taken before it.             *)
THEOREM AcknowledgedMeansDone == Spec => []AckedIsDone
<1>1. AckInv /\ [Next]_vars => AckInv'
  BY AckHandler, AckHost, AckOther DEF Next
<1>2. AckInv => AckedIsDone
  BY DEF AckInv, AckedIsDone, Effective
<1> QED BY <1>1, <1>2, AckInit, PTL DEF Spec

-------------------------------------------------------------------------------
(* Commands.  The buffer of the OUT endpoint is what is left of it and     *)
(* what it has, in whole packets while a command comes in.                 *)
PortInv ==
  /\ rx2.len \in 0 .. MPS /\ rx2.head \in Nat /\ head \in Nat /\ owed \in Nat
  /\ write.len \in 0 .. RXBUF /\ write.left \in 0 .. write.len /\ write.size \in Nat
  /\ out2.xfer_len \in 0 .. RXBUF /\ out2.actual_xfer_len \in 0 .. RXBUF
  /\ "out2" \in irq => out2.ep_enable
  /\ out2.ep_enable => /\ out2.xfer_len > 0 /\ out2.xfer_len % MPS = 0
                       /\ out2.xfer_len + out2.actual_xfer_len = RXBUF

(* Between two packets the device has of a command what the host has sent, *)
(* and its header; a packet on its way is a whole one amid a command, or   *)
(* less and the last.                                                      *)
Sent == IF write.left = 0 THEN 0 ELSE write.len - write.left
Size == IF out2.actual_xfer_len = 0 THEN rx2.head ELSE head

Amid ==
  /\ Sent = out2.actual_xfer_len /\ Sent % MPS = 0 /\ owed = 0
  /\ Sent > 0 => head = write.size

Arriving ==
  \/ /\ rx2.len = MPS /\ Sent = out2.actual_xfer_len + MPS /\ Sent % MPS = 0
     /\ Size = write.size /\ owed = 0
  \/ /\ Sent = 0 /\ rx2.len < MPS /\ owed \in {0, 1}
     /\ owed = 1 => out2.actual_xfer_len + rx2.len >= 2 + Size

(* Until it is told of the configuration the host writes nothing, and what *)
(* was under way before the bus reset is over when the bus is up again.    *)
Untold ==
  /\ write.left = 0 /\ owed = 0
  /\ "out2" \in irq => "rend" \in irq
  /\ ctl.stage = "status" /\ ctl.req.effect = "configure" /\ "setup" \notin irq =>
       out2.actual_xfer_len = 0

DecodeInv ==
  /\ ListenInv /\ PortInv /\ IsRecord(write, {"left", "len", "size"})
  /\ ~ told => Untold
  /\ told /\ ~ mishap => IF "out2" \in irq THEN Arriving ELSE Amid

LEMMA PortSizes ==
  /\ MPS \in Nat \ {0} /\ RXBUF \in Nat \ {0} /\ RXBUF % MPS = 0 /\ RXBUF < WORD
  /\ \A c \in Commands : c[1] \in 0 .. RXBUF /\ c[2] \in Nat
BY SizeAssumption

LEMMA Multiples ==
  ASSUME NEW m \in Nat \ {0}, NEW a \in Nat, NEW b \in Nat, a % m = 0,
         b = a + m \/ b = a - m
  PROVE  b % m = 0
<1> DEFINE q == a \div m
           p == b \div m
           r == b % m
<1>1. a = m * q /\ q \in Int
  OBVIOUS
<1>2. b = m * p + r /\ r \in 0 .. m - 1 /\ p \in Int
  OBVIOUS
<1> HIDE DEF q, p, r
<1>3. \E s \in {-1, 1} : m * (p - q + s) = 0 - r
  <2>1. CASE b = a + m
    <3>1. m * (p - q - 1) = m * p - m * q - m
      BY <1>1, <1>2
    <3> QED BY <1>1, <1>2, <2>1, <3>1
  <2>2. CASE b = a - m
    <3>1. m * (p - q + 1) = m * p - m * q + m
      BY <1>1, <1>2
    <3> QED BY <1>1, <1>2, <2>2, <3>1
  <2> QED BY <2>1, <2>2
<1>4. PICK s \in {-1, 1} : m * (p - q + s) = 0 - r
  BY <1>3
<1>5. ASSUME NEW t \in Int, m * t = 0 - r PROVE r = 0
  <2>1. CASE t >= 1
    <3>1. m * t >= m
      BY <2>1
    <3> QED BY <1>2, <1>5, <3>1
  <2>2. CASE t <= -1
    <3>1. m * t <= 0 - m
      BY <2>2
    <3> QED BY <1>2, <1>5, <3>1
  <2>3. CASE t = 0
    BY <1>2, <1>5, <2>3
  <2> QED BY <2>1, <2>2, <2>3
<1>6. p - q + s \in Int
  BY <1>1, <1>2
<1> DEFINE u == p - q + s
<1>7. u \in Int /\ m * u = 0 - r
  BY <1>4, <1>6
<1> HIDE DEF u
<1>8. r = 0
  BY <1>5, <1>7, Zenon
<1> QED BY <1>8 DEF r

LEMMA WholeOne ==
  ASSUME NEW m \in Nat \ {0}, NEW a \in Nat, a % m = 0, a > 0
  PROVE  a >= m
<1>1. SUFFICES ASSUME a < m PROVE a % m = a
  OBVIOUS
<1> QED BY <1>1

(* The packet the handler takes, from a buffer with room for a whole one. *)
LEMMA PacketTaken ==
  ASSUME ListenInv, PortInv, BulkOutDone
  PROVE  LET len == out2.xfer_len - rx2.len
             got == out2.actual_xfer_len + rx2.len IN
         /\ out2.ep_enable /\ len >= 0 /\ out2'.ep_enable
         /\ \/ /\ (rx2.len < MPS \/ len = 0)
               /\ out2'.xfer_len = RXBUF /\ out2'.actual_xfer_len = 0 /\ head' = 0
               /\ owed' = IF got >= 2 + Size /\ owed > 0 THEN owed - 1 ELSE owed
            \/ /\ rx2.len = MPS /\ len > 0 /\ len % MPS = 0
               /\ out2'.xfer_len = len /\ out2'.actual_xfer_len = got
               /\ head' = Size /\ owed' = owed
<1> DEFINE len == out2.xfer_len - rx2.len
           got == out2.actual_xfer_len + rx2.len
           out == [out2 EXCEPT !.xfer_len = (@ - rx2.len) % WORD,
                               !.actual_xfer_len = @ + rx2.len]
<1>1. /\ IsRecord(out2, {"ep_enable", "rdy", "stall", "xfer_len", "actual_xfer_len"})
      /\ out2.ep_enable
  BY DEF ListenInv, PortInv, BulkOutDone
<1>2. /\ out2.xfer_len \in 0 .. RXBUF /\ out2.actual_xfer_len \in 0 .. RXBUF
      /\ out2.xfer_len > 0 /\ out2.xfer_len % MPS = 0 /\ rx2.len \in 0 .. MPS
      /\ MPS \in Nat \ {0} /\ RXBUF \in Nat /\ RXBUF < WORD
  BY <1>1, PortSizes DEF PortInv
<1>3. len >= 0 /\ (rx2.len = MPS => len % MPS = 0)
  <2>1. out2.xfer_len >= MPS
    BY <1>2, WholeOne
  <2> QED BY <1>2, <2>1, Multiples
<1>4. /\ IsRecord(out, {"ep_enable", "rdy", "stall", "xfer_len", "actual_xfer_len"})
      /\ out.xfer_len = len /\ out.actual_xfer_len = got /\ out.ep_enable = out2.ep_enable
  <2>1. (out2.xfer_len - rx2.len) % WORD = len
    BY <1>2, <1>3, WordSize, WordsSmall
  <2> QED BY <1>1, <2>1 DEF IsRecord
<1>5. \/ EndsTransfer(out) /\ OutComplete(out, Size) /\ head' = 0
      \/ /\ ~ EndsTransfer(out) /\ out2' = [out EXCEPT !.rdy = TRUE, !.stall = FALSE]
         /\ head' = Size /\ owed' = owed
  BY DEF BulkOutDone, Size
<1> HIDE DEF len, got, out
<1>6. CASE EndsTransfer(out) /\ OutComplete(out, Size) /\ head' = 0
  <2>1. out2' = Armed(out)
    BY <1>6 DEF OutComplete
  <2>2. out2'.xfer_len = RXBUF /\ out2'.actual_xfer_len = 0 /\ out2'.ep_enable = out.ep_enable
    BY <1>4, <2>1 DEF Armed, IsRecord
  <2>3. owed' = IF got >= 2 + Size /\ owed > 0 THEN owed - 1 ELSE owed
    BY <1>4, <1>6 DEF OutComplete
  <2>4. rx2.len < MPS \/ len = 0
    BY <1>4, <1>6 DEF EndsTransfer
  <2> QED BY <1>1, <1>3, <1>4, <1>6, <2>2, <2>3, <2>4 DEF len, got
<1>7. CASE /\ ~ EndsTransfer(out) /\ out2' = [out EXCEPT !.rdy = TRUE, !.stall = FALSE]
           /\ head' = Size /\ owed' = owed
  <2>1. ~ (rx2.len < MPS) /\ len # 0
    BY <1>4, <1>7 DEF EndsTransfer
  <2>2. /\ out2'.xfer_len = len /\ out2'.actual_xfer_len = got
        /\ out2'.ep_enable = out.ep_enable
    BY <1>4, <1>7 DEF IsRecord
  <2>3. rx2.len = MPS /\ len > 0
    BY <1>2, <1>3, <2>1 DEF len
  <2> QED BY <1>1, <1>3, <1>4, <1>7, <2>2, <2>3 DEF len, got
<1> QED BY <1>5, <1>6, <1>7

(* What a request does to the buffer: SET_CONFIGURATION begins it anew,    *)
(* which cuts the command that was coming in.                              *)
LEMMA SetupBuffer ==
  ASSUME ListenInv, SetupDone
  PROVE  IF ctl.req.effect = "configure"
         THEN /\ out2'.ep_enable /\ out2'.xfer_len = RXBUF /\ out2'.actual_xfer_len = 0
              /\ ~ mishap' => ~ mishap /\ (told => ~ (out2.actual_xfer_len > 0))
         ELSE /\ out2'.xfer_len = out2.xfer_len
              /\ out2'.actual_xfer_len = out2.actual_xfer_len
              /\ out2'.ep_enable = out2.ep_enable
              /\ ~ mishap' => ~ mishap
<1>1. ctl.req \in Requests
  BY DEF ListenInv, Asked
<1>2. \/ NothingDone /\ ctl.req.effect # "configure"
      \/ CarryOut(ctl.req)
  <2>1. \/ NothingDone /\ ctl.req.wLength > REQBUF
        \/ NothingDone /\ ctl.req.wLength \in 1 .. REQBUF
        \/ NothingDone /\ (Refused(ctl.req) \/ Dropped(ctl.req))
        \/ CarryOut(ctl.req)
    BY Zenon DEF SetupDone
  <2>2. ctl.req.wLength > REQBUF \/ ctl.req.wLength \in 1 .. REQBUF => ctl.req.wLength # 0
    BY <1>1, RequestFacts, Sizes
  <2>3. ctl.req.effect = "configure" =>
          ctl.req.wLength = 0 /\ ~ Refused(ctl.req) /\ ~ Dropped(ctl.req)
    BY <1>1, RequestFacts DEF Refused, Dropped
  <2> QED BY <2>1, <2>2, <2>3, Zenon
<1>3. CASE NothingDone /\ ctl.req.effect # "configure"
  BY <1>3 DEF NothingDone
<1>4. CASE CarryOut(ctl.req)
  <2>1. /\ ~ mishap' => ~ mishap
        /\ ~ mishap' /\ ctl.req.effect = "configure" /\ told => ~ (out2.actual_xfer_len > 0)
    BY <1>4, Zenon DEF CarryOut
  <2>2. IsRecord(out2, {"ep_enable", "rdy", "stall", "xfer_len", "actual_xfer_len"})
    BY DEF ListenInv
  <2>3. CASE ctl.req.effect = "configure"
    <3>1. out2' = Armed([out2 EXCEPT !.ep_enable = TRUE])
      BY <1>4, <2>3 DEF CarryOut
    <3> QED BY <2>1, <2>2, <2>3, <3>1 DEF Armed, IsRecord
  <2>4. CASE ctl.req.effect # "configure"
    <3>1. \/ out2' = [out2 EXCEPT !.stall = TRUE]
          \/ out2' = [out2 EXCEPT !.rdy = TRUE, !.stall = FALSE]
          \/ out2' = out2
      BY <1>4, <2>4 DEF CarryOut
    <3> QED BY <2>1, <2>2, <2>4, <3>1 DEF IsRecord
  <2> QED BY <2>3, <2>4
<1> QED BY <1>2, <1>3, <1>4

LEMMA PortHandler == ListenInv /\ PortInv /\ Handler => PortInv'
<1> SUFFICES ASSUME ListenInv, PortInv, Handler PROVE PortInv'
  OBVIOUS
<1>1. write' = write /\ irq' \subseteq irq
  BY DEF Handler, SetupDone, InDone, OutDone, BulkOutDone, Reset, Rend, bulk
<1>2. RXBUF \in Nat \ {0} /\ RXBUF % MPS = 0 /\ MPS \in Nat \ {0}
  BY PortSizes
<1>3. CASE SetupDone
  <2>1. UNCHANGED <<rx2, head, owed>>
    BY <1>3 DEF SetupDone, CarryOut, NothingDone
  <2>2. CASE ctl.req.effect = "configure"
    <3>1. out2'.ep_enable /\ out2'.xfer_len = RXBUF /\ out2'.actual_xfer_len = 0
      BY <1>3, <2>2, SetupBuffer
    <3> QED BY <1>1, <1>2, <2>1, <3>1 DEF PortInv
  <2>3. CASE ctl.req.effect # "configure"
    <3>1. /\ out2'.xfer_len = out2.xfer_len /\ out2'.actual_xfer_len = out2.actual_xfer_len
          /\ out2'.ep_enable = out2.ep_enable
      BY <1>3, <2>3, SetupBuffer
    <3> QED BY <1>1, <2>1, <3>1 DEF PortInv
  <2> QED BY <2>2, <2>3
<1>4. CASE InDone \/ OutDone \/ Rend
  <2>1. UNCHANGED <<rx2, head, owed, out2>>
    BY <1>4 DEF InDone, OutDone, Rend, bulk
  <2> QED BY <1>1, <2>1 DEF PortInv
<1>5. CASE BulkOutDone
  <2> DEFINE len == out2.xfer_len - rx2.len
             got == out2.actual_xfer_len + rx2.len
  <2>1. /\ out2.ep_enable /\ out2'.ep_enable
        /\ \/ out2'.xfer_len = RXBUF /\ out2'.actual_xfer_len = 0
           \/ /\ len > 0 /\ len % MPS = 0
              /\ out2'.xfer_len = len /\ out2'.actual_xfer_len = got
        /\ head' = 0 \/ head' = Size
        /\ owed' = owed \/ (owed > 0 /\ owed' = owed - 1)
    BY <1>5, PacketTaken
  <2>2. rx2' = [len |-> 0, head |-> 0]
    BY <1>5 DEF BulkOutDone
  <2>3. rx2'.len \in 0 .. MPS /\ rx2'.head \in Nat /\ head' \in Nat /\ owed' \in Nat
    BY <1>2, <2>1, <2>2 DEF PortInv, Size
  <2>4. /\ out2'.xfer_len \in 0 .. RXBUF /\ out2'.actual_xfer_len \in 0 .. RXBUF
        /\ out2'.xfer_len > 0 /\ out2'.xfer_len % MPS = 0
        /\ out2'.xfer_len + out2'.actual_xfer_len = RXBUF
    <3>1. /\ out2.xfer_len \in 0 .. RXBUF /\ out2.actual_xfer_len \in 0 .. RXBUF
          /\ out2.xfer_len + out2.actual_xfer_len = RXBUF /\ rx2.len \in 0 .. MPS
      BY <2>1 DEF PortInv
    <3>2. CASE out2'.xfer_len = RXBUF /\ out2'.actual_xfer_len = 0
      BY <1>2, <3>2
    <3>3. CASE /\ len > 0 /\ len % MPS = 0
               /\ out2'.xfer_len = len /\ out2'.actual_xfer_len = got
      <4>1. len \in 0 .. RXBUF /\ got \in 0 .. RXBUF /\ len + got = RXBUF
        BY <1>2, <3>1, <3>3
      <4> QED BY <3>3, <4>1
    <3> QED BY <2>1, <3>2, <3>3
  <2> QED BY <1>1, <2>1, <2>3, <2>4 DEF PortInv
<1>6. CASE Reset
  <2>1. /\ out2' = [out2 EXCEPT !.ep_enable = FALSE, !.xfer_len = 0, !.actual_xfer_len = 0]
        /\ UNCHANGED <<rx2, head, owed>> /\ "out2" \notin irq
    BY <1>6 DEF Reset
  <2>2. ~ out2'.ep_enable /\ out2'.xfer_len = 0 /\ out2'.actual_xfer_len = 0
    BY <2>1 DEF ListenInv, IsRecord
  <2> QED BY <1>1, <1>2, <2>1, <2>2 DEF PortInv
<1> QED BY <1>3, <1>4, <1>5, <1>6 DEF Handler

LEMMA PortOther ==
  ListenInv /\ PortInv /\ (Host \/ BusReset \/ UNCHANGED vars) => PortInv'
<1> SUFFICES ASSUME ListenInv, PortInv, Host \/ BusReset \/ UNCHANGED vars PROVE PortInv'
  OBVIOUS
<1>1. CASE Host \/ UNCHANGED vars
  <2>1. UNCHANGED <<out2, rx2, head, write, owed>> /\ irq' \ irq \subseteq Ep0Bits
    BY <1>1 DEF Host, Setup, TakeIn, StatusOut, SendOut, StatusIn, StalledSeen, HostStep,
                bulk, vars, Ep0Bits
  <2> QED BY <2>1 DEF PortInv, Ep0Bits
<1>2. CASE BusReset
  <2>1. /\ \E keep \in BOOLEAN : out2' = [out2 EXCEPT !.rdy = @ /\ keep]
        /\ rx2' = rx2 /\ head' = head /\ owed' = 0
        /\ write' = [left |-> 0, len |-> 0, size |-> 0]
        /\ "out2" \in irq' => "out2" \in irq
    BY <1>2 DEF BusReset, NothingToWrite
  <2>2. /\ out2'.ep_enable = out2.ep_enable /\ out2'.xfer_len = out2.xfer_len
        /\ out2'.actual_xfer_len = out2.actual_xfer_len
    BY <2>1 DEF ListenInv, IsRecord
  <2> QED BY <2>1, <2>2, PortSizes DEF PortInv
<1> QED BY <1>1, <1>2

(* A packet of the command leaves the host. *)
LEMMA PacketSent ==
  ASSUME ListenInv, PortInv, IsRecord(write, {"left", "len", "size"}), BulkOut
  PROVE  LET n == Smaller(write.left, MPS) IN
         /\ n \in 1 .. MPS /\ n <= write.left /\ (n < MPS => n = write.left)
         /\ rx2'.len = n
         /\ rx2'.head = IF write.left = write.len THEN write.size ELSE PAYLOAD
         /\ \/ n = write.left /\ write' = NothingToWrite
            \/ /\ n # write.left /\ n = MPS /\ write'.left = write.left - n
               /\ write'.len = write.len /\ write'.size = write.size
               /\ IsRecord(write', {"left", "len", "size"})
         /\ out2'.xfer_len = out2.xfer_len /\ out2'.actual_xfer_len = out2.actual_xfer_len
         /\ out2'.ep_enable /\ out2.ep_enable
<1>1. write.left \in Nat /\ write.left > 0 /\ MPS \in Nat \ {0}
  BY PortSizes DEF PortInv, BulkOut
<1> DEFINE n == Smaller(write.left, MPS)
<1>2. /\ n \in 1 .. MPS /\ n <= write.left /\ (n < MPS => n = write.left)
  BY <1>1 DEF Smaller
<1> HIDE DEF n
<1>3. /\ rx2' = [len |-> n, head |-> IF write.left = write.len THEN write.size ELSE PAYLOAD]
      /\ write' = IF n = write.left THEN NothingToWrite ELSE [write EXCEPT !.left = @ - n]
      /\ out2' = [out2 EXCEPT !.rdy = FALSE] /\ out2.ep_enable
  BY DEF BulkOut, n
<1>4. /\ out2'.xfer_len = out2.xfer_len /\ out2'.actual_xfer_len = out2.actual_xfer_len
      /\ out2'.ep_enable = out2.ep_enable
  BY <1>3 DEF ListenInv, IsRecord
<1>5. /\ rx2'.len = n
      /\ rx2'.head = IF write.left = write.len THEN write.size ELSE PAYLOAD
  BY <1>3
<1>6. n # write.left =>
        /\ n = MPS /\ write'.left = write.left - n
        /\ write'.len = write.len /\ write'.size = write.size
        /\ IsRecord(write', {"left", "len", "size"})
  <2>1. SUFFICES ASSUME n # write.left
                 PROVE  /\ n = MPS /\ write'.left = write.left - n
                        /\ write'.len = write.len /\ write'.size = write.size
                        /\ IsRecord(write', {"left", "len", "size"})
    OBVIOUS
  <2>2. write' = [write EXCEPT !.left = write.left - n]
    BY <1>3, <2>1
  <2>3. n = MPS
    BY <1>1, <1>2, <2>1
  <2> QED BY <2>2, <2>3 DEF IsRecord
<1> QED BY <1>2, <1>3, <1>4, <1>5, <1>6 DEF n

LEMMA PortWrite ==
  ASSUME ListenInv, PortInv, IsRecord(write, {"left", "len", "size"}), HostWrite \/ BulkOut
  PROVE  PortInv' /\ IsRecord(write', {"left", "len", "size"})
<1>1. CASE HostWrite
  <2>1. PICK c \in Commands : write' = [left |-> c[1], len |-> c[1], size |-> c[2]]
    BY <1>1 DEF HostWrite
  <2>2. UNCHANGED <<irq, out2, rx2, head, owed>>
    BY <1>1 DEF HostWrite
  <2>3. c[1] \in 0 .. RXBUF /\ c[2] \in Nat
    BY PortSizes
  <2> QED BY <2>1, <2>2, <2>3 DEF PortInv, IsRecord
<1>2. CASE BulkOut
  <2> DEFINE n == Smaller(write.left, MPS)
  <2>1. /\ n \in 1 .. MPS /\ n <= write.left
        /\ rx2'.len = n
        /\ rx2'.head = IF write.left = write.len THEN write.size ELSE PAYLOAD
        /\ \/ n = write.left /\ write' = NothingToWrite
           \/ /\ n # write.left /\ n = MPS /\ write'.left = write.left - n
              /\ write'.len = write.len /\ write'.size = write.size
              /\ IsRecord(write', {"left", "len", "size"})
        /\ out2'.xfer_len = out2.xfer_len /\ out2'.actual_xfer_len = out2.actual_xfer_len
        /\ out2'.ep_enable /\ out2.ep_enable
    BY <1>2, PacketSent
  <2> HIDE DEF n
  <2>2. head' = head /\ (owed' = owed \/ owed' = owed + 1)
    BY <1>2 DEF BulkOut
  <2>3. rx2'.len \in 0 .. MPS /\ rx2'.head \in Nat
    BY <2>1, PortSizes DEF PortInv, PAYLOAD
  <2>4. /\ write'.len \in 0 .. RXBUF /\ write'.left \in 0 .. write'.len /\ write'.size \in Nat
        /\ IsRecord(write', {"left", "len", "size"})
    BY <2>1, PortSizes DEF PortInv, NothingToWrite, IsRecord
  <2> QED BY <2>1, <2>2, <2>3, <2>4 DEF PortInv
<1> QED BY <1>1, <1>2

LEMMA DecodeInit == Init => DecodeInv
<1> SUFFICES ASSUME Init PROVE DecodeInv
  OBVIOUS
<1>1. PortInv
  BY PortSizes DEF Init, PortInv, NothingToWrite
<1>2. IsRecord(write, {"left", "len", "size"})
  BY DEF Init, NothingToWrite, IsRecord
<1>3. ~ told /\ Untold
  BY DEF Init, Untold, NothingToWrite
<1> QED BY <1>1, <1>2, <1>3, ListenInit DEF DecodeInv

(* A step that keeps the bytes in the buffer and those on their way. *)
LEMMA StreamKept ==
  ASSUME rx2' = rx2, head' = head, owed' = owed, write' = write,
         out2'.actual_xfer_len = out2.actual_xfer_len
  PROVE  (Arriving => Arriving') /\ (Amid => Amid')
<1>1. Sent' = Sent /\ Size' = Size
  BY DEF Sent, Size
<1> QED BY <1>1 DEF Arriving, Amid

LEMMA DecodeBulk ==
  ASSUME DecodeInv, BulkOutDone
  PROVE  /\ ~ told => Untold'
         /\ told /\ ~ mishap => Amid'
<1> DEFINE len == out2.xfer_len - rx2.len
           got == out2.actual_xfer_len + rx2.len
<1>1. /\ irq' = irq \ {"out2"} /\ "out2" \in irq
      /\ UNCHANGED <<write, mishap, ctl, told>>
  BY DEF BulkOutDone
<1>2. /\ out2.ep_enable
      /\ \/ /\ (rx2.len < MPS \/ len = 0)
            /\ out2'.xfer_len = RXBUF /\ out2'.actual_xfer_len = 0 /\ head' = 0
            /\ owed' = IF got >= 2 + Size /\ owed > 0 THEN owed - 1 ELSE owed
         \/ /\ rx2.len = MPS /\ len > 0 /\ len % MPS = 0
            /\ out2'.xfer_len = len /\ out2'.actual_xfer_len = got
            /\ head' = Size /\ owed' = owed
  BY PacketTaken DEF DecodeInv
<1>3. /\ out2.xfer_len \in 0 .. RXBUF /\ out2.actual_xfer_len \in 0 .. RXBUF
      /\ out2.xfer_len + out2.actual_xfer_len = RXBUF /\ rx2.len \in 0 .. MPS
      /\ write.len \in 0 .. RXBUF /\ write.left \in 0 .. write.len
      /\ MPS \in Nat \ {0} /\ RXBUF \in Nat
  BY <1>2, PortSizes DEF DecodeInv, PortInv
<1>4. Sent' = Sent
  BY <1>1 DEF Sent
<1>5. ASSUME ~ told PROVE Untold'
  <2>1. Untold /\ ctl.stage = "idle"
    BY <1>1, <1>5 DEF DecodeInv, Untold, ListenInv
  <2>2. owed' = 0
    BY <1>2, <2>1 DEF Untold
  <2> QED BY <1>1, <2>1, <2>2 DEF Untold
<1>6. ASSUME told, ~ mishap PROVE Amid'
  <2>1. Arriving
    BY <1>1, <1>6 DEF DecodeInv
  <2>2. CASE /\ rx2.len = MPS /\ Sent = out2.actual_xfer_len + MPS /\ Sent % MPS = 0
             /\ Size = write.size /\ owed = 0
    <3>1. Sent < RXBUF
      BY <1>3, <2>2 DEF Sent
    <3>2. len > 0 /\ got = Sent
      BY <1>3, <2>2, <3>1
    <3>3. out2'.actual_xfer_len = Sent /\ head' = Size /\ owed' = 0
      BY <1>2, <1>3, <2>2, <3>2
    <3> QED BY <1>1, <1>4, <2>2, <3>3 DEF Amid
  <2>3. CASE /\ Sent = 0 /\ rx2.len < MPS /\ owed \in {0, 1}
             /\ owed = 1 => got >= 2 + Size
    <3>1. out2'.actual_xfer_len = 0 /\ owed' = 0
      BY <1>2, <1>3, <2>3
    <3>2. 0 % MPS = 0
      BY <1>3
    <3> QED BY <1>4, <2>3, <3>1, <3>2 DEF Amid
  <2> QED BY <2>1, <2>2, <2>3 DEF Arriving
<1> QED BY <1>5, <1>6

LEMMA DecodeHandler == DecodeInv /\ Handler => DecodeInv'
<1> SUFFICES ASSUME DecodeInv, Handler PROVE DecodeInv'
  OBVIOUS
<1>1. ListenInv' /\ PortInv' /\ IsRecord(write', {"left", "len", "size"})
  <2>1. write' = write
    BY DEF Handler, SetupDone, InDone, OutDone, BulkOutDone, Reset, Rend, bulk
  <2> QED BY <2>1, ListenHandler, PortHandler DEF DecodeInv
<1>2. UNCHANGED <<ctl, told, write>>
  BY DEF Handler, SetupDone, InDone, OutDone, BulkOutDone, Reset, Rend, bulk
<1>3. CASE SetupDone
  <2>1. UNCHANGED <<rx2, head, owed>> /\ irq' = irq \ {"setup"}
    BY <1>3 DEF SetupDone, CarryOut, NothingDone
  <2>2. ~ mishap' => ~ mishap
    BY <1>3, SetupBuffer DEF DecodeInv
  <2>3. ASSUME told, ~ mishap' PROVE IF "out2" \in irq' THEN Arriving' ELSE Amid'
    <3>1. out2'.actual_xfer_len = out2.actual_xfer_len
      <4>1. CASE ctl.req.effect = "configure"
        <5>1. out2'.actual_xfer_len = 0 /\ ~ (out2.actual_xfer_len > 0)
          BY <1>3, <2>3, <4>1, SetupBuffer DEF DecodeInv
        <5>2. out2.actual_xfer_len \in Nat
          BY DEF DecodeInv, PortInv
        <5> QED BY <5>1, <5>2
      <4>2. CASE ctl.req.effect # "configure"
        BY <1>3, <4>2, SetupBuffer DEF DecodeInv
      <4> QED BY <4>1, <4>2
    <3> QED BY <1>2, <2>1, <2>2, <2>3, <3>1, StreamKept DEF DecodeInv
  <2>4. ASSUME ~ told PROVE Untold'
    <3>1. ctl.req.effect = "configure" => out2'.actual_xfer_len = 0
      BY <1>3, SetupBuffer DEF DecodeInv
    <3> QED BY <1>2, <2>1, <2>4, <3>1 DEF DecodeInv, Untold
  <2> QED BY <1>1, <1>2, <2>3, <2>4 DEF DecodeInv
<1>4. CASE InDone \/ OutDone \/ Rend
  <2>1. /\ UNCHANGED <<out2, rx2, head, owed, mishap>>
        /\ "out2" \in irq' <=> "out2" \in irq
        /\ "setup" \in irq' <=> "setup" \in irq
        /\ "out2" \in irq' /\ "rend" \in irq => "rend" \in irq'
    BY <1>4 DEF InDone, OutDone, Rend, bulk
  <2>2. (Arriving => Arriving') /\ (Amid => Amid')
    BY <1>2, <2>1, StreamKept
  <2>3. Untold => Untold'
    BY <1>2, <2>1 DEF Untold
  <2> QED BY <1>1, <1>2, <2>1, <2>2, <2>3 DEF DecodeInv
<1>5. CASE BulkOutDone
  <2>1. "out2" \notin irq' /\ mishap' = mishap
    BY <1>5 DEF BulkOutDone
  <2> QED BY <1>1, <1>2, <1>5, <2>1, DecodeBulk DEF DecodeInv
<1>6. CASE Reset
  <2>1. /\ out2' = [out2 EXCEPT !.ep_enable = FALSE, !.xfer_len = 0, !.actual_xfer_len = 0]
        /\ "reset" \in irq /\ "out2" \notin irq' /\ owed' = owed
    BY <1>6 DEF Reset
  <2>2. ~ told /\ out2'.actual_xfer_len = 0
    BY <2>1 DEF DecodeInv, ListenInv, IsRecord
  <2> QED BY <1>1, <1>2, <2>1, <2>2 DEF DecodeInv, Untold
<1> QED BY <1>3, <1>4, <1>5, <1>6 DEF Handler

LEMMA DecodeHost == DecodeInv /\ Host => DecodeInv'
<1> SUFFICES ASSUME DecodeInv, Host PROVE DecodeInv'
  OBVIOUS
<1>1. UNCHANGED <<out2, rx2, head, owed, mishap, write>>
  BY DEF Host, Setup, TakeIn, StatusOut, SendOut, StatusIn, StalledSeen, HostStep, bulk
<1>2. ListenInv' /\ PortInv' /\ IsRecord(write', {"left", "len", "size"})
  BY <1>1, ListenHost, PortOther DEF DecodeInv
<1>3. /\ irq \cap {"setup", "in", "out", "reset", "rend"} = {}
      /\ "out2" \in irq' <=> "out2" \in irq
  BY DEF Host, Setup, TakeIn, StatusOut, SendOut, StatusIn, StalledSeen, HostStep, Listens,
         BusUp, Ep0Bits
<1>4. (Arriving => Arriving') /\ (Amid => Amid')
  BY <1>1, StreamKept
<1>5. IsRecord(ctl, {"stage", "req", "got"})
  BY DEF DecodeInv, ListenInv, Asked
<1>6. CASE Setup
  <2>1. told' = told /\ "setup" \in irq'
    BY <1>6 DEF Setup
  <2> QED BY <1>1, <1>2, <1>3, <1>4, <2>1 DEF DecodeInv, Untold
<1>7. CASE TakeIn \/ StatusOut \/ SendOut \/ StalledSeen
  <2>1. told' = told /\ ctl'.req = ctl.req
    BY <1>5, <1>7 DEF TakeIn, StatusOut, SendOut, StalledSeen, IsRecord
  <2>2. ctl'.stage = "status" => ctl.stage = "data"
    <3>1. CASE TakeIn \/ SendOut
      BY <3>1 DEF TakeIn, SendOut
    <3>2. CASE StatusOut \/ StalledSeen
      <4>1. \/ ctl' = [ctl EXCEPT !.stage = "done"]
            \/ ctl' = [ctl EXCEPT !.stage = "stalled", !.got = 0]
        BY <3>2 DEF StatusOut, StalledSeen
      <4>2. ctl'.stage \in {"done", "stalled"}
        BY <1>5, <4>1 DEF IsRecord
      <4> QED BY <4>2
    <3> QED BY <1>7, <3>1, <3>2
  <2>3. ctl.req.effect = "configure" => ctl'.stage # "status"
    BY <2>2 DEF DecodeInv, ListenInv
  <2> QED BY <1>1, <1>2, <1>3, <1>4, <2>1, <2>3 DEF DecodeInv, Untold
<1>8. CASE StatusIn
  <2>1. /\ ctl.stage = "status" /\ ctl'.stage = "done"
        /\ told' <=> (told \/ ctl.req.effect = "configure")
    <3>1. ctl.stage = "status" /\ ctl'.stage = "done"
      BY <1>5, <1>8 DEF StatusIn, IsRecord
    <3>2. told' <=> (told \/ ctl.req.effect = "configure")
      BY <1>8, Zenon DEF StatusIn
    <3> QED BY <3>1, <3>2
  <2>2. CASE told \/ ctl.req.effect # "configure"
    <3>1. told' <=> told
      BY <2>1, <2>2
    <3> QED BY <1>1, <1>2, <1>3, <1>4, <2>1, <3>1 DEF DecodeInv, Untold
  <2>3. CASE ~ told /\ ctl.req.effect = "configure"
    <3>1. /\ write.left = 0 /\ owed = 0 /\ "out2" \notin irq
          /\ out2.actual_xfer_len = 0
      BY <1>3, <2>1, <2>3 DEF DecodeInv, Untold
    <3>2. 0 % MPS = 0
      BY PortSizes
    <3>3. Amid
      BY <3>1, <3>2 DEF Amid, Sent
    <3> QED BY <1>2, <1>3, <1>4, <2>1, <2>3, <3>1, <3>3 DEF DecodeInv
  <2> QED BY <2>1, <2>2, <2>3
<1> QED BY <1>6, <1>7, <1>8 DEF Host

LEMMA DecodeSend ==
  ASSUME DecodeInv, BulkOut, ~ mishap'
  PROVE  Arriving'
<1> DEFINE n == Smaller(write.left, MPS)
<1>1. /\ n \in 1 .. MPS /\ n <= write.left /\ (n < MPS => n = write.left)
      /\ rx2'.len = n
      /\ rx2'.head = IF write.left = write.len THEN write.size ELSE PAYLOAD
      /\ \/ n = write.left /\ write' = NothingToWrite
         \/ /\ n # write.left /\ n = MPS /\ write'.left = write.left - n
            /\ write'.len = write.len /\ write'.size = write.size
      /\ out2'.actual_xfer_len = out2.actual_xfer_len
  BY PacketSent DEF DecodeInv
<1>2. /\ "out2" \notin irq /\ write.left > 0
      /\ ~ mishap /\ ~ (write.left = n /\ write.len % MPS = 0)
      /\ owed' = IF write.left = n /\ write.len >= 2 + write.size THEN owed + 1 ELSE owed
      /\ head' = head
  BY DEF BulkOut
<1> HIDE DEF n
<1>3. Amid
  BY <1>2 DEF DecodeInv, Untold
<1>4. /\ write.len \in Nat /\ write.left \in 0 .. write.len /\ MPS \in Nat \ {0}
      /\ out2.actual_xfer_len \in Nat
  BY PortSizes DEF DecodeInv, PortInv
<1>5. Sent = write.len - write.left /\ Sent \in Nat /\ owed = 0
      /\ Sent = out2.actual_xfer_len /\ Sent % MPS = 0
  BY <1>2, <1>3, <1>4 DEF Sent, Amid
<1>6. Size' = write.size
  <2>1. CASE Sent = 0
    BY <1>1, <1>4, <1>5, <2>1 DEF Size
  <2>2. CASE Sent # 0
    BY <1>1, <1>2, <1>3, <1>5, <2>2 DEF Size, Amid
  <2> QED BY <2>1, <2>2
<1>7. CASE n = write.left
  <2>1. Sent' = 0
    BY <1>1, <1>7 DEF Sent, NothingToWrite
  <2>2. n # MPS
    <3>1. SUFFICES ASSUME n = MPS PROVE write.len % MPS = 0
      BY <1>2, <1>7
    <3>2. write.len = Sent + MPS
      BY <1>4, <1>5, <1>7, <3>1
    <3> QED BY <1>4, <1>5, <3>2, Multiples
  <2>3. out2'.actual_xfer_len + n = write.len
    BY <1>1, <1>4, <1>5, <1>7
  <2>4. owed' = IF write.len >= 2 + write.size THEN 1 ELSE 0
    BY <1>2, <1>5, <1>7
  <2>5. owed' \in {0, 1} /\ (owed' = 1 => out2'.actual_xfer_len + rx2'.len >= 2 + Size')
    BY <1>1, <1>6, <2>3, <2>4
  <2>6. rx2'.len < MPS
    BY <1>1, <1>4, <2>2
  <2> QED BY <2>1, <2>5, <2>6 DEF Arriving
<1>8. CASE n # write.left
  <2>1. Sent' = Sent + MPS
    BY <1>1, <1>2, <1>4, <1>5, <1>8 DEF Sent
  <2>2. Sent' % MPS = 0
    BY <1>4, <1>5, <2>1, Multiples
  <2>3. owed' = 0
    BY <1>2, <1>5, <1>8
  <2> QED BY <1>1, <1>5, <1>6, <1>8, <2>1, <2>2, <2>3 DEF Arriving
<1> QED BY <1>7, <1>8

LEMMA DecodeOther ==
  DecodeInv /\ (BusReset \/ HostWrite \/ BulkOut \/ UNCHANGED vars) => DecodeInv'
<1> SUFFICES ASSUME DecodeInv, BusReset \/ HostWrite \/ BulkOut \/ UNCHANGED vars
             PROVE  DecodeInv'
  OBVIOUS
<1>1. ListenInv' /\ PortInv'
  BY ListenOther, PortOther, PortWrite DEF DecodeInv
<1>2. CASE BusReset
  <2>1. /\ ~ told' /\ ctl'.stage = "idle" /\ "rend" \in irq' /\ owed' = 0
        /\ write' = [left |-> 0, len |-> 0, size |-> 0]
    BY <1>2 DEF BusReset, NothingToWrite
  <2> QED BY <1>1, <2>1 DEF DecodeInv, Untold, IsRecord
<1>3. CASE HostWrite
  <2>1. PICK c \in Commands : write' = [left |-> c[1], len |-> c[1], size |-> c[2]]
    BY <1>3 DEF HostWrite
  <2>2. /\ told /\ write.left = 0
        /\ UNCHANGED <<irq, out2, rx2, head, owed, mishap, told>>
    BY <1>3 DEF HostWrite
  <2>3. c[1] \in Nat /\ MPS \in Nat \ {0} /\ out2.actual_xfer_len \in Nat
    BY PortSizes DEF DecodeInv, PortInv
  <2>4. Sent = 0 /\ Sent' = 0 /\ Size' = Size
    BY <2>1, <2>2, <2>3 DEF Sent, Size
  <2>5. (Arriving => Arriving') /\ (Amid => Amid')
    BY <2>2, <2>3, <2>4 DEF Arriving, Amid
  <2> QED BY <1>1, <2>1, <2>2, <2>5 DEF DecodeInv, IsRecord
<1>4. CASE BulkOut
  <2>1. told' = told /\ write.left > 0 /\ "out2" \in irq'
    BY <1>4 DEF BulkOut
  <2>2. told
    BY <2>1 DEF DecodeInv, Untold
  <2>3. IsRecord(write', {"left", "len", "size"})
    BY <1>4, PortWrite DEF DecodeInv
  <2> QED BY <1>1, <1>4, <2>1, <2>2, <2>3, DecodeSend DEF DecodeInv
<1>5. CASE UNCHANGED vars
  <2>1. UNCHANGED <<irq, out2, rx2, head, owed, mishap, write, ctl, told>>
    BY <1>5 DEF vars, bulk
  <2>2. (Arriving => Arriving') /\ (Amid => Amid') /\ (Untold => Untold')
    BY <2>1, StreamKept DEF Untold
  <2> QED BY <1>1, <2>1, <2>2 DEF DecodeInv
<1> QED BY <1>2, <1>3, <1>4, <1>5

(* Every command the host wrote in full has been given to cmd_decode when  *)
(* its last packet is served, whatever its length in packets, and with     *)
(* requests, halts and bus resets in between.                              *)
THEOREM CommandsReachDecoder == Spec => []CommandsDecoded
<1>1. DecodeInv /\ [Next]_vars => DecodeInv'
  BY DecodeHandler, DecodeHost, DecodeOther DEF Next
<1>2. DecodeInv => CommandsDecoded
  BY DEF DecodeInv, CommandsDecoded, Untold, Amid, ListenInv
<1> QED BY <1>1, <1>2, DecodeInit, PTL DEF Spec

-------------------------------------------------------------------------------
(* Types.  What the host has got never exceeds its wLength, which takes    *)
(* the account of the answers.                                             *)
BitsOK ==
  /\ irq \subseteq Ep0Bits \cup {"out2", "reset", "rend"} /\ reset_en \in BOOLEAN
  /\ told \in BOOLEAN /\ mishap \in BOOLEAN /\ late \in BOOLEAN
  /\ abandons \in 0 .. ABANDONS
  /\ ctl.stage \in {"idle", "data", "status", "done", "stalled"}
Ep0OK  == ep0 \in [rdy : BOOLEAN, stall : BOOLEAN, tx : 0 .. MPS, rx : 0 .. MPS]
CoreOK == /\ core.setup \in Requests /\ core.residue \in 0 .. WORD - 1
          /\ core.zlp_flag \in BOOLEAN /\ core.configuration \in {0, 1}
TransfersOK == in0 \in TransferRecord /\ out0 \in TransferRecord
GotOK  == ctl.got \in 0 .. ctl.req.wLength

TypeInv ==
  /\ AnswerInv /\ AckInv /\ PortInv /\ IsRecord(write, {"left", "len", "size"})
  /\ BitsOK /\ Ep0OK /\ CoreOK /\ TransfersOK /\ GotOK

LEMMA Words == \A x \in Int : x % WORD \in 0 .. WORD - 1
BY WordSize

LEMMA SmallerIs ==
  ASSUME NEW a \in Nat, NEW b \in Nat
  PROVE  Smaller(a, b) \in Nat /\ Smaller(a, b) <= a /\ Smaller(a, b) <= b
BY DEF Smaller

LEMMA Bounded == ABANDONS \in Nat /\ 0 \in 0 .. MPS /\ 0 \in 0 .. WORD - 1
<1>1. ABANDONS \in Nat
  BY SizeAssumption, Zenon
<1> QED BY <1>1, Sizes, WordSize

LEMMA TypeInit == Init => TypeInv
<1> SUFFICES ASSUME Init PROVE TypeInv
  OBVIOUS
<1>1. AnswerInv /\ AckInv /\ PortInv /\ IsRecord(write, {"left", "len", "size"})
  BY AnswerInit, AckInit, DecodeInit DEF DecodeInv
<1>2. BitsOK
  <2>1. /\ irq = {} /\ reset_en = TRUE /\ told = FALSE /\ mishap = FALSE /\ late = FALSE
        /\ abandons = 0 /\ ctl.stage = "idle"
    BY DEF Init
  <2>2. abandons \in 0 .. ABANDONS
    BY <2>1, Bounded
  <2> QED BY <2>1, <2>2 DEF BitsOK
<1>3. Ep0OK /\ TransfersOK
  BY Sizes DEF Init, Ep0OK, TransfersOK, TransferRecord
<1>4. CoreOK
  <2>1. Unconfigured.setup \in Requests
    BY DEF Requests, Unconfigured
  <2> QED BY <2>1, WordSize DEF Init, CoreOK, Unconfigured
<1>5. GotOK
  BY DEF Init, GotOK, Unconfigured, Request
<1> QED BY <1>1, <1>2, <1>3, <1>4, <1>5 DEF TypeInv

(* The driver's calls leave endpoint 0 and its transfers of their types. *)
LEMMA CallsTyped ==
  /\ Ready => Ep0OK'
  /\ Stalled => Ep0OK'
  /\ \A n \in Nat : StartWrite(n) => Ep0OK' /\ in0' \in TransferRecord
  /\ \A n \in Nat : StartRead(n) => Ep0OK' /\ out0' \in TransferRecord
<1>1. MPS \in Nat \ {0} /\ \A n \in Nat : Smaller(n, MPS) \in 0 .. MPS
  BY Sizes DEF Smaller
<1>2. (Ready => Ep0OK') /\ (Stalled => Ep0OK')
  <2>1. [rdy |-> TRUE, stall |-> FALSE, tx |-> 0, rx |-> 0]
          \in [rdy : BOOLEAN, stall : BOOLEAN, tx : 0 .. MPS, rx : 0 .. MPS]
    BY Bounded
  <2>2. [rdy |-> TRUE, stall |-> TRUE, tx |-> 0, rx |-> 0]
          \in [rdy : BOOLEAN, stall : BOOLEAN, tx : 0 .. MPS, rx : 0 .. MPS]
    BY Bounded
  <2> QED BY <2>1, <2>2 DEF Ready, Stalled, Ep0OK
<1>3. \A n \in Nat : StartWrite(n) => Ep0OK' /\ in0' \in TransferRecord
  BY <1>1 DEF StartWrite, Ep0OK, TransferRecord
<1>4. \A n \in Nat : StartRead(n) => Ep0OK' /\ out0' \in TransferRecord
  BY <1>2 DEF StartRead, TransferRecord
<1> QED BY <1>2, <1>3, <1>4

LEMMA CallsSetup ==
  ASSUME TypeInv, SetupDone
  PROVE  Ep0OK' /\ TransfersOK' /\ CoreOK'
<1> DEFINE req == ctl.req
           n == Smaller(req.len, req.wLength)
<1>1. /\ req \in Requests /\ req.len \in Nat /\ req.wLength \in 0 .. WORD - 1
      /\ IsRecord(core, {"setup", "residue", "zlp_flag", "configuration"})
  BY RequestFacts, WordSize DEF TypeInv, AckInv, ListenInv, Asked, Records
<1>2. n \in 0 .. WORD - 1 /\ n \in Nat /\ req.wLength \in Nat
  <2>1. req.wLength \in Nat /\ req.wLength < WORD
    BY <1>1, WordSize
  <2>2. n \in Nat /\ n <= req.wLength
    BY <1>1, <2>1, SmallerIs
  <2> HIDE DEF n
  <2> QED BY <2>1, <2>2, WordSize
<1>3. \/ /\ Stalled /\ UNCHANGED <<in0, out0>>
         /\ \/ core' = [core EXCEPT !.setup = req]
            \/ core' = [core EXCEPT !.setup = req, !.residue = req.wLength,
                                    !.zlp_flag = FALSE]
      \/ /\ StartRead(req.wLength) /\ in0' = in0
         /\ core' = [core EXCEPT !.setup = req, !.residue = req.wLength,
                                 !.zlp_flag = FALSE]
      \/ CarryOut(req) /\ StartWrite(n) /\ out0' = out0
      \/ /\ UNCHANGED <<ep0, in0, out0>>
         /\ core' = [core EXCEPT !.setup = req, !.residue = n, !.zlp_flag = FALSE]
  BY Zenon DEF SetupDone
<1>4. Ep0OK' /\ TransfersOK'
  BY <1>2, <1>3, CallsTyped DEF TypeInv, TransfersOK, Ep0OK
<1>5. CoreOK'
  <2>1. CASE core' = [core EXCEPT !.setup = req]
    BY <1>1, <2>1 DEF TypeInv, CoreOK, IsRecord
  <2>2. CASE core' = [core EXCEPT !.setup = req, !.residue = req.wLength,
                                  !.zlp_flag = FALSE]
    BY <1>1, <2>2 DEF TypeInv, CoreOK, IsRecord
  <2>3. CASE CarryOut(req)
    <3>1. core' = [core EXCEPT !.setup = req, !.residue = n,
                     !.zlp_flag = req.wLength > req.len /\ req.len % MPS = 0,
                     !.configuration = IF req.effect = "configure" THEN 1 ELSE @]
      BY <2>3 DEF CarryOut
    <3> DEFINE zlp == req.wLength > req.len /\ req.len % MPS = 0
               conf == IF req.effect = "configure" THEN 1 ELSE core.configuration
    <3>2. zlp \in BOOLEAN /\ conf \in {0, 1}
      BY DEF TypeInv, CoreOK
    <3>3. core' = [core EXCEPT !.setup = req, !.residue = n, !.zlp_flag = zlp,
                               !.configuration = conf]
      BY <1>1, <3>1 DEF IsRecord
    <3> HIDE DEF zlp, conf, n, req
    <3>4. /\ core'.setup = req /\ core'.residue = n /\ core'.zlp_flag = zlp
          /\ core'.configuration = conf
      BY <1>1, <3>3 DEF IsRecord
    <3> QED BY <1>1, <1>2, <3>2, <3>4 DEF CoreOK
  <2>4. CASE core' = [core EXCEPT !.setup = req, !.residue = n, !.zlp_flag = FALSE]
    <3> HIDE DEF n, req
    <3>1. /\ core'.setup = req /\ core'.residue = n /\ core'.zlp_flag = FALSE
          /\ core'.configuration = core.configuration
      BY <1>1, <2>4 DEF IsRecord
    <3> QED BY <1>1, <1>2, <3>1 DEF TypeInv, CoreOK
  <2> QED BY <1>3, <2>1, <2>2, <2>3, <2>4
<1> QED BY <1>4, <1>5

LEMMA CallsIn ==
  ASSUME TypeInv, InDone
  PROVE  Ep0OK' /\ TransfersOK' /\ CoreOK'
<1> DEFINE tx_count == Smaller(in0.xfer_len, MPS)
           in == [xfer_len |-> in0.xfer_len - tx_count,
                  actual_xfer_len |-> in0.actual_xfer_len + tx_count]
           residue == (core.residue - in.actual_xfer_len) % WORD
<1>1. InComplete(residue, in)
  BY DEF InDone
<1>2. in0.xfer_len \in Nat /\ in0.actual_xfer_len \in Nat /\ MPS \in Nat
  BY Sizes DEF TypeInv, TransfersOK, TransferRecord
<1>3. tx_count \in Nat /\ tx_count <= in0.xfer_len
  BY <1>2, SmallerIs
<1>4. in \in TransferRecord
  BY <1>2, <1>3 DEF TransferRecord
<1>5. residue \in 0 .. WORD - 1 /\ residue \in Nat
  <2>1. core.residue - in.actual_xfer_len \in Int
    BY <1>4, WordSize DEF TypeInv, CoreOK, TransferRecord
  <2>2. residue \in 0 .. WORD - 1
    BY <2>1, Words
  <2> QED BY <2>2, WordSize
<1> HIDE DEF in, residue
<1>6. IsRecord(core, {"setup", "residue", "zlp_flag", "configuration"})
  BY DEF TypeInv, AnswerInv
<1>7. \/ StartWrite(residue) /\ out0' = out0
      \/ StartWrite(0) /\ out0' = out0
      \/ in0' = in /\ (StartRead(0) \/ (Ready /\ out0' = out0))
  BY <1>1 DEF InComplete
<1>8. \/ core' = [core EXCEPT !.residue = residue]
      \/ core' = [core EXCEPT !.residue = 0, !.zlp_flag = FALSE]
      \/ core' = [core EXCEPT !.residue = 0]
  BY <1>1 DEF InComplete
<1>9. Ep0OK' /\ TransfersOK'
  BY <1>4, <1>5, <1>7, CallsTyped DEF TypeInv, TransfersOK
<1>10. CoreOK'
  <2>1. /\ core'.setup = core.setup /\ core'.configuration = core.configuration
        /\ core'.residue \in {residue, 0} /\ core'.zlp_flag \in {core.zlp_flag, FALSE}
    BY <1>6, <1>8 DEF IsRecord
  <2> QED BY <1>5, <2>1, Bounded DEF TypeInv, CoreOK
<1> QED BY <1>9, <1>10

LEMMA CallsOut ==
  ASSUME TypeInv, OutDone
  PROVE  Ep0OK' /\ TransfersOK' /\ CoreOK'
<1> DEFINE out == [xfer_len |-> (out0.xfer_len - ep0.rx) % WORD,
                   actual_xfer_len |-> out0.actual_xfer_len + ep0.rx]
           residue == (core.residue - out.actual_xfer_len) % WORD
<1>1. out0.xfer_len \in Nat /\ out0.actual_xfer_len \in Nat /\ ep0.rx \in Nat
  BY DEF TypeInv, TransfersOK, TransferRecord, Ep0OK
<1>2. out \in TransferRecord
  <2>1. (out0.xfer_len - ep0.rx) % WORD \in 0 .. WORD - 1
    BY <1>1, Words
  <2>2. (out0.xfer_len - ep0.rx) % WORD \in Nat
    BY <2>1, WordSize
  <2> QED BY <1>1, <2>2 DEF TransferRecord
<1>3. residue \in 0 .. WORD - 1 /\ residue \in Nat
  <2>1. core.residue - out.actual_xfer_len \in Int
    BY <1>2, WordSize DEF TypeInv, CoreOK, TransferRecord
  <2>2. residue \in 0 .. WORD - 1
    BY <2>1, Words
  <2> QED BY <2>2, WordSize
<1>4. \/ Ready /\ out0' = out /\ UNCHANGED <<in0, core>>
      \/ StartRead(residue) /\ core' = [core EXCEPT !.residue = residue] /\ in0' = in0
      \/ /\ out0' = out /\ core' = [core EXCEPT !.residue = 0]
         /\ \/ Stalled /\ in0' = in0
            \/ StartWrite(0)
  BY DEF OutDone
<1> HIDE DEF out, residue
<1>5. IsRecord(core, {"setup", "residue", "zlp_flag", "configuration"})
  BY DEF TypeInv, AnswerInv
<1>6. Ep0OK' /\ TransfersOK'
  BY <1>2, <1>3, <1>4, CallsTyped DEF TypeInv, TransfersOK
<1>7. CoreOK'
  <2>1. \/ core' = core
        \/ core' = [core EXCEPT !.residue = residue]
        \/ core' = [core EXCEPT !.residue = 0]
    BY <1>4
  <2> QED BY <1>3, <1>5, <2>1, WordSize DEF TypeInv, CoreOK, IsRecord
<1> QED BY <1>6, <1>7

LEMMA TypeHandler == TypeInv /\ Handler => TypeInv'
<1> SUFFICES ASSUME TypeInv, Handler PROVE TypeInv'
  OBVIOUS
<1>1. UNCHANGED <<ctl, told, write, abandons>>
  BY DEF Handler, SetupDone, InDone, OutDone, BulkOutDone, Reset, Rend, bulk
<1>2. AnswerInv' /\ AckInv' /\ PortInv' /\ IsRecord(write', {"left", "len", "size"})
  BY <1>1, AnswerHandler, AckHandler, PortHandler DEF TypeInv, AnswerInv
<1>3. irq' \subseteq irq /\ reset_en' \in {reset_en, FALSE}
  BY DEF Handler, SetupDone, InDone, OutDone, BulkOutDone, Reset, Rend
<1>4. mishap' \in BOOLEAN
  <2>1. CASE SetupDone
    BY <2>1 DEF SetupDone, CarryOut, NothingDone, TypeInv, BitsOK
  <2>2. CASE ~ SetupDone
    <3>1. mishap' = mishap
      BY <2>2 DEF Handler, InDone, OutDone, BulkOutDone, Reset, Rend, bulk
    <3> QED BY <3>1 DEF TypeInv, BitsOK
  <2> QED BY <2>1, <2>2
<1>5. late' \in BOOLEAN
  BY DEF Handler, SetupDone, InDone, OutDone, BulkOutDone, Reset, Rend, bulk, TypeInv, BitsOK
<1>6. BitsOK' /\ GotOK'
  BY <1>1, <1>3, <1>4, <1>5 DEF TypeInv, BitsOK, GotOK
<1>7. Ep0OK' /\ TransfersOK' /\ CoreOK'
  <2>1. CASE BulkOutDone
    BY <2>1 DEF BulkOutDone, device, TypeInv, Ep0OK, TransfersOK, CoreOK
  <2>2. CASE Rend
    BY <2>2, CallsTyped DEF Rend, device, TypeInv, TransfersOK, CoreOK
  <2>3. CASE Reset
    <3>1. /\ in0' = [xfer_len |-> 0, actual_xfer_len |-> 0] /\ out0' = in0'
          /\ core' = [core EXCEPT !.configuration = 0] /\ ep0' = ep0
      BY <2>3 DEF Reset
    <3>2. CoreOK'
      BY <3>1 DEF TypeInv, AnswerInv, CoreOK, IsRecord
    <3> QED BY <3>1, <3>2 DEF TypeInv, Ep0OK, TransfersOK, TransferRecord
  <2> QED BY <2>1, <2>2, <2>3, CallsSetup, CallsIn, CallsOut DEF Handler
<1> QED BY <1>2, <1>6, <1>7 DEF TypeInv

LEMMA TypeHost == TypeInv /\ Host => TypeInv'
<1> SUFFICES ASSUME TypeInv, Host PROVE TypeInv'
  OBVIOUS
<1>1. /\ UNCHANGED <<core, in0, out0, reset_en, mishap, late, write>>
      /\ irq' \subseteq irq \cup Ep0Bits
  BY DEF Host, Setup, TakeIn, StatusOut, SendOut, StatusIn, StalledSeen, HostStep, device,
         bulk, Ep0Bits
<1>2. AnswerInv' /\ AckInv' /\ PortInv' /\ IsRecord(write', {"left", "len", "size"})
  BY <1>1, AnswerHost, AckHost, PortOther DEF TypeInv, AnswerInv
<1>3. CoreOK' /\ TransfersOK'
  BY <1>1 DEF TypeInv, CoreOK, TransfersOK
<1>4. /\ IsRecord(ctl, {"stage", "req", "got"}) /\ IsRecord(ep0, {"rdy", "stall", "tx", "rx"})
      /\ ctl.req \in Requests /\ ctl.req.wLength \in Nat /\ MPS \in Nat \ {0}
      /\ ctl.got \in 0 .. ctl.req.wLength
  BY RequestFacts, Sizes DEF TypeInv, AckInv, ListenInv, Asked, Records, GotOK
<1>5. CASE Setup
  <2>1. PICK req \in Requests :
          ctl' = [stage |-> IF req.wLength > 0 THEN "data" ELSE "status",
                  req |-> req, got |-> 0]
    BY <1>5 DEF Setup
  <2>2. /\ ep0' = [ep0 EXCEPT !.rdy = FALSE] /\ told' = told
        /\ ctl.stage \in {"data", "status"} => abandons < ABANDONS
        /\ abandons' = IF ctl.stage \in {"data", "status"} THEN abandons + 1 ELSE abandons
    BY <1>5 DEF Setup
  <2>3. Ep0OK'
    BY <2>2 DEF TypeInv, Ep0OK
  <2>4. abandons' \in 0 .. ABANDONS
    BY <2>2, Bounded DEF TypeInv, BitsOK
  <2>5. GotOK' /\ ctl'.stage \in {"data", "status"}
    BY <2>1, RequestFacts DEF GotOK
  <2> QED BY <1>1, <1>2, <1>3, <2>2, <2>3, <2>4, <2>5 DEF TypeInv, BitsOK
<1>6. CASE TakeIn
  <2>1. ep0' = [ep0 EXCEPT !.rdy = FALSE] /\ UNCHANGED <<told, abandons>> /\ ctl.stage = "data"
    BY <1>6 DEF TakeIn, HostStep
  <2>2. Ep0OK'
    BY <2>1 DEF TypeInv, Ep0OK
  <2>3. /\ ctl'.got = ctl.got + ep0.tx /\ ctl'.req = ctl.req
        /\ ctl'.stage \in {"data", "status"}
    BY <1>4, <1>6, <2>1 DEF TakeIn, IsRecord
  <2>4. Prepared
    <3>1. /\ ctl.req.dir = "in" /\ irq \cap {"setup", "in", "out"} = {}
          /\ ep0.rdy /\ ~ ep0.stall
      BY <1>6 DEF TakeIn, HostStep, Listens, Ep0Bits
    <3> QED BY <2>1, <3>1 DEF TypeInv, AnswerInv, Reading
  <2>5. GotOK'
    <3>1. Wanted \in Nat /\ Wanted <= ctl.req.wLength
      BY WantedSize DEF TypeInv, AnswerInv, ListenInv
    <3>2. core.residue \in Nat /\ ctl.got + core.residue = Wanted + 0
          /\ ep0.tx = Smaller(core.residue, MPS)
      BY <2>4 DEF Prepared, Holds
    <3>3. ep0.tx \in Nat /\ ep0.tx <= core.residue
      BY <1>4, <3>2, SmallerIs
    <3> QED BY <1>4, <2>3, <3>1, <3>2, <3>3 DEF GotOK
  <2> QED BY <1>1, <1>2, <1>3, <2>1, <2>2, <2>3, <2>5 DEF TypeInv, BitsOK
<1>7. CASE SendOut
  <2> DEFINE n == Smaller(ctl.req.wLength - ctl.got, MPS)
  <2>1. UNCHANGED <<told, abandons>> /\ ctl.stage = "data"
    BY <1>7 DEF SendOut, HostStep
  <2>2. n \in 0 .. MPS /\ n <= ctl.req.wLength - ctl.got
    BY <1>4 DEF Smaller
  <2>3. ctl'.got = ctl.got + n /\ ctl'.req = ctl.req /\ ctl'.stage \in {"data", "status"}
    BY <1>4, <1>7, <2>1 DEF SendOut, IsRecord
  <2>4. ep0' = [ep0 EXCEPT !.rdy = FALSE, !.rx = n]
    BY <1>7 DEF SendOut
  <2> HIDE DEF n
  <2>5. Ep0OK'
    BY <2>2, <2>4 DEF TypeInv, Ep0OK
  <2>6. GotOK'
    BY <1>4, <2>2, <2>3 DEF GotOK
  <2> QED BY <1>1, <1>2, <1>3, <2>1, <2>3, <2>5, <2>6 DEF TypeInv, BitsOK
<1>8. CASE StatusOut \/ StatusIn
  <2>1. \/ ep0' = [ep0 EXCEPT !.rdy = FALSE, !.rx = 0]
        \/ ep0' = [ep0 EXCEPT !.rdy = FALSE]
    BY <1>8 DEF StatusOut, StatusIn
  <2>2. Ep0OK'
    BY <2>1, Bounded DEF TypeInv, Ep0OK
  <2>3. ctl' = [ctl EXCEPT !.stage = "done"] /\ abandons' = abandons
    BY <1>8 DEF StatusOut, StatusIn, HostStep
  <2>4. ctl'.stage = "done" /\ ctl'.req = ctl.req /\ ctl'.got = ctl.got
    BY <1>4, <2>3 DEF IsRecord
  <2>5. told' \in BOOLEAN
    BY <1>8, Zenon DEF StatusOut, StatusIn, TypeInv, BitsOK
  <2> QED BY <1>1, <1>2, <1>3, <2>2, <2>3, <2>4, <2>5 DEF TypeInv, BitsOK, GotOK
<1>9. CASE StalledSeen
  <2>1. /\ ctl' = [ctl EXCEPT !.stage = "stalled", !.got = 0]
        /\ UNCHANGED <<told, abandons, ep0>>
    BY <1>9 DEF StalledSeen
  <2>2. ctl'.stage = "stalled" /\ ctl'.req = ctl.req /\ ctl'.got = 0
    BY <1>4, <2>1 DEF IsRecord
  <2>3. GotOK'
    BY <1>4, <2>2 DEF GotOK
  <2> QED BY <1>1, <1>2, <1>3, <2>1, <2>2, <2>3 DEF TypeInv, BitsOK, Ep0OK
<1> QED BY <1>5, <1>6, <1>7, <1>8, <1>9 DEF Host

LEMMA TypeOther ==
  TypeInv /\ (BusReset \/ HostWrite \/ BulkOut \/ UNCHANGED vars) => TypeInv'
<1> SUFFICES ASSUME TypeInv, BusReset \/ HostWrite \/ BulkOut \/ UNCHANGED vars
             PROVE  TypeInv'
  OBVIOUS
<1>1. AnswerInv' /\ AckInv' /\ PortInv'
  BY AnswerOther, AckOther, PortOther, PortWrite DEF TypeInv, AnswerInv
<1>2. /\ UNCHANGED <<core, in0, out0, reset_en, late>>
      /\ irq' \subseteq irq \cup {"out2", "reset", "rend"}
  BY DEF BusReset, HostWrite, BulkOut, vars, device, bulk
<1>3. CoreOK' /\ TransfersOK'
  BY <1>2 DEF TypeInv, CoreOK, TransfersOK
<1>4. CASE BusReset
  <2>1. /\ ctl' = [stage |-> "idle", req |-> Unconfigured.setup, got |-> 0]
        /\ write' = NothingToWrite /\ told' = FALSE /\ mishap' = FALSE
        /\ abandons' = IF ctl.stage # "idle" /\ abandons < ABANDONS THEN abandons + 1
                       ELSE abandons
    BY <1>4 DEF BusReset
  <2>2. abandons' \in 0 .. ABANDONS
    BY <2>1, Bounded DEF TypeInv, BitsOK
  <2>3. PICK rdy : ep0' = [ep0 EXCEPT !.rdy = rdy] /\ rdy \in BOOLEAN
    BY <1>4 DEF BusReset
  <2>4. Ep0OK'
    BY <2>3 DEF TypeInv, Ep0OK
  <2>5. GotOK' /\ ctl'.stage = "idle"
    BY <2>1 DEF GotOK, Unconfigured, Request
  <2>6. IsRecord(write', {"left", "len", "size"})
    BY <2>1 DEF NothingToWrite, IsRecord
  <2> QED BY <1>1, <1>2, <1>3, <2>1, <2>2, <2>4, <2>5, <2>6 DEF TypeInv, BitsOK
<1>5. CASE HostWrite \/ BulkOut
  <2>1. UNCHANGED <<ctl, ep0, told, abandons>>
    BY <1>5 DEF HostWrite, BulkOut
  <2>2. IsRecord(write', {"left", "len", "size"})
    BY <1>5, PortWrite DEF TypeInv, AnswerInv
  <2>3. mishap' \in BOOLEAN
    BY <1>5, Zenon DEF HostWrite, BulkOut, TypeInv, BitsOK
  <2> QED BY <1>1, <1>2, <1>3, <2>1, <2>2, <2>3 DEF TypeInv, BitsOK, GotOK, Ep0OK
<1>6. CASE UNCHANGED vars
  <2>1. UNCHANGED <<irq, reset_en, ep0, write, mishap, late, ctl, told, abandons>>
    BY <1>6 DEF vars, bulk
  <2> QED BY <1>1, <1>3, <2>1 DEF TypeInv, BitsOK, GotOK, Ep0OK
<1> QED BY <1>4, <1>5, <1>6

(* Nothing the host asks for, gives up or writes overruns the buffer of    *)
(* the bulk OUT transfer, or gives the host more than it asked for.        *)
THEOREM TypeCorrect == Spec => []TypeOK
<1>1. TypeInv /\ [Next]_vars => TypeInv'
  BY TypeHandler, TypeHost, TypeOther DEF Next
<1>2. TypeInv => TypeOK
  BY DEF TypeInv, TypeOK, BitsOK, Ep0OK, CoreOK, TransfersOK, GotOK, PortInv, AckInv,
         ListenInv, Asked
<1> QED BY <1>1, <1>2, TypeInit, PTL DEF Spec
================================================================================
