------------------------------ MODULE MCUsbDevice -------------------------------
(* Requests and commands for model checking UsbDevice. *)
EXTENDS UsbDevice

(* Descriptors and answers shorter than, as long as and longer than what   *)
(* is asked for, over one packet and whole packets, and an empty one; one  *)
(* longer than the request buffer, which the core drops.                   *)
MCAsks ==
  {<<75, 255, "aligned">>, <<75, 9, "misaligned">>, <<64, 255, "aligned">>,
   <<0, 64, "aligned">>, <<300, 512, "misaligned">>}

(* SET_LINE_CODING, something unknown in two packets and something too long. *)
MCPuts == {<<7, "line coding">>, <<100, "unknown">>, <<300, "unknown">>}

(* Two packets, and a whole packet. *)
MCCommands == {<<70, 68>>, <<64, 62>>}
===============================================================================
