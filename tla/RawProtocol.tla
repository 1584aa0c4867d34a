---------------------------- MODULE RawProtocol ----------------------------
(***************************************************************************)
(* What a host that drives the raw REPL relies on: after the prompt it     *)
(* sends a command, and then sees "OK", the output, an end mark, the       *)
(* exception if any, a second end mark and the next prompt, in this order; *)
(* or "OK" and a reboot.                                                   *)
(***************************************************************************)
VARIABLE seen       \* what the host has seen last

ProtocolInit == seen = "nothing"

Goes(from, to) == seen = from /\ seen' = to

ProtocolNext ==
    \/ Goes("nothing", "prompt") \/ Goes("prompt", "nothing")
    \/ Goes("prompt", "OK")
    \/ Goes("OK", "output_end") \/ Goes("output_end", "exception")
    \/ Goes("exception", "end") \/ Goes("output_end", "end")
    \/ Goes("end", "prompt")
    \/ Goes("OK", "nothing")

ProtocolSpec == ProtocolInit /\ [][ProtocolNext]_seen
=============================================================================
