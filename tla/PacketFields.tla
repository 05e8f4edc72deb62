----------------------------- MODULE PacketFields -----------------------------
(***************************************************************************)
(* What the server's Client::Parser and the C++ library's Client::Details  *)
(* have in common: an InputBuffer, the step they are at, and fields for    *)
(* the parts of the packet that they are reading.                          *)
(***************************************************************************)
EXTENDS InputBuffer, Packets

VARIABLES
  phase,          \* where the thread is: waiting for recv, or in the loop of steps
  step,           \* the part that is read next
  opcode,
  name_length,
  payload_length,
  name,
  payload

=============================================================================
