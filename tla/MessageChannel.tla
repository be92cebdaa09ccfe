--------------------------- MODULE MessageChannel ---------------------------
(***************************************************************************)
(* What an application and a steering client expect of the link between    *)
(* them, whatever carries it: messages numbered 1, 2, ... in the order in  *)
(* which they are sent are read one at a time, each exactly once and in    *)
(* that order.  Get_control_msg and Get_status_msg promise their callers   *)
(* the next message; MessageFiles is the implementation with files.        *)
(***************************************************************************)
EXTENDS Naturals, Sequences

VARIABLES sent,      \* how many messages have been handed to the channel
          received   \* the messages read so far, in the order of reading

chanVars == <<sent, received>>

Init == sent = 0 /\ received = << >>

Send == sent' = sent + 1 /\ UNCHANGED received

Deliver == /\ Len(received) < sent
           /\ received' = Append(received, Len(received) + 1)
           /\ UNCHANGED sent

Next == Send \/ Deliver

Spec == Init /\ [][Next]_chanVars
=============================================================================
