-------------------------- MODULE MCSteeringControl --------------------------
(***************************************************************************)
(* Instances of SteeringControl for TLC: what the clients may send, and    *)
(* the IOType that the application has registered.                         *)
(***************************************************************************)
EXTENDS SteeringControl

Cmd(c, a) == [c |-> c, a |-> a]
Msg(after, cmds, edits) == [after |-> after, cmds |-> cmds, edits |-> edits]

Pause  == Msg(0, <<Cmd("PAUSE", NoArg)>>, << >>)
Resume == Msg(0, <<Cmd("RESUME", NoArg)>>, << >>)
Stop   == Msg(0, <<Cmd("STOP", NoArg)>>, << >>)
Detach == Msg(0, <<Cmd("DETACH", NoArg), Cmd("chk", "OUT")>>, << >>)
Sample == Msg(0, <<Cmd("io", "IN"), Cmd("chk", "OUT")>>, <<"p">>)
Edit   == Msg(0, << >>, <<"q", "SEQUENCE_NUM">>)
Mixed  == Msg(0, <<Cmd("chk", "OUT"), Cmd("PAUSE", NoArg), Cmd("io", "IN")>>, <<"p">>)
Again  == Msg(0, <<Cmd("RESUME", NoArg), Cmd("LOG", "0"), Cmd("chk", "IN tag"),
                   Cmd("PAUSE", NoArg)>>, << >>)
Logged == Msg(0, <<Cmd("LOG", "0"), Cmd("chk", "IN tag")>>, << >>)
Full   == Msg(0, <<Cmd("io", "IN"), Cmd("io", "OUT"), Cmd("chk", "OUT")>>, << >>)
Later(t)      == Msg(t, << >>, <<"p">>)
LaterPause(t) == Msg(t, <<Cmd("PAUSE", NoArg)>>, << >>)

\* Nothing waits for a later time.
Immediate == {Pause, Resume, Stop, Detach, Sample, Edit, Mixed, Again}

\* One message of every kind, and two that wait.
Deferring == {Sample, Later(2), Later(4)}
DeferringPause == {Sample, LaterPause(2)}
Filling == {Sample, Full}
\* For an application that implements the pause, to which PAUSE and RESUME are
\* commands like others.
External == {Stop, Mixed, Logged} \cup Deferring

OneIO == <<[handle |-> "io", freq |-> 2, arg |-> "OUT"]>>
NoIO  == << >>
OneInternal == {"SEQUENCE_NUM"}
=============================================================================
