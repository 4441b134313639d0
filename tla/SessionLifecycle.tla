-------------------------- MODULE SessionLifecycle --------------------------
(* What a session worker promises the page, whatever the sockets, the relay,
   the remote device and the user do: a connection is opened once, it may have
   to wait for the remote user, it may go live, and it ends.  The page hears
   of each step by a state event; once it has heard that the session is over,
   it hears of nothing else but that. *)
VARIABLES
    phase,  \* what the worker is doing
    told    \* the last thing the page was told

lifecycleVars == <<phase, told>>

Phases == {"idle", "opening", "waiting", "live", "over"}

Init == phase = "idle" /\ told = "idle"

\* A phase is entered and told of in one step.
Enter(from, to) ==
    /\ phase \in from
    /\ phase' = to
    /\ told' = to

Open == Enter({"idle"}, "opening")
Wait == Enter({"opening"}, "waiting")
GoLive == Enter({"opening", "waiting"}, "live")

\* The end, whether or not the page is there to hear of it.
End ==
    /\ phase' = "over"
    /\ told' \in {told, "over"}

Next == Open \/ Wait \/ GoLive \/ End

Steps == Init /\ [][Next]_lifecycleVars

\* Opening never lasts for ever: it ends by itself, or by a watchdog.
Settling == (phase = "opening") ~> (phase # "opening")

Spec == Steps /\ Settling
=============================================================================
