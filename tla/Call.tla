--------------------------------- MODULE Call ---------------------------------
(***************************************************************************)
(* What a driver promises the link level about its channels                *)
(* (Documentation/isdn/INTERFACE): the callbacks of a call come in their   *)
(* order, STAT_BHUP before STAT_DHUP if there was STAT_BCONN, and a call   *)
(* that is hung up ends with STAT_DHUP.                                    *)
(***************************************************************************)

CONSTANT Channels

VARIABLES
    phase,      \* of a call: setup, then after DCONN up, BCONN data, BHUP half
    hung        \* the link level wants the call to end

vars == <<phase, hung>>

Init == phase = [c \in Channels |-> "null"] /\ hung = [c \in Channels |-> FALSE]

From(c, from, to) == phase[c] = from /\ phase'[c] = to

\* ISDN_CMD_DIAL, or ISDN_STAT_ICALL: which HANGUP may answer at once.
Begin(c) == From(c, "null", "setup")

\* Not for a call that was hung up.
Dconn(c) == From(c, "setup", "up") /\ ~hung[c] /\ ~hung'[c]
Bconn(c) == From(c, "up", "data") /\ ~hung[c] /\ ~hung'[c]
Bhup(c) == From(c, "data", "half") /\ (hung[c] => hung'[c])

\* STAT_DHUP, with STAT_BHUP before it if that is due.
Dhup(c) == phase[c] # "null" /\ phase'[c] = "null" /\ ~hung'[c]

Hangup(c) == phase[c] # "null" /\ phase'[c] = phase[c] /\ hung'[c]

\* One event may concern several channels: the loss of the data link.
Next ==
    \A c \in Channels :
        \/ Begin(c) \/ Dconn(c) \/ Bconn(c) \/ Bhup(c) \/ Dhup(c) \/ Hangup(c)
        \/ phase'[c] = phase[c] /\ hung'[c] = hung[c]

\* No call stays hung up for ever.
Ends == \A c \in Channels : []<>~hung[c]

Spec == Init /\ [][Next]_vars /\ Ends
=============================================================================
