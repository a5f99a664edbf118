-------------------------------- MODULE T2QRpc --------------------------------
(***************************************************************************)
(* What the wrapper promises an application that calls from its main loop: *)
(* a call executes its own function of the DLL once, with its own          *)
(* arguments, and returns what that execution gave; and what the DLL       *)
(* reports to a callback reaches the callback, unaltered and in order.     *)
(***************************************************************************)
EXTENDS Sequences

CONSTANTS
    Calls,      \* the calls an application may make: [f, args] records
    Outs(_),    \* what the DLL may give for a call
    Events      \* what the DLL may report

VARIABLES
    call,       \* the latest call
    busy,       \* it has not returned
    executed,   \* <<call, outs>> once the DLL has executed it
    returned,   \* <<outs>> once it has returned
    events,     \* reports the callback has not seen
    shown       \* <<report>> the callback has seen last

rpcVars == <<call, busy, executed, returned, events, shown>>

Init ==
    /\ call = [f |-> "none", args |-> <<>>]
    /\ ~busy
    /\ executed = <<>> /\ returned = <<>>
    /\ events = <<>> /\ shown = <<>>

Invoke ==
    /\ ~busy /\ busy'
    /\ call' \in Calls
    /\ executed' = <<>> /\ returned' = <<>>
    /\ UNCHANGED <<events, shown>>

Execute ==
    /\ busy /\ executed = <<>>
    /\ \E outs \in Outs(call) : executed' = <<call, outs>>
    /\ UNCHANGED <<call, busy, returned, events, shown>>

Return ==
    /\ busy /\ executed # <<>>
    /\ busy' = FALSE /\ returned' = <<executed[2]>>
    /\ UNCHANGED <<call, executed, events, shown>>

Report ==
    /\ \E e \in Events : events' = Append(events, e)
    /\ UNCHANGED <<call, busy, executed, returned, shown>>

Show ==
    /\ events # <<>>
    /\ shown' = <<Head(events)>> /\ events' = Tail(events)
    /\ UNCHANGED <<call, busy, executed, returned>>

Spec == Init /\ [][Invoke \/ Execute \/ Return \/ Report \/ Show]_rpcVars

=============================================================================
