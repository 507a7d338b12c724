---- MODULE BlockService ----
(***************************************************************************)
(* What one DSP block promises its user algorithm and its peer, whatever    *)
(* transport it runs on: sessions are served one at a time; a session       *)
(* starts the algorithm at most once and always stops what it started; the  *)
(* algorithm computes one step only after the previous output was handed    *)
(* over completely; a rejected frame is the last one a session answers.     *)
(***************************************************************************)
EXTENDS Naturals

VARIABLES
    mode,       \* what the block owes: see Modes
    running,    \* the algorithm is between on_start and on_stop
    steps,      \* steps the algorithm computed in this session
    delivered   \* outputs the peer was sent completely in this session

vars == <<mode, running, steps, delivered>>

\* idle: no peer; open: a peer, nothing owed; accepting, owing, rejecting: a
\* RESPONSE OK, an OUTPUT_DATA or an error RESPONSE is owed; ending: closing.
Modes == {"idle", "open", "accepting", "owing", "rejecting", "ending"}

Init == mode = "idle" /\ running = FALSE /\ steps = 0 /\ delivered = 0

Become(from, to) == mode = from /\ mode' = to

Connect == Become("idle", "open") /\ UNCHANGED <<running, steps, delivered>>

Start ==
    /\ ~running /\ running' = TRUE
    /\ Become("open", "accepting")
    /\ UNCHANGED <<steps, delivered>>

Accept == Become("accepting", "open") /\ UNCHANGED <<running, steps, delivered>>

Compute ==
    /\ running /\ steps = delivered
    /\ steps' = steps + 1
    /\ Become("open", "owing")
    /\ UNCHANGED <<running, delivered>>

Deliver ==
    /\ delivered' = delivered + 1
    /\ Become("owing", "open")
    /\ UNCHANGED <<running, steps>>

Reject == Become("open", "rejecting") /\ UNCHANGED <<running, steps, delivered>>

End ==
    /\ mode # "ending" /\ mode' = "ending"
    /\ running' = FALSE /\ steps' = 0 /\ delivered' = 0

Closed == Become("ending", "idle") /\ UNCHANGED <<running, steps, delivered>>

Next == \/ Connect \/ Start \/ Accept \/ Compute
        \/ Deliver \/ Reject \/ End \/ Closed

Spec == Init /\ [][Next]_vars
====
