----------------------------- MODULE StreamFeed -----------------------------
(* What a market data connection promises its user: while it is open, the      *)
(* streams the user wants are served; streams may be lost at any time, and a   *)
(* reconnection brings back every wanted stream the exchange supports at once, *)
(* unless it fails and says so.                                                *)
CONSTANTS Stream, Supported

VARIABLES
  open,     \* between connect() and close()
  wanted,   \* streams the user subscribed
  served,   \* streams whose messages arrive
  pending   \* the connection says it has still to reconnect

feedVars == <<open, wanted, served>>

Init == open = FALSE /\ wanted = {} /\ served = {}

Open == ~open /\ open' = TRUE /\ served' = {} /\ UNCHANGED wanted

\* All the wanted streams are back, or some are and a reconnection is pending.
Restored ==
  \/ served' = wanted \cap Supported
  \/ pending' /\ \E back \in SUBSET (wanted \cap Supported) : served' = served \cup back

\* A reconnection in progress may finish with it.
Close == open /\ open' = FALSE /\ (UNCHANGED served \/ Restored) /\ UNCHANGED wanted

\* Once closed the user's wishes are forgotten.
Clear == ~open /\ wanted' = {} /\ served' = {} /\ UNCHANGED open

\* A connection left over from an earlier wish may serve the stream at once.
Want(s) ==
  /\ wanted' = wanted \cup {s} /\ UNCHANGED open
  /\ \/ UNCHANGED served
     \/ open /\ s \in Supported /\ served' = served \cup {s}

Serve(s) ==
  open /\ s \in wanted \cap Supported /\ served' = served \cup {s} /\ UNCHANGED <<open, wanted>>

Unwant(s) == wanted' = wanted \ {s} /\ served' = served \ {s} /\ UNCHANGED open

Lose == (\E lost \in SUBSET served : served' = served \ lost) /\ UNCHANGED <<open, wanted>>

Restore == open /\ Restored /\ UNCHANGED <<open, wanted>>

Next == \/ Open \/ Close \/ Clear \/ Lose \/ Restore
        \/ \E s \in Stream : Want(s) \/ Serve(s) \/ Unwant(s)

Spec == Init /\ [][Next]_feedVars
============================================================================
