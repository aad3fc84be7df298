------------------------------ MODULE Session ---------------------------------
(***************************************************************************)
(* The connection as the domain clients see it (connection.py); Connection *)
(* models how it gets there.  A loss first makes every send and request    *)
(* raise (the multiplexer, the gate and the state change in one step), the *)
(* disconnect listeners run later, and the next session's generation is    *)
(* one higher.  A request that times out, and one whose send fails, takes  *)
(* the session with it (connection.py:412-422).                            *)
(*                                                                         *)
(* Assumed here: the listeners of a loss have run before the next session  *)
(* begins.  A loss while an attempt authenticates or restores is cleaned   *)
(* up beside the loop that goes on (connection.py:566-570, Connection), so *)
(* that its listeners can run late, in the session that follows.           *)
(***************************************************************************)
EXTENDS Integers

CONSTANT MaxGeneration   \* bound: sessions

ASSUME SessionAssumption == MaxGeneration \in Nat \ {0}

VARIABLES mode,       \* up | lost | down | restoring | closing | closed
          generation  \* connection.generation

session == <<mode, generation>>

SessionTypeOK ==
    /\ mode \in {"up", "lost", "down", "restoring", "closing", "closed"}
    /\ generation \in 1..MaxGeneration

SessionInit == mode = "up" /\ generation = 1

\* send() and request() do not raise at once (connection.py:675).
Online == mode \in {"up", "restoring"}

\* The session that was `at` is the one frames are sent on now.
Current(at) == Online /\ at = generation

Lose ==
    /\ Online
    /\ mode' = "lost"
    /\ UNCHANGED generation

\* close() sets CLOSED and then runs the disconnect listeners.
Close ==
    /\ mode \notin {"closing", "closed"}
    /\ mode' = "closing"
    /\ UNCHANGED generation

\* The disconnect listeners have run: after a loss, or inside close().
Notified ==
    /\ \/ mode = "lost" /\ mode' = "down"
       \/ mode = "closing" /\ mode' = "closed"
    /\ UNCHANGED generation

\* The reconnect loop's next session, in which the reconnect listeners run first.  One
\* that connect() makes by hand runs none (connection.py:363) and is not modelled.
Reconnect ==
    /\ mode = "down" /\ generation < MaxGeneration
    /\ mode' = "restoring"
    /\ generation' = generation + 1
===============================================================================
