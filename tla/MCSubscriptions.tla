---------------------------- MODULE MCSubscriptions ----------------------------
(***************************************************************************)
(* Subscriptions for TLC.  Consumers are interchangeable, and so are       *)
(* registrations; nothing that is checked with them is a liveness          *)
(* property.                                                               *)
(***************************************************************************)
EXTENDS Subscriptions, TLC

Symmetry == Permutations(Consumers) \cup Permutations(Registrations)

\* Bound: the notice client buffers and delivers as the registry does, so what is
\* its own, the requests, is explored with one notification.
Bounded == flavour = "notice" => items <= 1
================================================================================
