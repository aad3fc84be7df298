---------------------------- MODULE ServeContract ----------------------------
(***************************************************************************)
(* What a worker (RPCClient.register_worker) promises the broker about     *)
(* each request it is sent, without dispatcher, semaphore, deadlines and   *)
(* tasks: a request is handed to a handler at most once, and to none after *)
(* its cancellation; it is answered at most once, in the session it came   *)
(* in; and its acknowledgement is the last word, said when no handler      *)
(* works on it and for a reason.                                           *)
(***************************************************************************)
EXTENDS Integers

CONSTANT Requests

VARIABLES online,   \* frames can be sent
          number,   \* of the session
          req       \* what the broker can know of each request

serveVars == <<online, number, req>>

Unsent == [phase   |-> "new",   \* new | held | running | done
           home    |-> 0,       \* the session it came in
           answers |-> 0,       \* terminal responses sent
           cut     |-> FALSE,   \* the send of one was cut short or raised
           asked   |-> FALSE,   \* the broker has cancelled it
           acks    |-> 0]

ServeInit ==
    /\ online = TRUE /\ number = 1
    /\ req = [i \in Requests |-> Unsent]

Becomes(i, r) == req' = [req EXCEPT ![i] = r] /\ UNCHANGED <<online, number>>

\* Frames about i reach the session it came in.
AtHome(i) == online /\ req[i].home = number

\* A request arrives; one for which no worker is registered is dropped.
Take(i) ==
    /\ req[i].phase = "new" /\ online
    /\ \E p \in {"held", "done"} : Becomes(i, [req[i] EXCEPT !.phase = p, !.home = number])

Cancel(i) ==
    /\ req[i].phase # "new" /\ ~req[i].asked /\ AtHome(i)
    /\ Becomes(i, [req[i] EXCEPT !.asked = TRUE])

\* A handler starts.
Start(i) ==
    /\ req[i].phase = "held" /\ ~req[i].asked
    /\ req[i].answers = 0 /\ req[i].acks = 0
    /\ Becomes(i, [req[i] EXCEPT !.phase = "running"])

\* The terminal response: by the handler, for it, or instead of it.
Answer(i) ==
    /\ req[i].phase \in {"held", "running"} /\ AtHome(i)
    /\ req[i].answers = 0 /\ req[i].acks = 0
    /\ Becomes(i, [req[i] EXCEPT !.answers = 1])

\* The handler's own response was cut short: an error follows it.
AnswerAgain(i) ==
    /\ req[i].phase = "running" /\ AtHome(i)
    /\ req[i].answers = 1 /\ ~req[i].cut /\ req[i].acks = 0
    /\ Becomes(i, [req[i] EXCEPT !.answers = 2, !.cut = TRUE])

\* The broker asked for an acknowledgement of i, expects one after the answer, or
\* has forgotten the session that i came in.
Due(i) == req[i].asked \/ req[i].answers > 0 \/ req[i].home # number

\* No handler works on i, or will; often the acknowledgement goes with this.
Release(i) ==
    /\ req[i].phase \in {"held", "running"}
    /\ \E cut \in {req[i].cut, req[i].answers > 0} :
          \/ Becomes(i, [req[i] EXCEPT !.phase = "done", !.cut = cut])
          \/ /\ online /\ Due(i) /\ req[i].acks < 2
             /\ Becomes(i, [req[i] EXCEPT !.phase = "done", !.cut = cut, !.acks = @ + 1])

\* An acknowledgement beside the task that serves i.
Acknowledge(i) ==
    /\ req[i].phase \in {"held", "done"} /\ req[i].asked
    /\ online /\ req[i].acks < 2
    /\ Becomes(i, [req[i] EXCEPT !.acks = @ + 1])

SessionEnds == online /\ online' = FALSE /\ UNCHANGED <<number, req>>

SessionBegins == ~online /\ online' = TRUE /\ number' = number + 1 /\ UNCHANGED req

ServeNext ==
    \/ \E i \in Requests : \/ Take(i) \/ Cancel(i) \/ Start(i)
                           \/ Answer(i) \/ AnswerAgain(i)
                           \/ Release(i) \/ Acknowledge(i)
    \/ SessionEnds \/ SessionBegins

ServeSpec == ServeInit /\ [][ServeNext]_serveVars
==============================================================================
