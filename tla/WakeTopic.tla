----------------------------- MODULE WakeTopic ------------------------------
(***************************************************************************)
(* What mqtt_client.c promises of wake commands, without any session,      *)
(* clock or packet: of the commands published while it was subscribed some *)
(* are lost, but none is acted on twice or after a later one, and the      *)
(* publisher's broker is told of a command only once it was acted on.      *)
(***************************************************************************)
EXTENDS Integers

VARIABLES
  published,  \* how many commands were published; they are numbered
  waiting,    \* those on their way to the handler
  handled,    \* those acted on
  acked       \* those the broker knows to be delivered

Init ==
  /\ published = 0
  /\ waiting = {} /\ handled = {} /\ acked = {}

Publish ==
  /\ published' = published + 1
  /\ waiting' = waiting \cup {published'}
  /\ UNCHANGED <<handled, acked>>

Lose ==
  /\ waiting' \subseteq waiting
  /\ UNCHANGED <<published, handled, acked>>

\* What fails meanwhile may cost the commands behind it.
Handle ==
  \E i \in waiting :
    /\ \A j \in handled : j < i
    /\ handled' = handled \cup {i}
    /\ waiting' \subseteq waiting \ {i}
    /\ UNCHANGED <<published, acked>>

Acknowledge ==
  \E i \in handled :
    /\ acked' = acked \cup {i}
    /\ waiting' \subseteq waiting
    /\ UNCHANGED <<published, handled>>

Next == Publish \/ Lose \/ Handle \/ Acknowledge

Spec == Init /\ [][Next]_<<published, waiting, handled, acked>>
=============================================================================
