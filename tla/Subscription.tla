---------------------------- MODULE Subscription ----------------------------
(***************************************************************************)
(* What the Broker promises its subscribers: a queue for each topic, from  *)
(* which every message goes, once and in order, to each of those who are   *)
(* subscribed when its turn comes.  Nothing is said of the order of        *)
(* different topics, and nothing is kept for who subscribes later.         *)
(***************************************************************************)
EXTENDS Sequences

CONSTANTS
    Topic,    \* what can be ordered with itself only
    Message,  \* what can be published
    Client    \* who can subscribe

VARIABLES
    pending,  \* topic -> messages published and not delivered yet
    members,  \* the clients subscribed
    got       \* client -> topic -> messages delivered to it

subscriptionVars == <<pending, members, got>>

SubscriptionInit ==
    /\ pending = [t \in Topic |-> <<>>]
    /\ members = {}
    /\ got = [c \in Client |-> [t \in Topic |-> <<>>]]

\* Nothing happens on any other topic.
OnlyOn(t) ==
    /\ DOMAIN pending' = Topic
    /\ \A o \in Topic \ {t} : pending'[o] = pending[o]

Publish(t, m) ==
    /\ pending'[t] = Append(pending[t], m)
    /\ OnlyOn(t)
    /\ UNCHANGED <<members, got>>

Deliver(t) ==
    /\ pending[t] # <<>>
    /\ pending'[t] = Tail(pending[t])
    /\ OnlyOn(t)
    /\ got' = [c \in Client |->
                 IF c \in members
                 THEN [got[c] EXCEPT ![t] = Append(@, Head(pending[t]))]
                 ELSE got[c]]
    /\ UNCHANGED members

Join(c) == members' = members \cup {c} /\ UNCHANGED <<pending, got>>

Leave(c) == members' = members \ {c} /\ UNCHANGED <<pending, got>>

SubscriptionNext ==
    \/ \E c \in Client : Join(c) \/ Leave(c)
    \/ \E t \in Topic : Deliver(t) \/ \E m \in Message : Publish(t, m)

SubscriptionSpec ==
    SubscriptionInit /\ [][SubscriptionNext]_subscriptionVars

=============================================================================
