--------------------------- MODULE DeliveryPromise ---------------------------
(***************************************************************************)
(* What a webhook service promises about a delivery: the receiver is sent  *)
(* the payload a bounded number of times, a payload is sent again only     *)
(* after an outcome that the service takes for worth a retry, so never     *)
(* after one the receiver was heard to accept, and a delivery that began   *)
(* ends.  WebhookService and WebhookDeliveryService both keep it, each     *)
(* with its own idea of what is worth a retry.                             *)
(***************************************************************************)
EXTENDS Naturals

CONSTANTS
    Deliveries,
    MaxPosts,   \* how many times a payload is sent
    Again       \* the outcomes, not "ok", after which it may be sent once more

\* What the service learns from a post: the receiver accepts (2xx), refuses
\* (4xx), answers otherwise, or is not heard.
Outcomes == {"ok", "refused", "error", "silent"}

VARIABLES
    phase,      \* phase[d]: unborn, open, or closed
    posts,      \* posts[d]: how many times the payload was sent
    last,       \* last[d]: the outcome of the last one
    taken       \* taken[d]: how many of them the receiver took

vars == <<phase, posts, last, taken>>

TypeOK ==
    /\ phase \in [Deliveries -> {"unborn", "open", "closed"}]
    /\ posts \in [Deliveries -> 0..MaxPosts]
    /\ last \in [Deliveries -> Outcomes \cup {"none"}]
    /\ taken \in [Deliveries -> Nat]

Init ==
    /\ phase = [d \in Deliveries |-> "unborn"]
    /\ posts = [d \in Deliveries |-> 0]
    /\ last = [d \in Deliveries |-> "none"]
    /\ taken = [d \in Deliveries |-> 0]

Open(d) ==
    /\ phase[d] = "unborn"
    /\ phase' = [phase EXCEPT ![d] = "open"]
    /\ UNCHANGED <<posts, last, taken>>

\* The receiver takes what it is heard to accept, and may have taken what it
\* was not heard about.
Post(d) ==
    /\ phase[d] = "open"
    /\ posts[d] < MaxPosts
    /\ last[d] \in Again \cup {"none"}
    /\ posts' = [posts EXCEPT ![d] = @ + 1]
    /\ \E o \in Outcomes, n \in {0, 1} :
           /\ o = "ok" => n = 1
           /\ o \in {"refused", "error"} => n = 0
           /\ last' = [last EXCEPT ![d] = o]
           /\ taken' = [taken EXCEPT ![d] = @ + n]
    /\ UNCHANGED phase

\* It comes to its end, or is lost with its process.
Close(d) ==
    /\ phase[d] = "open"
    /\ phase' = [phase EXCEPT ![d] = "closed"]
    /\ UNCHANGED <<posts, last, taken>>

\* A crash closes several at once.
CloseAll ==
    /\ phase' = [d \in Deliveries |-> IF phase[d] = "open" THEN "closed" ELSE phase[d]]
    /\ UNCHANGED <<posts, last, taken>>

Next ==
    \/ \E d \in Deliveries : Open(d) \/ Post(d) \/ Close(d)
    \/ CloseAll

Safety == Init /\ [][Next]_vars

\* A delivery that began ends.
Ends == \A d \in Deliveries : WF_vars(Close(d))

Spec == Safety /\ Ends
=============================================================================
