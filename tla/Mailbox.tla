-------------------------------- MODULE Mailbox --------------------------------
(***************************************************************************)
(* What the queue promises a user who cannot be reached: messages are kept *)
(* in the order in which they were accepted, handed over in that order and *)
(* forgotten only after they were received, and while one waits its        *)
(* receiver writes nothing back.  There is one mailbox for each user here; *)
(* the code keeps it in two stores, with locks in two stores beside it.    *)
(***************************************************************************)
EXTENDS ConnectDomain

VARIABLES
  box,       \* box[u]: messages kept for u, oldest first
  received,  \* messages that have reached their receivers
  intact     \* every message that was accepted and not received is in its mailbox

mailVars == <<box, received, intact>>

Init ==
  /\ box = [u \in Users |-> <<>>]
  /\ received = {}
  /\ intact = TRUE

\* The messages among them that their receiver has not got yet.
Waiting(u) == Elements(box[u]) \ received

\* Nothing waits in the other direction.
MayWrite(m) == \A n \in Waiting(Sender[m]) : Sender[n] # Receiver[m]

\* m goes to its receiver at once ...
Deliver(m) ==
  /\ MayWrite(m) /\ m \notin received \cup Elements(box[Receiver[m]])
  /\ received' = received \cup {m}
  /\ UNCHANGED <<box, intact>>

\* ... or is kept.
Accept(m) ==
  /\ MayWrite(m) /\ m \notin received \cup Elements(box[Receiver[m]])
  /\ box' = [box EXCEPT ![Receiver[m]] = Append(@, m)]
  /\ UNCHANGED <<received, intact>>

\* The oldest message that waits is received.
HandOver(u) ==
  /\ \E i \in DOMAIN box[u] :
       /\ box[u][i] \notin received
       /\ \A j \in 1..(i - 1) : box[u][j] \in received
       /\ received' = received \cup {box[u][i]}
  /\ UNCHANGED <<box, intact>>

\* q is what is left of r when some of its messages are dropped.
Subsequence(q, r) ==
  \E f \in [DOMAIN q -> DOMAIN r] :
    /\ \A i, j \in DOMAIN q : i < j => f[i] < f[j]
    /\ \A i \in DOMAIN q : q[i] = r[f[i]]

\* Messages that were received are dropped.
Forget ==
  /\ box' \in [Users -> Seq(Messages)]
  /\ \A u \in Users : Subsequence(box'[u], box[u]) /\ Waiting(u) \subseteq Elements(box'[u])
  /\ UNCHANGED <<received, intact>>

\* A message slips out, or one that has turns up again: until all are back, only what was
\* received stays received.
Lose ==
  /\ ~intact \/ ~intact'
  /\ received \subseteq received'
  /\ box' \in [Users -> Seq(Messages)]

Next ==
  \/ Forget
  \/ \E m \in Messages : Deliver(m) \/ Accept(m)
  \/ \E u \in Users : HandOver(u)
  \/ Lose

Spec == Init /\ [][Next]_mailVars
===============================================================================
