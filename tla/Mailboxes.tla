----------------------------- MODULE Mailboxes ------------------------------
(***************************************************************************)
(* What the interthread layer promises its subscribers, whatever the       *)
(* threads do: per thread and channel a mailbox                            *)
(*   - that a datum enters at most once, and the data of one publisher in  *)
(*     the order of publication;                                           *)
(*   - that is read in the order in which it was filled;                   *)
(*   - that loses data only to an unsubscription, and then the latest.     *)
(* A datum is [src, num]: the publishing thread and the number of its      *)
(* publication.                                                            *)
(***************************************************************************)
EXTENDS Naturals, Sequences

CONSTANTS
    Threads,
    Channels,
    Numbers    \* the numbers of publications

VARIABLES
    mailbox,  \* [Threads -> [Channels -> sequence of data]]
    entered   \* [Threads -> [Channels -> [Threads -> Nat]]]: the number of the
              \* last datum of each publisher that entered

Init ==
    /\ mailbox = [t \in Threads |-> [c \in Channels |-> <<>>]]
    /\ entered = [t \in Threads |-> [c \in Channels |-> [p \in Threads |-> 0]]]

Enter(t, c, src, num) ==
    /\ num > entered[t][c][src]
    /\ entered' = [entered EXCEPT ![t][c][src] = num]
    /\ mailbox' = [mailbox EXCEPT ![t][c] = Append(@, [src |-> src, num |-> num])]

Deliver(t, c) ==
    /\ mailbox[t][c] # <<>>
    /\ mailbox' = [mailbox EXCEPT ![t][c] = Tail(@)]
    /\ UNCHANGED entered

\* An unsubscription discards what has not been collected for delivery yet.
Discard(t) ==
    /\ \A c \in Channels : \E kept \in 0..Len(mailbox[t][c]) :
          mailbox'[t][c] = SubSeq(mailbox[t][c], 1, kept)
    /\ \A u \in Threads \ {t} : mailbox'[u] = mailbox[u]
    /\ UNCHANGED entered

Next ==
    \/ \E t \in Threads, c \in Channels :
          \/ \E src \in Threads, num \in Numbers : Enter(t, c, src, num)
          \/ Deliver(t, c)
    \/ \E t \in Threads : Discard(t)

Spec == Init /\ [][Next]_<<mailbox, entered>>
=============================================================================
