---------------------------- MODULE MCNodeQueues ---------------------------
(***************************************************************************)
(* Instances of two queues of one node for model checking: the mailbox of  *)
(* an actor and the store of a stream.  They share no state; a behavior is *)
(* a behavior of one of them, `focus', while the other keeps still.        *)
(***************************************************************************)
EXTENDS ActorMailbox, MCFabricStreamStore

CONSTANTS p1, p2

VARIABLE focus

MCProducer == {p1, p2}

MCSymmetry == Permutations(MCProducer)

\* Receive expressions: with one arm, and with two arms that need not match
\* in the order of arrival.
MCArms == {<<1>>, <<2, 1>>}

QueuesInit == focus \in {"mailbox", "store"} /\ MailboxInit /\ Init

QueuesNext ==
  \/ focus = "mailbox" /\ MailboxNext /\ UNCHANGED <<focus, vars>>
  \/ focus = "store" /\ Next /\ UNCHANGED <<focus, mailboxVars>>

\* The types of the mailbox and of the files of a stream.
QueuesTypeOK == MailboxTypeOK /\ TypeOK

QueuesSpec == QueuesInit /\ [][QueuesNext]_<<focus, mailboxVars, vars>>
=============================================================================
