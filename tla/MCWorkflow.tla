------------------------------- MODULE MCWorkflow -------------------------------
(***************************************************************************)
(* A small instance of Workflow: the workflows are all of one chat, and    *)
(* no deal has a name like its title until one is renamed.                 *)
(***************************************************************************)
EXTENDS Workflow, TLC

MCChatOf == [k \in Instances |-> CHOOSE c \in Chats : TRUE]

MCSenders == [k \in Instances |-> Users]

MCInit == Init /\ \A c \in Chats, d \in Deals : score[c][d] = 0

MCSpec == MCInit /\ [][Next]_vars

WorkflowSymmetry == Permutations(Instances) \cup Permutations(Deals)

===============================================================================
