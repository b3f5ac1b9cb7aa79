------------------------------ MODULE Mailbox ------------------------------
(***************************************************************************)
(* What the event loop's command queue promises: a command is accepted     *)
(* while the engine is open and refused afterwards, and the accepted ones  *)
(* are carried out once each, in the order in which they were accepted.    *)
(***************************************************************************)
EXTENDS Naturals, Sequences

CONSTANT Commands

VARIABLES
    mail,     \* the accepted commands not carried out yet, oldest first
    fate,     \* [Commands -> "new" | "queued" | "handled" | "refused"]
    open

mailbox == <<mail, fate, open>>

Put(c) ==
    /\ open /\ fate[c] = "new"
    /\ mail' = Append(mail, c) /\ fate' = [fate EXCEPT ![c] = "queued"]
    /\ UNCHANGED open

Refuse(c) ==
    /\ ~open /\ fate[c] = "new"
    /\ fate' = [fate EXCEPT ![c] = "refused"]
    /\ UNCHANGED <<mail, open>>

Take ==
    /\ mail # <<>>
    /\ mail' = Tail(mail) /\ fate' = [fate EXCEPT ![Head(mail)] = "handled"]
    /\ UNCHANGED open

\* Carrying out a command may put one more.
TakeAndPut(c) ==
    /\ open /\ mail # <<>> /\ fate[c] = "new"
    /\ mail' = Append(Tail(mail), c)
    /\ fate' = [fate EXCEPT ![Head(mail)] = "handled", ![c] = "queued"]
    /\ UNCHANGED open

TakeAndRefuse(c) ==
    /\ ~open /\ mail # <<>> /\ fate[c] = "new"
    /\ mail' = Tail(mail)
    /\ fate' = [fate EXCEPT ![Head(mail)] = "handled", ![c] = "refused"]
    /\ UNCHANGED open

Shut ==
    /\ open /\ open' = FALSE
    /\ UNCHANGED <<mail, fate>>

Init == mail = <<>> /\ fate = [c \in Commands |-> "new"] /\ open = TRUE

Next ==
    \/ \E c \in Commands : Put(c) \/ Refuse(c) \/ TakeAndPut(c) \/ TakeAndRefuse(c)
    \/ Take \/ Shut

Spec == Init /\ [][Next]_mailbox
=============================================================================
