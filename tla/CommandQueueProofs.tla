------------------------- MODULE CommandQueueProofs -------------------------
(***************************************************************************)
(* CommandQueue for any number of commands and callers: no wake-up is lost *)
(* to the coalescing, Close refuses no worker and leaves nothing behind,   *)
(* and the queue implements Mailbox.                                       *)
(***************************************************************************)
EXTENDS CommandQueue, TLAPS

Types ==
    /\ commands \in Seq(Commands) /\ batch \in Seq(Commands)
    /\ rpc \in [Callers -> {"idle", "notify", "wake"}]
    /\ lpc \in {"wait", "ack", "clear", "swap", "each", "check", "returned", "closing", "closed"}
    /\ phase \in {"run", "last", "close"}
    /\ fate \in [Commands -> {"new", "queued", "handled", "refused"}]

\* Commands left in the queue past the swap have their wake-up pending, and a
\* pending wake-up is in the eventfd, in a caller's hands, or being taken up.
WakeInv ==
    /\ (commands # <<>> /\ lpc \notin {"ack", "clear", "swap"}) =>
            wakePending \/ \E p \in Callers : rpc[p] = "notify"
    /\ wakePending =>
            Reported \/ lpc \in {"ack", "clear"} \/ \E p \in Callers : rpc[p] = "wake"

\* Only a drain has a batch, and only Close's drain runs with the queue closed.
DrainInv ==
    /\ lpc # "each" => batch = <<>>
    /\ commandsClosed <=> phase = "close"
    /\ commandsClosed => lpc \in {"ack", "clear", "swap", "each", "closed"}
    /\ (commandsClosed /\ lpc \in {"each", "closed"}) => commands = <<>>
    /\ lpc = "closed" => commandsClosed

In(c, s) == \E i \in 1..Len(s) : s[i] = c

\* A queued command is in the batch or in the queue.
FateInv == \A c \in Commands : fate[c] = "queued" => In(c, batch) \/ In(c, commands)

\* Once the queue is closed the workers have asked for all they ever will.
ServedInv ==
    /\ commandsClosed => \A c \in Commands : Owner[c] \in Workers => fate[c] # "new"
    /\ WorkersServed

\* The loop and the stopper are callers.
LEMMA LoopCalls == Loop \in Callers /\ Stopper \in Callers /\ Workers \subseteq Callers /\ Apps \subseteq Callers
BY DEF Callers

\* The type invariant holds at first.
LEMMA InitTypes == Init => Types
BY DEF Init, Types

\* Every step keeps the types.
LEMMA NextTypes == Types /\ [Next]_vars => Types'
<1> SUFFICES ASSUME Types, [Next]_vars PROVE Types'
  OBVIOUS
<1> USE LoopCalls
<1>1. ASSUME NEW p \in Workers \cup Apps, NEW c \in Commands, Request(p, c) PROVE Types'
  <2>1. p \in Callers
    BY DEF Callers
  <2>2. CASE commandsClosed
    BY <1>1, <2>2 DEF Types, Request
  <2>3. CASE ~commandsClosed
    <3>1. rpc' \in [Callers -> {"idle", "notify", "wake"}]
      BY <1>1, <2>1, <2>3 DEF Types, Request, Caller
    <3>2. commands' \in Seq(Commands)
      BY <1>1, <2>3 DEF Types, Request
    <3>3. fate' \in [Commands -> {"new", "queued", "handled", "refused"}]
      BY <1>1, <2>3 DEF Types, Request
    <3>4. QED
      BY <1>1, <3>1, <3>2, <3>3 DEF Types, Request
  <2>4. QED
    BY <2>2, <2>3
<1>2. ASSUME NEW p \in Callers, Notifying(p) PROVE Types'
  BY <1>2 DEF Types, Notifying, Notify, Wake, Caller
<1>3. CASE Each
  <2> DEFINE c == Head(batch)
             d == Chained[c]
  <2>1. c \in Commands /\ Tail(batch) \in Seq(Commands)
    BY <1>3 DEF Each, Types
  <2>2. d \in Commands \cup {None}
    BY <2>1, CommandQueueAssumption
  <2>3. batch' \in Seq(Commands)
    BY <1>3, <2>1 DEF Each
  <2>4. commands' \in Seq(Commands) /\ rpc' \in [Callers -> {"idle", "notify", "wake"}]
    <3>1. CASE d # None /\ fate[d] = "new" /\ ~commandsClosed
      <4>1. commands' = Append(commands, d) /\ rpc' = [rpc EXCEPT ![Loop] = "notify"]
        BY <1>3, <3>1 DEF Each, Caller
      <4>2. d \in Commands
        BY <2>2, <3>1
      <4>3. QED
        BY <4>1, <4>2 DEF Types
    <3>2. CASE ~(d # None /\ fate[d] = "new" /\ ~commandsClosed)
      BY <1>3, <3>2 DEF Each, Types
    <3>3. QED
      BY <3>1, <3>2
  <2>5. fate' \in [Commands -> {"new", "queued", "handled", "refused"}]
    BY <1>3, <2>1, <2>2 DEF Each, Types
  <2>6. QED
    BY <1>3, <2>3, <2>4, <2>5 DEF Each, Types
<1>4. CASE Drained
  BY <1>4 DEF Types, Drained
<1>5. CASE Stop \/ CloseStop
  BY <1>5 DEF Types, Stop, CloseStop, Caller
<1>6. CASE Woken \/ OtherRound \/ AckWake \/ Clear \/ Swap \/ Check \/ CloseCommands
  <2>1. UNCHANGED <<rpc, fate>> /\ lpc' \in {"ack", "check", "clear", "swap", "each", "wait"}
    BY <1>6 DEF Woken, OtherRound, AckWake, Clear, Swap, Check, CloseCommands
  <2>2. phase' \in {"run", "last", "close"}
    BY <1>6 DEF Types, Woken, OtherRound, AckWake, Clear, Swap, Check, CloseCommands
  <2>3. commands' \in Seq(Commands) /\ batch' \in Seq(Commands)
    <3>1. CASE Swap
      BY <3>1 DEF Types, Swap
    <3>2. CASE UNCHANGED <<commands, batch>>
      BY <3>2 DEF Types
    <3>3. QED
      BY <1>6, <3>1, <3>2 DEF Woken, OtherRound, AckWake, Clear, Check, CloseCommands
  <2>4. QED
    BY <2>1, <2>2, <2>3 DEF Types
<1>7. CASE UNCHANGED vars
  BY <1>7 DEF Types, vars
<1>8. QED
  BY <1>1, <1>2, <1>3, <1>4, <1>5, <1>6, <1>7 DEF Next, Drain, Ending

-----------------------------------------------------------------------------

\* The coalesced wake-ups: each step of a request or of a drain hands the
\* obligation to wake the loop to the next one.
LEMMA NextWake == Types /\ WakeInv /\ [Next]_vars => WakeInv'
<1> SUFFICES ASSUME Types, WakeInv, [Next]_vars PROVE WakeInv'
  OBVIOUS
<1> USE LoopCalls
<1>1. ASSUME NEW p \in Workers \cup Apps, NEW c \in Commands, Request(p, c) PROVE WakeInv'
  BY <1>1 DEF Types, WakeInv, Request, Caller, Reported
<1>2. ASSUME NEW p \in Callers, Notify(p) PROVE WakeInv'
  BY <1>2 DEF Types, WakeInv, Notify, Caller, Reported
<1>3. ASSUME NEW p \in Callers, Wake(p) PROVE WakeInv'
  BY <1>3 DEF Types, WakeInv, Wake, Caller, Reported
<1>4. CASE Each
  <2>1. (rpc' = rpc /\ commands' = commands) \/ rpc' = [rpc EXCEPT ![Loop] = "notify"]
    BY <1>4 DEF Each, Caller
  <2>2. rpc[Loop] = "idle" /\ lpc = "each" /\ UNCHANGED <<wakePending, counter, edge, lpc>>
    BY <1>4 DEF Each, LoopFree
  <2>3. QED
    BY <2>1, <2>2 DEF Types, WakeInv, Reported
<1>5. CASE Drained
  BY <1>5 DEF Types, WakeInv, Drained, Reported
<1>6. CASE Stop \/ CloseStop
  BY <1>6 DEF Types, WakeInv, Stop, CloseStop, Caller, LoopFree, Reported
<1>7. CASE Woken \/ OtherRound \/ AckWake \/ Clear \/ Swap \/ Check \/ CloseCommands
  BY <1>7 DEF Types, WakeInv, Woken, OtherRound, AckWake, Clear, Swap, Check, CloseCommands, Reported
<1>8. CASE UNCHANGED vars
  BY <1>8 DEF WakeInv, vars, Reported
<1>9. QED
  BY <1>1, <1>2, <1>3, <1>4, <1>5, <1>6, <1>7, <1>8 DEF Next, Drain, Notifying, Ending

\* The phases of the drains.
LEMMA NextDrain == Types /\ DrainInv /\ [Next]_vars => DrainInv'
<1> SUFFICES ASSUME Types, DrainInv, [Next]_vars PROVE DrainInv'
  OBVIOUS
<1>1. ASSUME NEW p \in Workers \cup Apps, NEW c \in Commands, Request(p, c) PROVE DrainInv'
  BY <1>1 DEF Types, DrainInv, Request
<1>2. ASSUME NEW p \in Callers, Notifying(p) PROVE DrainInv'
  BY <1>2 DEF DrainInv, Notifying, Notify, Wake
<1>3. CASE Each
  BY <1>3 DEF Types, DrainInv, Each
<1>4. CASE Drained
  BY <1>4 DEF Types, DrainInv, Drained
<1>5. CASE Stop \/ Woken \/ OtherRound \/ AckWake \/ Clear \/ Swap \/ Check \/ Ending
  BY <1>5 DEF Types, DrainInv, Stop, Woken, OtherRound, AckWake, Clear, Swap, Check, Ending, CloseStop,
     CloseCommands
<1>6. CASE UNCHANGED vars
  BY <1>6 DEF DrainInv, vars
<1>7. QED
  BY <1>1, <1>2, <1>3, <1>4, <1>5, <1>6 DEF Next, Drain

-----------------------------------------------------------------------------

\* Appending to a sequence adds one member.
LEMMA InAppend ==
    ASSUME NEW s \in Seq(Commands), NEW c \in Commands, NEW d \in Commands
    PROVE  /\ In(c, Append(s, c))
           /\ In(d, s) => In(d, Append(s, c))
<1>1. Len(Append(s, c)) = Len(s) + 1 /\ Len(s) \in Nat /\ Append(s, c)[Len(s) + 1] = c
  OBVIOUS
<1>2. \A i \in 1..Len(s) : Append(s, c)[i] = s[i] /\ i \in 1..Len(s) + 1
  OBVIOUS
<1>3. QED
  BY <1>1, <1>2 DEF In

\* Taking the head off a sequence leaves its other members.
LEMMA InTail ==
    ASSUME NEW s \in Seq(Commands), s # <<>>, NEW d \in Commands, In(d, s), d # Head(s)
    PROVE  In(d, Tail(s))
<1>1. PICK i \in 1..Len(s) : s[i] = d
  BY DEF In
<1>2. i # 1 /\ Len(s) \in Nat
  BY <1>1
<1>3. i - 1 \in 1..Len(Tail(s)) /\ Tail(s)[i - 1] = d
  BY <1>1, <1>2
<1>4. QED
  BY <1>3 DEF In

\* A queued command stays in one of the sequences until it is carried out.
LEMMA NextFate == Types /\ DrainInv /\ FateInv /\ [Next]_vars => FateInv'
<1> SUFFICES ASSUME Types, DrainInv, FateInv, [Next]_vars, NEW e \in Commands, fate'[e] = "queued"
             PROVE  In(e, batch)' \/ In(e, commands)'
  BY DEF FateInv
<1>1. ASSUME NEW p \in Workers \cup Apps, NEW c \in Commands, Request(p, c)
      PROVE  In(e, batch)' \/ In(e, commands)'
  <2>1. CASE commandsClosed
    BY <1>1, <2>1 DEF Types, FateInv, Request, In
  <2>2. CASE ~commandsClosed
    <3>1. commands' = Append(commands, c) /\ batch' = batch /\ fate' = [fate EXCEPT ![c] = "queued"]
      BY <1>1, <2>2 DEF Request
    <3>2. In(c, Append(commands, c)) /\ (In(e, commands) => In(e, Append(commands, c)))
      BY InAppend DEF Types
    <3>3. e = c \/ fate[e] = "queued"
      BY <3>1 DEF Types
    <3>4. e = c \/ In(e, batch) \/ In(e, commands)
      BY <3>3 DEF FateInv
    <3>5. In(e, batch) \/ In(e, Append(commands, c))
      BY <3>2, <3>4
    <3>6. QED
      BY <3>1, <3>5 DEF In
  <2>3. QED
    BY <2>1, <2>2
<1>2. CASE Each
  <2> DEFINE c == Head(batch)
             d == Chained[c]
             asks == d # None /\ fate[d] = "new"
  <2>1. c \in Commands /\ batch # <<>> /\ batch' = Tail(batch)
    BY <1>2 DEF Each, Types
  <2>2. d \in Commands \cup {None}
    BY <2>1, CommandQueueAssumption
  <2>3. CASE asks /\ ~commandsClosed
    <3>1. d \in Commands
      BY <2>2, <2>3
    <3>2. /\ commands' = Append(commands, d)
          /\ fate' = [fate EXCEPT ![c] = "handled", ![d] = "queued"]
      BY <1>2, <2>3 DEF Each
    <3>3. In(d, Append(commands, d)) /\ (In(e, commands) => In(e, Append(commands, d)))
      BY <3>1, InAppend DEF Types
    <3>4. e = d \/ (e # c /\ fate[e] = "queued")
      BY <2>1, <3>1, <3>2 DEF Types
    <3>5. e = d \/ In(e, Tail(batch)) \/ In(e, commands)
      BY <2>1, <3>4, InTail DEF FateInv, Types
    <3>6. In(e, Tail(batch)) \/ In(e, Append(commands, d))
      BY <3>3, <3>5
    <3>7. QED
      BY <2>1, <3>2, <3>6 DEF In
  <2>4. CASE ~(asks /\ ~commandsClosed)
    <3>1. commands' = commands
      BY <1>2, <2>4 DEF Each
    <3>2. \/ fate' = [fate EXCEPT ![c] = "handled"]
          \/ d \in Commands /\ fate' = [fate EXCEPT ![c] = "handled", ![d] = "refused"]
      BY <1>2, <2>2, <2>4 DEF Each
    <3>3. e # c /\ fate[e] = "queued"
      BY <2>1, <3>2 DEF Types
    <3>4. In(e, Tail(batch)) \/ In(e, commands)
      BY <2>1, <3>3, InTail DEF FateInv, Types
    <3>5. QED
      BY <2>1, <3>1, <3>4 DEF In
  <2>5. QED
    BY <2>3, <2>4
<1>3. CASE Swap
  <2>1. batch = <<>> /\ batch' = commands /\ fate' = fate
    BY <1>3 DEF Swap, DrainInv
  <2>2. In(e, batch) \/ In(e, commands)
    BY <2>1 DEF FateInv
  <2>3. ~In(e, <<>>)
    BY DEF In
  <2>4. QED
    BY <2>1, <2>2, <2>3 DEF In
<1>4. CASE UNCHANGED <<commands, batch, fate>>
  BY <1>4 DEF FateInv, In
<1>5. QED
  BY <1>1, <1>2, <1>3, <1>4 DEF Next, Drain, Notifying, Notify, Wake, Stop, Woken, OtherRound, AckWake,
     Clear, Drained, Check, Ending, CloseStop, CloseCommands, vars

\* Nobody's request is refused before closeCommands, and no worker's after it.
LEMMA NextServed == Types /\ ServedInv /\ [Next]_vars => ServedInv'
<1> SUFFICES ASSUME Types, ServedInv, [Next]_vars PROVE ServedInv'
  OBVIOUS
<1>1. ASSUME NEW p \in Workers \cup Apps, NEW c \in Commands, Request(p, c) PROVE ServedInv'
  <2>1. CASE commandsClosed
    <3>1. fate' = [fate EXCEPT ![c] = "refused"] /\ commandsClosed' = commandsClosed /\ fate[c] = "new"
      BY <1>1, <2>1 DEF Request
    <3>2. Owner[c] \notin Workers
      BY <2>1, <3>1 DEF ServedInv
    <3>3. QED
      BY <3>1, <3>2 DEF ServedInv, WorkersServed, Types
  <2>2. CASE ~commandsClosed
    BY <1>1, <2>2 DEF ServedInv, WorkersServed, Types, Request
  <2>3. QED
    BY <2>1, <2>2
<1>2. CASE Each
  <2> DEFINE c == Head(batch)
             d == Chained[c]
             asks == d # None /\ fate[d] = "new"
  <2>1. c \in Commands /\ commandsClosed' = commandsClosed
    BY <1>2 DEF Each, Types
  <2>2. d \in Commands \cup {None} /\ (d # None => Owner[d] \notin Workers)
    BY <2>1, CommandQueueAssumption
  <2>3. CASE ~asks
    <3>1. fate' = [fate EXCEPT ![c] = "handled"]
      BY <1>2, <2>3 DEF Each
    <3>2. QED
      BY <2>1, <3>1 DEF ServedInv, WorkersServed, Types
  <2>4. CASE asks
    <3>1. /\ d \in Commands /\ Owner[d] \notin Workers
          /\ fate' = [fate EXCEPT ![c] = "handled", ![d] = IF commandsClosed THEN "refused" ELSE "queued"]
      BY <1>2, <2>2, <2>4 DEF Each
    <3>2. \A e \in Commands : Owner[e] \in Workers => fate'[e] \in {fate[e], "handled"}
      BY <2>1, <3>1 DEF Types
    <3>3. QED
      BY <2>1, <3>2 DEF ServedInv, WorkersServed
  <2>5. QED
    BY <2>3, <2>4
<1>3. CASE CloseCommands
  <2>1. \A c \in Commands : Owner[c] \in Workers => fate[c] # "new"
    BY <1>3 DEF CloseCommands, workersDone
  <2>2. QED
    BY <1>3, <2>1 DEF CloseCommands, ServedInv, WorkersServed
<1>4. CASE UNCHANGED <<commandsClosed, fate>>
  BY <1>4 DEF ServedInv, WorkersServed
<1>5. QED
  BY <1>1, <1>2, <1>3, <1>4 DEF Next, Drain, Notifying, Notify, Wake, Stop, Woken, OtherRound, AckWake,
     Clear, Swap, Drained, Check, Ending, CloseStop, vars

-----------------------------------------------------------------------------

Inv == Types /\ WakeInv /\ DrainInv /\ FateInv /\ ServedInv

\* The inductive invariant holds at first.
LEMMA InitInv == Init => Inv
<1> SUFFICES ASSUME Init PROVE Inv
  OBVIOUS
<1>1. Types /\ WakeInv /\ DrainInv
  BY InitTypes DEF Init, WakeInv, DrainInv
<1>2. \A c \in Commands : fate[c] = "new"
  BY DEF Init
<1>3. FateInv /\ ServedInv
  BY <1>2 DEF Init, FateInv, ServedInv, WorkersServed
<1>4. QED
  BY <1>1, <1>3 DEF Inv

\* Every step keeps the inductive invariant.
LEMMA NextInv == Inv /\ [Next]_vars => Inv'
BY NextTypes, NextWake, NextDrain, NextFate, NextServed DEF Inv

\* The inductive invariant of request, notify, drainCommands, Run and Close.
THEOREM Invariance == Spec => []Inv
BY InitInv, NextInv, PTL DEF Spec

\* However requests, Stop and the loop interleave, a loop about to wait with
\* commands queued has been or will be woken (notify, drainCommands).
THEOREM NoLostWakeupAlways == Spec => []NoLostWakeup
<1>1. Inv => NoLostWakeup
  BY DEF Inv, WakeInv, NoLostWakeup
<1>2. QED
  BY <1>1, Invariance, PTL

\* Close refuses no request of a worker: it closes the queue after taskWG.Wait.
THEOREM WorkersServedAlways == Spec => []WorkersServed
<1>1. Inv => WorkersServed
  BY DEF Inv, ServedInv
<1>2. QED
  BY <1>1, Invariance, PTL

\* After Close's drain no accepted command is left.
THEOREM NothingLeftAlways == Spec => []NothingLeft
<1>1. Inv => NothingLeft
  <2> SUFFICES ASSUME Inv, lpc = "closed", NEW c \in Commands, fate[c] = "queued" PROVE FALSE
    BY DEF NothingLeft
  <2>1. batch = <<>> /\ commands = <<>>
    BY DEF Inv, DrainInv
  <2>2. In(c, <<>>)
    BY <2>1 DEF Inv, FateInv
  <2>3. QED
    BY <2>2 DEF In
<1>2. QED
  BY <1>1, Invariance, PTL

-----------------------------------------------------------------------------
(* The refinement.                                                         *)

\* Appending to the queue appends to the mail.
LEMMA ConcatAppend ==
    ASSUME NEW s \in Seq(Commands), NEW t \in Seq(Commands), NEW c \in Commands
    PROVE  s \o Append(t, c) = Append(s \o t, c)
OBVIOUS

\* The head of a batch is the head of the mail.
LEMMA ConcatHead ==
    ASSUME NEW s \in Seq(Commands), NEW t \in Seq(Commands), s # <<>>
    PROVE  s \o t # <<>> /\ Head(s \o t) = Head(s) /\ Tail(s \o t) = Tail(s) \o t
OBVIOUS

\* Every step of the queue is a step of the mailbox or leaves it alone.
LEMMA NextBox == Types /\ DrainInv /\ [Next]_vars => [Box!Next]_(Box!mailbox)
<1> SUFFICES ASSUME Types, DrainInv, [Next]_vars PROVE Box!Next \/ UNCHANGED Box!mailbox
  OBVIOUS
<1>1. ASSUME NEW p \in Workers \cup Apps, NEW c \in Commands, Request(p, c) PROVE Box!Put(c) \/ Box!Refuse(c)
  <2>1. CASE commandsClosed
    BY <1>1, <2>1 DEF Request, Box!Refuse
  <2>2. CASE ~commandsClosed
    <3>1. batch' \o commands' = Append(batch \o commands, c)
      <4>1. batch' = batch /\ commands' = Append(commands, c)
        BY <1>1, <2>2 DEF Request
      <4>2. batch \o Append(commands, c) = Append(batch \o commands, c)
        BY ConcatAppend DEF Types
      <4>3. QED
        BY <4>1, <4>2
    <3>2. QED
      BY <1>1, <2>2, <3>1 DEF Request, Box!Put
  <2>3. QED
    BY <2>1, <2>2
<1>2. CASE Each
  <2> DEFINE c == Head(batch)
             d == Chained[c]
             asks == d # None /\ fate[d] = "new"
             mail == batch \o commands
  <2>1. c \in Commands /\ batch # <<>> /\ batch' = Tail(batch) /\ Tail(batch) \in Seq(Commands)
    BY <1>2 DEF Each, Types
  <2>2. d \in Commands \cup {None}
    BY <2>1, CommandQueueAssumption
  <2>3. mail # <<>> /\ Head(mail) = c /\ Tail(mail) = batch' \o commands
    BY <2>1, ConcatHead DEF Types
  <2>4. CASE ~asks
    <3>1. commands' = commands /\ fate' = [fate EXCEPT ![c] = "handled"] /\ commandsClosed' = commandsClosed
      BY <1>2, <2>4 DEF Each
    <3>2. Box!Take
      BY <2>3, <3>1 DEF Box!Take
    <3>3. QED
      BY <3>2 DEF Box!Next
  <2>5. CASE asks /\ ~commandsClosed
    <3>1. /\ d \in Commands /\ fate[d] = "new" /\ commands' = Append(commands, d)
          /\ fate' = [fate EXCEPT ![c] = "handled", ![d] = "queued"]
          /\ commandsClosed' = commandsClosed
      BY <1>2, <2>2, <2>5 DEF Each
    <3>2. batch' \o commands' = Append(Tail(mail), d)
      <4>1. Tail(batch) \o Append(commands, d) = Append(Tail(batch) \o commands, d)
        BY <2>1, <3>1, ConcatAppend DEF Types
      <4>2. QED
        BY <2>1, <2>3, <3>1, <4>1
    <3>3. Box!TakeAndPut(d)
      BY <2>3, <2>5, <3>1, <3>2 DEF Box!TakeAndPut
    <3>4. QED
      BY <3>1, <3>3 DEF Box!Next
  <2>6. CASE asks /\ commandsClosed
    <3>1. /\ d \in Commands /\ fate[d] = "new" /\ commands' = commands
          /\ fate' = [fate EXCEPT ![c] = "handled", ![d] = "refused"]
          /\ commandsClosed' = commandsClosed
      BY <1>2, <2>2, <2>6 DEF Each
    <3>2. Box!TakeAndRefuse(d)
      BY <2>3, <2>6, <3>1 DEF Box!TakeAndRefuse
    <3>3. QED
      BY <3>1, <3>2 DEF Box!Next
  <2>7. QED
    BY <2>4, <2>5, <2>6
<1>3. CASE Swap
  <2>1. batch = <<>> /\ batch' = commands /\ commands' = <<>>
    BY <1>3 DEF Swap, DrainInv
  <2>2. batch \o commands = commands /\ batch' \o commands' = commands
    BY <2>1 DEF Types
  <2>3. QED
    BY <1>3, <2>2 DEF Swap, Box!mailbox
<1>4. CASE CloseCommands
  <2>1. ~commandsClosed
    BY <1>4 DEF CloseCommands, DrainInv
  <2>2. Box!Shut
    BY <1>4, <2>1 DEF CloseCommands, Box!Shut
  <2>3. QED
    BY <2>2 DEF Box!Next
<1>5. CASE UNCHANGED <<commands, batch, commandsClosed, fate>>
  BY <1>5 DEF Box!mailbox
<1>6. QED
  BY <1>1, <1>2, <1>3, <1>4, <1>5 DEF Next, Box!Next, Drain, Notifying, Notify, Wake, Stop, Woken,
     OtherRound, AckWake, Clear, Drained, Check, Ending, CloseStop, vars

\* The queue, appended to by anyone and drained in batches, implements Mailbox:
\* every accepted command is carried out at most once and in order, and refusals
\* happen only after closeCommands.
THEOREM ImplementsMailbox == Spec => Implements
<1>1. Init => Box!Init
  BY DEF Init, Box!Init
<1>2. Inv /\ [Next]_vars => [Box!Next]_(Box!mailbox)
  BY NextBox DEF Inv
<1>3. QED
  BY <1>1, <1>2, Invariance, PTL DEF Spec, Implements, Box!Spec
=============================================================================
