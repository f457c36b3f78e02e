-------------------------- MODULE PostOfficeProofs --------------------------
(* Proof of PacketIsSignalled of PostOffice, for any number of machines,   *)
(* mailboxes and messages and finitely many clients.                       *)
EXTENDS PostOffice, TLAPS, FiniteSetTheorems

-----------------------------------------------------------------------------
(* The inductive invariant.                                                *)

Shape ==
  /\ status \in [Machine -> {"Up", "Halted", "Aborted"}]
  /\ socket \in [Machine -> Seq(Packet)]
  /\ sendDone \in [Machine -> Nat]
  /\ inHdr \in [Machine -> Packet \cup {NULL}]
  /\ messageAvailable \in [Machine -> Nat]
  /\ messageSent \in [Machine -> Nat]
  /\ worker \in [Machine -> {"P", "Receive"}]
  /\ boxes \in [Machine -> [Box -> Seq(Packet)]]
  /\ client \in [Machine -> [Client -> {"Idle", "P"}]]
  /\ sends \in [Machine -> Nat]

Signal(m) ==
  messageAvailable[m] + (IF worker[m] = "Receive" THEN 1 ELSE 0) =
    IF inHdr[m] = NULL THEN 0 ELSE 1

Senders(m) == {c \in Client : client[m][c] = "P"}

\* Every sender waits for an interrupt to come or for a signal given.
Answers(m) == sendDone[m] + messageSent[m] = Cardinality(Senders(m))

IInv == Shape /\ \A m \in Machine : Signal(m) /\ Answers(m)

-----------------------------------------------------------------------------
(* Counting the senders.                                                   *)

\* There are finitely many senders, no more than clients.
LEMMA SendersFinite ==
  ASSUME NEW m \in Machine
  PROVE  /\ IsFiniteSet(Senders(m))
         /\ Cardinality(Senders(m)) \in Nat
         /\ Cardinality(Client) \in Nat
         /\ Cardinality(Senders(m)) <= Cardinality(Client)
  <1>1. Senders(m) \subseteq Client
    BY DEF Senders
  <1> QED
    BY <1>1, PostOfficeAssumption, FS_Subset, FS_CardinalityType

\* A machine whose part of the state is left alone keeps its part of IInv.
LEMMA OtherMachine ==
  ASSUME NEW m \in Machine, Signal(m), Answers(m),
         messageAvailable'[m] = messageAvailable[m], worker'[m] = worker[m],
         inHdr'[m] = inHdr[m], sendDone'[m] = sendDone[m],
         messageSent'[m] = messageSent[m], client'[m] = client[m]
  PROVE  Signal(m)' /\ Answers(m)'
  BY DEF Signal, Answers, Senders

-----------------------------------------------------------------------------
(* One lemma for each action.                                              *)

\* A machine that stops has nothing left to signal or to answer.
LEMMA StopsStep ==
  ASSUME IInv, NEW m \in Machine, NEW how \in {"Halted", "Aborted"}, Stops(m, how)
  PROVE  IInv'
  <1>1. Shape'
    BY DEF IInv, Shape, Stops
  <1>2. Signal(m)'
    BY PostOfficeAssumption DEF IInv, Shape, Stops, Signal
  <1>3. Answers(m)'
    <2>1. Senders(m)' = {}
      BY DEF IInv, Shape, Stops, Senders
    <2> QED
      BY <2>1, FS_EmptySet DEF IInv, Shape, Stops, Answers
  <1>4. ASSUME NEW k \in Machine, k # m PROVE Signal(k)' /\ Answers(k)'
    BY <1>4, OtherMachine DEF IInv, Shape, Stops
  <1> QED
    BY <1>1, <1>2, <1>3, <1>4 DEF IInv

\* Network::Send schedules an interrupt for the client that goes to wait.
LEMMA SendStep ==
  ASSUME IInv, NEW m \in Machine, NEW c \in Client, NEW to \in Machine, NEW b \in Box,
         Send(m, c, to, b)
  PROVE  IInv'
  <1>1. [from |-> m, box |-> b, id |-> sends[m] + 1] \in Packet
    BY DEF IInv, Shape, Packet
  <1>2. Shape'
    <2>1. Append(socket[to], [from |-> m, box |-> b, id |-> sends[m] + 1]) \in Seq(Packet)
      BY <1>1 DEF IInv, Shape
    <2>2. socket' \in [Machine -> Seq(Packet)]
      BY <2>1 DEF IInv, Shape, Send
    <2>3. client' \in [Machine -> [Client -> {"Idle", "P"}]]
      BY DEF IInv, Shape, Send
    <2>4. sends' \in [Machine -> Nat] /\ sendDone' \in [Machine -> Nat]
      <3>1. sends \in [Machine -> Nat] /\ sendDone \in [Machine -> Nat]
        BY DEF IInv, Shape
      <3>2. /\ sends' = [sends EXCEPT ![m] = sends[m] + 1]
            /\ sendDone' = [sendDone EXCEPT ![m] = sendDone[m] + 1]
        BY DEF Send
      <3> QED
        BY <3>1, <3>2
    <2> QED
      BY <2>2, <2>3, <2>4 DEF IInv, Shape, Send
  <1>3. Signal(m)'
    BY DEF IInv, Signal, Send
  <1>4. Answers(m)'
    <2>1. Senders(m)' = Senders(m) \cup {c} /\ c \notin Senders(m)
      BY DEF IInv, Shape, Send, Senders
    <2>2. Cardinality(Senders(m)') = Cardinality(Senders(m)) + 1
      BY <2>1, SendersFinite, FS_AddElement
    <2>3. sendDone'[m] = sendDone[m] + 1 /\ messageSent'[m] = messageSent[m]
      BY DEF IInv, Shape, Send
    <2> QED
      BY <2>2, <2>3, SendersFinite DEF IInv, Shape, Answers
  <1>5. ASSUME NEW k \in Machine, k # m PROVE Signal(k)' /\ Answers(k)'
    BY <1>5, OtherMachine DEF IInv, Shape, Send
  <1> QED
    BY <1>2, <1>3, <1>4, <1>5 DEF IInv

\* The interrupt becomes a signal.
LEMMA SendDoneStep ==
  ASSUME IInv, NEW m \in Machine, SendDone(m)
  PROVE  IInv'
  <1>1. Shape'
    BY DEF IInv, Shape, SendDone, PacketSent
  <1>2. Signal(m)' /\ Answers(m)'
    <2>1. Senders(m)' = Senders(m)
      BY DEF SendDone, Senders
    <2>2. sendDone'[m] = sendDone[m] - 1 /\ messageSent'[m] = messageSent[m] + 1
      BY DEF IInv, Shape, SendDone, PacketSent
    <2>3. Answers(m)'
      BY <2>1, <2>2 DEF IInv, Shape, Answers
    <2> QED
      BY <2>3 DEF IInv, SendDone, Signal
  <1>3. ASSUME NEW k \in Machine, k # m PROVE Signal(k)' /\ Answers(k)'
    BY <1>3, OtherMachine DEF IInv, Shape, SendDone, PacketSent
  <1> QED
    BY <1>1, <1>2, <1>3 DEF IInv

\* A sender takes a signal and returns.
LEMMA SendPStep ==
  ASSUME IInv, NEW m \in Machine, NEW c \in Client, SendP(m, c)
  PROVE  IInv'
  <1>1. Shape'
    BY DEF IInv, Shape, SendP, network
  <1>2. Signal(m)'
    BY DEF IInv, Signal, SendP, network
  <1>3. Answers(m)'
    <2>1. Senders(m)' = Senders(m) \ {c} /\ c \in Senders(m)
      BY DEF IInv, Shape, SendP, Senders
    <2>2. Cardinality(Senders(m)') = Cardinality(Senders(m)) - 1
      BY <2>1, SendersFinite, FS_RemoveElement
    <2>3. sendDone'[m] = sendDone[m] /\ messageSent'[m] = messageSent[m] - 1
      BY DEF IInv, Shape, SendP, network
    <2> QED
      BY <2>2, <2>3, SendersFinite DEF IInv, Shape, Answers
  <1>4. ASSUME NEW k \in Machine, k # m PROVE Signal(k)' /\ Answers(k)'
    BY <1>4, OtherMachine DEF IInv, Shape, SendP, network
  <1> QED
    BY <1>1, <1>2, <1>3, <1>4 DEF IInv

\* A packet comes into the free buffer, with its signal.
LEMMA CheckPktAvailStep ==
  ASSUME IInv, NEW m \in Machine, CheckPktAvail(m)
  PROVE  IInv'
  <1>1. Head(socket[m]) \in Packet /\ Tail(socket[m]) \in Seq(Packet)
    BY DEF IInv, Shape, CheckPktAvail
  <1>2. Shape'
    BY <1>1 DEF IInv, Shape, CheckPktAvail, IncomingPacket
  <1>3. Signal(m)' /\ Answers(m)'
    <2>1. Answers(m)'
      BY DEF IInv, CheckPktAvail, Answers, Senders
    <2>2. messageAvailable[m] = 0 /\ worker[m] # "Receive"
      BY DEF IInv, Shape, CheckPktAvail, Signal
    <2>3. messageAvailable'[m] = 1 /\ worker'[m] # "Receive" /\ inHdr'[m] \in Packet
      BY <1>1, <2>2 DEF IInv, Shape, CheckPktAvail, IncomingPacket
    <2> QED
      BY <2>1, <2>3, PostOfficeAssumption DEF Signal
  <1>4. ASSUME NEW k \in Machine, k # m PROVE Signal(k)' /\ Answers(k)'
    BY <1>4, OtherMachine DEF IInv, Shape, CheckPktAvail, IncomingPacket
  <1> QED
    BY <1>2, <1>3, <1>4 DEF IInv

\* The postal worker takes the signal ...
LEMMA WorkerPStep ==
  ASSUME IInv, NEW m \in Machine, WorkerP(m)
  PROVE  IInv'
  <1>1. Shape'
    BY DEF IInv, Shape, WorkerP, network
  <1>2. Signal(m)' /\ Answers(m)'
    <2>1. Answers(m)'
      BY DEF IInv, WorkerP, network, Answers, Senders
    <2>2. /\ messageAvailable'[m] = messageAvailable[m] - 1 /\ worker[m] = "P"
          /\ worker'[m] = "Receive" /\ inHdr'[m] = inHdr[m]
      BY DEF IInv, Shape, WorkerP, network
    <2>3. messageAvailable[m] \in Nat /\ Signal(m)
      BY DEF IInv, Shape
    <2> QED
      BY <2>1, <2>2, <2>3 DEF Signal
  <1>3. ASSUME NEW k \in Machine, k # m PROVE Signal(k)' /\ Answers(k)'
    BY <1>3, OtherMachine DEF IInv, Shape, WorkerP, network
  <1> QED
    BY <1>1, <1>2, <1>3 DEF IInv

\* ... and finds the packet.
LEMMA PostalDeliveryStep ==
  ASSUME IInv, NEW m \in Machine, PostalDelivery(m)
  PROVE  IInv'
  <1>1. messageAvailable[m] = 0 /\ inHdr[m] \in Packet
    BY DEF IInv, Shape, Signal, PostalDelivery
  <1>2. inHdr[m].box \in Box
    BY <1>1 DEF Packet
  <1>3. Append(boxes[m][inHdr[m].box], inHdr[m]) \in Seq(Packet)
    BY <1>1, <1>2 DEF IInv, Shape
  <1>4. Shape'
    BY <1>2, <1>3 DEF IInv, Shape, PostalDelivery, Receive, Put
  <1>5. Signal(m)' /\ Answers(m)'
    BY <1>1 DEF IInv, Shape, PostalDelivery, Receive, Signal, Answers, Senders
  <1>6. ASSUME NEW k \in Machine, k # m PROVE Signal(k)' /\ Answers(k)'
    BY <1>6, OtherMachine DEF IInv, Shape, PostalDelivery, Receive
  <1> QED
    BY <1>4, <1>5, <1>6 DEF IInv

\* A client takes mail out of its box.
LEMMA GetStep ==
  ASSUME IInv, NEW m \in Machine, NEW c \in Client, NEW b \in Box, Get(m, c, b)
  PROVE  IInv'
  <1>1. Tail(boxes[m][b]) \in Seq(Packet)
    BY DEF IInv, Shape, Get
  <1>2. Shape'
    BY <1>1 DEF IInv, Shape, Get, network
  <1>3. ASSUME NEW k \in Machine PROVE Signal(k)' /\ Answers(k)'
    BY OtherMachine DEF IInv, Get, network
  <1> QED
    BY <1>2, <1>3 DEF IInv

-----------------------------------------------------------------------------
(* The theorem.                                                            *)

\* New machines have nothing to signal.
LEMMA InitIInv == Init => IInv
  <1> SUFFICES ASSUME Init PROVE IInv
    OBVIOUS
  <1>1. Shape
    BY DEF Init, NetworkInit, Shape
  <1>2. ASSUME NEW m \in Machine PROVE Signal(m) /\ Answers(m)
    <2>1. Senders(m) = {}
      BY DEF Init, Senders
    <2> QED
      BY <2>1, FS_EmptySet DEF Init, NetworkInit, Signal, Answers
  <1> QED
    BY <1>1, <1>2 DEF IInv

\* Every step of a client, a device or the worker keeps the invariant.
LEMMA NextIInv == IInv /\ [Next]_vars => IInv'
  <1> SUFFICES ASSUME IInv, [Next]_vars PROVE IInv'
    OBVIOUS
  <1>1. CASE UNCHANGED vars
    <2>1. Shape'
      BY <1>1 DEF IInv, Shape, vars, network
    <2>2. ASSUME NEW m \in Machine PROVE Signal(m)' /\ Answers(m)'
      BY <1>1, OtherMachine DEF IInv, vars, network
    <2> QED
      BY <2>1, <2>2 DEF IInv
  <1> QED
    BY <1>1, StopsStep, SendStep, SendDoneStep, SendPStep, CheckPktAvailStep, WorkerPStep,
       PostalDeliveryStep, GetStep DEF Next, SendAborts, GetAborts, Halt

\* Receive always finds the packet whose signal the worker has taken, no packet
\* is read over another, and no more Sends are answered than are under way.
THEOREM WorkerFindsPacket == Spec => []PacketIsSignalled
  <1>1. IInv => PacketIsSignalled
    <2> SUFFICES ASSUME IInv PROVE PacketIsSignalled
      OBVIOUS
    <2>1. ASSUME NEW m \in Machine
          PROVE  {sendDone[m], messageSent[m]} \subseteq 0..Cardinality(Client)
      BY SendersFinite DEF IInv, Shape, Answers
    <2>2. TypeOK
      BY <2>1 DEF IInv, Shape, TypeOK
    <2> QED
      BY <2>2 DEF IInv, Signal, PacketIsSignalled
  <1> QED
    BY <1>1, InitIInv, NextIInv, PTL DEF Spec

=============================================================================
