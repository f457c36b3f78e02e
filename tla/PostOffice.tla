----------------------------- MODULE PostOffice -----------------------------
(***************************************************************************)
(* Machines that exchange mail: the Network device with its two interrupts *)
(* and its buffer of one packet, and the PostOffice with its mailboxes and *)
(* its postal worker, over sockets that keep the order of packets.  A      *)
(* packet may be dropped on its way out.                                   *)
(*                                                                         *)
(* Semaphores are those of CountingSemaphore, which Threads implements; a  *)
(* step runs from one P or V to the next.  The locks around a send and     *)
(* around a mailbox do nothing (Lock::Acquire is empty), and waiting for a *)
(* mailbox ends the machine (Condition::Wait is ASSERT(FALSE)).            *)
(***************************************************************************)
EXTENDS Integers, Sequences, SequencesExt, FiniteSets

CONSTANTS
  Machine,     \* NetworkAddress
  Client,      \* threads that send and receive, on each machine
  Box,         \* mailboxes of each machine
  MaxSends,    \* bound: MaxSends[m] is the number of messages m sends
  NULL

Packet == [from : Machine, box : Box, id : Nat]

ASSUME PostOfficeAssumption ==
  /\ MaxSends \in [Machine -> Nat]
  /\ IsFiniteSet(Client)
  /\ NULL \notin Packet

VARIABLES
  status,            \* "Up", "Halted", or "Aborted" by an ASSERT
  socket,            \* packets sent to a machine and not read by it
  sendDone,          \* number of NetworkSendDone interrupts scheduled
  inHdr,             \* the buffered packet, NULL when inHdr.length is 0
  messageAvailable,  \* values of the semaphores
  messageSent,
  worker,            \* the postal worker: in its "P", or about to "Receive"
  boxes,             \* mail in each box
  client,            \* a client: "Idle", or in the "P" of a Send
  sends,             \* messages sent so far, the name of the next one
  taken              \* history: the last message of each sender taken from each box

network == <<socket, sendDone, inHdr>>
vars == <<status, network, messageAvailable, messageSent, worker, boxes, client,
          sends, taken>>

\* The constructor of Network: a new socket, nothing sent and nothing received.
NetworkInit ==
  /\ socket = [m \in Machine |-> <<>>]
  /\ sendDone = [m \in Machine |-> 0]
  /\ inHdr = [m \in Machine |-> NULL]

Init ==
  /\ status = [m \in Machine |-> "Up"]
  /\ NetworkInit
  /\ messageAvailable = [m \in Machine |-> 0]
  /\ messageSent = [m \in Machine |-> 0]
  /\ worker = [m \in Machine |-> "P"]
  /\ boxes = [m \in Machine |-> [b \in Box |-> <<>>]]
  /\ client = [m \in Machine |-> [c \in Client |-> "Idle"]]
  /\ sends = [m \in Machine |-> 0]
  /\ taken = [m \in Machine |-> [b \in Box |-> [f \in Machine |-> 0]]]

-----------------------------------------------------------------------------
(* Sending.                                                                *)

\* The end of machine m: its memory is gone, and its socket with it.
Stops(m, how) ==
  /\ status' = [status EXCEPT ![m] = how]
  /\ socket' = [socket EXCEPT ![m] = <<>>]
  /\ sendDone' = [sendDone EXCEPT ![m] = 0]
  /\ inHdr' = [inHdr EXCEPT ![m] = NULL]
  /\ messageAvailable' = [messageAvailable EXCEPT ![m] = 0]
  /\ messageSent' = [messageSent EXCEPT ![m] = 0]
  /\ worker' = [worker EXCEPT ![m] = "P"]
  /\ boxes' = [boxes EXCEPT ![m] = [b \in Box |-> <<>>]]
  /\ client' = [client EXCEPT ![m] = [c \in Client |-> "Idle"]]
  /\ UNCHANGED <<sends, taken>>

\* PostOffice::Send as far as the P, with Network::Send: the interrupt is
\* scheduled, and the packet is lost or goes to the other machine's socket.  If
\* that is not there, SendToSocket's ASSERT fails.  The test of sendBusy always
\* succeeds: nothing sets it.
Send(m, c, to, b) ==
  /\ status[m] = "Up" /\ client[m][c] = "Idle" /\ sends[m] < MaxSends[m]
  /\ sends' = [sends EXCEPT ![m] = @ + 1]
  /\ sendDone' = [sendDone EXCEPT ![m] = @ + 1]
  /\ client' = [client EXCEPT ![m][c] = "P"]
  /\ \/ UNCHANGED socket
     \/ /\ status[to] = "Up"
        /\ socket' = [socket EXCEPT ![to] =
                        Append(@, [from |-> m, box |-> b, id |-> sends[m] + 1])]
  /\ UNCHANGED <<status, inHdr, messageAvailable, messageSent, worker, boxes, taken>>

SendAborts(m, c, to) ==
  /\ status[m] = "Up" /\ client[m][c] = "Idle" /\ sends[m] < MaxSends[m]
  /\ status[to] # "Up"
  /\ Stops(m, "Aborted")

\* Mutant: the interrupt only frees the device.
SendDoneSilent(m) ==
  /\ status[m] = "Up" /\ sendDone[m] > 0
  /\ sendDone' = [sendDone EXCEPT ![m] = @ - 1]
  /\ UNCHANGED <<status, socket, inHdr, messageAvailable, messageSent, worker,
                 boxes, client, sends, taken>>

PacketSent(m) == messageSent' = [messageSent EXCEPT ![m] = @ + 1]

\* Network::SendDone, which calls PacketSent.
SendDone(m) ==
  /\ status[m] = "Up" /\ sendDone[m] > 0
  /\ sendDone' = [sendDone EXCEPT ![m] = @ - 1]
  /\ PacketSent(m)
  /\ UNCHANGED <<status, socket, inHdr, messageAvailable, worker, boxes, client,
                 sends, taken>>

\* "wait for interrupt to tell us ok to send the next message"
SendP(m, c) ==
  /\ status[m] = "Up" /\ client[m][c] = "P" /\ messageSent[m] > 0
  /\ messageSent' = [messageSent EXCEPT ![m] = @ - 1]
  /\ client' = [client EXCEPT ![m][c] = "Idle"]
  /\ UNCHANGED <<status, network, messageAvailable, worker, boxes, sends, taken>>

-----------------------------------------------------------------------------
(* Receiving.                                                              *)

IncomingPacket(m) == messageAvailable' = [messageAvailable EXCEPT ![m] = @ + 1]

\* Mutant: a packet is read into the buffer whether or not it is free.
CheckPktAvailOverwrites(m) ==
  /\ status[m] = "Up" /\ socket[m] # <<>>
  /\ inHdr' = [inHdr EXCEPT ![m] = Head(socket[m])]
  /\ socket' = [socket EXCEPT ![m] = Tail(@)]
  /\ IncomingPacket(m)
  /\ UNCHANGED <<status, sendDone, messageSent, worker, boxes, client, sends, taken>>

\* The poll that finds a packet and room for it, and calls IncomingPacket.  Every
\* poll schedules the next one.
CheckPktAvail(m) ==
  /\ status[m] = "Up" /\ inHdr[m] = NULL /\ socket[m] # <<>>
  /\ inHdr' = [inHdr EXCEPT ![m] = Head(socket[m])]
  /\ socket' = [socket EXCEPT ![m] = Tail(@)]
  /\ IncomingPacket(m)
  /\ UNCHANGED <<status, sendDone, messageSent, worker, boxes, client, sends, taken>>

\* The postal worker waits for a message ...
WorkerP(m) ==
  /\ status[m] = "Up" /\ worker[m] = "P" /\ messageAvailable[m] > 0
  /\ messageAvailable' = [messageAvailable EXCEPT ![m] = @ - 1]
  /\ worker' = [worker EXCEPT ![m] = "Receive"]
  /\ UNCHANGED <<status, network, messageSent, boxes, client, sends, taken>>

\* Mutant: the buffer is not given back.
ReceiveKeeps(m) == UNCHANGED inHdr

\* Network::Receive
Receive(m) == inHdr' = [inHdr EXCEPT ![m] = NULL]

\* Mutant: new mail is put before the old.
PutFirst(box, mail) == <<mail>> \o box

\* MailBox::Put and SynchList::Append; the Signal wakes nobody.
Put(box, mail) == Append(box, mail)

\* ... and puts it into its mailbox.
PostalDelivery(m) ==
  /\ status[m] = "Up" /\ worker[m] = "Receive"
  /\ Receive(m)
  /\ boxes' = [boxes EXCEPT ![m][inHdr[m].box] = Put(@, inHdr[m])]
  /\ worker' = [worker EXCEPT ![m] = "P"]
  /\ UNCHANGED <<status, socket, sendDone, messageAvailable, messageSent, client,
                 sends, taken>>

\* PostOffice::Receive by a client, with MailBox::Get and SynchList::Remove.
Get(m, c, b) ==
  /\ status[m] = "Up" /\ client[m][c] = "Idle" /\ boxes[m][b] # <<>>
  /\ boxes' = [boxes EXCEPT ![m][b] = Tail(@)]
  /\ taken' = [taken EXCEPT ![m][b][Head(boxes[m][b]).from] = Head(boxes[m][b]).id]
  /\ UNCHANGED <<status, network, messageAvailable, messageSent, worker, client, sends>>

\* An empty mailbox: Condition::Wait.
GetAborts(m, c, b) ==
  /\ status[m] = "Up" /\ client[m][c] = "Idle" /\ boxes[m][b] = <<>>
  /\ Stops(m, "Aborted")

\* A client halts its machine, as MailTest does at its end.
Halt(m, c) ==
  /\ status[m] = "Up" /\ client[m][c] = "Idle"
  /\ Stops(m, "Halted")

-----------------------------------------------------------------------------

Deliver(m) == CheckPktAvail(m) \/ WorkerP(m) \/ PostalDelivery(m)

Next == \E m \in Machine :
  \/ \E c \in Client, to \in Machine, b \in Box : Send(m, c, to, b)
  \/ \E c \in Client, to \in Machine : SendAborts(m, c, to)
  \/ \E c \in Client : SendP(m, c) \/ Halt(m, c)
  \/ \E c \in Client, b \in Box : Get(m, c, b) \/ GetAborts(m, c, b)
  \/ SendDone(m) \/ CheckPktAvail(m) \/ WorkerP(m) \/ PostalDelivery(m)

\* The device's interrupts come (Interrupts), and every ready thread runs
\* (Threads).
Fairness ==
  \A m \in Machine : /\ WF_vars(SendDone(m)) /\ WF_vars(Deliver(m))
                     /\ \A c \in Client : WF_vars(SendP(m, c))

Spec == Init /\ [][Next]_vars /\ Fairness

-----------------------------------------------------------------------------
(* Properties.                                                             *)

\* Type correctness; no more signals than clients are under way.
TypeOK ==
  /\ status \in [Machine -> {"Up", "Halted", "Aborted"}]
  /\ \A m \in Machine :
       /\ inHdr[m] \in Packet \cup {NULL}
       /\ worker[m] \in {"P", "Receive"}
       /\ {sendDone[m], messageSent[m]} \subseteq 0..Cardinality(Client)
       /\ \A i \in DOMAIN socket[m] : socket[m][i] \in Packet
       /\ \A b \in Box : \A i \in DOMAIN boxes[m][b] : boxes[m][b][i] \in Packet

\* The signal and the packet go together: there is a packet in the buffer exactly
\* when messageAvailable is 1 or the worker has taken that signal and is about to
\* call Receive.  So Receive never finds the buffer empty, and no packet is read
\* over one that nobody has received.  The types of the variables are part of it.
PacketIsSignalled ==
  /\ TypeOK
  /\ \A m \in Machine :
       messageAvailable[m] + (IF worker[m] = "Receive" THEN 1 ELSE 0) =
         IF inHdr[m] = NULL THEN 0 ELSE 1

\* Mail from one machine is taken from a box in the order it was sent, and at most
\* once, whatever is lost on the way and whoever sends.
MailInOrder ==
  \A m, from \in Machine, b \in Box :
    LET mail == SelectSeq(boxes[m][b], LAMBDA p : p.from = from)
    IN  \A i \in DOMAIN mail :
          (IF i = 1 THEN taken[m][b][from] ELSE mail[i - 1].id) < mail[i].id

\* A packet that has reached a machine is put into its mailbox unless the machine
\* stops first.
PacketsArrive ==
  \A m \in Machine :
    (socket[m] # <<>> \/ inHdr[m] # NULL) ~>
      (status[m] # "Up" \/ (socket[m] = <<>> /\ inHdr[m] = NULL))

\* Send returns, also when the packet was lost.
SendReturns ==
  \A m \in Machine, c \in Client :
    (client[m][c] = "P") ~> (status[m] # "Up" \/ client[m][c] = "Idle")

\* Both ends of a transmission go on as long as their machines do.
TransmissionsEnd == PacketsArrive /\ SendReturns

=============================================================================
