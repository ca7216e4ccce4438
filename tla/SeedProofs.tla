------------------------------- MODULE SeedProofs -------------------------------
(***************************************************************************)
(* What holds of the seed link for every number of tickets, every set of   *)
(* commands and any client; then what holds of the game's frontend with    *)
(* core 0 and the link, for every depth of the bus and length of a report, *)
(* over all the interleavings of the three.                                *)
(***************************************************************************)
EXTENDS SeedPort, SequenceTheorems, TLAPS

USE TicketAssumption, CommandAssumption, EpochAssumption, NoneAssumption

\* The request Link::submit builds.
NewRequest(t, c) == [epoch |-> epoch + 1, ticket |-> t, command |-> c]

\* What Link::submit does when it accepts, field by field.
LEMMA Accepted ==
  ASSUME TypeOK, NEW t \in Ticket \cup {0}, NEW c \in Command \cup {NoCommand},
         Accept(t, c)
  PROVE  /\ NewRequest(t, c) \in Request
         /\ NewRequest(t, c).epoch = epoch + 1
         /\ NewRequest(t, c).ticket = t /\ NewRequest(t, c).command = c
         /\ active' = NewRequest(t, c) /\ queued' = NewRequest(t, c)
         /\ epoch' = epoch + 1 /\ ack' = ack /\ last' = last
         /\ running' = running /\ outcome' = outcome /\ session' = session
         /\ frame' = IF c = Lock THEN Blank ELSE frame
         /\ ~Duplicate(t, c) /\ (active = NoRequest \/ c = Lock)
  BY DEF TypeOK, Accept, Accepts, NewRequest, Request, Command, Ticket

LEMMA LinkTyped == TypeOK /\ [Next]_vars => TypeOK'
<1> SUFFICES ASSUME TypeOK, [Next]_vars PROVE TypeOK'
  OBVIOUS
<1>1. ASSUME NEW t \in Ticket \cup {0}, NEW c \in Command \cup {NoCommand},
             Submit(t, c)
      PROVE  TypeOK'
  <2>1. CASE Accept(t, c)
    BY <2>1, Accepted DEF TypeOK
  <2>2. CASE UNCHANGED vars
    BY <2>2 DEF TypeOK, vars
  <2> QED BY <1>1, <2>1, <2>2 DEF Submit
<1>2. CASE Take
  BY <1>2 DEF Take, TypeOK, Result
<1>3. CASE Execute
  <2>1. running \in Request /\ session' \in Screen
    BY <1>3 DEF Execute, TypeOK, Screen
  <2>2. outcome' \in Result /\ outcome'.of = running
    BY <1>3, <2>1 DEF Execute, Result
  <2> QED BY <1>3, <2>1, <2>2 DEF Execute, TypeOK
<1>4. CASE Finish
  <2>1. outcome \in Result /\ outcome.of = running /\ running \in Request
    BY <1>4 DEF Finish, TypeOK, Result
  <2>2. running.ticket \in Ticket
    BY <2>1 DEF Request
  <2> QED BY <1>4, <2>1, <2>2 DEF Finish, Publish, TypeOK
<1>5. CASE Reset
  BY <1>5 DEF Reset, TypeOK, Screen
<1>6. CASE UNCHANGED vars
  BY <1>6 DEF TypeOK, vars
<1> QED BY <1>1, <1>2, <1>3, <1>4, <1>5, <1>6 DEF Next, Client, Worker

\* Link and worker keep their types whatever the client submits.
THEOREM TypeCorrect == Spec => []TypeOK
<1>1. Init => TypeOK
  BY DEF Init, TypeOK, Screen
<1> QED BY <1>1, LinkTyped, PTL DEF Spec

-----------------------------------------------------------------------------

\* The queue holds the active request until the worker takes it, and it is
\* younger than the one taken before.
QueueInv ==
  queued # NoRequest =>
    queued = active /\ (last # NoRequest => last.epoch < queued.epoch)

\* Epochs number the requests accepted; the active one is the youngest.
EpochInv ==
  /\ active # NoRequest => active.epoch = epoch
  /\ last # NoRequest => last.epoch <= epoch

\* The worker is at the last request taken, which is the active one when the
\* queue is empty and the acknowledged one when nothing is active.
WorkerInv ==
  /\ running # NoRequest => running = last
  /\ (active # NoRequest /\ queued = NoRequest) => active = last
  /\ (active = NoRequest /\ last # NoRequest) => ack = last.ticket

IInv == QueueInv /\ EpochInv /\ WorkerInv /\ NoTicketRunsTwice /\ FrameIsCurrent

LEMMA Inductive == TypeOK /\ TypeOK' /\ IInv /\ [Next]_vars => IInv'
<1> SUFFICES ASSUME TypeOK, TypeOK', IInv, [Next]_vars PROVE IInv'
  OBVIOUS
<1> USE DEF IInv
<1>1. ASSUME NEW t \in Ticket \cup {0}, NEW c \in Command \cup {NoCommand},
             Submit(t, c)
      PROVE  IInv'
  <2>1. CASE Accept(t, c)
    <3> DEFINE r == NewRequest(t, c)
    <3>1. /\ r \in Request /\ r.epoch = epoch + 1 /\ r.ticket = t /\ r.command = c
          /\ active' = r /\ queued' = r /\ epoch' = epoch + 1
          /\ ack' = ack /\ last' = last /\ running' = running
          /\ frame' = IF c = Lock THEN Blank ELSE frame
          /\ ~Duplicate(t, c) /\ (active = NoRequest \/ c = Lock)
      BY <2>1, Accepted
    <3> HIDE DEF r
    <3>2. epoch \in Nat /\ r # NoRequest
      BY <3>1 DEF TypeOK
    <3>3. last # NoRequest => last.epoch \in Nat
      BY DEF TypeOK, Request
    <3>4. QueueInv' /\ EpochInv'
      BY <3>1, <3>2, <3>3 DEF QueueInv, EpochInv
    <3>5. WorkerInv'
      BY <3>1, <3>2 DEF WorkerInv
    <3>6. NoTicketRunsTwice'
      BY <3>1, <3>2 DEF NoTicketRunsTwice, WorkerInv, Duplicate
    <3>7. FrameIsCurrent'
      BY <3>1, <3>2 DEF FrameIsCurrent
    <3> QED BY <3>4, <3>5, <3>6, <3>7
  <2>2. CASE UNCHANGED vars
    BY <2>2 DEF vars, QueueInv, EpochInv, WorkerInv, NoTicketRunsTwice, FrameIsCurrent
  <2> QED BY <1>1, <2>1, <2>2 DEF Submit
<1>2. CASE Take
  <2>1. queued = active /\ active.epoch = epoch /\ epoch \in Nat
    BY <1>2 DEF Take, QueueInv, EpochInv, TypeOK
  <2> QED
    BY <1>2, <2>1
    DEF Take, QueueInv, EpochInv, WorkerInv, NoTicketRunsTwice, FrameIsCurrent
<1>3. CASE Execute
  BY <1>3
  DEF Execute, QueueInv, EpochInv, WorkerInv, NoTicketRunsTwice, FrameIsCurrent
<1>4. CASE Finish
  <2>1. running \in Request /\ outcome.of = running /\ running = last
    BY <1>4 DEF Finish, TypeOK, Result, WorkerInv
  <2>2. CASE Publish
    <3>1. queued = NoRequest
      BY <2>1, <2>2 DEF Publish, QueueInv, Request
    <3>2. FrameIsCurrent'
      BY <1>4, <2>1, <2>2 DEF Finish, Publish, FrameIsCurrent, EpochInv
    <3> QED
      BY <1>4, <2>1, <2>2, <3>1, <3>2
      DEF Finish, Publish, QueueInv, EpochInv, WorkerInv, NoTicketRunsTwice
  <2>3. CASE UNCHANGED <<frame, ack, active>>
    BY <1>4, <2>1, <2>3
    DEF Finish, QueueInv, EpochInv, WorkerInv, NoTicketRunsTwice, FrameIsCurrent
  <2> QED BY <1>4, <2>2, <2>3 DEF Finish
<1>5. CASE Reset
  BY <1>5 DEF Reset, QueueInv, EpochInv, WorkerInv, NoTicketRunsTwice, FrameIsCurrent
<1>6. CASE UNCHANGED vars
  BY <1>6 DEF vars, QueueInv, EpochInv, WorkerInv, NoTicketRunsTwice, FrameIsCurrent
<1> QED BY <1>1, <1>2, <1>3, <1>4, <1>5, <1>6 DEF Next, Client, Worker

LEMMA Inductively == Spec => []IInv
<1>1. Init => IInv
  BY DEF Init, IInv, QueueInv, EpochInv, WorkerInv, NoTicketRunsTwice, FrameIsCurrent
<1> QED BY <1>1, Inductive, TypeCorrect, PTL DEF Spec

\* The result of a request that a LOCK has superseded is never published: the
\* frame answers the last request accepted, or the one before it while that one
\* is at work.
THEOREM SupersededStaysHidden == Spec => []FrameIsCurrent
<1>1. IInv => FrameIsCurrent
  BY DEF IInv
<1> QED BY <1>1, Inductively, PTL

\* A ticket that is submitted again does not run twice in a row, LOCK apart.
THEOREM TicketsRunOnce == Spec => []NoTicketRunsTwice
<1>1. IInv => NoTicketRunsTwice
  BY DEF IInv
<1> QED BY <1>1, Inductively, PTL

\* Link and worker implement the mailbox: a step is an acceptance, a reply to
\* the pending request, a reset, or invisible to the client.
THEOREM LinkKeepsPromise == Spec => KeepsPromise
<1>1. Init => Promise!Init
  BY DEF Init, Promise!Init
<1>2. TypeOK /\ TypeOK' /\ [Next]_vars => [Promise!Next]_Promise!vars
  <2> SUFFICES ASSUME TypeOK, TypeOK', [Next]_vars
               PROVE  Promise!Next \/ UNCHANGED <<active, frame>>
    BY DEF Promise!vars
  <2>1. ASSUME NEW t \in Ticket \cup {0}, NEW c \in Command \cup {NoCommand},
               Submit(t, c)
        PROVE  Promise!Next \/ UNCHANGED <<active, frame>>
    <3>1. CASE Accept(t, c)
      <4>1. Promise!Accept
        BY <3>1, Accepted DEF Promise!Accept
      <4> QED BY <4>1 DEF Promise!Next
    <3>2. CASE UNCHANGED vars
      BY <3>2 DEF vars
    <3> QED BY <2>1, <3>1, <3>2 DEF Submit
  <2>2. CASE Take \/ Execute
    BY <2>2 DEF Take, Execute
  <2>3. CASE Finish
    <3>1. outcome \in Result /\ outcome.of = running /\ running \in Request
      BY <2>3 DEF Finish, TypeOK, Result
    <3>2. CASE Publish
      <4>1. Promise!Reply
        BY <3>1, <3>2 DEF Publish, Promise!Reply
      <4> QED BY <4>1 DEF Promise!Next
    <3>3. CASE UNCHANGED <<frame, ack, active>>
      BY <3>3
    <3> QED BY <2>3, <3>2, <3>3 DEF Finish
  <2>4. CASE Reset
    BY <2>4 DEF Reset, Promise!Next, Promise!Reset
  <2>5. CASE UNCHANGED vars
    BY <2>5 DEF vars
  <2> QED BY <2>1, <2>2, <2>3, <2>4, <2>5 DEF Next, Client, Worker
<1> QED BY <1>1, <1>2, TypeCorrect, PTL DEF Spec, KeepsPromise, Promise!Spec

-----------------------------------------------------------------------------
(* The safety half of Answered: what keeps a request waiting is only that  *)
(* Worker::poll is not called, and five calls are enough.                  *)

\* Calls of Worker::poll, a call being a step of it, until the link is idle.
CallsLeft ==
  (IF queued = NoRequest THEN 0 ELSE 3)
    + (IF running = NoRequest THEN 0 ELSE IF outcome = Blank THEN 2 ELSE 1)

\* One of the steps of Worker::poll finds something to do: the guards of Take,
\* Execute and Finish.
PollFindsWork ==
  \/ running = NoRequest /\ queued # NoRequest
  \/ running # NoRequest /\ outcome = Blank
  \/ outcome # Blank

\* A request that waits for its answer is in the queue or in the worker's hands.
HandInv == (active # NoRequest /\ queued = NoRequest) => running = active

LEMMA HandStep == TypeOK /\ IInv /\ HandInv /\ [Next]_vars => HandInv'
<1> SUFFICES ASSUME TypeOK, IInv, HandInv, [Next]_vars PROVE HandInv'
  OBVIOUS
<1>1. ASSUME NEW t \in Ticket \cup {0}, NEW c \in Command \cup {NoCommand},
             Submit(t, c)
      PROVE  HandInv'
  <2>1. CASE Accept(t, c)
    <3>1. queued' \in Request
      BY <2>1, Accepted
    <3> QED BY <3>1 DEF HandInv
  <2>2. CASE UNCHANGED vars
    BY <2>2 DEF vars, HandInv
  <2> QED BY <1>1, <2>1, <2>2 DEF Submit
<1>2. CASE Take
  BY <1>2 DEF Take, IInv, QueueInv, HandInv
<1>3. CASE Execute
  BY <1>3 DEF Execute, HandInv
<1>4. CASE Finish
  BY <1>4 DEF Finish, Publish, HandInv
<1>5. CASE Reset
  BY <1>5 DEF Reset, HandInv
<1>6. CASE UNCHANGED vars
  BY <1>6 DEF vars, HandInv
<1> QED BY <1>1, <1>2, <1>3, <1>4, <1>5, <1>6 DEF Next, Client, Worker

\* A request that Link::submit has accepted and nobody has answered is never
\* lost between queue and worker: Worker::poll has something to do, and at most
\* five calls of it are left.
THEOREM RequestIsNeverLost ==
  Spec => [](active # NoRequest => PollFindsWork /\ CallsLeft \in 1 .. 5)
<1>1. Init => HandInv
  BY DEF Init, HandInv
<1>2. TypeOK /\ HandInv => (active # NoRequest => PollFindsWork /\ CallsLeft \in 1 .. 5)
  <2> SUFFICES ASSUME TypeOK, HandInv, active # NoRequest
               PROVE  PollFindsWork /\ CallsLeft \in 1 .. 5
    OBVIOUS
  <2>1. queued # NoRequest \/ running # NoRequest
    BY DEF HandInv
  <2>2. PollFindsWork
    BY <2>1 DEF PollFindsWork
  <2>3. CallsLeft \in 1 .. 5
    BY <2>1 DEF CallsLeft
  <2> QED BY <2>2, <2>3
<1> QED BY <1>1, <1>2, HandStep, TypeCorrect, Inductively, PTL DEF Spec

\* Every call of Worker::poll that does something is one less to go, and nothing
\* else adds to them while the same request waits: a client that goes on
\* submitting cannot keep it waiting for longer, only supersede it.
THEOREM EveryCallCounts ==
  Spec => [][/\ Worker => CallsLeft' = CallsLeft - 1
             /\ active # NoRequest /\ active' = active => CallsLeft' <= CallsLeft]_vars
<1> DEFINE Counts ==
      /\ Worker => CallsLeft' = CallsLeft - 1
      /\ active # NoRequest /\ active' = active => CallsLeft' <= CallsLeft
<1>1. TypeOK /\ IInv /\ [Next]_vars => [Counts]_vars
  <2> SUFFICES ASSUME TypeOK, IInv, [Next]_vars, ~UNCHANGED vars PROVE Counts
    OBVIOUS
  <2>1. ASSUME Worker PROVE CallsLeft' = CallsLeft - 1
    <3>1. outcome # Blank => running # NoRequest
      BY DEF TypeOK, Result
    <3>2. CASE Take
      BY <3>1, <3>2 DEF Take, CallsLeft
    <3>3. CASE Execute
      <4>1. outcome' # Blank
        BY <3>3 DEF Execute, TypeOK, Result, Screen
      <4> QED BY <3>3, <4>1 DEF Execute, CallsLeft
    <3>4. CASE Finish
      BY <3>1, <3>4 DEF Finish, CallsLeft
    <3> QED BY <2>1, <3>2, <3>3, <3>4 DEF Worker
  <2>2. ASSUME ~Worker, active # NoRequest PROVE active' # active
    <3>1. CASE Client
      <4>1. PICK t \in Ticket \cup {0}, c \in Command \cup {NoCommand} : Accept(t, c)
        BY <3>1 DEF Client, Submit
      <4>2. active'.epoch = epoch + 1
        BY <4>1, Accepted
      <4>3. active.epoch = epoch /\ epoch \in Nat
        BY <2>2 DEF IInv, EpochInv, TypeOK
      <4> QED BY <4>2, <4>3
    <3>2. CASE Reset
      BY <2>2, <3>2 DEF Reset
    <3> QED BY <2>2, <3>1, <3>2 DEF Next
  <2>3. CallsLeft \in Nat
    BY DEF CallsLeft
  <2> QED BY <2>1, <2>2, <2>3
<1> QED BY <1>1, TypeCorrect, Inductively, PTL DEF Spec

-----------------------------------------------------------------------------
\* From here on, the link with the frontend in front of it (SeedPort).

BusWrite == [address : {"command"}, data : Command]
       \cup [address : {"ticket"}, data : Ticket]
       \cup [address : {"page"}, data : 0 .. QrPages - 1]

Window == [seq : 0 .. SeqMod - 1, ack : Ticket \cup {0}, busy : BOOLEAN,
           index : 0 .. QrPages - 1, payload : Payload, tail : 0 .. SeqMod - 1]

\* The frontend is out of SeedSend, within SeedReadPage after its write, or
\* about to make it.
Idle == {"game", "menu", "missing", "leave"}
Reads == {"head", "status", "payload", "verify", "again"}
Sends == Reads \cup {"ask"}

HasTicket == \E i \in 1 .. Len(bus) : bus[i].address = "ticket"

\* The page last published, or being published.
Latest == IF cpc = "pull" THEN window ELSE publishing

FrontendType ==
  /\ fpc \in Idle \cup Sends /\ fetching \in BOOLEAN
  /\ opening \in BOOLEAN /\ wSeedFailed \in BOOLEAN /\ stale \in BOOLEAN
  /\ sending \in Command \cup {NoCommand}
  /\ wSeedTicket \in Ticket \cup {0}
  /\ wSeedStage \in Window /\ seen \in 0 .. SeqMod - 1
  /\ wSeedReport \in [0 .. QrPages - 1 -> Payload]
  /\ wSeedPage \in 0 .. QrPages
  /\ fpc \in Sends => wSeedPage < QrPages
  /\ fpc # "game" => wSeedTicket # 0 /\ sending # NoCommand
  /\ wSeedTicket = 0 => bus = <<>>
  /\ fpc \in Idle => ~opening

\* The bus holds at most one command with its ticket, the ones last sent, and
\* ends with the page SeedReadPage waits for.
BusInv ==
  /\ bus \in Seq(BusWrite) /\ Len(bus) <= BusDepth
  /\ command \in Command \cup {NoCommand}
  /\ \A i \in 1 .. Len(bus) :
       /\ bus[i].address = "ticket" =>
            /\ bus[i].data = wSeedTicket
            /\ IF i = 1 THEN command = sending ELSE bus[i - 1].address = "command"
       /\ bus[i].address = "command" =>
            /\ bus[i].data = sending
            /\ i < Len(bus) /\ bus[i + 1].address = "ticket"
  /\ \A i, j \in 1 .. Len(bus) :
       bus[i].address = "ticket" /\ bus[j].address = "ticket" => i = j
  /\ HasTicket => fpc \in Sends /\ epoch < MaxEpoch
  /\ fpc \in Reads /\ bus # <<>> => bus[Len(bus)].address = "page"

\* After a restart nothing of the window is used before a page of the game's is
\* published, and a ticket on the bus comes before it.
StaleInv ==
  stale =>
    /\ cpc = "pull" /\ fpc \in {"game", "ask", "head"}
    /\ fpc = "game" => bus = <<>> /\ wSeedTicket = 0
    /\ fpc = "ask" => \A i \in 1 .. Len(bus) : bus[i].address # "page"
    /\ fpc = "head" => bus # <<>>
    /\ HasTicket => bus[1].address # "page"

\* While core 0 copies a page the first byte is odd; what it has copied is the
\* page's.
WindowInv ==
  /\ window \in Window
  /\ cpc \in {"pull", "status", "payload", "seal"}
  /\ cpc = "pull" => window.seq % 2 = 0
  /\ cpc # "pull" => /\ publishing \in Window /\ publishing.seq % 2 = 0
                     /\ window.seq = publishing.seq + 1
  /\ cpc \in {"payload", "seal"} =>
       /\ window.ack = publishing.ack /\ window.busy = publishing.busy
       /\ window.index = publishing.index
  /\ cpc = "seal" => window.payload = publishing.payload /\ window.tail = publishing.tail
  /\ Latest.payload # NoPage => Latest.payload.page = Latest.index

\* Between the first look at the sequence byte and the second, d pages have been
\* published, no more than the bus has had room for; with none the copy is the
\* window's.
CopyInv ==
  fpc \in {"status", "payload", "verify"} =>
    \E d \in 0 .. BusDepth - Len(bus) :
      /\ Latest.seq = seen + 2 * d \/ Latest.seq = seen + 2 * d - SeqMod
      /\ d = 0 =>
           /\ cpc = "pull"
           /\ fpc \in {"payload", "verify"} =>
                /\ wSeedStage.ack = window.ack /\ wSeedStage.busy = window.busy
                /\ wSeedStage.index = window.index
           /\ fpc = "verify" => wSeedStage.payload = window.payload

\* With nothing at work the frame answers the acknowledged ticket, and a LOCK
\* answered there has locked the signer.
QuietInv ==
  /\ outcome # Blank => /\ outcome.shows = session
                        /\ running.command = Lock => session = "locked"
  /\ active = NoRequest =>
       /\ queued = NoRequest /\ running = NoRequest
       /\ ack = 0 \/ /\ frame # Blank /\ frame.of.ticket = ack
                     /\ frame.of.command = Lock => session = "locked"

\* The link is at the frontend's ticket, or through with it; and at its command.
Answering == IF active = NoRequest THEN ack = wSeedTicket ELSE active.ticket = wSeedTicket

Obeying == IF active = NoRequest THEN frame # Blank /\ frame.of.command = sending
                                 ELSE active.command = sending

\* A ticket that has left the bus has been accepted, or is the running one.  One
\* still on it is new to the link, which is idle unless the command is a LOCK.
TicketInv ==
  /\ ~HasTicket /\ wSeedTicket # 0 => Answering
  /\ HasTicket /\ (sending # Lock \/ bus[1].address = "page") =>
       active = NoRequest /\ ack # wSeedTicket
  /\ HasTicket /\ ~opening => active = NoRequest \/ active.ticket # wSeedTicket
  /\ fpc \in Sends /\ ~HasTicket /\ ~opening => Obeying
  /\ fpc = "leave" => sending = Lock /\ active = NoRequest /\ Obeying
  /\ fpc \in Idle /\ bus # <<>> => active = NoRequest
  /\ fpc = "menu" /\ ~wSeedFailed => active = NoRequest

Current(w) == w.busy \/ w.ack = wSeedTicket

\* A page that acknowledges the frontend's ticket with nothing at work holds the
\* answer, and nothing moves before the next ticket.
PageInv ==
  /\ ~stale /\ ~Latest.busy /\ Latest.ack = wSeedTicket /\ wSeedTicket # 0 =>
       ~HasTicket /\ active = NoRequest /\ Latest.payload.frame = frame
  /\ fpc \in Reads /\ bus = <<>> => Current(Latest)
  /\ fpc \in Idle /\ ~stale => Current(Latest)

\* The pages fetched are pages of the frame.
FetchInv ==
  /\ fpc \in Sends /\ ~fetching => wSeedPage = 0
  /\ fpc \in Sends /\ fetching =>
       /\ ~stale /\ ~Latest.busy /\ Latest.ack = wSeedTicket
       /\ \A i \in 0 .. wSeedPage - 1 : wSeedReport[i] = [frame |-> frame, page |-> i]
  /\ fpc = "menu" /\ ~wSeedFailed =>
       \A i \in 0 .. PageCount(wSeedReport) - 1 :
          wSeedReport[i] = [frame |-> frame, page |-> i]

PortInv ==
  /\ TypeOK /\ IInv /\ QuietInv
  /\ FrontendType /\ BusInv /\ StaleInv /\ WindowInv /\ CopyInv
  /\ TicketInv /\ PageInv /\ FetchInv

-----------------------------------------------------------------------------
\* The bus as a queue.

LEMMA Pull ==
  ASSUME bus \in Seq(BusWrite), bus # <<>>
  PROVE  /\ Len(bus) \in Nat \ {0} /\ Head(bus) = bus[1] /\ bus[1] \in BusWrite
         /\ Tail(bus) \in Seq(BusWrite) /\ Len(Tail(bus)) = Len(bus) - 1
         /\ \A i \in 1 .. Len(bus) - 1 : Tail(bus)[i] = bus[i + 1]
<1>1. Len(bus) \in Nat \ {0} /\ bus[1] \in BusWrite
  BY EmptySeq, LenProperties, ElementOfSeq
<1>2. Head(bus) = bus[1]
  OBVIOUS
<1>3. Tail(bus) \in Seq(BusWrite) /\ Len(Tail(bus)) = Len(bus) - 1
  BY HeadTailProperties
<1>4. \A i \in 1 .. Len(bus) - 1 : Tail(bus)[i] = bus[i + 1]
  BY HeadTailProperties, <1>1
<1> QED BY <1>1, <1>2, <1>3, <1>4

LEMMA Put ==
  ASSUME bus \in Seq(BusWrite), NEW w \in Seq(BusWrite)
  PROVE  /\ bus \o w \in Seq(BusWrite)
         /\ Len(bus) \in Nat /\ Len(w) \in Nat /\ Len(bus \o w) = Len(bus) + Len(w)
         /\ \A i \in 1 .. Len(bus) : (bus \o w)[i] = bus[i]
         /\ \A i \in 1 .. Len(w) : (bus \o w)[Len(bus) + i] = w[i]
  BY ConcatProperties, LenProperties

\* A write taken from the bus.
LEMMA Pulled ==
  ASSUME BusInv, bus # <<>>, bus' = Tail(bus)
  PROVE  /\ Head(bus) = bus[1] /\ bus[1] \in BusWrite
         /\ bus' \in Seq(BusWrite) /\ Len(bus) \in Nat \ {0} /\ Len(bus') = Len(bus) - 1
         /\ \A i \in 1 .. Len(bus') : i + 1 \in 2 .. Len(bus) /\ bus'[i] = bus[i + 1]
         /\ HasTicket' => HasTicket
         /\ bus[1].address = "ticket" => HasTicket /\ ~HasTicket'
         /\ bus[1].address # "ticket" /\ HasTicket => HasTicket'
         /\ bus[1].address = "command" =>
              HasTicket /\ Len(bus) > 1 /\ bus'[1].address = "ticket"
         /\ fpc \in Reads /\ bus' # <<>> => bus'[Len(bus')].address = "page"
         /\ fpc \in Reads /\ bus[1].address # "page" => Len(bus) > 1
<1>1. /\ Head(bus) = bus[1] /\ bus[1] \in BusWrite
      /\ bus' \in Seq(BusWrite) /\ Len(bus) \in Nat \ {0} /\ Len(bus') = Len(bus) - 1
      /\ \A i \in 1 .. Len(bus) - 1 : bus'[i] = bus[i + 1]
  BY Pull DEF BusInv
<1>2. \A i \in 1 .. Len(bus') : i + 1 \in 2 .. Len(bus) /\ bus'[i] = bus[i + 1]
  BY <1>1
<1>3. HasTicket' => HasTicket
  BY <1>1, <1>2 DEF HasTicket
<1>4. bus[1].address = "ticket" => HasTicket /\ ~HasTicket'
  BY <1>1, <1>2 DEF HasTicket, BusInv
<1>5. ASSUME bus[1].address # "ticket", HasTicket PROVE HasTicket'
  <2>1. PICK i \in 1 .. Len(bus) : bus[i].address = "ticket"
    BY <1>5 DEF HasTicket
  <2>2. i - 1 \in 1 .. Len(bus') /\ bus'[i - 1] = bus[i]
    BY <1>1, <1>2, <1>5, <2>1
  <2> QED BY <2>1, <2>2 DEF HasTicket
<1>6. bus[1].address = "command" =>
        HasTicket /\ Len(bus) > 1 /\ bus'[1].address = "ticket"
  BY <1>1 DEF HasTicket, BusInv
<1>7. bus' # <<>> => Len(bus') > 0
  BY <1>1, EmptySeq, LenProperties
<1>8. fpc \in Reads /\ bus' # <<>> => bus'[Len(bus')].address = "page"
  BY <1>1, <1>7 DEF BusInv
<1>9. fpc \in Reads /\ bus[1].address # "page" => Len(bus) > 1
  BY <1>1 DEF BusInv
<1> QED BY <1>1, <1>2, <1>3, <1>4, <1>5, <1>6, <1>8, <1>9

\* SeedReadPage's write.
LEMMA Asked ==
  ASSUME FrontendType, BusInv, AskPage
  PROVE  /\ bus' \in Seq(BusWrite) /\ Len(bus) \in Nat /\ Len(bus') = Len(bus) + 1
         /\ \A i \in 1 .. Len(bus) : bus'[i] = bus[i]
         /\ bus'[Len(bus) + 1] = [address |-> "page", data |-> wSeedPage]
         /\ bus' # <<>> /\ HasTicket' = HasTicket
<1> DEFINE w == [address |-> "page", data |-> wSeedPage]
<1>1. w \in BusWrite /\ w.address = "page"
  BY PortAssumption DEF BusWrite, AskPage, FrontendType, Sends
<1> HIDE DEF w
<1>2. <<w>> \in Seq(BusWrite) /\ Len(<<w>>) = 1 /\ <<w>>[1] = w
  BY <1>1
<1>3. bus' = bus \o <<w>>
  BY DEF AskPage, Writes, Write, w
<1>4. /\ bus' \in Seq(BusWrite) /\ Len(bus) \in Nat /\ Len(bus') = Len(bus) + 1
      /\ \A i \in 1 .. Len(bus) : bus'[i] = bus[i]
      /\ bus'[Len(bus) + 1] = w
  <2>1. bus \in Seq(BusWrite)
    BY DEF BusInv
  <2> QED BY <1>2, <1>3, <2>1, Put
<1>5. bus' # <<>>
  BY <1>4, EmptySeq
<1>6. HasTicket' = HasTicket
  BY <1>1, <1>4 DEF HasTicket
<1> QED BY <1>4, <1>5, <1>6 DEF w

\* SeedSend's two writes.
LEMMA Sent ==
  ASSUME FrontendType, BusInv, NEW c \in Command, SeedSend(c), fpc \in Idle
  PROVE  /\ NextTicket \in Ticket /\ NextTicket # wSeedTicket /\ wSeedTicket' = NextTicket
         /\ bus' \in Seq(BusWrite) /\ Len(bus) \in Nat /\ Len(bus') = Len(bus) + 2
         /\ \A i \in 1 .. Len(bus) : bus'[i] = bus[i] /\ bus[i].address = "page"
         /\ bus'[Len(bus) + 1] = [address |-> "command", data |-> c]
         /\ bus'[Len(bus) + 2] = [address |-> "ticket", data |-> NextTicket]
         /\ ~HasTicket /\ HasTicket'
<1> DEFINE v == [address |-> "command", data |-> c]
           w == [address |-> "ticket", data |-> NextTicket]
<1>1. NextTicket \in Ticket /\ NextTicket # wSeedTicket /\ wSeedTicket' = NextTicket
  BY DEF NextTicket, Ticket, FrontendType, SeedSend
<1>2. v \in BusWrite /\ w \in BusWrite /\ w.address = "ticket"
  BY <1>1 DEF BusWrite
<1>3. bus' = bus \o <<v, w>>
  BY <1>1 DEF SeedSend, Writes, Write
<1> HIDE DEF v, w
<1>4. <<v, w>> \in Seq(BusWrite) /\ Len(<<v, w>>) = 2 /\ <<v, w>>[1] = v /\ <<v, w>>[2] = w
  BY <1>2
<1>5. /\ bus' \in Seq(BusWrite) /\ Len(bus) \in Nat /\ Len(bus') = Len(bus) + 2
      /\ \A i \in 1 .. Len(bus) : bus'[i] = bus[i]
      /\ bus'[Len(bus) + 1] = v /\ bus'[Len(bus) + 2] = w
  <2>1. bus \in Seq(BusWrite)
    BY DEF BusInv
  <2> QED BY <1>3, <1>4, <2>1, Put
<1>6. ~HasTicket
  BY DEF BusInv, Sends, Reads, Idle
<1>7. ASSUME NEW i \in 1 .. Len(bus) PROVE bus[i].address = "page"
  <2>1. bus[i] \in BusWrite
    BY <1>7, ElementOfSeq DEF BusInv
  <2>2. bus[i].address # "ticket" /\ bus[i].address # "command"
    BY <1>5, <1>6, <1>7 DEF BusInv, HasTicket
  <2> QED BY <2>1, <2>2 DEF BusWrite
<1>8. HasTicket'
  BY <1>2, <1>5 DEF HasTicket
<1> QED BY <1>1, <1>5, <1>6, <1>7, <1>8 DEF v, w

-----------------------------------------------------------------------------
\* The next sequence byte is the even one that follows.
LEMMA NextEven ==
  ASSUME NEW s \in 0 .. SeqMod - 1, s % 2 = 0
  PROVE  /\ (s + 2) % SeqMod \in 0 .. SeqMod - 2
         /\ (s + 2) % SeqMod = s + 2 \/ (s + 2) % SeqMod = s + 2 - SeqMod
         /\ ((s + 2) % SeqMod) % 2 = 0
<1>1. SeqMod \in Nat /\ SeqMod > 2 /\ SeqMod % 2 = 0
  BY PortAssumption
<1>2. s + 2 <= SeqMod
  BY <1>1
<1>3. CASE s + 2 = SeqMod
  <2>1. (s + 2) % SeqMod = 0
    BY <1>1, <1>3
  <2> QED BY <1>1, <1>3, <2>1
<1>4. CASE s + 2 < SeqMod
  <2>1. (s + 2) % SeqMod = s + 2
    BY <1>1, <1>4
  <2>2. (s + 2) % 2 = 0
    OBVIOUS
  <2>3. s + 2 # SeqMod - 1
    BY <1>1, <2>2
  <2> QED BY <1>1, <1>4, <2>1, <2>2, <2>3
<1> QED BY <1>1, <1>2, <1>3, <1>4

\* Every step of the port is one of the link or hidden from it.
LEMMA PortStep ==
  ASSUME TypeOK, FrontendType, BusInv, [PortNext]_portVars
  PROVE  [Next]_vars
<1>1. CASE SubmitTicket
  <2>1. /\ Head(bus) = bus[1] /\ bus[1] \in BusWrite /\ bus[1].address = "ticket"
        /\ HasTicket
    BY <1>1, Pulled DEF SubmitTicket
  <2>2. Head(bus).data \in Ticket /\ command \in Command \cup {NoCommand}
    BY <2>1 DEF BusWrite, BusInv
  <2>3. epoch < MaxEpoch
    BY <2>1 DEF BusInv
  <2> QED BY <1>1, <2>2, <2>3 DEF SubmitTicket, Next, Client
<1>2. CASE Core1
  BY <1>2 DEF Core1, Next
<1>3. CASE PowerCycle
  BY <1>3 DEF PowerCycle, Next
<1>4. CASE SetCommand \/ OpenPage \/ CopyStatus \/ CopyPayload \/ SealPage
  BY <1>4 DEF SetCommand, OpenPage, CopyStatus, CopyPayload, SealPage, linkVars
<1>5. CASE Frontend
  BY <1>5 DEF Frontend, CrystalSeed, SeedInput, SeedSend, Leave, AskPage, ReadHead,
     ReadStatus, ReadPayload, Refuse, Poll, FetchPage, Again, TimeOut, linkVars
<1>6. CASE Restart
  BY <1>6 DEF Restart, linkVars
<1>7. CASE UNCHANGED portVars
  BY <1>7 DEF portVars, linkVars
<1> QED BY <1>1, <1>2, <1>3, <1>4, <1>5, <1>6, <1>7 DEF PortNext, Core0

\* The worker rests while nothing is active.
LEMMA AtRest == TypeOK /\ QuietInv /\ Worker => active # NoRequest
  BY DEF TypeOK, QuietInv, Worker, Take, Execute, Finish, Result

LEMMA QuietStep == TypeOK /\ IInv /\ QuietInv /\ [Next]_vars => QuietInv'
<1> SUFFICES ASSUME TypeOK, IInv, QuietInv, [Next]_vars PROVE QuietInv'
  OBVIOUS
<1>1. ASSUME NEW t \in Ticket \cup {0}, NEW c \in Command \cup {NoCommand},
             Submit(t, c)
      PROVE  QuietInv'
  <2>1. CASE Accept(t, c)
    <3>1. /\ active' \in Request /\ running' = running /\ outcome' = outcome
          /\ session' = session
      BY <2>1, Accepted
    <3> QED BY <3>1 DEF QuietInv
  <2>2. CASE UNCHANGED vars
    BY <2>2 DEF QuietInv, vars
  <2> QED BY <1>1, <2>1, <2>2 DEF Submit
<1>2. CASE Take
  <2>1. active # NoRequest /\ outcome = Blank
    BY <1>2, AtRest DEF Worker, Take, TypeOK, Result
  <2> QED BY <1>2, <2>1 DEF Take, QuietInv
<1>3. CASE Execute
  <2>1. active # NoRequest
    BY <1>3, AtRest DEF Worker
  <2>2. outcome'.shows = session' /\ (running.command = Lock => session' = "locked")
    BY <1>3 DEF Execute
  <2> QED BY <1>3, <2>1, <2>2 DEF Execute, QuietInv
<1>4. CASE Finish
  <2>1. outcome \in Result /\ outcome.of = running /\ running \in Request /\ running = last
    BY <1>4 DEF Finish, TypeOK, Result, IInv, WorkerInv
  <2>2. active # NoRequest
    BY <1>4, AtRest DEF Worker
  <2>3. CASE Publish
    <3>1. queued = NoRequest
      BY <2>1, <2>3 DEF Publish, IInv, QueueInv, Request
    <3>2. frame' # Blank /\ frame'.of.ticket = ack'
      BY <2>1, <2>3 DEF Publish
    <3>3. frame'.of.command = Lock => session' = "locked"
      BY <1>4, <2>1, <2>3 DEF Publish, Finish, QuietInv
    <3> QED BY <1>4, <3>1, <3>2, <3>3 DEF Finish, QuietInv
  <2>4. CASE UNCHANGED <<frame, ack, active>>
    BY <1>4, <2>2, <2>4 DEF Finish, QuietInv
  <2> QED BY <1>4, <2>3, <2>4 DEF Finish
<1>5. CASE Reset
  BY <1>5 DEF Reset, QuietInv
<1>6. CASE UNCHANGED vars
  BY <1>6 DEF QuietInv, vars
<1> QED BY <1>1, <1>2, <1>3, <1>4, <1>5, <1>6 DEF Next, Client, Worker

-----------------------------------------------------------------------------
\* The window.

LEMMA Blanks ==
  /\ 0 \in 0 .. QrPages - 1 /\ 0 \in 0 .. QrPages
  /\ 0 \in 0 .. SeqMod - 1 /\ NoPage \in Payload
  /\ EmptyWindow \in Window /\ NoReport \in [0 .. QrPages - 1 -> Payload]
<1>1. 0 \in 0 .. QrPages - 1 /\ 0 \in 0 .. QrPages /\ 0 \in 0 .. SeqMod - 1
  BY PortAssumption
<1>2. NoPage \in Payload
  BY DEF Payload
<1> QED BY <1>1, <1>2 DEF EmptyWindow, Window, NoReport

\* Core 0 at rest takes a page to publish.
LEMMA Opened ==
  ASSUME TypeOK, BusInv, WindowInv, OpenPage
  PROVE  /\ Latest = window /\ Latest' = publishing'
         /\ publishing' \in Window /\ publishing'.seq = NextSeq
         /\ publishing'.ack = ack /\ publishing'.busy = (active # NoRequest)
         /\ publishing'.payload.page = publishing'.index
         /\ publishing'.payload.frame = frame
<1>1. bus[1] \in BusWrite /\ bus[1].address = "page" /\ Head(bus) = bus[1]
  BY Pulled DEF OpenPage
<1>2. Head(bus).data \in 0 .. QrPages - 1
  BY <1>1 DEF BusWrite
<1>3. NextSeq \in 0 .. SeqMod - 1
  <2>1. NextSeq \in 0 .. SeqMod - 2
    BY NextEven DEF NextSeq, WindowInv, Window, OpenPage
  <2>2. SeqMod \in Nat
    BY PortAssumption
  <2> QED BY <2>1, <2>2
<1>4. [frame |-> frame, page |-> Head(bus).data] \in Payload
  BY <1>2 DEF Payload, TypeOK
<1>5. publishing' = Page(Head(bus).data)
  BY DEF OpenPage
<1>6. ack \in Ticket \cup {0}
  BY DEF TypeOK
<1>7. publishing' \in Window
  BY <1>2, <1>3, <1>4, <1>5, <1>6 DEF Page, Window
<1> QED BY <1>5, <1>7 DEF Page, OpenPage, Latest

LEMMA Sealed ==
  ASSUME WindowInv, SealPage
  PROVE  window' = publishing
<1>1. /\ window \in Window /\ publishing \in Window
      /\ window' = [window EXCEPT !.seq = publishing.seq]
  BY DEF WindowInv, SealPage
<1>2. /\ window.ack = publishing.ack /\ window.busy = publishing.busy
      /\ window.index = publishing.index
      /\ window.payload = publishing.payload /\ window.tail = publishing.tail
  BY DEF WindowInv, SealPage
<1> QED BY <1>1, <1>2 DEF Window

Copy == CopyStatus \/ CopyPayload \/ SealPage

LEMMA Copied ==
  ASSUME WindowInv, Copy
  PROVE  Latest' = Latest /\ cpc # "pull"
<1>1. CASE CopyStatus \/ CopyPayload
  BY <1>1 DEF CopyStatus, CopyPayload, Latest
<1>2. CASE SealPage
  BY <1>2, Sealed DEF SealPage, Latest
<1> QED BY <1>1, <1>2 DEF Copy

LEMMA WindowStep ==
  ASSUME TypeOK, BusInv, WindowInv, [PortNext]_portVars
  PROVE  WindowInv'
<1>1. CASE OpenPage
  <2>1. /\ window \in Window /\ NextSeq % 2 = 0 /\ NextSeq \in 0 .. SeqMod - 2
    BY <1>1, NextEven DEF NextSeq, WindowInv, Window, OpenPage
  <2>2. window' = [window EXCEPT !.seq = NextSeq + 1] /\ cpc' = "status"
    BY <1>1 DEF OpenPage
  <2>3. window' \in Window /\ window'.seq = NextSeq + 1
    BY <2>1, <2>2, PortAssumption DEF Window
  <2> QED BY <1>1, <2>1, <2>2, <2>3, Opened DEF WindowInv
<1>2. CASE CopyStatus
  <2>1. window' \in Window /\ window'.seq = window.seq
    BY <1>2 DEF CopyStatus, WindowInv, Window
  <2> QED BY <1>2, <2>1, Copied DEF Copy, CopyStatus, WindowInv, Latest
<1>3. CASE CopyPayload
  <2>1. window' \in Window /\ window'.seq = window.seq
    BY <1>3 DEF CopyPayload, WindowInv, Window
  <2> QED BY <1>3, <2>1, Copied DEF Copy, CopyPayload, WindowInv, Latest
<1>4. CASE SealPage
  <2>1. window' = publishing /\ cpc' = "pull" /\ cpc = "seal"
    BY <1>4, Sealed DEF SealPage
  <2> QED BY <2>1 DEF WindowInv, Latest
<1>5. CASE UNCHANGED <<publishing, cpc, window>>
  BY <1>5 DEF WindowInv, Latest
<1>6. CASE PowerCycle
  <2>1. window' = EmptyWindow /\ cpc' = "pull"
    BY <1>6 DEF PowerCycle
  <2>2. 0 % 2 = 0
    OBVIOUS
  <2> QED BY <2>1, <2>2, Blanks DEF WindowInv, Latest, EmptyWindow
<1>7. CASE SetCommand \/ SubmitTicket \/ Core1 \/ Frontend \/ Restart \/ UNCHANGED portVars
  <2>1. UNCHANGED <<publishing, cpc, window>>
    BY <1>7 DEF SetCommand, SubmitTicket, Core1, Frontend, Restart, portVars, coreVars,
       CrystalSeed, SeedInput, SeedSend, Leave, AskPage, ReadHead, ReadStatus,
       ReadPayload, Refuse, Poll, FetchPage, Again, TimeOut
  <2> QED BY <1>5, <2>1
<1> QED BY <1>1, <1>2, <1>3, <1>4, <1>6, <1>7 DEF PortNext, Core0

-----------------------------------------------------------------------------
\* The steps of the frontend.

\* While pages are fetched the link is quiet and at the frontend's answer.
LEMMA Fetching ==
  ASSUME FrontendType, PageInv, FetchInv, fpc \in Sends, fetching
  PROVE  /\ ~stale /\ ~HasTicket /\ active = NoRequest
         /\ ~Latest.busy /\ Latest.ack = wSeedTicket /\ Latest.payload.frame = frame
<1>1. fpc # "game"
  BY DEF Sends, Reads
<1>2. wSeedTicket # 0
  BY <1>1 DEF FrontendType
<1>3. ~stale /\ ~Latest.busy /\ Latest.ack = wSeedTicket
  BY DEF FetchInv
<1> QED BY <1>2, <1>3 DEF PageInv

\* SeedReadPage and what SeedSend makes of its page.
Reader ==
  ReadHead \/ ReadStatus \/ ReadPayload \/ Refuse \/ Poll \/ FetchPage \/ Again \/ TimeOut

GoesOn == fpc' \in Sends /\ UNCHANGED <<opening, wSeedFailed>>

Returns ==
  /\ fpc' \in {"menu", "missing", "leave"} /\ opening' = FALSE /\ wSeedFailed' \in BOOLEAN
  /\ fpc' = "leave" => ~opening /\ sending = Lock /\ fetching
  /\ fetching \/ bus = <<>>
  /\ ~wSeedFailed' => fetching

LEMMA Returned ==
  ASSUME NEW ok \in BOOLEAN, Return(ok), ok => fetching, fetching \/ bus = <<>>
  PROVE  Returns
  BY DEF Return, Returns

LEMMA Rejected ==
  ASSUME Reject
  PROVE  (GoesOn \/ Returns) /\ UNCHANGED <<fetching, wSeedTicket, sending>>
<1>1. CASE fetching
  BY <1>1, Returned DEF Reject
<1>2. CASE ~fetching
  BY <1>2 DEF Reject, GoesOn, Sends, Reads, sendVars
<1> QED BY <1>1, <1>2

LEMMA Read ==
  ASSUME StaleInv, Reader
  PROVE  /\ UNCHANGED <<linkVars, bus, coreVars, history, wSeedTicket, sending>>
         /\ fpc \in Reads /\ ~stale
         /\ GoesOn \/ Returns
         /\ HasTicket' = HasTicket /\ Latest' = Latest
<1>1. /\ UNCHANGED <<linkVars, bus, coreVars, history, wSeedTicket, sending>>
      /\ fpc \in Reads
  BY Rejected
  DEF Reader, ReadHead, ReadStatus, ReadPayload, Refuse, Poll, FetchPage, Again, TimeOut,
      sendVars, Reads
<1>2. ~stale
  BY DEF Reader, ReadHead, ReadStatus, ReadPayload, Refuse, Poll, FetchPage, Again, TimeOut,
     StaleInv
<1>3. GoesOn \/ Returns
  <2>1. CASE ReadHead
    BY <2>1, Rejected DEF ReadHead, GoesOn, Sends, Reads, sendVars
  <2>2. CASE ReadStatus \/ ReadPayload \/ Again
    BY <2>2 DEF ReadStatus, ReadPayload, Again, GoesOn, Sends, Reads, sendVars
  <2>3. CASE Refuse
    BY <2>3, Rejected DEF Refuse
  <2>4. CASE Poll
    BY <2>4 DEF Poll, GoesOn, Sends, Reads
  <2>5. CASE FetchPage
    <3>1. CASE Return(TRUE)
      BY <2>5, <3>1, Returned DEF FetchPage
    <3>2. CASE fpc' = "ask" /\ UNCHANGED <<opening, wSeedFailed>>
      BY <3>2 DEF GoesOn, Sends
    <3> QED BY <2>5, <3>1, <3>2 DEF FetchPage
  <2>6. CASE TimeOut
    BY <2>6, Returned DEF TimeOut
  <2> QED BY <2>1, <2>2, <2>3, <2>4, <2>5, <2>6 DEF Reader
<1>4. HasTicket' = HasTicket
  BY <1>1 DEF HasTicket
<1>5. Latest' = Latest
  BY <1>1 DEF Latest, coreVars
<1> QED BY <1>1, <1>2, <1>3, <1>4, <1>5

LEMMA Frontends ==
  Frontend <=> \/ CrystalSeed \/ SeedInput \/ Leave \/ AskPage \/ Reader
  BY DEF Frontend, Reader

\* A command is sent out of SeedSend, and work only when nothing failed.
Sending ==
  \E c \in Command :
    /\ SeedSend(c) /\ fpc \in {"game", "menu"}
    /\ fpc = "game" => opening'
    /\ fpc = "menu" => opening' = opening /\ (wSeedFailed => c = Lock)
    /\ fpc = "game" => c = Lock

LEMMA SendingSteps == CrystalSeed \/ SeedInput => Sending
  BY DEF CrystalSeed, SeedInput, Sending, Command

\* The page asked for, read whole: core 0 is at rest and the copy is the window.
LEMMA VerifiedCopy ==
  ASSUME FrontendType, BusInv, WindowInv, CopyInv, fpc = "verify", Verified
  PROVE  /\ Latest = window
         /\ wSeedStage.ack = window.ack /\ wSeedStage.busy = window.busy
         /\ wSeedStage.payload = window.payload
         /\ wSeedPage = window.index /\ wSeedPage \in 0 .. QrPages - 1
         /\ wSeedStage.payload = [frame |-> wSeedStage.payload.frame, page |-> wSeedPage]
<1>1. PICK d \in 0 .. BusDepth - Len(bus) :
        /\ Latest.seq = seen + 2 * d \/ Latest.seq = seen + 2 * d - SeqMod
        /\ d = 0 =>
             /\ cpc = "pull"
             /\ wSeedStage.ack = window.ack /\ wSeedStage.busy = window.busy
             /\ wSeedStage.index = window.index
             /\ wSeedStage.payload = window.payload
  BY DEF CopyInv
<1>2. /\ SeqMod \in Nat /\ SeqMod % 2 = 0 /\ BusDepth \in Nat /\ 2 * BusDepth < SeqMod
      /\ Len(bus) \in Nat /\ seen \in Nat
  BY PortAssumption, LenProperties DEF BusInv, FrontendType
<1>3. d \in Nat /\ 2 * d < SeqMod
  BY <1>1, <1>2
<1>4. window.seq = seen
  BY DEF Verified
<1>5. cpc = "pull"
  <2> SUFFICES ASSUME cpc # "pull" PROVE FALSE
    OBVIOUS
  <2>1. Latest.seq + 1 = seen
    BY <1>4 DEF Latest, WindowInv, Window
  <2> QED BY <1>1, <1>2, <1>3, <2>1
<1>6. d = 0
  <2>1. Latest.seq = seen
    BY <1>4, <1>5 DEF Latest
  <2> QED BY <1>1, <1>2, <1>3, <2>1
<1>7. Latest = window /\ wSeedPage = wSeedStage.index
  BY <1>5 DEF Latest, Verified
<1>8. /\ window.payload \in Payload /\ window.payload # NoPage
      /\ window.index \in 0 .. QrPages - 1
  BY <1>1, <1>6 DEF WindowInv, Window, Verified
<1>9. window.payload.page = window.index
  BY <1>7, <1>8 DEF WindowInv
<1>10. window.payload = [frame |-> window.payload.frame, page |-> window.index]
  BY <1>8, <1>9 DEF Payload
<1> QED BY <1>1, <1>6, <1>7, <1>8, <1>10

-----------------------------------------------------------------------------
\* One invariant after the other.

LEMMA FrontendStep ==
  ASSUME PortInv, [PortNext]_portVars
  PROVE  FrontendType'
<1> USE DEF PortInv
<1>1. CASE Core0
  <2>1. UNCHANGED <<fpc, sendVars, readVars>> /\ stale' \in BOOLEAN
    BY <1>1
    DEF Core0, SetCommand, SubmitTicket, OpenPage, CopyStatus, CopyPayload, SealPage, history,
        FrontendType
  <2>2. wSeedTicket = 0 => bus' = <<>>
    <3>1. CASE bus' = bus
      BY <3>1 DEF FrontendType
    <3>2. CASE bus # <<>>
      BY <3>2 DEF FrontendType
    <3> QED BY <1>1, <3>1, <3>2
        DEF Core0, SetCommand, SubmitTicket, OpenPage, CopyStatus, CopyPayload, SealPage
  <2> QED BY <2>1, <2>2 DEF FrontendType, sendVars, readVars
<1>2. CASE Sending
  <2>1. PICK c \in Command : SeedSend(c) /\ fpc \in {"game", "menu"} /\ opening' \in BOOLEAN
    BY <1>2 DEF Sending, FrontendType
  <2>2. wSeedTicket' \in Ticket /\ wSeedTicket' # 0
    <3>1. fpc \in Idle
      BY <2>1 DEF Idle
    <3>2. NextTicket \in Ticket /\ wSeedTicket' = NextTicket
      BY <2>1, <3>1, Sent
    <3> QED BY <3>2 DEF Ticket
  <2>3. /\ fpc' = "ask" /\ fetching' = FALSE /\ wSeedFailed' = FALSE /\ wSeedPage' = 0
        /\ sending' = c /\ UNCHANGED <<seen, wSeedStage, wSeedReport, stale>>
    BY <2>1 DEF SeedSend, history
  <2>4. c # NoCommand
    BY DEF Command
  <2>5. 0 \in 0 .. QrPages /\ 0 < QrPages
    BY PortAssumption
  <2> QED BY <2>1, <2>2, <2>3, <2>4, <2>5 DEF FrontendType, Sends, Idle
<1>3. CASE Leave
  BY <1>3, Blanks DEF Leave, FrontendType, Idle, Sends, Reads, sendVars, history
<1>4. CASE AskPage
  BY <1>4 DEF AskPage, FrontendType, Idle, Sends, Reads, sendVars, readVars, history
<1>5. CASE Reader
  <2>1. /\ UNCHANGED <<bus, stale, wSeedTicket, sending>>
        /\ GoesOn \/ Returns
        /\ fpc # "game" /\ fpc \in Sends
    BY <1>5, Read DEF history, Reads, Sends
  <2>2. /\ fpc' \in Idle \cup Sends /\ opening' \in BOOLEAN /\ wSeedFailed' \in BOOLEAN
        /\ fpc' # "game" /\ (fpc' \in Idle => ~opening')
        /\ fpc' \in Sends => GoesOn
    BY <2>1 DEF GoesOn, Returns, FrontendType, Idle, Sends, Reads
  <2>3. /\ fetching' \in BOOLEAN /\ wSeedStage' \in Window /\ seen' \in 0 .. SeqMod - 1
        /\ wSeedReport' \in [0 .. QrPages - 1 -> Payload]
        /\ wSeedPage' \in 0 .. QrPages /\ (fpc' \in Sends => wSeedPage' < QrPages)
    <3>1. CASE ReadHead
      BY <3>1, <2>1, Rejected DEF ReadHead, FrontendType, WindowInv, Window, sendVars
    <3>2. CASE ReadStatus
      BY <3>2, <2>1 DEF ReadStatus, FrontendType, WindowInv, Window, sendVars
    <3>3. CASE ReadPayload
      BY <3>3, <2>1 DEF ReadPayload, FrontendType, WindowInv, Window, sendVars
    <3>4. CASE Refuse
      BY <3>4, <2>1, Rejected, Blanks DEF Refuse, Forget, FrontendType
    <3>5. CASE Poll
      <4>1. wSeedPage' \in 0 .. QrPages /\ wSeedPage' < QrPages
        <5>1. 0 \in 0 .. QrPages /\ 0 < QrPages
          BY PortAssumption
        <5>2. wSeedPage' = 0 \/ wSeedPage' = wSeedPage
          BY <3>5 DEF Poll
        <5> QED BY <2>1, <5>1, <5>2 DEF FrontendType
      <4> QED BY <3>5, <4>1, Blanks DEF Poll, Forget, FrontendType
    <3>6. CASE FetchPage
      <4>1. wSeedPage \in 0 .. QrPages - 1 /\ wSeedStage.payload \in Payload
        BY <3>6, VerifiedCopy DEF FetchPage, FrontendType, Window
      <4>2. wSeedReport' \in [0 .. QrPages - 1 -> Payload]
        BY <3>6, <4>1 DEF FetchPage, FrontendType
      <4>3. wSeedPage' \in 0 .. QrPages
        BY <3>6, <4>1, PortAssumption DEF FetchPage
      <4>4. fpc' \in Sends => wSeedPage' < QrPages
        <5>1. Return(TRUE) \/ wSeedPage' < ReportPages \/ wSeedPage' < PageCount(wSeedReport')
          BY <3>6 DEF FetchPage
        <5>2. PageCount(wSeedReport') = QrPages \/ PageCount(wSeedReport') = ReportPages
          BY DEF PageCount
        <5> DEFINE pages == PageCount(wSeedReport')
        <5> HIDE DEF pages
        <5>3. QrPages \in Nat /\ ReportPages \in Nat /\ QrPages >= ReportPages
          BY PortAssumption
        <5>5. pages \in {QrPages, ReportPages}
          BY <5>2 DEF pages
        <5>6. wSeedPage' < ReportPages \/ wSeedPage' < pages => wSeedPage' < QrPages
          BY <4>3, <5>3, <5>5
        <5>7. Return(TRUE) \/ wSeedPage' < QrPages
          BY <5>1, <5>6 DEF pages
        <5>4. Return(TRUE) => fpc' \notin Sends
          BY DEF Return, Sends, Reads
        <5> QED BY <5>4, <5>7
      <4> QED BY <3>6, <4>2, <4>3, <4>4, Blanks DEF FetchPage, Forget, FrontendType
    <3>7. CASE Again \/ TimeOut
      BY <3>7, <2>1 DEF Again, TimeOut, FrontendType, sendVars, readVars
    <3> QED BY <1>5, <3>1, <3>2, <3>3, <3>4, <3>5, <3>6, <3>7 DEF Reader
  <2>4. wSeedTicket' # 0 /\ sending' # NoCommand
    BY <2>1 DEF FrontendType
  <2> QED BY <2>1, <2>2, <2>3, <2>4 DEF FrontendType
<1>6. CASE Restart \/ PowerCycle
  <2>1. FrontendReset /\ bus' = <<>> /\ stale' \in BOOLEAN
    BY <1>6 DEF Restart, PowerCycle
  <2>2. 0 \in Ticket \cup {0}
    OBVIOUS
  <2> QED BY <2>1, <2>2, Blanks DEF FrontendReset, FrontendType, Idle, Sends, Reads
<1>7. CASE Core1 \/ UNCHANGED portVars
  <2>1. UNCHANGED <<bus, fpc, sendVars, readVars, history>>
    BY <1>7 DEF Core1, portVars
  <2> QED BY <2>1 DEF FrontendType, sendVars, readVars, history
<1> QED BY <1>1, <1>2, <1>3, <1>4, <1>5, <1>6, <1>7, SendingSteps, Frontends DEF PortNext

LEMMA StaleStep ==
  ASSUME PortInv, [PortNext]_portVars
  PROVE  StaleInv'
<1> SUFFICES ASSUME stale' PROVE StaleInv'
  BY DEF StaleInv
<1> USE DEF PortInv
<1>1. CASE Core0
  <2>1. UNCHANGED <<fpc, wSeedTicket>>
    BY <1>1 DEF Core0, sendVars
  <2>2. CASE SetCommand
    <3>1. /\ bus'[1].address = "ticket" /\ HasTicket
          /\ Len(bus) \in Nat /\ Len(bus) > 1 /\ Len(bus') = Len(bus) - 1
          /\ \A i \in 1 .. Len(bus') : i + 1 \in 2 .. Len(bus) /\ bus'[i] = bus[i + 1]
      BY <2>2, Pulled DEF SetCommand
    <3>2. UNCHANGED <<cpc, stale>> /\ bus # <<>>
      BY <2>2 DEF SetCommand, history
    <3>3. bus' # <<>>
      BY <3>1, EmptySeq
    <3> QED BY <2>1, <3>1, <3>2, <3>3 DEF StaleInv
  <2>3. CASE SubmitTicket
    <3>1. /\ ~HasTicket'
          /\ Len(bus) \in Nat /\ Len(bus') = Len(bus) - 1
          /\ \A i \in 1 .. Len(bus') : i + 1 \in 2 .. Len(bus) /\ bus'[i] = bus[i + 1]
          /\ fpc \in Reads => Len(bus) > 1
      BY <2>3, Pulled DEF SubmitTicket
    <3>2. UNCHANGED <<cpc, stale>> /\ bus # <<>>
      BY <2>3 DEF SubmitTicket, coreVars, history
    <3>3. fpc = "head" => bus' # <<>>
      BY <3>1, EmptySeq DEF Reads
    <3> QED BY <2>1, <3>1, <3>2, <3>3 DEF StaleInv
  <2>4. CASE OpenPage
    BY <2>4 DEF OpenPage
  <2>5. CASE Copy
    BY <2>5, Copied DEF Copy, CopyStatus, CopyPayload, SealPage, StaleInv, history
  <2> QED BY <1>1, <2>2, <2>3, <2>4, <2>5 DEF Core0, Copy
<1>2. CASE Sending
  <2>1. PICK c \in Command : SeedSend(c) /\ fpc \in {"game", "menu"}
    BY <1>2 DEF Sending
  <2>2. fpc = "game" /\ bus = <<>> /\ UNCHANGED <<cpc, stale>> /\ fpc' = "ask"
    BY <2>1 DEF SeedSend, StaleInv, coreVars, history
  <2>3. Len(bus) = 0 /\ fpc \in Idle
    BY <2>2 DEF Idle
  <2>4. /\ Len(bus') = 2
        /\ bus'[1].address = "command" /\ bus'[2].address = "ticket"
    <3>1. /\ Len(bus') = Len(bus) + 2
          /\ bus'[Len(bus) + 1] = [address |-> "command", data |-> c]
          /\ bus'[Len(bus) + 2] = [address |-> "ticket", data |-> NextTicket]
      BY <2>1, <2>3, Sent
    <3> QED BY <2>3, <3>1
  <2> QED BY <2>2, <2>4 DEF StaleInv
<1>3. CASE Leave
  BY <1>3 DEF Leave, StaleInv, history
<1>4. CASE AskPage
  <2>1. /\ Len(bus) \in Nat /\ bus' # <<>> /\ HasTicket' = HasTicket
        /\ \A i \in 1 .. Len(bus) : bus'[i] = bus[i]
    BY <1>4, Asked
  <2>2. UNCHANGED <<cpc, stale>> /\ fpc' = "head"
    BY <1>4 DEF AskPage, coreVars, history
  <2>3. HasTicket => 1 \in 1 .. Len(bus)
    BY <2>1 DEF HasTicket
  <2> QED BY <2>1, <2>2, <2>3 DEF StaleInv
<1>5. CASE Reader
  BY <1>5, Read DEF history
<1>6. CASE Restart
  <2>1. ~HasTicket'
    BY <1>6 DEF Restart, HasTicket
  <2> QED BY <1>6, <2>1 DEF Restart, FrontendReset, StaleInv, coreVars
<1>7. CASE PowerCycle
  BY <1>7 DEF PowerCycle
<1>8. CASE Core1 \/ UNCHANGED portVars
  <2>1. UNCHANGED <<bus, cpc, fpc, wSeedTicket, stale>>
    BY <1>8 DEF Core1, portVars, coreVars, sendVars, history
  <2> QED BY <2>1 DEF StaleInv, HasTicket
<1> QED BY <1>1, <1>2, <1>3, <1>4, <1>5, <1>6, <1>7, <1>8, SendingSteps, Frontends DEF PortNext

LEMMA BusStep ==
  ASSUME PortInv, [PortNext]_portVars
  PROVE  BusInv'
<1> USE DEF PortInv
<1>1. CASE Core0 /\ (SetCommand \/ SubmitTicket \/ OpenPage)
  <2>1. UNCHANGED <<fpc, wSeedTicket, sending>> /\ bus # <<>> /\ bus' = Tail(bus)
    BY <1>1 DEF Core0, SetCommand, SubmitTicket, OpenPage, sendVars
  <2>2. /\ Head(bus) = bus[1] /\ bus[1] \in BusWrite
        /\ bus' \in Seq(BusWrite) /\ Len(bus) \in Nat \ {0} /\ Len(bus') = Len(bus) - 1
        /\ \A i \in 1 .. Len(bus') : i + 1 \in 2 .. Len(bus) /\ bus'[i] = bus[i + 1]
        /\ HasTicket' => HasTicket
        /\ bus[1].address = "ticket" => HasTicket /\ ~HasTicket'
        /\ fpc \in Reads /\ bus' # <<>> => bus'[Len(bus')].address = "page"
    BY <2>1, Pulled
  <2>3. BusDepth \in Nat /\ Len(bus') <= BusDepth
    BY <2>2, PortAssumption DEF BusInv
  <2>4. bus[1].address = "command" => bus[1].data = sending
    BY <2>2 DEF BusInv
  <2>5. command' \in Command \cup {NoCommand}
    <3>1. CASE SetCommand
      BY <2>2, <3>1 DEF SetCommand, BusWrite
    <3>2. CASE SubmitTicket \/ OpenPage
      BY <3>2 DEF SubmitTicket, OpenPage, coreVars, BusInv
    <3> QED BY <1>1, <3>1, <3>2
  <2>6. HasTicket' => epoch' = epoch
    BY <1>1, <2>2 DEF SetCommand, SubmitTicket, OpenPage, linkVars, vars
  <2>7. bus[1].address = "command" => command' = sending
    BY <1>1, <2>2, <2>4 DEF SetCommand, SubmitTicket, OpenPage
  <2>8. ASSUME NEW i \in 1 .. Len(bus')
        PROVE  /\ bus'[i].address = "ticket" =>
                    /\ bus'[i].data = wSeedTicket'
                    /\ IF i = 1 THEN command' = sending' ELSE bus'[i - 1].address = "command"
               /\ bus'[i].address = "command" =>
                    /\ bus'[i].data = sending'
                    /\ i < Len(bus') /\ bus'[i + 1].address = "ticket"
    <3>1. i + 1 \in 1 .. Len(bus) /\ i + 1 # 1 /\ bus'[i] = bus[i + 1] /\ (i + 1) - 1 = i
      BY <2>2, <2>8
    <3>2. /\ bus[i + 1].address = "ticket" =>
               bus[i + 1].data = wSeedTicket /\ bus[i].address = "command"
          /\ bus[i + 1].address = "command" =>
               /\ bus[i + 1].data = sending
               /\ i + 1 < Len(bus) /\ bus[i + 2].address = "ticket"
      BY <3>1 DEF BusInv
    <3>3. i # 1 => bus'[i - 1] = bus[i]
      BY <2>2, <2>8
    <3>4. i + 1 < Len(bus) => i < Len(bus') /\ bus'[i + 1] = bus[i + 2]
      BY <2>2, <2>8
    <3> QED BY <2>1, <2>7, <3>1, <3>2, <3>3, <3>4
  <2>9. ASSUME NEW i \in 1 .. Len(bus'), NEW j \in 1 .. Len(bus'),
               bus'[i].address = "ticket", bus'[j].address = "ticket"
        PROVE  i = j
    <3>1. i + 1 \in 1 .. Len(bus) /\ j + 1 \in 1 .. Len(bus)
      BY <2>2
    <3>2. bus[i + 1].address = "ticket" /\ bus[j + 1].address = "ticket"
      BY <2>2, <2>9
    <3>3. i + 1 = j + 1
      BY <3>1, <3>2 DEF BusInv
    <3> QED BY <3>3
  <2>10. HasTicket' => fpc' \in Sends /\ epoch' < MaxEpoch
    BY <2>1, <2>2, <2>6 DEF BusInv
  <2> QED BY <2>1, <2>2, <2>3, <2>5, <2>8, <2>9, <2>10 DEF BusInv
<1>2. CASE Sending
  <2>1. PICK c \in Command : SeedSend(c) /\ fpc \in {"game", "menu"}
    BY <1>2 DEF Sending
  <2>2. /\ fpc' = "ask" /\ sending' = c /\ epoch < MaxEpoch /\ Len(bus) + 2 <= BusDepth
        /\ UNCHANGED <<epoch, command>>
    BY <2>1 DEF SeedSend, linkVars, vars, coreVars
  <2>3. /\ wSeedTicket' = NextTicket
        /\ bus' \in Seq(BusWrite) /\ Len(bus) \in Nat /\ Len(bus') = Len(bus) + 2
        /\ \A i \in 1 .. Len(bus) : bus'[i] = bus[i] /\ bus[i].address = "page"
        /\ bus'[Len(bus) + 1] = [address |-> "command", data |-> c]
        /\ bus'[Len(bus) + 2] = [address |-> "ticket", data |-> NextTicket]
    <3>1. fpc \in Idle
      BY <2>1 DEF Idle
    <3> QED BY <2>1, <3>1, Sent
  <2>4. \A i \in 1 .. Len(bus') : i \in 1 .. Len(bus) \/ i = Len(bus) + 1 \/ i = Len(bus) + 2
    BY <2>3
  <2>5. \A i \in 1 .. Len(bus') : bus'[i].address = "ticket" =>
          i = Len(bus) + 2 /\ i # 1 /\ i - 1 = Len(bus) + 1
    BY <2>3, <2>4
  <2>6. \A i \in 1 .. Len(bus') : bus'[i].address = "command" =>
          i = Len(bus) + 1 /\ i < Len(bus') /\ i + 1 = Len(bus) + 2
    BY <2>3, <2>4
  <2>7. \A i \in 1 .. Len(bus') :
          /\ bus'[i].address = "ticket" =>
               /\ bus'[i].data = wSeedTicket'
               /\ IF i = 1 THEN command' = sending' ELSE bus'[i - 1].address = "command"
          /\ bus'[i].address = "command" =>
               /\ bus'[i].data = sending'
               /\ i < Len(bus') /\ bus'[i + 1].address = "ticket"
    BY <2>2, <2>3, <2>5, <2>6
  <2>8. \A i, j \in 1 .. Len(bus') :
          bus'[i].address = "ticket" /\ bus'[j].address = "ticket" => i = j
    BY <2>5
  <2> QED BY <2>2, <2>3, <2>7, <2>8 DEF BusInv, Sends, Reads
<1>3. CASE AskPage
  <2>1. /\ bus' \in Seq(BusWrite) /\ Len(bus) \in Nat /\ Len(bus') = Len(bus) + 1
        /\ \A i \in 1 .. Len(bus) : bus'[i] = bus[i]
        /\ bus'[Len(bus) + 1].address = "page"
        /\ HasTicket' = HasTicket
    BY <1>3, Asked
  <2>2. /\ fpc' = "head" /\ Len(bus) < BusDepth
        /\ UNCHANGED <<epoch, command, sending, wSeedTicket>>
    BY <1>3 DEF AskPage, linkVars, vars, coreVars, sendVars
  <2>3. \A i \in 1 .. Len(bus') : i \in 1 .. Len(bus) \/ i = Len(bus) + 1
    BY <2>1
  <2>4. BusDepth \in Nat /\ Len(bus') <= BusDepth
    BY <2>1, <2>2, PortAssumption
  <2>5. ASSUME NEW i \in 1 .. Len(bus')
        PROVE  /\ bus'[i].address = "ticket" =>
                    /\ bus'[i].data = wSeedTicket'
                    /\ IF i = 1 THEN command' = sending' ELSE bus'[i - 1].address = "command"
               /\ bus'[i].address = "command" =>
                    /\ bus'[i].data = sending'
                    /\ i < Len(bus') /\ bus'[i + 1].address = "ticket"
    <3>1. CASE i \in 1 .. Len(bus)
      <4>1. bus'[i] = bus[i] /\ (i # 1 => bus'[i - 1] = bus[i - 1])
            /\ (i < Len(bus) => bus'[i + 1] = bus[i + 1])
        BY <2>1, <3>1
      <4> QED BY <2>1, <2>2, <3>1, <4>1 DEF BusInv
    <3>2. CASE i = Len(bus) + 1
      BY <2>1, <3>2
    <3> QED BY <2>3, <2>5, <3>1, <3>2
  <2>6. \A i, j \in 1 .. Len(bus') :
          bus'[i].address = "ticket" /\ bus'[j].address = "ticket" => i = j
    BY <2>1, <2>3 DEF BusInv
  <2>7. HasTicket' => fpc' \in Sends /\ epoch' < MaxEpoch
    BY <2>1, <2>2 DEF BusInv, Sends, Reads
  <2> QED BY <2>1, <2>2, <2>4, <2>5, <2>6, <2>7 DEF BusInv
<1>4. CASE Reader
  <2>1. /\ UNCHANGED <<bus, command, epoch, wSeedTicket, sending>>
        /\ fpc \in Reads /\ HasTicket' = HasTicket
        /\ GoesOn \/ Returns
    BY <1>4, Read DEF linkVars, vars, coreVars
  <2>2. HasTicket => fpc' \in Sends
    <3>1. ~HasTicket \/ ~fetching
      BY <2>1, Fetching DEF Sends
    <3>2. HasTicket => bus # <<>>
      BY LenProperties, EmptySeq DEF HasTicket, BusInv
    <3> QED BY <2>1, <3>1, <3>2 DEF Returns, GoesOn
  <2> QED BY <2>1, <2>2 DEF BusInv
<1>5. CASE Restart \/ PowerCycle
  <2>1. bus' = <<>> /\ command' \in Command \cup {NoCommand} /\ fpc' = "game"
    BY <1>5 DEF Restart, PowerCycle, FrontendReset, coreVars, BusInv
  <2>2. Len(bus') = 0 /\ bus' \in Seq(BusWrite)
    BY <2>1
  <2>3. ~HasTicket' /\ BusDepth >= 0
    BY <2>2, PortAssumption DEF HasTicket
  <2> QED BY <2>1, <2>2, <2>3 DEF BusInv
<1>6. CASE Core1
  <2>1. UNCHANGED <<bus, command, epoch, wSeedTicket, sending, fpc>>
    BY <1>6 DEF Core1, Worker, Take, Execute, Finish, coreVars, sendVars
  <2> QED BY <2>1 DEF BusInv, HasTicket
<1>7. CASE (Core0 /\ Copy) \/ Leave \/ UNCHANGED portVars
  <2>1. /\ UNCHANGED <<bus, command, epoch, wSeedTicket, sending>>
        /\ fpc' = fpc \/ (fpc \in Idle /\ fpc' \in Idle)
    BY <1>7
    DEF Core0, Copy, CopyStatus, CopyPayload, SealPage, Leave, portVars, linkVars, vars,
        coreVars, sendVars, Idle
  <2>2. fpc' \in Idle => fpc' \notin Sends /\ fpc' \notin Reads
    BY DEF Idle, Sends, Reads
  <2>3. fpc \in Idle => fpc \notin Sends
    BY DEF Idle, Sends, Reads
  <2> QED BY <2>1, <2>2, <2>3 DEF BusInv, HasTicket
<1> QED BY <1>1, <1>2, <1>3, <1>4, <1>5, <1>6, <1>7, SendingSteps, Frontends
    DEF PortNext, Core0, Copy

LEMMA CopyStep ==
  ASSUME PortInv, [PortNext]_portVars
  PROVE  CopyInv'
<1> USE DEF PortInv
<1> DEFINE Apart(s, d) == Latest.seq = s + 2 * d \/ Latest.seq = s + 2 * d - SeqMod
           Whole == /\ cpc = "pull"
                    /\ fpc \in {"payload", "verify"} =>
                         /\ wSeedStage.ack = window.ack /\ wSeedStage.busy = window.busy
                         /\ wSeedStage.index = window.index
                    /\ fpc = "verify" => wSeedStage.payload = window.payload
<1>1. /\ BusDepth \in Nat /\ SeqMod \in Nat /\ SeqMod > 2 /\ 2 * BusDepth < SeqMod
      /\ Len(bus) \in Nat /\ seen \in 0 .. SeqMod - 1
  BY PortAssumption, LenProperties DEF BusInv, FrontendType
<1>2. ASSUME Core0, fpc' \in {"status", "payload", "verify"}
      PROVE  CopyInv'
  <2>1. UNCHANGED <<fpc, seen, wSeedStage>>
    BY <1>2 DEF Core0, readVars
  <2>2. PICK d \in 0 .. BusDepth - Len(bus) : Apart(seen, d) /\ (d = 0 => Whole)
    BY <1>2, <2>1 DEF CopyInv
  <2> HIDE DEF Apart, Whole
  <2>3. CASE SetCommand \/ SubmitTicket
    <3>1. bus # <<>> /\ bus' = Tail(bus) /\ UNCHANGED <<publishing, cpc, window>>
      BY <2>3 DEF SetCommand, SubmitTicket, coreVars
    <3>2. Len(bus') = Len(bus) - 1
      BY <3>1, Pulled
    <3>3. d \in 0 .. BusDepth - Len(bus')
      BY <1>1, <2>2, <3>2
    <3>4. Apart(seen, d)' /\ (d = 0 => Whole')
      BY <2>1, <2>2, <3>1 DEF Apart, Whole, Latest
    <3> QED BY <3>3, <3>4 DEF CopyInv, Apart, Whole
  <2>4. CASE OpenPage
    <3>1. Len(bus') = Len(bus) - 1 /\ Latest = window /\ Latest'.seq = NextSeq
      BY <2>4, Pulled, Opened DEF OpenPage
    <3>2. /\ window.seq \in 0 .. SeqMod - 1
          /\ NextSeq \in 0 .. SeqMod - 2
          /\ NextSeq = window.seq + 2 \/ NextSeq = window.seq + 2 - SeqMod
      BY <2>4, NextEven DEF NextSeq, WindowInv, Window, OpenPage
    <3>3. d + 1 \in 0 .. BusDepth - Len(bus') /\ d + 1 # 0 /\ 2 * (d + 1) = 2 * d + 2
      BY <1>1, <2>2, <3>1
    <3>4. d \in Nat /\ 2 * d < SeqMod
      BY <1>1, <2>2
    <3>5. \/ NextSeq = seen + (2 * d + 2)
          \/ NextSeq = seen + (2 * d + 2) - SeqMod
      <4>1. window.seq = seen + 2 * d \/ window.seq = seen + 2 * d - SeqMod
        BY <2>2, <3>1 DEF Apart
      <4>2. 2 * d + 2 < SeqMod
        BY <1>1, <3>3
      <4> QED BY <1>1, <3>2, <3>4, <4>1, <4>2
    <3>6. Apart(seen, d + 1)'
      BY <2>1, <3>1, <3>3, <3>5 DEF Apart
    <3> QED BY <3>3, <3>6 DEF CopyInv, Apart
  <2>5. CASE Copy
    <3>1. Latest' = Latest /\ cpc # "pull" /\ bus' = bus
      BY <2>5, Copied DEF Copy, CopyStatus, CopyPayload, SealPage
    <3>2. d # 0
      BY <2>2, <3>1 DEF Whole
    <3>3. Apart(seen, d)'
      BY <2>1, <2>2, <3>1 DEF Apart
    <3>4. d \in 0 .. BusDepth - Len(bus')
      BY <3>1
    <3> QED BY <3>2, <3>3, <3>4 DEF CopyInv, Apart
  <2> QED BY <1>2, <2>3, <2>4, <2>5 DEF Core0, Copy
<1>3. CASE ReadHead
  <2>1. CASE window.seq % 2 = 1
    <3>1. fpc' \notin {"status", "payload", "verify"}
      BY <1>3, <2>1 DEF ReadHead, Reject, Return
    <3> QED BY <3>1 DEF CopyInv
  <2>2. CASE window.seq % 2 # 1
    <3>1. fpc' = "status" /\ seen' = window.seq /\ UNCHANGED <<bus, publishing, cpc, window>>
      BY <1>3, <2>2 DEF ReadHead, coreVars
    <3>2. cpc = "pull"
      <4> SUFFICES ASSUME cpc # "pull" PROVE FALSE
        OBVIOUS
      <4>1. publishing.seq % 2 = 0 /\ window.seq = publishing.seq + 1 /\ publishing.seq \in Nat
        BY DEF WindowInv, Window
      <4> QED BY <2>2, <4>1
    <3>3. Latest' = window /\ window.seq \in Nat
      BY <3>1, <3>2 DEF Latest, WindowInv, Window
    <3>4. 0 \in 0 .. BusDepth - Len(bus') /\ seen' + 2 * 0 = window.seq
      <4>1. Len(bus) <= BusDepth
        BY DEF BusInv
      <4> QED BY <1>1, <3>1, <3>3, <4>1
    <3> QED BY <3>1, <3>2, <3>3, <3>4 DEF CopyInv
  <2> QED BY <2>1, <2>2
<1>4. CASE ReadStatus \/ ReadPayload
  <2>1. /\ UNCHANGED <<bus, publishing, cpc, window, seen>>
        /\ fpc \in {"status", "payload"}
    BY <1>4 DEF ReadStatus, ReadPayload, coreVars
  <2>2. PICK d \in 0 .. BusDepth - Len(bus) : Apart(seen, d) /\ (d = 0 => Whole)
    BY <2>1 DEF CopyInv
  <2>3. Apart(seen, d)'
    <3>1. Latest' = Latest
      BY <2>1 DEF Latest
    <3> QED BY <2>1, <2>2, <3>1
  <2>4. d = 0 => Whole'
    <3>1. wSeedStage \in Window
      BY DEF FrontendType
    <3>2. CASE ReadStatus
      <4>1. /\ wSeedStage'.ack = window.ack /\ wSeedStage'.busy = window.busy
            /\ wSeedStage'.index = window.index /\ fpc' = "payload"
        BY <3>1, <3>2 DEF ReadStatus, Window
      <4> QED BY <2>1, <2>2, <4>1
    <3>3. CASE ReadPayload
      <4>1. /\ wSeedStage'.ack = wSeedStage.ack /\ wSeedStage'.busy = wSeedStage.busy
            /\ wSeedStage'.index = wSeedStage.index
            /\ wSeedStage'.payload = window.payload /\ fpc = "payload"
        BY <3>1, <3>3 DEF ReadPayload, Window
      <4> QED BY <2>1, <2>2, <4>1
    <3> QED BY <1>4, <3>2, <3>3
  <2>5. d \in 0 .. BusDepth - Len(bus')
    BY <2>1
  <2> QED BY <2>3, <2>4, <2>5 DEF CopyInv
<1>5. CASE \/ Sending \/ AskPage \/ Leave \/ Refuse \/ Poll \/ FetchPage \/ Again \/ TimeOut
           \/ Restart \/ PowerCycle
  <2>1. fpc' \notin {"status", "payload", "verify"}
    BY <1>5
    DEF Sending, SeedSend, AskPage, Leave, Refuse, Poll, FetchPage, Again, TimeOut, Restart,
        PowerCycle, FrontendReset, Reject, Return
  <2> QED BY <2>1 DEF CopyInv
<1>6. CASE Core1 \/ UNCHANGED portVars
  <2>1. UNCHANGED <<bus, publishing, cpc, window, fpc, seen, wSeedStage>>
    BY <1>6 DEF Core1, portVars, coreVars, readVars
  <2> QED BY <2>1 DEF CopyInv, Latest
<1>7. CASE fpc' \notin {"status", "payload", "verify"}
  BY <1>7 DEF CopyInv
<1> QED BY <1>2, <1>3, <1>4, <1>5, <1>6, <1>7, SendingSteps, Frontends DEF PortNext, Reader

\* Between ticket and link, as core 0 submits it.
LEMMA Submitted ==
  ASSUME PortInv, bus # <<>>, Head(bus).address = "ticket"
  PROVE  /\ Head(bus).data = wSeedTicket /\ command = sending /\ HasTicket
         /\ fpc \in Sends /\ wSeedTicket # 0 /\ command # NoCommand
         /\ \/ Accepts(wSeedTicket, command)
            \/ command = Lock /\ active # NoRequest /\ active.ticket = wSeedTicket /\ opening
<1> USE DEF PortInv
<1>1. Head(bus) = bus[1] /\ 1 \in 1 .. Len(bus)
  BY Pull DEF BusInv
<1>2. HasTicket /\ bus[1].data = wSeedTicket /\ command = sending
  BY <1>1 DEF BusInv, HasTicket
<1>3. fpc \in Sends /\ fpc # "game"
  BY <1>2 DEF BusInv, Sends, Reads
<1>4. wSeedTicket # 0 /\ command # NoCommand
  BY <1>2, <1>3 DEF FrontendType
<1>5. CASE command # Lock
  <2>1. active = NoRequest /\ ack # wSeedTicket
    BY <1>2, <1>5 DEF TicketInv
  <2>2. Accepts(wSeedTicket, command)
    BY <1>4, <2>1 DEF Accepts, Duplicate
  <2> QED BY <1>1, <1>2, <1>3, <1>4, <2>2
<1>6. CASE command = Lock
  <2>1. ~opening => active = NoRequest \/ active.ticket # wSeedTicket
    BY <1>2 DEF TicketInv
  <2>2. CASE active # NoRequest /\ active.ticket = wSeedTicket
    BY <1>1, <1>2, <1>3, <1>4, <1>6, <2>1, <2>2
  <2>3. CASE active = NoRequest \/ active.ticket # wSeedTicket
    <3>1. Accepts(wSeedTicket, command)
      BY <1>4, <1>6, <2>3 DEF Accepts, Duplicate
    <3> QED BY <1>1, <1>2, <1>3, <1>4, <3>1
  <2> QED BY <2>2, <2>3
<1> QED BY <1>5, <1>6

LEMMA TicketStep ==
  ASSUME PortInv, [PortNext]_portVars
  PROVE  TicketInv'
<1> USE DEF PortInv
<1>1. CASE Core0 /\ SetCommand
  <2>1. UNCHANGED <<fpc, wSeedTicket, sending, opening, wSeedFailed, active, ack, frame>>
    BY <1>1 DEF Core0, SetCommand, sendVars, linkVars, vars
  <2>2. /\ bus # <<>> /\ HasTicket /\ HasTicket' /\ bus'[1].address = "ticket"
    BY <1>1, Pulled DEF SetCommand
  <2> QED BY <2>1, <2>2 DEF TicketInv, Answering, Obeying, Idle, Sends, Reads
<1>2. CASE Core0 /\ SubmitTicket
  <2>1. UNCHANGED <<fpc, wSeedTicket, sending, opening, wSeedFailed>>
    BY <1>2 DEF Core0, sendVars
  <2>2. /\ Head(bus).data = wSeedTicket /\ command = sending /\ wSeedTicket # 0
        /\ fpc \in Sends /\ Submit(Head(bus).data, command)
        /\ \/ Accepts(wSeedTicket, command)
           \/ command = Lock /\ active # NoRequest /\ active.ticket = wSeedTicket /\ opening
    BY <1>2, Submitted DEF SubmitTicket
  <2>3. ~HasTicket'
    BY <1>2, Pulled DEF SubmitTicket
  <2>4. Answering' /\ (~opening => Obeying')
    <3>1. CASE Accept(wSeedTicket, command)
      <4>1. /\ active' # NoRequest
            /\ active'.ticket = wSeedTicket /\ active'.command = command
        <5>1. command \in Command \cup {NoCommand} /\ wSeedTicket \in Ticket \cup {0}
          BY DEF BusInv, FrontendType
        <5>2. /\ NewRequest(wSeedTicket, command) \in Request
              /\ NewRequest(wSeedTicket, command).ticket = wSeedTicket
              /\ NewRequest(wSeedTicket, command).command = command
              /\ active' = NewRequest(wSeedTicket, command)
          BY <3>1, <5>1, Accepted
        <5> QED BY <5>2
      <4> QED BY <2>1, <2>2, <4>1 DEF Answering, Obeying
    <3>2. CASE ~Accepts(wSeedTicket, command) /\ UNCHANGED vars
      BY <2>1, <2>2, <3>2 DEF Answering, vars
    <3> QED BY <2>2, <3>1, <3>2 DEF Submit
  <2>5. fpc' \notin Idle
    BY <2>1, <2>2 DEF Sends, Reads, Idle
  <2> QED BY <2>1, <2>3, <2>4, <2>5 DEF TicketInv, Idle
<1>3. CASE Core0 /\ OpenPage
  <2>1. UNCHANGED <<fpc, wSeedTicket, sending, opening, wSeedFailed, active, ack, frame>>
    BY <1>3 DEF Core0, OpenPage, sendVars, linkVars, vars
  <2>2. bus # <<>> /\ bus[1].address = "page" /\ HasTicket' = HasTicket
    <3>1. /\ bus # <<>> /\ Head(bus) = bus[1] /\ Head(bus).address = "page"
          /\ HasTicket' => HasTicket
          /\ bus[1].address # "ticket" /\ HasTicket => HasTicket'
      BY <1>3, Pulled DEF OpenPage
    <3> QED BY <3>1 DEF HasTicket
  <2> QED BY <2>1, <2>2 DEF TicketInv, Answering, Obeying
<1>4. CASE Core1
  <2>1. /\ UNCHANGED <<bus, fpc, wSeedTicket, sending, opening, wSeedFailed>>
        /\ HasTicket' = HasTicket
    BY <1>4 DEF Core1, sendVars, HasTicket
  <2>2. active # NoRequest
    BY <1>4, AtRest DEF Core1
  <2>3. CASE UNCHANGED <<active, ack, frame>>
    BY <2>1, <2>3 DEF TicketInv, Answering, Obeying
  <2>4. CASE Finish /\ Publish
    <3>1. /\ active' = NoRequest /\ ack' = active.ticket
          /\ frame' # Blank /\ frame'.of = active
      BY <2>4 DEF Finish, Publish, TypeOK
    <3> QED BY <2>1, <2>2, <3>1 DEF TicketInv, Answering, Obeying
  <2> QED BY <1>4, <2>3, <2>4 DEF Core1, Worker, Take, Execute, Finish
<1>5. CASE Sending
  <2>1. PICK c \in Command :
          /\ SeedSend(c) /\ fpc \in {"game", "menu"}
          /\ fpc = "game" => opening'
          /\ fpc = "menu" => opening' = opening /\ (wSeedFailed => c = Lock)
          /\ fpc = "game" => c = Lock
    BY <1>5 DEF Sending
  <2>2. fpc \in Idle
    BY <2>1 DEF Idle
  <2>3. /\ NextTicket # wSeedTicket /\ wSeedTicket' = NextTicket
        /\ ~HasTicket /\ HasTicket'
        /\ Len(bus) \in Nat /\ (Len(bus) > 0 => bus # <<>>)
        /\ Len(bus) = 0 => bus'[1].address = "command"
    <3>1. /\ NextTicket # wSeedTicket /\ wSeedTicket' = NextTicket
          /\ ~HasTicket /\ HasTicket' /\ Len(bus) \in Nat
          /\ bus'[Len(bus) + 1] = [address |-> "command", data |-> c]
      BY <2>1, <2>2, Sent
    <3>2. Len(bus) > 0 => bus # <<>>
      BY EmptySeq
    <3>3. Len(bus) = 0 => bus'[1].address = "command"
      BY <3>1
    <3> QED BY <3>1, <3>2, <3>3
  <2>4. fpc' = "ask" /\ sending' = c /\ UNCHANGED <<active, ack>>
    BY <2>1 DEF SeedSend, linkVars, vars
  <2>5. wSeedTicket # 0 => Answering
    BY <2>3 DEF TicketInv
  <2>6. c # Lock \/ bus'[1].address = "page" => active = NoRequest /\ wSeedTicket # 0
    <3>1. CASE c # Lock
      BY <2>1, <3>1 DEF TicketInv, FrontendType
    <3>2. CASE bus'[1].address = "page"
      BY <2>2, <2>3, <3>2 DEF TicketInv, FrontendType
    <3> QED BY <3>1, <3>2
  <2>7. ~opening' => active = NoRequest \/ active.ticket # wSeedTicket'
    BY <2>1, <2>3, <2>5 DEF Answering, FrontendType
  <2>8. c # Lock \/ bus'[1].address = "page" => active = NoRequest /\ ack # wSeedTicket'
    BY <2>3, <2>5, <2>6 DEF Answering
  <2> QED BY <2>3, <2>4, <2>7, <2>8 DEF TicketInv, Idle
<1>6. CASE AskPage
  <2>1. /\ HasTicket' = HasTicket /\ Len(bus) \in Nat
        /\ \A i \in 1 .. Len(bus) : bus'[i] = bus[i]
    BY <1>6, Asked
  <2>2. HasTicket => bus'[1] = bus[1]
    BY <2>1 DEF HasTicket
  <2>3. /\ fpc = "ask" /\ fpc' = "head"
        /\ UNCHANGED <<wSeedTicket, sending, opening, wSeedFailed, active, ack, frame>>
    BY <1>6 DEF AskPage, sendVars, linkVars, vars
  <2> QED BY <2>1, <2>2, <2>3 DEF TicketInv, Answering, Obeying, Idle, Sends, Reads
<1>7. CASE Reader
  <2>1. /\ UNCHANGED <<bus, active, ack, frame, wSeedTicket, sending>>
        /\ fpc \in Sends /\ HasTicket' = HasTicket
        /\ GoesOn \/ Returns
    BY <1>7, Read DEF linkVars, vars, Sends
  <2>2. CASE GoesOn
    <3>1. fpc' \notin Idle
      BY <2>2 DEF GoesOn, Idle, Sends, Reads
    <3> QED BY <2>1, <2>2, <3>1 DEF GoesOn, TicketInv, Answering, Obeying, Idle
  <2>3. CASE Returns
    <3>1. ~HasTicket
      <4>1. bus = <<>> => ~HasTicket
        BY DEF HasTicket
      <4> QED BY <2>1, <2>3, <4>1, Fetching DEF Returns
    <3>2. fetching => active = NoRequest
      BY <2>1, Fetching
    <3>3. ~opening => Obeying
      BY <2>1, <3>1 DEF TicketInv
    <3>4. Answering' = Answering /\ Obeying' = Obeying
      BY <2>1 DEF Answering, Obeying
    <3>5. fpc' \notin Sends
      BY <2>3 DEF Returns, Sends, Reads
    <3>6. fpc' = "leave" => sending' = Lock /\ active' = NoRequest /\ Obeying'
      BY <2>1, <2>3, <3>2, <3>3, <3>4 DEF Returns
    <3>7. bus' # <<>> => active' = NoRequest
      BY <2>1, <2>3, <3>2 DEF Returns
    <3>8. ~wSeedFailed' => active' = NoRequest
      BY <2>1, <2>3, <3>2 DEF Returns
    <3> QED BY <2>1, <3>1, <3>4, <3>5, <3>6, <3>7, <3>8 DEF TicketInv
  <2> QED BY <2>1, <2>2, <2>3
<1>8. CASE Restart \/ PowerCycle
  <2>1. bus' = <<>> /\ fpc' = "game" /\ wSeedTicket' = 0
    BY <1>8 DEF Restart, PowerCycle, FrontendReset
  <2>2. ~HasTicket'
    BY <2>1 DEF HasTicket
  <2> QED BY <2>1, <2>2 DEF TicketInv, Sends, Reads
<1>9. CASE (Core0 /\ Copy) \/ Leave \/ UNCHANGED portVars
  <2>1. /\ UNCHANGED <<bus, active, ack, frame, wSeedTicket, sending, opening, wSeedFailed>>
        /\ fpc' = fpc \/ (fpc \in Idle /\ fpc' = "game")
    BY <1>9
    DEF Core0, Copy, CopyStatus, CopyPayload, SealPage, Leave, portVars, linkVars, vars,
        sendVars, Idle
  <2>2. "game" \notin Sends
    BY DEF Sends, Reads
  <2> QED BY <2>1, <2>2 DEF TicketInv, HasTicket, Answering, Obeying
<1> QED BY <1>1, <1>2, <1>3, <1>4, <1>5, <1>6, <1>7, <1>8, <1>9, SendingSteps, Frontends
    DEF PortNext, Core0, Copy

LEMMA PageStep ==
  ASSUME PortInv, [PortNext]_portVars
  PROVE  PageInv'
<1> USE DEF PortInv
<1>1. CASE Core0 /\ (SetCommand \/ SubmitTicket)
  <2>1. /\ UNCHANGED <<fpc, wSeedTicket, stale>> /\ Latest' = Latest
        /\ bus # <<>> /\ bus' = Tail(bus) /\ Head(bus).address \in {"command", "ticket"}
    BY <1>1 DEF Core0, SetCommand, SubmitTicket, sendVars, coreVars, history, Latest
  <2>2. /\ HasTicket /\ Len(bus') = Len(bus) - 1 /\ Len(bus) \in Nat
        /\ fpc \in Reads => Len(bus) > 1
    BY <2>1, Pulled
  <2>3. fpc \in Reads => bus' # <<>>
    BY <2>2, EmptySeq
  <2> QED BY <2>1, <2>2, <2>3 DEF PageInv, Current
<1>2. CASE Core0 /\ OpenPage
  <2>1. UNCHANGED <<fpc, wSeedTicket, active, frame, ack>>
    BY <1>2 DEF Core0, OpenPage, sendVars, linkVars, vars
  <2>2. /\ Latest'.ack = ack /\ Latest'.busy = (active # NoRequest)
        /\ Latest'.payload.frame = frame
    BY <1>2, Opened
  <2>3. bus # <<>> /\ bus[1].address = "page" /\ HasTicket' = HasTicket
    <3>1. /\ bus # <<>> /\ Head(bus) = bus[1] /\ Head(bus).address = "page"
          /\ HasTicket' => HasTicket
          /\ bus[1].address # "ticket" /\ HasTicket => HasTicket'
      BY <1>2, Pulled DEF OpenPage
    <3> QED BY <3>1 DEF HasTicket
  <2>4. wSeedTicket # 0
    BY <2>3 DEF FrontendType
  <2>5. HasTicket => ack # wSeedTicket
    BY <2>3 DEF TicketInv
  <2>6. ~HasTicket => Current(Latest)'
    BY <2>1, <2>2, <2>4 DEF TicketInv, Answering, Current
  <2>7. bus' = <<>> => ~HasTicket'
    BY DEF HasTicket
  <2>8. fpc \in Idle => ~HasTicket
    BY DEF BusInv, Idle, Sends, Reads
  <2> QED BY <2>1, <2>2, <2>3, <2>5, <2>6, <2>7, <2>8 DEF PageInv
<1>3. CASE Core1
  <2>1. UNCHANGED <<bus, fpc, wSeedTicket, stale>> /\ HasTicket' = HasTicket
    BY <1>3 DEF Core1, sendVars, history, HasTicket
  <2>2. active # NoRequest
    BY <1>3, AtRest DEF Core1
  <2>3. Latest' = Latest
    BY <1>3 DEF Core1, coreVars, Latest
  <2> QED BY <2>1, <2>2, <2>3 DEF PageInv, Current
<1>4. CASE Sending
  <2>1. PICK c \in Command : SeedSend(c) /\ fpc \in {"game", "menu"}
    BY <1>4 DEF Sending
  <2>2. fpc \in Idle
    BY <2>1 DEF Idle
  <2>3. NextTicket # wSeedTicket /\ wSeedTicket' = NextTicket
    BY <2>1, <2>2, Sent
  <2>4. fpc' = "ask" /\ UNCHANGED <<stale, Latest>>
    BY <2>1 DEF SeedSend, coreVars, history, Latest
  <2>5. ~stale => Current(Latest)
    BY <2>2 DEF PageInv
  <2> QED BY <2>3, <2>4, <2>5 DEF PageInv, Current, Idle, Reads
<1>5. CASE AskPage
  <2>1. bus' # <<>> /\ HasTicket' = HasTicket
    BY <1>5, Asked
  <2>2. fpc' = "head" /\ UNCHANGED <<stale, wSeedTicket, active, frame, Latest>>
    BY <1>5 DEF AskPage, coreVars, history, sendVars, linkVars, vars, Latest
  <2> QED BY <2>1, <2>2 DEF PageInv, Idle
<1>6. CASE Reader
  <2>1. /\ UNCHANGED <<bus, stale, active, frame, wSeedTicket>>
        /\ fpc \in Reads /\ HasTicket' = HasTicket /\ Latest' = Latest
        /\ GoesOn \/ Returns
    BY <1>6, Read DEF linkVars, vars, history
  <2>2. CASE GoesOn
    BY <2>1, <2>2 DEF GoesOn, PageInv, Current, Idle, Sends, Reads
  <2>3. CASE Returns
    <3>1. Current(Latest)
      BY <2>1, <2>3, Fetching DEF Returns, PageInv, Current, Sends
    <3>2. fpc' \notin Reads
      BY <2>3 DEF Returns, Reads
    <3> QED BY <2>1, <3>1, <3>2 DEF PageInv, Current
  <2> QED BY <2>1, <2>2, <2>3
<1>7. CASE Restart
  BY <1>7 DEF Restart, FrontendReset, PageInv, Reads
<1>8. CASE PowerCycle
  BY <1>8 DEF PowerCycle, FrontendReset, PageInv, Reads, Latest, EmptyWindow, Current
<1>9. CASE (Core0 /\ Copy) \/ Leave \/ UNCHANGED portVars
  <2>1. /\ UNCHANGED <<bus, active, frame, wSeedTicket, stale>>
        /\ fpc' = fpc \/ (fpc \in Idle /\ fpc' = "game")
    BY <1>9
    DEF Core0, Copy, CopyStatus, CopyPayload, SealPage, Leave, portVars, linkVars, vars,
        sendVars, history, Idle
  <2>2. Latest' = Latest
    BY <1>9, Copied DEF Leave, portVars, coreVars, Latest
  <2>3. "game" \notin Reads
    BY DEF Reads
  <2> QED BY <2>1, <2>2, <2>3 DEF PageInv, HasTicket, Current
<1> QED BY <1>1, <1>2, <1>3, <1>4, <1>5, <1>6, <1>7, <1>8, <1>9, SendingSteps, Frontends
    DEF PortNext, Core0, Copy

LEMMA FetchStep ==
  ASSUME PortInv, [PortNext]_portVars
  PROVE  FetchInv'
<1> USE DEF PortInv
<1>1. CASE Core0 /\ (SetCommand \/ SubmitTicket)
  <2>1. /\ UNCHANGED <<fpc, fetching, wSeedPage>>
        /\ bus # <<>> /\ bus' = Tail(bus) /\ Head(bus).address \in {"command", "ticket"}
    BY <1>1 DEF Core0, SetCommand, SubmitTicket, sendVars, readVars
  <2>2. HasTicket
    BY <2>1, Pulled
  <2>3. fpc \in Sends /\ ~fetching
    BY <2>2, Fetching DEF BusInv
  <2>4. fpc # "menu"
    BY <2>3 DEF Sends, Reads
  <2> QED BY <2>1, <2>3, <2>4 DEF FetchInv
<1>2. CASE Core0 /\ OpenPage
  <2>1. /\ UNCHANGED <<fpc, wSeedTicket, wSeedFailed, fetching, wSeedPage, wSeedReport>>
        /\ UNCHANGED <<active, frame, ack>> /\ ~stale'
    BY <1>2 DEF Core0, OpenPage, sendVars, readVars, linkVars, vars
  <2>2. Latest'.ack = ack /\ Latest'.busy = (active # NoRequest)
    BY <1>2, Opened
  <2>3. fpc \in Sends /\ fetching => active = NoRequest /\ ack = wSeedTicket
    <3>1. fpc \in Sends => wSeedTicket # 0
      BY DEF FrontendType, Sends, Reads
    <3> QED BY <3>1, Fetching DEF TicketInv, Answering
  <2> QED BY <2>1, <2>2, <2>3 DEF FetchInv
<1>3. CASE Core1
  <2>1. /\ UNCHANGED <<fpc, wSeedTicket, wSeedFailed, fetching, wSeedPage, wSeedReport, stale>>
        /\ UNCHANGED Latest
    BY <1>3 DEF Core1, sendVars, readVars, history, coreVars, Latest
  <2>2. active # NoRequest
    BY <1>3, AtRest DEF Core1
  <2>3. ~(fpc \in Sends /\ fetching)
    BY <2>2, Fetching
  <2>4. ~(fpc = "menu" /\ ~wSeedFailed)
    BY <2>2 DEF TicketInv
  <2> QED BY <2>1, <2>3, <2>4 DEF FetchInv
<1>4. CASE Sending
  <2>1. fpc' = "ask" /\ fetching' = FALSE /\ wSeedPage' = 0
    BY <1>4 DEF Sending, SeedSend
  <2> QED BY <2>1 DEF FetchInv
<1>5. CASE Reader
  <2>1. /\ UNCHANGED <<stale, active, frame, wSeedTicket>>
        /\ fpc \in Sends /\ fpc \in Reads /\ Latest' = Latest /\ ~stale
        /\ GoesOn \/ Returns
    BY <1>5, Read DEF linkVars, vars, history, Sends
  <2>2. GoesOn => fpc' # "menu"
    BY DEF GoesOn, Sends, Reads
  <2>3. Returns => fpc' \notin Sends
    BY DEF Returns, Sends, Reads
  <2>4. CASE /\ UNCHANGED <<fetching, wSeedPage, wSeedReport>>
             /\ GoesOn \/ wSeedFailed'
    BY <2>1, <2>2, <2>3, <2>4 DEF FetchInv
  <2>5. CASE ReadHead \/ Refuse
    <3>1. Reject \/ fpc' = "status"
      BY <2>5 DEF ReadHead, Refuse
    <3>2. GoesOn \/ wSeedFailed'
      BY <2>1, <2>5, <3>1 DEF Reject, Return, Returns, GoesOn
    <3>3. UNCHANGED <<fetching, wSeedPage, wSeedReport>>
      BY <2>5, Rejected DEF ReadHead, Refuse, sendVars
    <3> QED BY <2>4, <3>2, <3>3
  <2>6. CASE ReadStatus \/ ReadPayload \/ Again \/ TimeOut
    <3>1. UNCHANGED <<fetching, wSeedPage, wSeedReport>>
      BY <2>6 DEF ReadStatus, ReadPayload, Again, TimeOut, sendVars, readVars
    <3>2. GoesOn \/ wSeedFailed'
      BY <2>6
      DEF ReadStatus, ReadPayload, Again, TimeOut, GoesOn, Return, sendVars, Sends, Reads
    <3> QED BY <2>4, <3>1, <3>2
  <2>7. CASE Poll
    <3>1. /\ Latest = window
          /\ wSeedStage.ack = window.ack /\ wSeedStage.busy = window.busy
      BY <2>7, VerifiedCopy DEF Poll
    <3>2. CASE wSeedStage.ack = wSeedTicket /\ ~wSeedStage.busy
      <4>1. fpc' = "ask" /\ fetching' /\ wSeedPage' = 0
        BY <2>7, <3>2 DEF Poll
      <4> QED BY <2>1, <3>1, <3>2, <4>1 DEF FetchInv
    <3>3. CASE ~(wSeedStage.ack = wSeedTicket /\ ~wSeedStage.busy)
      <4>1. UNCHANGED <<fetching, wSeedPage, wSeedReport>> /\ GoesOn
        BY <2>7, <3>3 DEF Poll, GoesOn, Sends, Reads
      <4> QED BY <2>4, <4>1
    <3> QED BY <3>2, <3>3
  <2>8. CASE FetchPage
    <3>1. /\ Latest = window /\ wSeedPage \in 0 .. QrPages - 1
          /\ wSeedStage.payload = window.payload
          /\ wSeedStage.payload = [frame |-> wSeedStage.payload.frame, page |-> wSeedPage]
      BY <2>8, VerifiedCopy DEF FetchPage
    <3>2. /\ fetching /\ ~Latest.busy /\ Latest.ack = wSeedTicket
          /\ Latest.payload.frame = frame
      BY <2>1, <2>8, Fetching DEF FetchPage
    <3>3. wSeedStage.payload = [frame |-> frame, page |-> wSeedPage]
      BY <3>1, <3>2
    <3>4. /\ wSeedReport' = [wSeedReport EXCEPT ![wSeedPage] = wSeedStage.payload]
          /\ wSeedPage' = wSeedPage + 1 /\ fetching' = fetching
      BY <2>8 DEF FetchPage
    <3>5. \A i \in 0 .. wSeedPage' - 1 : wSeedReport'[i] = [frame |-> frame, page |-> i]
      <4> SUFFICES ASSUME NEW i \in 0 .. wSeedPage' - 1
                   PROVE  wSeedReport'[i] = [frame |-> frame, page |-> i]
        OBVIOUS
      <4>1. CASE i = wSeedPage
        BY <3>1, <3>3, <3>4, <4>1 DEF FrontendType
      <4>2. CASE i # wSeedPage
        <5>1. i \in 0 .. wSeedPage - 1 /\ i \in 0 .. QrPages - 1
          BY <3>1, <3>4, <4>2, PortAssumption
        <5>2. wSeedReport'[i] = wSeedReport[i]
          BY <3>4, <4>2, <5>1 DEF FrontendType
        <5> QED BY <2>1, <3>2, <5>1, <5>2 DEF FetchInv
      <4> QED BY <4>1, <4>2
    <3>6. fpc' = "menu" =>
            PageCount(wSeedReport') <= wSeedPage' /\ PageCount(wSeedReport') \in Nat
      <4>1. fpc' = "menu" => ~(wSeedPage' < PageCount(wSeedReport'))
        BY <2>8 DEF FetchPage
      <4>2. wSeedPage' \in Nat
        BY <3>1, <3>4, PortAssumption
      <4>3. PageCount(wSeedReport') = QrPages \/ PageCount(wSeedReport') = ReportPages
        BY DEF PageCount
      <4>4. PageCount(wSeedReport') \in Nat
        BY <4>3, PortAssumption
      <4> QED BY <4>1, <4>2, <4>4
    <3>7. wSeedPage' \in Nat
      BY <3>1, <3>4, PortAssumption
    <3>8. fpc' = "menu" =>
            \A i \in 0 .. PageCount(wSeedReport') - 1 :
               wSeedReport'[i] = [frame |-> frame, page |-> i]
      BY <3>5, <3>6, <3>7
    <3> QED BY <2>1, <3>2, <3>4, <3>5, <3>8 DEF FetchInv, PageCount, ShowsQr
  <2> QED BY <1>5, <2>5, <2>6, <2>7, <2>8 DEF Reader
<1>6. CASE Restart \/ PowerCycle \/ Leave
  <2>1. fpc' = "game"
    BY <1>6 DEF Restart, PowerCycle, Leave, FrontendReset
  <2> QED BY <2>1 DEF FetchInv, Sends, Reads
<1>7. CASE (Core0 /\ Copy) \/ AskPage \/ UNCHANGED portVars
  <2>1. /\ UNCHANGED <<frame, wSeedTicket, fetching, wSeedFailed, wSeedPage, wSeedReport, stale>>
        /\ fpc' = fpc \/ (fpc \in Sends /\ fpc' = "head")
    BY <1>7
    DEF Core0, Copy, CopyStatus, CopyPayload, SealPage, AskPage, portVars, linkVars, vars,
        sendVars, readVars, history, Sends
  <2>2. Latest' = Latest
    BY <1>7, Copied DEF AskPage, portVars, coreVars, Latest
  <2> QED BY <2>1, <2>2 DEF FetchInv, PageCount, ShowsQr
<1> QED BY <1>1, <1>2, <1>3, <1>4, <1>5, <1>6, <1>7, SendingSteps, Frontends
    DEF PortNext, Core0, Copy

LEMMA PortInductive == PortInv /\ [PortNext]_portVars => PortInv'
<1> SUFFICES ASSUME PortInv, [PortNext]_portVars PROVE PortInv'
  OBVIOUS
<1>1. [Next]_vars
  BY PortStep DEF PortInv
<1>2. TypeOK'
  BY <1>1, LinkTyped DEF PortInv
<1>3. IInv' /\ QuietInv'
  BY <1>1, <1>2, Inductive, QuietStep DEF PortInv
<1>4. WindowInv'
  BY WindowStep DEF PortInv
<1> QED
  BY <1>2, <1>3, <1>4, FrontendStep, BusStep, StaleStep, CopyStep, TicketStep, PageStep,
     FetchStep
  DEF PortInv

LEMMA PortInitially == PortInit => PortInv
<1> SUFFICES ASSUME PortInit PROVE PortInv
  OBVIOUS
<1>1. TypeOK /\ IInv /\ QuietInv
  BY DEF PortInit, Init, TypeOK, Screen, IInv, QueueInv, EpochInv, WorkerInv,
     NoTicketRunsTwice, FrameIsCurrent, QuietInv
<1>2. bus = <<>> /\ Len(bus) = 0 /\ fpc = "game" /\ ~HasTicket /\ wSeedTicket = 0
  BY DEF PortInit, HasTicket
<1>3. FrontendType
  BY <1>2, Blanks DEF PortInit, FrontendType, Idle, Sends, Reads
<1>4. BusInv
  BY <1>2, PortAssumption DEF PortInit, BusInv, Reads
<1>5. WindowInv
  <2>1. 0 % 2 = 0
    OBVIOUS
  <2> QED BY <2>1, Blanks DEF PortInit, WindowInv, Latest, EmptyWindow
<1>6. StaleInv /\ CopyInv
  BY <1>2 DEF PortInit, StaleInv, CopyInv
<1>7. TicketInv /\ FetchInv
  BY <1>2 DEF TicketInv, FetchInv, Sends, Reads
<1>8. PageInv
  BY <1>2 DEF PortInit, PageInv, Reads, Current, Latest, EmptyWindow
<1> QED BY <1>1, <1>3, <1>4, <1>5, <1>6, <1>7, <1>8 DEF PortInv

LEMMA PortInvariant == PortSpec => []PortInv
  BY PortInitially, PortInductive, PTL DEF PortSpec

\* Bus, window and the frontend's work RAM keep their types: in particular the
\* frontend never asks for a page the report does not have.
THEOREM PortTypeCorrect == PortSpec => []PortTypeOK
<1>1. PortInv => PortTypeOK
  <2> SUFFICES ASSUME PortInv PROVE PortTypeOK
    OBVIOUS
  <2>1. \A i \in 1 .. Len(bus) : bus[i] \in BusWrite
    BY ElementOfSeq DEF PortInv, BusInv
  <2>2. window.seq \in 0 .. SeqMod - 1 /\ window.payload \in Payload
    BY DEF PortInv, WindowInv, Window
  <2>3. wSeedStage.payload \in Payload
    BY DEF PortInv, FrontendType, Window
  <2> QED BY <2>1, <2>2, <2>3
      DEF PortInv, PortTypeOK, BusWrite, BusInv, WindowInv, FrontendType, Idle, Sends, Reads
<1> QED BY <1>1, PortInvariant, PTL

\* Behind the frontend the link is what SeedLink says of any client's link, so
\* that every theorem about Spec holds of it.
THEOREM PortUsesLink == PortSpec => Spec
<1>1. PortInit => Init
  BY DEF PortInit
<1>2. PortInv /\ [PortNext]_portVars => [Next]_vars
  BY PortStep DEF PortInv
<1> QED BY <1>1, <1>2, PortInvariant, PTL DEF PortSpec, Spec

\* With the frontend and core 0 as its client the link keeps its promise to them:
\* no superseded answer in the frame, no ticket twice, no request lost.
THEOREM PortKeepsPromise ==
  PortSpec => /\ KeepsPromise
              /\ []FrameIsCurrent
              /\ []NoTicketRunsTwice
              /\ [](active # NoRequest => PollFindsWork /\ CallsLeft \in 1 .. 5)
BY PortUsesLink, LinkKeepsPromise, SupersededStaysHidden, TicketsRunOnce, RequestIsNeverLost, PTL

\* What the menu shows is one answer, whole, to the ticket last sent.
THEOREM MenuShowsOneAnswer == PortSpec => []ShownIsOneAnswer
<1>1. PortInv => ShownIsOneAnswer
  <2> SUFFICES ASSUME PortInv, fpc = "menu", ~wSeedFailed
               PROVE  LET f == wSeedReport[0].frame IN
                      /\ f # Blank /\ f.of.ticket = wSeedTicket
                      /\ \A i \in 0 .. PageCount(wSeedReport) - 1 :
                           wSeedReport[i] = [frame |-> f, page |-> i]
    BY DEF ShownIsOneAnswer
  <2> USE DEF PortInv
  <2>1. active = NoRequest /\ wSeedTicket # 0
    BY DEF TicketInv, FrontendType
  <2>2. ~HasTicket
    BY DEF BusInv, Sends, Reads
  <2>3. ack = wSeedTicket
    BY <2>1, <2>2 DEF TicketInv, Answering
  <2>4. frame # Blank /\ frame.of.ticket = wSeedTicket
    BY <2>1, <2>3 DEF QuietInv
  <2>5. \A i \in 0 .. PageCount(wSeedReport) - 1 :
          wSeedReport[i] = [frame |-> frame, page |-> i]
    BY DEF FetchInv
  <2>6. 0 \in 0 .. PageCount(wSeedReport) - 1
    <3>1. PageCount(wSeedReport) = QrPages \/ PageCount(wSeedReport) = ReportPages
      BY DEF PageCount
    <3> QED BY <3>1, PortAssumption
  <2>7. wSeedReport[0].frame = frame
    <3>1. wSeedReport[0] = [frame |-> frame, page |-> 0]
      BY <2>5, <2>6, Zenon
    <3> QED BY <3>1
  <2> QED BY <2>4, <2>5, <2>7
<1> QED BY <1>1, PortInvariant, PTL

\* Whoever leaves the menu leaves a locked signer behind.
THEOREM MenuLeavesLocked == PortSpec => LeavesLocked
<1>1. ASSUME PortInv, fpc = "leave"
      PROVE  session = "locked" /\ frame # Blank /\ frame.of.command = Lock
  <2> USE <1>1 DEF PortInv
  <2>1. sending = Lock /\ active = NoRequest /\ Obeying
    BY DEF TicketInv
  <2>2. frame # Blank /\ frame.of.command = Lock
    BY <2>1 DEF Obeying
  <2>3. ~HasTicket /\ wSeedTicket # 0
    BY DEF BusInv, FrontendType, Sends, Reads
  <2>4. ack # 0
    BY <2>1, <2>3 DEF TicketInv, Answering
  <2> QED BY <2>1, <2>2, <2>4 DEF QuietInv
<1>2. PortInv => [fpc = "leave" /\ fpc' = "game" =>
                    session = "locked" /\ frame # Blank /\ frame.of.command = Lock]_portVars
  BY <1>1
<1> QED BY <1>2, PortInvariant, PTL DEF LeavesLocked

\* No command of the menu is turned away by Link::submit.
THEOREM MenuIsHeard == PortSpec => NeverTurnedAway
<1>1. PortInv => [bus # <<>> /\ bus' = Tail(bus) /\ Head(bus).address = "ticket" =>
                    Accepts(Head(bus).data, command) \/ command = Lock]_portVars
  BY Submitted
<1> QED BY <1>1, PortInvariant, PTL DEF NeverTurnedAway

=============================================================================
