------------------------------- MODULE SeedLink -------------------------------
(***************************************************************************)
(* The mailbox between the mapper on core 0 and the signer on core 1       *)
(* (cartridge-core/src/seed_link.rs) with its one worker                   *)
(* (src/crystal_seed.rs, Worker::poll).  Every method of Link runs under   *)
(* one spinlock and is one step; between take and finish the worker holds  *)
(* a request of its own, which a LOCK may supersede in the meantime.       *)
(*                                                                         *)
(* The signer behind the worker is its screen: locked, open, or open with  *)
(* a QR code to show.                                                      *)
(***************************************************************************)
EXTENDS Naturals

CONSTANTS
  MaxTicket,   \* tickets are 1..MaxTicket; 255 in the code
  Work,        \* the commands other than LOCK
  Lock,
  NoCommand,   \* command 0
  NoRequest,   \* None
  Blank,       \* a frame filled with zeros
  MaxEpoch     \* bound on the requests accepted in one power cycle

ASSUME TicketAssumption == MaxTicket \in Nat \ {0, 1}
ASSUME CommandAssumption == Lock \notin Work /\ NoCommand \notin Work /\ NoCommand # Lock
ASSUME EpochAssumption == MaxEpoch \in Nat

Command == Work \cup {Lock}
Ticket == 1 .. MaxTicket
Screen == {"locked", "open", "qr"}
Request == [epoch : Nat, ticket : Ticket, command : Command]

\* A report with its QR buffer; "of" names the request it answers.
Result == [of : Request, shows : Screen]

ASSUME NoneAssumption == NoRequest \notin Request /\ Blank \notin Result

VARIABLES
  queued,   \* Link.queued: accepted and not yet taken
  active,   \* Link.active: accepted and not yet answered
  epoch,    \* Link.epoch
  ack,      \* Link.ack: the ticket of the last answer
  frame,    \* Link.frame
  running,  \* the request Worker::poll has taken
  outcome,  \* its report, once the command is through
  session,  \* the screen of the terminal
  last      \* history: the last request taken

vars == <<queued, active, epoch, ack, frame, running, outcome, session, last>>

Init ==
  /\ queued = NoRequest /\ active = NoRequest
  /\ epoch = 0 /\ ack = 0 /\ frame = Blank
  /\ running = NoRequest /\ outcome = Blank
  /\ session = "locked" /\ last = NoRequest

-----------------------------------------------------------------------------
\* Link::submit

\* Mutant: a repeated ticket is only looked for in the running request.
Duplicate_RunningOnly(t, c) == active # NoRequest /\ active.ticket = t

Duplicate(t, c) ==
  \/ active # NoRequest /\ active.ticket = t
  \/ ack = t /\ c # Lock

\* Mutants: ticket 0 is accepted; work is accepted while another is running.
Accepts_AnyTicket(t, c) ==
  /\ c # NoCommand
  /\ ~Duplicate(t, c)
  /\ active = NoRequest \/ c = Lock

Accepts_WhileBusy(t, c) == t # 0 /\ c # NoCommand /\ ~Duplicate(t, c)

Accepts(t, c) ==
  /\ t # 0 /\ c # NoCommand
  /\ ~Duplicate(t, c)
  /\ active = NoRequest \/ c = Lock

\* Mutant: a queued request keeps its place when a LOCK supersedes it.
Accept_KeepsQueue(t, c) ==
  LET r == [epoch |-> epoch + 1, ticket |-> t, command |-> c] IN
  /\ Accepts(t, c)
  /\ epoch' = epoch + 1
  /\ active' = r /\ queued' = IF queued = NoRequest THEN r ELSE queued
  /\ frame' = IF c = Lock THEN Blank ELSE frame
  /\ UNCHANGED <<ack, running, outcome, session, last>>

Accept(t, c) ==
  LET r == [epoch |-> epoch + 1, ticket |-> t, command |-> c] IN
  /\ Accepts(t, c)
  /\ epoch' = epoch + 1
  /\ active' = r /\ queued' = r
  /\ frame' = IF c = Lock THEN Blank ELSE frame
  /\ UNCHANGED <<ack, running, outcome, session, last>>

Submit(t, c) ==
  \/ Accept(t, c)
  \/ ~Accepts(t, c) /\ UNCHANGED vars

-----------------------------------------------------------------------------
\* Worker::poll

\* Link::take
Take ==
  /\ running = NoRequest /\ queued # NoRequest
  /\ running' = queued /\ last' = queued
  /\ queued' = NoRequest
  /\ UNCHANGED <<active, epoch, ack, frame, outcome, session>>

\* Terminal::command with whatever it takes from the card, and the report.
Execute ==
  /\ running # NoRequest /\ outcome = Blank
  /\ session' \in IF running.command = Lock THEN {"locked"} ELSE Screen
  /\ outcome' = [of |-> running, shows |-> session']
  /\ UNCHANGED <<queued, active, epoch, ack, frame, running, last>>

\* Mutant: a result is published whatever request is active.
Publish_WhileBusy ==
  /\ active # NoRequest
  /\ frame' = outcome /\ ack' = running.ticket
  /\ active' = NoRequest

\* Link::finish
Publish ==
  /\ active = running
  /\ frame' = outcome /\ ack' = running.ticket
  /\ active' = NoRequest

Finish ==
  /\ outcome # Blank
  /\ \/ Publish
     \/ active # running /\ UNCHANGED <<frame, ack, active>>
  /\ running' = NoRequest /\ outcome' = Blank
  /\ UNCHANGED <<queued, epoch, session, last>>

Worker == Take \/ Execute \/ Finish

\* Power off and on.
Reset ==
  /\ queued' = NoRequest /\ active' = NoRequest
  /\ epoch' = 0 /\ ack' = 0 /\ frame' = Blank
  /\ running' = NoRequest /\ outcome' = Blank
  /\ session' = "locked" /\ last' = NoRequest

Client ==
  \E t \in Ticket \cup {0}, c \in Command \cup {NoCommand} :
    epoch < MaxEpoch /\ Submit(t, c)

Next == Client \/ Worker \/ Reset

Spec == Init /\ [][Next]_vars

\* Core 1 polls the link in an endless loop, and every command comes to an end.
FairSpec == Spec /\ WF_vars(Worker)

-----------------------------------------------------------------------------
\* Properties

TypeOK ==
  /\ queued \in Request \cup {NoRequest} /\ active \in Request \cup {NoRequest}
  /\ running \in Request \cup {NoRequest} /\ last \in Request \cup {NoRequest}
  /\ epoch \in Nat /\ ack \in Ticket \cup {0}
  /\ frame \in Result \cup {Blank} /\ outcome \in Result \cup {Blank}
  /\ session \in Screen
  /\ outcome # Blank => outcome.of = running

\* What a client reads is never the answer to a request a LOCK has superseded:
\* the frame answers the last request accepted, or the one before it while the
\* last is at work and is not a LOCK.  The epoch Link::finish compares is what
\* keeps a late result out.
FrameIsCurrent ==
  frame # Blank =>
    IF active = NoRequest THEN frame.of.epoch = epoch
    ELSE active.command # Lock /\ frame.of.epoch + 1 = epoch

\* A command sent again with the ticket it had does not run again, neither
\* while it runs nor once it is answered (Link::submit, the checks of active
\* and ack).  A LOCK does.
NoTicketRunsTwice ==
  (queued # NoRequest /\ last # NoRequest) =>
    queued.command = Lock \/ queued.ticket # last.ticket

\* The link is a mailbox that answers what was asked: Link and worker together
\* implement Mailbox.
Promise == INSTANCE Mailbox WITH pending <- active, answer <- frame
KeepsPromise == Promise!Spec

\* Every request Link::submit accepts is answered in the end, or superseded by
\* a LOCK, which then takes its place in the queue of the worker.
Answered ==
  \A e \in 1 .. MaxEpoch :
    (active # NoRequest /\ active.epoch = e) ~>
      (active = NoRequest \/ active.epoch # e)

=============================================================================
