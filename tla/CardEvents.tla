------------------------------ MODULE CardEvents ------------------------------
(***************************************************************************)
(* How a customer's browsers learn that a card changed: the transaction of *)
(* a movement ends with pg_notify, one connection per process LISTENs, the *)
(* broker wakes the streams that subscribed, and a stream reads the        *)
(* customer's revision and tells the browser when it differs from what the *)
(* browser has (Last-Event-ID).  A card that is created or removed changes *)
(* the revision too, without a notification.                               *)
(*                                                                         *)
(* One customer, one process; revisions, hashes in the code, are numbered  *)
(* in the order they came to be.  An operator named after another with a   *)
(* suffix is that operator with one mistake in it and is not part of Spec. *)
(***************************************************************************)
EXTENDS Integers, FiniteSets

CONSTANTS
    Clients,      \* browsers of the customer, one stream each
    Capacity,     \* maxSubscribers, maxSubscribersPerUser
    MaxRevision,  \* bound: changes of the cards
    MaxFailures   \* bound: connections, reads and writes that fail

ASSUME EventBoundsAreNatural == {Capacity, MaxRevision, MaxFailures} \subseteq Nat

VARIABLES
    revision,   \* what CardRevision reads
    announced,  \* the revision as of the last movement
    listener,   \* the LISTEN connection: "off", "on" or, half open, "deaf"
    wire,       \* notifications on their way to it
    broker,     \* whether it is ready, and how many streams it counts
    streams,    \* CardEventsStream, one per browser
    clients,    \* what each browser has, and whether its session still is one
    failures    \* failures so far

eventVars == <<revision, announced, listener, wire, broker, streams, clients, failures>>

\* event: the channel of one element; value: the revision just read; heard: frames
\* written since the session ended.
Stream == [step: {"none", "subscribed", "greeting", "waiting", "woken", "checked", "telling"},
           registered: BOOLEAN, event: BOOLEAN, down: BOOLEAN,
           value: 0..MaxRevision, last: 0..MaxRevision]
NoStream == [step |-> "none", registered |-> FALSE, event |-> FALSE, down |-> FALSE,
             value |-> 0, last |-> 0]
Client == [has: 0..MaxRevision, session: BOOLEAN, heard: 0..2]

Registered == {c \in Clients : streams[c].registered}

\* The broker's count is that of its subscribers, whichever way they left.
EventsTypeOK ==
    /\ revision \in 0..MaxRevision /\ announced \in 0..revision
    /\ listener \in {"off", "on", "deaf"} /\ wire \in 0..MaxRevision
    /\ streams \in [Clients -> Stream]
    /\ clients \in [Clients -> Client]
    /\ failures \in 0..MaxFailures
    /\ broker.ready \in BOOLEAN
    /\ broker.total = Cardinality(Registered) /\ broker.total <= Capacity

EventsInit ==
    /\ revision = 0 /\ announced = 0 /\ listener = "off" /\ wire = 0 /\ failures = 0
    /\ broker = [ready |-> FALSE, total |-> 0]
    /\ streams = [c \in Clients |-> NoStream]
    /\ clients = [c \in Clients |-> [has |-> 0, session |-> TRUE, heard |-> 0]]

Fail == failures < MaxFailures /\ failures' = failures + 1

-----------------------------------------------------------------------------
(* The database *)

\* ConfirmMovement, ReverseBrandMovement: card, row and notification commit at once.
Movement ==
    /\ revision < MaxRevision
    /\ revision' = revision + 1 /\ announced' = revision + 1
    /\ wire' = IF listener = "on" THEN wire + 1 ELSE wire
    /\ UNCHANGED <<listener, broker, streams, clients, failures>>

\* A card is created, or removed with its brand.
SilentChange ==
    /\ revision < MaxRevision /\ revision' = revision + 1
    /\ UNCHANGED <<announced, listener, wire, broker, streams, clients, failures>>

\* Sign out, a new password, the account's deletion.
SessionEnds(c) ==
    /\ clients[c].session
    /\ clients' = [clients EXCEPT ![c].session = FALSE]
    /\ UNCHANGED <<revision, announced, listener, wire, broker, streams, failures>>

-----------------------------------------------------------------------------
(* The broker *)

\* listen: LISTEN has answered, what commits from here on is heard.
Listen ==
    /\ listener = "off" /\ ~broker.ready
    /\ listener' = "on" /\ wire' = 0
    /\ UNCHANGED <<revision, announced, broker, streams, clients, failures>>

SetReady ==
    /\ listener # "off" /\ ~broker.ready
    /\ broker' = [broker EXCEPT !.ready = TRUE]
    /\ UNCHANGED <<revision, announced, listener, wire, streams, clients, failures>>

WokenIfWaiting(c) ==
    IF streams[c].registered /\ streams[c].step = "waiting"
    THEN [streams[c] EXCEPT !.event = TRUE] ELSE streams[c]
\* One pending event stands for every change it has not looked at.
Woken(c) == IF streams[c].registered THEN [streams[c] EXCEPT !.event = TRUE] ELSE streams[c]

Publish ==
    /\ listener = "on" /\ broker.ready /\ wire > 0
    /\ wire' = wire - 1
    /\ streams' = [c \in Clients |-> Woken(c)]
    /\ UNCHANGED <<revision, announced, listener, broker, clients, failures>>

\* The connection dies without a word: notifications are lost.
GoesDeaf ==
    /\ listener = "on" /\ Fail
    /\ listener' = "deaf" /\ wire' = 0
    /\ UNCHANGED <<revision, announced, broker, streams, clients>>

\* setDown closes the channel of every stream.
Down(c) == IF streams[c].registered
           THEN [streams[c] EXCEPT !.registered = FALSE, !.down = TRUE] ELSE streams[c]
SetDown ==
    /\ listener' = "off" /\ wire' = 0
    /\ broker' = [ready |-> FALSE, total |-> 0]
    /\ streams' = [c \in Clients |-> Down(c)]
    /\ UNCHANGED <<revision, announced, clients>>

\* An error, or 90 seconds without a notification.
ListenFails == listener = "on" /\ Fail /\ SetDown
ListenTimesOut == listener = "deaf" /\ SetDown /\ UNCHANGED failures

-----------------------------------------------------------------------------
(* CardEventsStream *)

At(c, step) == streams[c].step = step
Goes(c, step) == streams' = [streams EXCEPT ![c].step = step]

\* Before the revision is read, so that what commits meanwhile is queued.
Subscribe(c) ==
    /\ At(c, "none") /\ clients[c].session
    /\ broker.ready /\ broker.total < Capacity
    /\ broker' = [broker EXCEPT !.total = @ + 1]
    /\ streams' = [streams EXCEPT ![c] = [NoStream EXCEPT
                      !.step = "subscribed", !.registered = TRUE, !.last = clients[c].has]]
    /\ UNCHANGED <<revision, announced, listener, wire, clients, failures>>

\* unsubscribe finds nothing to do after setDown.
Leaving(c) == IF streams[c].registered THEN [broker EXCEPT !.total = @ - 1] ELSE broker
Leave(c) ==
    /\ broker' = Leaving(c)
    /\ streams' = [streams EXCEPT ![c] = NoStream]

ReadRevision(c) ==
    /\ \/ At(c, "subscribed")
          /\ streams' = [streams EXCEPT ![c].value = revision, ![c].step = "greeting"]
       \/ At(c, "checked")
          /\ streams' = [streams EXCEPT ![c].value = revision, ![c].step = "telling"]
    /\ UNCHANGED <<revision, announced, listener, wire, broker, clients, failures>>

NewsToAfterGreeting(c) == At(c, "telling") /\ streams[c].value # streams[c].last
\* The browser does not have it yet.
NewsTo(c) == streams[c].value # streams[c].last

Hears(c) == clients' = [clients EXCEPT ![c].has = streams[c].value,
                ![c].heard = IF clients[c].session THEN 0 ELSE @ + 1]
Write(c) ==
    /\ At(c, "greeting") \/ At(c, "telling")
    /\ IF NewsTo(c)
       THEN /\ Hears(c)
            /\ streams' = [streams EXCEPT ![c].step = "waiting", ![c].last = streams[c].value]
       ELSE Goes(c, "waiting") /\ UNCHANGED clients
    /\ UNCHANGED <<revision, announced, listener, wire, broker, failures>>

\* The frame may have reached the browser all the same.
WriteFails(c) ==
    /\ At(c, "greeting") \/ At(c, "telling")
    /\ Fail /\ Leave(c)
    /\ (NewsTo(c) /\ Hears(c)) \/ UNCHANGED clients
    /\ UNCHANGED <<revision, announced, listener, wire>>

ReadFails(c) ==
    /\ At(c, "subscribed") \/ At(c, "checked")
    /\ Fail /\ Leave(c)
    /\ UNCHANGED <<revision, announced, listener, wire, clients>>

Wake(c) ==
    /\ At(c, "waiting") /\ streams[c].event
    /\ streams' = [streams EXCEPT ![c].event = FALSE, ![c].step = "woken"]
    /\ UNCHANGED <<revision, announced, listener, wire, broker, clients, failures>>

\* cardStreamSessionActive
MayStay(c) == clients[c].session
CheckSession(c) ==
    /\ At(c, "woken")
    /\ IF MayStay(c) THEN Goes(c, "checked") /\ UNCHANGED broker ELSE Leave(c)
    /\ UNCHANGED <<revision, announced, listener, wire, clients, failures>>

Heartbeat(c) ==
    /\ At(c, "waiting") /\ ~MayStay(c) /\ Leave(c)
    /\ UNCHANGED <<revision, announced, listener, wire, clients, failures>>

ClosesWhenDown(c) ==
    /\ At(c, "waiting") /\ streams[c].down /\ Leave(c)
    /\ UNCHANGED <<revision, announced, listener, wire, clients, failures>>

\* Ten minutes have passed, or the browser is gone.
Closes(c) ==
    /\ At(c, "waiting") /\ Leave(c)
    /\ UNCHANGED <<revision, announced, listener, wire, clients, failures>>

-----------------------------------------------------------------------------

Broker == Listen \/ SetReady \/ Publish \/ ListenTimesOut
Handler(c) == ReadRevision(c) \/ Write(c) \/ Wake(c) \/ CheckSession(c)

EventsNext ==
    \/ Movement \/ SilentChange \/ Broker \/ GoesDeaf \/ ListenFails
    \/ \E c \in Clients :
         \/ SessionEnds(c) \/ Subscribe(c) \/ Handler(c) \/ Heartbeat(c)
         \/ ClosesWhenDown(c) \/ Closes(c) \/ ReadFails(c) \/ WriteFails(c)

EventsSpec == EventsInit /\ [][EventsNext]_eventVars

\* Run reconnects for ever, handlers go on, and a browser whose stream ended
\* connects again, in a moment when the broker is ready.
FairEventsSpec ==
    /\ EventsSpec /\ WF_eventVars(Broker)
    /\ \A c \in Clients : /\ WF_eventVars(Handler(c)) /\ WF_eventVars(ClosesWhenDown(c))
                          /\ SF_eventVars(Subscribe(c))

-----------------------------------------------------------------------------
(* Properties *)

\* No wake-up is lost: a stream that waits, with nothing queued for it anywhere
\* and a listener that hears, has told its browser of the last movement
\* (card_events.go: "Register before reading the revision").
QuietStreamIsCurrent == \A c \in Clients :
    /\ At(c, "waiting") /\ ~streams[c].event /\ ~streams[c].down
    /\ listener = "on" /\ broker.ready /\ wire = 0
    => clients[c].has >= announced

\* A stream whose session ended says at most one thing more.
EndedSessionHearsOneFrame == \A c \in Clients : clients[c].heard <= 1

\* Whatever connections die, streams end or frames get lost, a browser whose
\* session lives learns of every movement.
EveryMovementIsSeen == \A c \in Clients, n \in 1..MaxRevision :
    announced = n ~> clients[c].has >= n \/ ~clients[c].session

\* The streams stay well formed, a quiet one has nothing left to tell, and one
\* whose session ended says at most one thing more.
StreamInv == EventsTypeOK /\ QuietStreamIsCurrent /\ EndedSessionHearsOneFrame

=============================================================================
