------------------------------- MODULE Notify -------------------------------
(***************************************************************************)
(* Telling connected tablets to synchronise.  Every change of a file is    *)
(* published on the event bus, which starts a goroutine for it; NotifyUser *)
(* copies the list of clients under the lock and sends to each of them     *)
(* without waiting.  A client has a buffered channel, a goroutine that     *)
(* writes what comes out of it to the socket, and a read loop, which alone *)
(* takes the client off the list.                                          *)
(***************************************************************************)
EXTENDS Naturals

CONSTANTS Clients,     \* connections, each opened at most once
          Cap,         \* room in a client's send channel, 16 in the code
          MaxChanges   \* bound on the published changes

ASSUME CapAssumption == Cap \in Nat \ {0}
ASSUME MaxChangesAssumption == MaxChanges \in Nat

VARIABLES changes,     \* changes published so far
          waiting,     \* changes whose goroutine has not copied the list yet
          targets,     \* targets[k]: clients the goroutine of change k has still to send to
          clients,     \* NotifyManager.clients
          buffered,    \* buffered[c]: messages in the send channel of c
          writer,      \* writer[c]: where the writing goroutine stands
          link,        \* link[c]: the state of the connection
          told         \* ghost: told[c] changes had been published when the tablet last
                       \* was told to synchronise, or connected

vars == <<changes, waiting, targets, clients, buffered, writer, link, told>>

Changes == 1 .. MaxChanges
-----------------------------------------------------------------------------
(* Events. *)

Publish == /\ changes < MaxChanges
           /\ changes' = changes + 1
           /\ waiting' = waiting \cup {changes'}
           /\ UNCHANGED <<targets, clients, buffered, writer, link, told>>

CopyClients(k) == /\ k \in waiting
                  /\ waiting' = waiting \ {k}
                  /\ targets' = [targets EXCEPT ![k] = clients]
                  /\ UNCHANGED <<changes, clients, buffered, writer, link, told>>

(* Faulty variant: a channel without a buffer. *)
HasRoom_Unbuffered(c) == writer[c] = "select" /\ buffered[c] = 0

HasRoom(c) == buffered[c] < Cap

(* When the channel is full the message is dropped. *)
Send(k, c) ==
  /\ c \in targets[k]
  /\ targets' = [targets EXCEPT ![k] = @ \ {c}]
  /\ buffered' = IF HasRoom(c) THEN [buffered EXCEPT ![c] = @ + 1] ELSE buffered
  /\ UNCHANGED <<changes, waiting, clients, writer, link, told>>
-----------------------------------------------------------------------------
(* A connection. *)

Register(c) ==
  /\ link[c] = "new"
  /\ link' = [link EXCEPT ![c] = "up"]
  /\ clients' = clients \cup {c}
  /\ writer' = [writer EXCEPT ![c] = "select"]
  /\ told' = [told EXCEPT ![c] = changes]
  /\ UNCHANGED <<changes, waiting, targets, buffered>>

Receive(c) ==
  /\ writer[c] = "select" /\ buffered[c] > 0
  /\ buffered' = [buffered EXCEPT ![c] = @ - 1]
  /\ writer' = [writer EXCEPT ![c] = "write"]
  /\ UNCHANGED <<changes, waiting, targets, clients, link, told>>

(* Faulty variant: the goroutine ends after one message. *)
WriteReturns_Once(c) == /\ writer[c] = "written"
                        /\ writer' = [writer EXCEPT ![c] = "stopped"]
                        /\ UNCHANGED <<changes, waiting, targets, clients, buffered, link, told>>

(* The tablet has the message; the goroutine ends when the socket fails,   *)
(* and the client stays on the list.                                       *)
Write(c) ==
  /\ writer[c] = "write"
  /\ IF link[c] = "up"
     THEN /\ told' = [told EXCEPT ![c] = changes]
          /\ writer' = [writer EXCEPT ![c] = "written"]
     ELSE /\ writer' = [writer EXCEPT ![c] = "stopped"]
          /\ UNCHANGED told
  /\ UNCHANGED <<changes, waiting, targets, clients, buffered, link>>

WriteReturns(c) == /\ writer[c] = "written"
                   /\ writer' = [writer EXCEPT ![c] = "select"]
                   /\ UNCHANGED <<changes, waiting, targets, clients, buffered, link, told>>

Break(c) == /\ link[c] = "up"
            /\ link' = [link EXCEPT ![c] = "broken"]
            /\ UNCHANGED <<changes, waiting, targets, clients, buffered, writer, told>>

(* The read loop fails and leaves; done is closed. *)
Unregister(c) == /\ c \in clients /\ link[c] = "broken"
                 /\ clients' = clients \ {c}
                 /\ link' = [link EXCEPT ![c] = "closed"]
                 /\ UNCHANGED <<changes, waiting, targets, buffered, writer, told>>

WriterDone(c) == /\ writer[c] = "select" /\ link[c] = "closed"
                 /\ writer' = [writer EXCEPT ![c] = "stopped"]
                 /\ UNCHANGED <<changes, waiting, targets, clients, buffered, link, told>>
-----------------------------------------------------------------------------
Init == /\ changes = 0
        /\ waiting = {}
        /\ targets = [k \in Changes |-> {}]
        /\ clients = {}
        /\ buffered = [c \in Clients |-> 0]
        /\ writer = [c \in Clients |-> "stopped"]
        /\ link = [c \in Clients |-> "new"]
        /\ told = [c \in Clients |-> 0]

Bus(k) == CopyClients(k) \/ \E c \in Clients : Send(k, c)

Writer(c) == Receive(c) \/ Write(c) \/ WriteReturns(c) \/ WriterDone(c)

Next == \/ Publish
        \/ \E k \in Changes : Bus(k)
        \/ \E c \in Clients : Writer(c) \/ Register(c) \/ Break(c) \/ Unregister(c)

Spec == Init /\ [][Next]_vars

(* Goroutines are scheduled; nothing makes a client connect or break off.  *)
Fairness == /\ \A k \in Changes : WF_vars(Bus(k))
            /\ \A c \in Clients : WF_vars(Writer(c))

LiveSpec == Spec /\ Fairness
-----------------------------------------------------------------------------
TypeOK == /\ changes \in 0 .. MaxChanges
          /\ waiting \in SUBSET Changes
          /\ targets \in [Changes -> SUBSET Clients]
          /\ clients \in SUBSET Clients
          /\ buffered \in [Clients -> 0 .. Cap]
          /\ writer \in [Clients -> {"select", "write", "written", "stopped"}]
          /\ link \in [Clients -> {"new", "up", "broken", "closed"}]
          /\ told \in [Clients -> 0 .. MaxChanges]

(* Messages are dropped and goroutines run in any order, yet a connected   *)
(* tablet that does not know of some change always has a message on its    *)
(* way: a goroutine that has still to copy the list or to send to it, a    *)
(* message in its channel, or one that is being written.                   *)
MessageOnItsWay ==
  \A c \in Clients :
    link[c] = "up" /\ told[c] < changes =>
      \/ waiting # {}
      \/ \E k \in Changes : c \in targets[k]
      \/ buffered[c] > 0
      \/ writer[c] = "write"

(* "After uploading a file via sync API, verify device receives Socket.IO  *)
(* push notification": a tablet that stays connected is told to            *)
(* synchronise after every change.                                         *)
ChangesAnnounced ==
  \A c \in Clients, k \in Changes :
    link[c] = "up" /\ changes >= k ~> link[c] # "up" \/ told[c] >= k
=============================================================================
