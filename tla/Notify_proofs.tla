---------------------------- MODULE Notify_proofs ----------------------------
(***************************************************************************)
(* Theorems of Notify: types, and that messages may be dropped but never   *)
(* the last one a tablet needs, for any number of clients and changes and  *)
(* any size of the send channels.                                          *)
(***************************************************************************)
EXTENDS Notify, TLAPS

(* A connected client is on the list. *)
UpListed == \A c \in Clients : link[c] = "up" => c \in clients

NotifyInv == TypeOK /\ UpListed /\ MessageOnItsWay

LEMMA InitInv == Init => NotifyInv
  BY CapAssumption, MaxChangesAssumption DEF Init, NotifyInv, TypeOK, UpListed, MessageOnItsWay

LEMMA TypeStep == TypeOK /\ [Next]_vars => TypeOK'
<1> SUFFICES ASSUME TypeOK, [Next]_vars PROVE TypeOK'
  OBVIOUS
<1> USE CapAssumption, MaxChangesAssumption DEF TypeOK, Changes
<1>1. CASE Publish
  BY <1>1 DEF Publish
<1>2. ASSUME NEW k \in Changes, Bus(k) PROVE TypeOK'
  <2>1. CASE CopyClients(k)
    BY <2>1 DEF CopyClients
  <2>2. ASSUME NEW c \in Clients, Send(k, c) PROVE TypeOK'
    BY <2>2 DEF Send, HasRoom
  <2> QED
    BY <1>2, <2>1, <2>2 DEF Bus
<1>3. ASSUME NEW c \in Clients, Receive(c) PROVE TypeOK'
  BY <1>3 DEF Receive
<1>4. ASSUME NEW c \in Clients, Write(c) PROVE TypeOK'
  BY <1>4 DEF Write
<1>5. ASSUME NEW c \in Clients, WriteReturns(c) PROVE TypeOK'
  BY <1>5 DEF WriteReturns
<1>6. ASSUME NEW c \in Clients, WriterDone(c) PROVE TypeOK'
  BY <1>6 DEF WriterDone
<1>7. ASSUME NEW c \in Clients, Register(c) PROVE TypeOK'
  BY <1>7 DEF Register
<1>8. ASSUME NEW c \in Clients, Break(c) PROVE TypeOK'
  BY <1>8 DEF Break
<1>9. ASSUME NEW c \in Clients, Unregister(c) PROVE TypeOK'
  BY <1>9 DEF Unregister
<1>10. CASE UNCHANGED vars
  BY <1>10 DEF vars
<1> QED
  BY <1>1, <1>2, <1>3, <1>4, <1>5, <1>6, <1>7, <1>8, <1>9, <1>10 DEF Next, Writer

(* Registering comes with the connection; only a broken one is taken off. *)
LEMMA ListedStep == TypeOK /\ UpListed /\ [Next]_vars => UpListed'
<1> SUFFICES ASSUME TypeOK, UpListed, [Next]_vars PROVE UpListed'
  OBVIOUS
<1> USE DEF TypeOK, UpListed
<1>1. ASSUME NEW c \in Clients, Register(c) PROVE UpListed'
  BY <1>1 DEF Register
<1>2. ASSUME NEW c \in Clients, Break(c) PROVE UpListed'
  BY <1>2 DEF Break
<1>3. ASSUME NEW c \in Clients, Unregister(c) PROVE UpListed'
  BY <1>3 DEF Unregister
<1>4. CASE UNCHANGED <<clients, link>>
  BY <1>4
<1>5. CASE Publish
  BY <1>5, <1>4 DEF Publish
<1>6. ASSUME NEW k \in Changes, Bus(k) PROVE UNCHANGED <<clients, link>>
  BY <1>6 DEF Bus, CopyClients, Send
<1>7. ASSUME NEW c \in Clients, Writer(c) PROVE UNCHANGED <<clients, link>>
  BY <1>7 DEF Writer, Receive, Write, WriteReturns, WriterDone
<1>8. CASE UNCHANGED vars
  BY <1>8, <1>4 DEF vars
<1> QED
  BY <1>1, <1>2, <1>3, <1>4, <1>5, <1>6, <1>7, <1>8 DEF Next

(* What is on its way to client c. *)
Coming(c) == \/ waiting # {}
             \/ \E k \in Changes : c \in targets[k]
             \/ buffered[c] > 0
             \/ writer[c] = "write"

LEMMA MessageStep == NotifyInv /\ [Next]_vars => MessageOnItsWay'
<1> SUFFICES ASSUME NotifyInv, [Next]_vars,
                    NEW d \in Clients, (link[d] = "up")', (told[d] < changes)'
             PROVE  Coming(d)'
  BY DEF MessageOnItsWay, Coming
<1> USE CapAssumption, MaxChangesAssumption DEF TypeOK, Changes
<1>0. TypeOK /\ UpListed /\ (link[d] = "up" /\ told[d] < changes => Coming(d))
  BY DEF NotifyInv, MessageOnItsWay, Coming
<1>1. CASE Publish
  BY <1>0, <1>1 DEF Publish, Coming
<1>2. ASSUME NEW k \in Changes, CopyClients(k) PROVE Coming(d)'
  <2>1. d \in clients
    BY <1>0, <1>2 DEF CopyClients, UpListed
  <2>2. d \in targets'[k]
    BY <1>0, <1>2, <2>1 DEF CopyClients
  <2> QED
    BY <2>2 DEF Coming
<1>3. ASSUME NEW k \in Changes, NEW c \in Clients, Send(k, c) PROVE Coming(d)'
  <2>0. Coming(d)
    BY <1>0, <1>3 DEF Send
  <2>1. CASE c = d
    <3>1. buffered'[d] > 0
      BY <1>0, <1>3, <2>1 DEF Send, HasRoom
    <3> QED
      BY <3>1 DEF Coming
  <2>2. CASE c # d
    <3>1. buffered'[d] = buffered[d]
      BY <1>0, <1>3, <2>2 DEF Send
    <3>2. \A j \in Changes : d \in targets[j] => d \in targets'[j]
      BY <1>0, <1>3, <2>2 DEF Send
    <3> QED
      BY <1>3, <2>0, <3>1, <3>2 DEF Send, Coming
  <2> QED
    BY <2>1, <2>2
<1>4. ASSUME NEW c \in Clients, Receive(c) PROVE Coming(d)'
  BY <1>0, <1>4 DEF Receive, Coming
<1>5. ASSUME NEW c \in Clients, Write(c) PROVE Coming(d)'
  <2>1. c # d
    BY <1>0, <1>5 DEF Write
  <2> QED
    BY <1>0, <1>5, <2>1 DEF Write, Coming
<1>6. ASSUME NEW c \in Clients, WriteReturns(c) \/ WriterDone(c) PROVE Coming(d)'
  BY <1>0, <1>6 DEF WriteReturns, WriterDone, Coming
<1>7. ASSUME NEW c \in Clients, Register(c) PROVE Coming(d)'
  BY <1>0, <1>7 DEF Register, Coming
<1>8. ASSUME NEW c \in Clients, Break(c) \/ Unregister(c) PROVE Coming(d)'
  BY <1>0, <1>8 DEF Break, Unregister, Coming
<1>9. CASE UNCHANGED vars
  BY <1>0, <1>9 DEF vars, Coming
<1> QED
  BY <1>1, <1>2, <1>3, <1>4, <1>5, <1>6, <1>7, <1>8, <1>9 DEF Next, Bus, Writer

LEMMA StepInv == NotifyInv /\ [Next]_vars => NotifyInv'
  BY TypeStep, ListedStep, MessageStep DEF NotifyInv

LEMMA InvAlways == Spec => []NotifyInv
  BY InitInv, StepInv, PTL DEF Spec

(* TypeOK: the channels never hold more than their capacity, and a tablet  *)
(* never knows of a change that was not published.                         *)
THEOREM TypeCorrect == Spec => []TypeOK
<1>1. NotifyInv => TypeOK
  BY DEF NotifyInv
<1> QED
  BY <1>1, InvAlways, PTL

(* MessageOnItsWay: NotifyUser drops messages for full channels, and still *)
(* a connected tablet that is behind always has one on its way.            *)
THEOREM NothingLost == Spec => []MessageOnItsWay
<1>1. NotifyInv => MessageOnItsWay
  BY DEF NotifyInv
<1> QED
  BY <1>1, InvAlways, PTL
=============================================================================
