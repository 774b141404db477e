--------------------------- MODULE EndpointsProofs ---------------------------
(***************************************************************************)
(* For every set of descriptors, objects and groups and any number of      *)
(* calls: each open descriptor has exactly one owner, the plain transport  *)
(* loses no descriptor but 0, the thread that runs the client never waits  *)
(* in recvfrom, and a TCP stream is the messages sent.                     *)
(***************************************************************************)
EXTENDS Endpoints, SequenceTheorems, WellFoundedInduction, TLAPS

(* What a descriptor can refer to.                                         *)
Entry == {Closed, StandardInput, Sender, Listener, Connection}
           \cup [is : {"receiver"}, group : Group, inbox : Nat]

Free == {Closed, StandardInput}
OrNone == Descriptor \cup {None}

Types ==
  /\ table \in [Descriptor -> Entry]
  /\ transport \in [Transport ->
                      [fd : OrNone, sender : BOOLEAN, group : Group \cup {None}]]
  /\ plain \in OrNone /\ listening \in OrNone /\ connection \in OrNone
  /\ client \in [fd : OrNone, group : Group, connected : BOOLEAN,
                 running : BOOLEAN, stopped : BOOLEAN, overwritten : BOOLEAN]
  /\ runner \in {"idle", "entered", "test", "check", "select", "read", "crashed"}
  /\ peer \in {"away", "pending", "connected", "closed", "reset"}

(* The objects that read datagrams hold receivers.                         *)
Kinds ==
  /\ client.fd # None => table[client.fd].is = "receiver"
  /\ \A t \in Transport :
       transport[t].fd # None /\ ~transport[t].sender =>
         table[transport[t].fd].is = "receiver"

IInv == Types /\ Kinds /\ Accounted /\ PlainLosesOnlyZero /\ RunnerNeverBlocks

-----------------------------------------------------------------------------
(* The table *)

LEMMA NoneIsNoDescriptor == None \notin Descriptor
BY DescriptorAssumption DEF None

LEMMA EntryKinds ==
  /\ \A e \in Entry : e.is = "receiver" => e \in [is : {"receiver"}, group : Group, inbox : Nat]
  /\ \A e \in Entry : e \in Free <=> e.is \in {"closed", "stdin"}
  /\ \A g \in Group : Receiver(g) \in Entry /\ Receiver(g).is = "receiver"
  /\ {Sender, Listener, Connection} \subseteq Entry \ Free
  /\ \A g \in Group : Receiver(g) \notin Free
BY DEF Entry, Free, Closed, StandardInput, Sender, Listener, Connection, Receiver

Less == {p \in Nat \X Nat : p[1] < p[2]}

(* A set of natural numbers has a least one.                               *)
LEMMA Minimum ==
  ASSUME NEW S \in SUBSET Nat, S # {} PROVE \E x \in S : \A y \in S : x <= y
<1>1. IsWellFoundedOn(Less, Nat)
  BY NatLessThanWellFounded DEF OpToRel, Less
<1>2. PICK x \in S : \A y \in S : ~(<<y, x>> \in Less)
  BY <1>1, WFMin
<1>3. \A y \in S : x <= y
  <2> TAKE y \in S
  <2>1. x \in Nat /\ y \in Nat OBVIOUS
  <2>2. ~(y < x) BY <1>2, <2>1 DEF Less
  <2> QED BY <2>1, <2>2
<1> QED BY <1>3

LEMMA LowestIsAvailable == Available # {} => Lowest \in Available
<1>1. Available \in SUBSET Nat BY DescriptorAssumption DEF Available
<1> QED BY <1>1, Minimum DEF Lowest

(* A socket gets a descriptor that nothing else uses.                      *)
LEMMA MakeTable ==
  ASSUME Types, NEW ok \in BOOLEAN, NEW what \in Entry \ Free, Make(ok, what)
  PROVE  /\ table' \in [Descriptor -> Entry]
         /\ Made(ok) \in OrNone
         /\ ~ok => Made(ok) = None /\ table' = table
         /\ ok => /\ Made(ok) \in Descriptor \ InUse
                  /\ InUse' = InUse \cup {Made(ok)}
                  /\ table'[Made(ok)] = what
                  /\ \A fd \in Descriptor \ {Made(ok)} : table'[fd] = table[fd]
<1>1. CASE ~ok
  BY <1>1 DEF Make, Made, Types, OrNone
<1>2. CASE ok
  <2>1. PICK fd : fd = Lowest OBVIOUS
  <2>2. fd \in Descriptor /\ table[fd] = Closed
    BY <1>2, <2>1, LowestIsAvailable DEF Make, Available
  <2>3. Made(ok) = fd /\ table' = [table EXCEPT ![fd] = what]
    BY <1>2, <2>1 DEF Make, Made
  <2>4. /\ table' \in [Descriptor -> Entry] /\ table'[fd] = what
        /\ \A other \in Descriptor \ {fd} : table'[other] = table[other]
    BY <2>2, <2>3 DEF Types
  <2>5. fd \notin InUse /\ InUse' = InUse \cup {fd}
    BY <2>2, <2>4 DEF InUse, Free
  <2> QED BY <1>2, <2>2, <2>3, <2>4, <2>5 DEF OrNone
<1> QED BY <1>1, <1>2

LEMMA CloseTable ==
  ASSUME Types, NEW fd \in Descriptor, CloseDescriptor(fd)
  PROVE  /\ table' \in [Descriptor -> Entry]
         /\ InUse' = InUse \ {fd}
         /\ \A other \in Descriptor \ {fd} : table'[other] = table[other]
<1>1. Closed \in Entry BY DEF Entry
<1>2. /\ table' \in [Descriptor -> Entry] /\ table'[fd] = Closed
      /\ \A other \in Descriptor \ {fd} : table'[other] = table[other]
  BY <1>1 DEF CloseDescriptor, Types
<1> QED BY <1>2 DEF InUse

(* Datagrams that come and go change no kind of descriptor.                *)
SameKinds ==
  /\ table' \in [Descriptor -> Entry]
  /\ \A fd \in Descriptor : table'[fd].is = table[fd].is

LEMMA SameKindsSameUse == Types /\ SameKinds => InUse' = InUse
<1> SUFFICES ASSUME Types, SameKinds PROVE InUse' = InUse
  OBVIOUS
<1>1. \A fd \in Descriptor : table[fd] \in Entry /\ table'[fd] \in Entry
  BY DEF Types, SameKinds
<1>2. \A fd \in Descriptor : table[fd] \in Free <=> table'[fd] \in Free
  BY <1>1, EntryKinds DEF SameKinds
<1> QED BY <1>2 DEF InUse, Free

LEMMA DeliverTable ==
  ASSUME Types, NEW g, Deliver(g)
  PROVE  /\ SameKinds
         /\ \A fd \in Descriptor : table[fd].is = "receiver" => table'[fd].inbox >= table[fd].inbox
<1>1. PICK hearers \in SUBSET {fd \in Descriptor :
                                 table[fd].is = "receiver" /\ table[fd].group = g} :
        table' = [fd \in Descriptor |->
                    IF fd \in hearers THEN [table[fd] EXCEPT !.inbox = @ + 1]
                    ELSE table[fd]]
  BY DEF Deliver
<1>2. ASSUME NEW fd \in Descriptor
      PROVE  /\ table'[fd] \in Entry /\ table'[fd].is = table[fd].is
             /\ table[fd].is = "receiver" => table'[fd].inbox >= table[fd].inbox
  <2>1. table[fd] \in Entry BY DEF Types
  <2>2. CASE fd \in hearers
    <3>1. table[fd] \in [is : {"receiver"}, group : Group, inbox : Nat]
      BY <2>1, <2>2, EntryKinds
    <3>2. table'[fd] = [table[fd] EXCEPT !.inbox = @ + 1] BY <1>1, <2>2
    <3>3. /\ table'[fd] \in [is : {"receiver"}, group : Group, inbox : Nat]
          /\ table'[fd].inbox >= table[fd].inbox
      BY <3>1, <3>2
    <3> QED BY <3>1, <3>3 DEF Entry
  <2>3. CASE fd \notin hearers
    <3>1. table'[fd] = table[fd] BY <1>1, <2>3
    <3>2. table[fd].is = "receiver" => table[fd].inbox \in Nat
      BY <2>1, EntryKinds
    <3> QED BY <2>1, <3>1, <3>2
  <2> QED BY <2>2, <2>3
<1>3. table' \in [Descriptor -> Entry] BY <1>1, <1>2
<1> QED BY <1>2, <1>3 DEF SameKinds

LEMMA TakeTable ==
  ASSUME Types, NEW fd \in Descriptor, table[fd].is = "receiver",
         table[fd].inbox > 0, TakeDatagram(fd)
  PROVE  /\ SameKinds
         /\ \A other \in Descriptor \ {fd} : table'[other] = table[other]
<1>1. table[fd] \in [is : {"receiver"}, group : Group, inbox : Nat]
  BY EntryKinds DEF Types
<1>2. table' = [table EXCEPT ![fd].inbox = @ - 1] BY DEF TakeDatagram
<1>3. PICK e : e = [table[fd] EXCEPT !.inbox = @ - 1] OBVIOUS
<1>4. e \in [is : {"receiver"}, group : Group, inbox : Nat]
  BY <1>1, <1>3
<1>5. e \in Entry /\ e.is = table[fd].is BY <1>1, <1>4 DEF Entry
<1>6. /\ table' \in [Descriptor -> Entry] /\ table'[fd] = e
      /\ \A other \in Descriptor \ {fd} : table'[other] = table[other]
  BY <1>2, <1>3, <1>5 DEF Types
<1> QED BY <1>5, <1>6 DEF SameKinds

-----------------------------------------------------------------------------
(* Ownership *)

LEMMA HolderCases ==
  /\ Holds("plain") = plain /\ Holds("client") = client.fd
  /\ Holds("listening") = listening /\ Holds("connection") = connection
  /\ \A t \in Transport : Holds(t) = transport[t].fd /\ t \notin Users
BY HolderAssumption DEF Holds, Users

LEMMA HoldsType == Types => \A h \in Holder : Holds(h) \in OrNone
<1> SUFFICES ASSUME Types, NEW h \in Holder PROVE Holds(h) \in OrNone
  OBVIOUS
<1>1. CASE h \in Transport BY <1>1, HolderCases DEF Types
<1>2. CASE h \in Users BY <1>2, HolderCases DEF Types, Users
<1> QED BY <1>1, <1>2 DEF Holder

(* What a step of holder x leaves to the others.                           *)
OthersKept(x) ==
  \A h \in Holder \ {x} : Holds(h)' = Holds(h)

OthersUnharmed(x) ==
  \A h \in Holder \ {x} :
    Holds(h) # None => Holds(h) \in Descriptor /\ table'[Holds(h)] = table[Holds(h)]

LEMMA MakeOwned ==
  ASSUME IInv, NEW x \in Holder, NEW ok \in BOOLEAN, NEW what \in Entry \ Free,
         Make(ok, what), Holds(x)' = Made(ok), OthersKept(x),
         Lost' = Lost \cup ({Holds(x)} \ {None})
  PROVE  Accounted' /\ OthersUnharmed(x)
<1>1. Types /\ Accounted BY DEF IInv
<1>2. PICK new : new = Made(ok) OBVIOUS
<1>3. PICK old : old = Holds(x) OBVIOUS
<1>4. /\ ~ok => new = None /\ InUse' = InUse /\ table' = table
      /\ ok => /\ new \in Descriptor \ InUse
               /\ InUse' = InUse \cup {new}
               /\ \A fd \in Descriptor \ {new} : table'[fd] = table[fd]
  BY <1>1, <1>2, MakeTable DEF InUse
<1>5. /\ \A h \in Holder \ {x} : Holds(h)' = Holds(h)
      /\ Holds(x)' = new /\ Lost' = Lost \cup ({old} \ {None})
  BY <1>2, <1>3 DEF OthersKept
<1>6. /\ \A fd \in InUse : fd \in Lost \/ \E h \in Holder : Holds(h) = fd
      /\ Lost \subseteq InUse
      /\ \A h \in Holder : Holds(h) # None =>
           /\ Holds(h) \in InUse \ Lost
           /\ \A other \in Holder : Holds(other) = Holds(h) => other = h
  BY <1>1 DEF Accounted
<1>7. InUse \subseteq Descriptor BY DEF InUse
<1>8. /\ \A fd \in InUse' : fd \in Lost' \/ \E h \in Holder : Holds(h)' = fd
      /\ Lost' \subseteq InUse'
  <2>1. ASSUME NEW fd \in InUse'
        PROVE  fd \in Lost' \/ \E h \in Holder : Holds(h)' = fd
    <3>1. CASE fd \notin InUse
      <4>1. fd = new BY <1>4, <2>1, <3>1
      <4> QED BY <1>5, <4>1
    <3>2. CASE fd \in Lost
      BY <1>5, <3>2
    <3>3. CASE fd \in InUse /\ fd \notin Lost
      <4>1. PICK h \in Holder : Holds(h) = fd BY <1>6, <3>3
      <4>2. CASE h = x
        <5>1. fd = old /\ fd # None
          BY <1>3, <1>7, <3>3, <4>1, <4>2, NoneIsNoDescriptor
        <5> QED BY <1>5, <5>1
      <4>3. CASE h # x
        <5>1. Holds(h)' = fd BY <1>5, <4>1, <4>3
        <5> QED BY <5>1
      <4> QED BY <4>2, <4>3
    <3> QED BY <3>1, <3>2, <3>3
  <2>2. Lost' \subseteq InUse'
    <3>1. old # None => old \in InUse BY <1>3, <1>6
    <3> QED BY <1>4, <1>5, <1>6, <3>1
  <2> QED BY <2>1, <2>2
<1>9. ASSUME NEW h \in Holder, Holds(h)' # None
      PROVE  /\ Holds(h)' \in InUse' \ Lost'
             /\ \A other \in Holder : Holds(other)' = Holds(h)' => other = h
  <2>1. CASE h = x
    <3>1. ok /\ Holds(h)' = new /\ new \in InUse' /\ new \notin InUse
      BY <1>4, <1>5, <1>9, <2>1
    <3>2. old # None => old \in InUse BY <1>3, <1>6
    <3>3. new \notin Lost' BY <1>5, <1>6, <3>1, <3>2
    <3>4. \A other \in Holder : Holds(other)' = new => other = x
      BY <1>5, <1>6, <1>9, <2>1, <3>1
    <3> QED BY <2>1, <3>1, <3>3, <3>4
  <2>2. CASE h # x
    <3>1. Holds(h)' = Holds(h) /\ Holds(h) # None BY <1>5, <1>9, <2>2
    <3>2. Holds(h) \in InUse \ Lost BY <1>6, <3>1
    <3>3. Holds(h) # old BY <1>3, <1>6, <2>2, <3>1
    <3>4. Holds(h) # new BY <1>4, <1>7, <3>1, <3>2
    <3>5. \A other \in Holder : Holds(other)' = Holds(h) => other = h
      BY <1>5, <1>6, <3>1, <3>4
    <3> QED BY <1>4, <1>5, <3>1, <3>2, <3>3, <3>5
  <2> QED BY <2>1, <2>2
<1>10. OthersUnharmed(x)
  <2> SUFFICES ASSUME NEW h \in Holder \ {x}, Holds(h) # None
               PROVE  Holds(h) \in Descriptor /\ table'[Holds(h)] = table[Holds(h)]
    BY DEF OthersUnharmed
  <2>1. Holds(h) \in InUse /\ Holds(h) \in Descriptor BY <1>6, <1>7
  <2> QED BY <1>4, <2>1
<1> QED BY <1>8, <1>9, <1>10 DEF Accounted

LEMMA CloseOwned ==
  ASSUME IInv, NEW x \in Holder, Holds(x) # None, CloseDescriptor(Holds(x)),
         Holds(x)' = None, OthersKept(x), Lost' = Lost
  PROVE  /\ table' \in [Descriptor -> Entry]
         /\ Accounted' /\ OthersUnharmed(x)
<1>1. Types /\ Accounted BY DEF IInv
<1>2. PICK old : old = Holds(x) OBVIOUS
<1>3. /\ \A fd \in InUse : fd \in Lost \/ \E h \in Holder : Holds(h) = fd
      /\ Lost \subseteq InUse
      /\ \A h \in Holder : Holds(h) # None =>
           /\ Holds(h) \in InUse \ Lost
           /\ \A other \in Holder : Holds(other) = Holds(h) => other = h
  BY <1>1 DEF Accounted
<1>4. InUse \subseteq Descriptor BY DEF InUse
<1>5. old \in Descriptor /\ old \in InUse \ Lost BY <1>2, <1>3, <1>4
<1>6. /\ table' \in [Descriptor -> Entry]
      /\ InUse' = InUse \ {old}
      /\ \A other \in Descriptor \ {old} : table'[other] = table[other]
  BY <1>1, <1>2, <1>5, CloseTable
<1>7. /\ \A h \in Holder \ {x} : Holds(h)' = Holds(h) /\ (Holds(h) # None => Holds(h) # old)
      /\ Holds(x)' = None /\ Lost' = Lost
  BY <1>2, <1>3 DEF OthersKept
<1>8. /\ \A fd \in InUse' : fd \in Lost' \/ \E h \in Holder : Holds(h)' = fd
      /\ Lost' \subseteq InUse'
  BY <1>2, <1>3, <1>5, <1>6, <1>7
<1>9. ASSUME NEW h \in Holder, Holds(h)' # None
      PROVE  /\ Holds(h)' \in InUse' \ Lost'
             /\ \A other \in Holder : Holds(other)' = Holds(h)' => other = h
  <2>1. h # x /\ Holds(h)' = Holds(h) BY <1>7, <1>9
  <2>2. Holds(h) \in InUse \ Lost /\ Holds(h) # old BY <1>3, <1>7, <1>9, <2>1
  <2>3. \A other \in Holder : Holds(other)' = Holds(h) => other = h
    BY <1>3, <1>7, <1>9, <2>1
  <2> QED BY <1>6, <1>7, <2>1, <2>2, <2>3
<1>10. OthersUnharmed(x)
  BY <1>3, <1>4, <1>6, <1>7 DEF OthersUnharmed
<1> QED BY <1>6, <1>8, <1>9, <1>10 DEF Accounted

LEMMA SameOwned ==
  ASSUME Accounted, InUse' = InUse, Lost' = Lost,
         \A h \in Holder : Holds(h)' = Holds(h)
  PROVE  Accounted'
BY DEF Accounted

(* Two objects do not read from one descriptor.                            *)
LEMMA OneReader ==
  ASSUME Accounted, NEW g \in Holder, NEW h \in Holder, g # h, Holds(g) # None
  PROVE  Holds(h) # Holds(g) /\ Holds(g) \in Descriptor
BY DEF Accounted, InUse

LEMMA AbandonLoses ==
  ASSUME NEW fd, NEW class, Abandon(fd, class), PlainLosesOnlyZero,
         class = "plain" => fd \in {0, None}
  PROVE  Lost' = Lost \cup ({fd} \ {None}) /\ PlainLosesOnlyZero'
<1>1. abandoned' = abandoned \cup {[fd |-> f, class |-> class] : f \in {fd} \ {None}}
  BY DEF Abandon
<1>2. \A a \in abandoned' :
        a \in abandoned \/ (a.fd = fd /\ fd # None /\ a.class = class)
  BY <1>1
<1>3. fd # None => [fd |-> fd, class |-> class] \in abandoned' BY <1>1
<1>4. abandoned \subseteq abandoned' BY <1>1
<1>5. PlainLosesOnlyZero'
  BY <1>2 DEF PlainLosesOnlyZero
<1>6. \A f \in Lost' : f \in Lost \cup ({fd} \ {None})
  BY <1>2 DEF Lost
<1>7. \A f \in Lost \cup ({fd} \ {None}) : f \in Lost'
  <2>1. fd # None => fd \in Lost'
    <3> SUFFICES ASSUME fd # None PROVE fd \in Lost'
      OBVIOUS
    <3>1. PICK a \in abandoned' : a.fd = fd BY <1>3
    <3> QED BY <3>1 DEF Lost
  <2> QED BY <1>4, <2>1 DEF Lost
<1> QED BY <1>5, <1>6, <1>7

LEMMA NothingLost ==
  ASSUME abandoned' = abandoned, PlainLosesOnlyZero
  PROVE  Lost' = Lost /\ PlainLosesOnlyZero'
BY DEF Lost, PlainLosesOnlyZero

(* What an assignment to one of the descriptors leaves to the others.      *)
LEMMA HolderCasesNext ==
  /\ Holds("plain")' = plain' /\ Holds("client")' = client'.fd
  /\ Holds("listening")' = listening' /\ Holds("connection")' = connection'
  /\ \A t \in Transport : Holds(t)' = transport'[t].fd
BY HolderAssumption DEF Holds, Users

LEMMA UserAssigns ==
  ASSUME NEW x \in Users, transport' = transport,
         x # "plain" => plain' = plain,
         x # "client" => client'.fd = client.fd,
         x # "listening" => listening' = listening,
         x # "connection" => connection' = connection
  PROVE  OthersKept(x)
<1> SUFFICES ASSUME NEW h \in Holder \ {x} PROVE Holds(h)' = Holds(h)
  BY DEF OthersKept
<1>1. CASE h \in Transport BY <1>1, HolderCases, HolderCasesNext
<1>2. CASE h \in Users BY <1>2, HolderCases, HolderCasesNext DEF Users
<1> QED BY <1>1, <1>2 DEF Holder

LEMMA TransportAssigns ==
  ASSUME Types, NEW t \in Transport, NEW r, transport' = [transport EXCEPT ![t] = r],
         client' = client, UNCHANGED <<plain, listening, connection>>
  PROVE  OthersKept(t) /\ Holds(t)' = r.fd
<1>1. /\ transport'[t] = r
      /\ \A o \in Transport \ {t} : transport'[o] = transport[o]
  BY DEF Types
<1>2. ASSUME NEW h \in Holder \ {t} PROVE Holds(h)' = Holds(h)
  <2>1. CASE h \in Transport BY <1>1, <2>1, HolderCases, HolderCasesNext
  <2>2. CASE h \in Users BY <2>2, HolderCases, HolderCasesNext DEF Users
  <2> QED BY <2>1, <2>2 DEF Holder
<1> QED BY <1>1, <1>2, HolderCasesNext DEF OthersKept

LEMMA NobodyAssigns ==
  ASSUME transport' = transport, client'.fd = client.fd,
         UNCHANGED <<plain, listening, connection>>
  PROVE  \A h \in Holder : Holds(h)' = Holds(h)
<1> TAKE h \in Holder
<1>1. CASE h \in Transport BY <1>1, HolderCases, HolderCasesNext
<1>2. CASE h \in Users BY <1>2, HolderCases, HolderCasesNext DEF Users
<1> QED BY <1>1, <1>2 DEF Holder

(* The client and the transports while another object works.               *)
LEMMA ClientUnharmed ==
  ASSUME IInv, NEW x \in Holder \ {"client"}, OthersUnharmed(x),
         client' = client, runner' = runner
  PROVE  /\ RunnerNeverBlocks'
         /\ client'.fd # None => table'[client'.fd].is = "receiver"
<1>1. client.fd # None => table'[client.fd] = table[client.fd]
  <2>1. "client" \in Holder \ {x} BY DEF Holder, Users
  <2> QED BY <2>1, HolderCases DEF OthersUnharmed
<1>2. client.fd \in Descriptor => client.fd # None BY NoneIsNoDescriptor
<1> QED BY <1>1, <1>2 DEF IInv, Kinds, RunnerNeverBlocks

LEMMA TransportsUnharmed ==
  ASSUME IInv, NEW x \in Holder, OthersUnharmed(x), NEW o \in Transport \ {x},
         transport'[o] = transport[o],
         transport[o].fd # None, ~transport[o].sender
  PROVE  table'[transport'[o].fd].is = "receiver"
<1>1. o \in Holder \ {x} /\ Holds(o) = transport[o].fd BY HolderCases DEF Holder
<1>2. table'[transport[o].fd] = table[transport[o].fd]
  BY <1>1 DEF OthersUnharmed
<1> QED BY <1>2 DEF IInv, Kinds

-----------------------------------------------------------------------------
(* UDPTransport of udp_multicast_transport.cpp *)

LEMMA CreateKeeps ==
  ASSUME IInv, NEW t \in Transport, NEW g \in Group, NEW sender \in BOOLEAN,
         NEW ok \in BOOLEAN, Create(t, sender, g, ok), UNCHANGED tcp
  PROVE  IInv'
<1>0. PICK r : r = [fd |-> Made(ok), sender |-> sender, group |-> g] OBVIOUS
<1>1. PICK what : what = IF sender THEN Sender ELSE Receiver(g) OBVIOUS
<1>2. what \in Entry \ Free /\ (~sender => what.is = "receiver")
  BY <1>1, EntryKinds
<1>3. /\ Abandon(transport[t].fd, "multicast") /\ Make(ok, what)
      /\ transport' = [transport EXCEPT ![t] = r]
      /\ client' = client /\ runner' = runner
      /\ UNCHANGED <<plain, listening, connection, peer>>
  BY <1>0, <1>1 DEF Create, KeepClient, tcp
<1>4. Types /\ Kinds /\ PlainLosesOnlyZero BY DEF IInv
<1>5. Lost' = Lost \cup ({transport[t].fd} \ {None}) /\ PlainLosesOnlyZero'
  BY <1>3, <1>4, AbandonLoses
<1>6. Holds(t) = transport[t].fd /\ t \in Holder /\ t # "client"
  BY HolderCases DEF Holder, Users
<1>7. Made(ok) \in OrNone /\ table' \in [Descriptor -> Entry]
      /\ (ok => table'[Made(ok)] = what) /\ (~ok => Made(ok) = None)
  BY <1>2, <1>3, <1>4, MakeTable
<1>8. OthersKept(t) /\ Holds(t)' = Made(ok)
  <2>1. OthersKept(t) /\ Holds(t)' = r.fd BY <1>3, <1>4, TransportAssigns
  <2> QED BY <1>0, <2>1
<1>9. Accounted' /\ OthersUnharmed(t)
  BY <1>2, <1>3, <1>5, <1>6, <1>8, MakeOwned
<1>10. r \in [fd : OrNone, sender : BOOLEAN, group : Group \cup {None}]
  BY <1>0, <1>7
<1>11. Types'
  BY <1>3, <1>4, <1>7, <1>10 DEF Types
<1>12. /\ RunnerNeverBlocks'
       /\ client'.fd # None => table'[client'.fd].is = "receiver"
  BY <1>3, <1>6, <1>9, ClientUnharmed
<1>13. ASSUME NEW o \in Transport, transport'[o].fd # None, ~transport'[o].sender
       PROVE  table'[transport'[o].fd].is = "receiver"
  <2>1. CASE o = t
    <3>1. transport'[o] = r BY <1>3, <1>4, <2>1 DEF Types
    <3> QED BY <1>0, <1>2, <1>7, <1>13, <3>1
  <2>2. CASE o # t
    <3>1. transport'[o] = transport[o] BY <1>3, <1>4, <2>2 DEF Types
    <3> QED BY <1>6, <1>9, <1>13, <2>2, <3>1, TransportsUnharmed
  <2> QED BY <2>1, <2>2
<1> QED BY <1>5, <1>9, <1>11, <1>12, <1>13 DEF IInv, Kinds

(* Steps after which everybody has what he had, of the same kind.          *)
LEMMA DatagramKeeps ==
  ASSUME IInv, SameKinds, UNCHANGED <<abandoned, transport, plain, client>>,
         UNCHANGED tcp, runner' = runner \/ runner' \in {"idle", "test"},
         runner' = "read" => table'[client.fd].inbox > 0
  PROVE  IInv'
<1>1. Types /\ Kinds /\ Accounted /\ PlainLosesOnlyZero /\ RunnerNeverBlocks
  BY DEF IInv
<1>2. InUse' = InUse BY <1>1, SameKindsSameUse
<1>3. Lost' = Lost /\ PlainLosesOnlyZero' BY <1>1, NothingLost
<1>4. \A h \in Holder : Holds(h)' = Holds(h)
  BY NobodyAssigns DEF tcp
<1>5. Accounted' BY <1>1, <1>2, <1>3, <1>4, SameOwned
<1>6. Types' BY <1>1 DEF Types, SameKinds, tcp
<1>7. \A fd \in OrNone \ {None} : table'[fd].is = table[fd].is
  BY DEF SameKinds, OrNone
<1>8. client.fd \in OrNone /\ \A t \in Transport : transport[t].fd \in OrNone
  BY <1>1 DEF Types
<1>9. Kinds' BY <1>1, <1>7, <1>8 DEF Kinds
<1>10. RunnerNeverBlocks'
  BY <1>1, <1>7 DEF RunnerNeverBlocks, SameKinds
<1> QED BY <1>3, <1>5, <1>6, <1>9, <1>10 DEF IInv

LEMMA SendKeeps ==
  ASSUME IInv, NEW t \in Transport, Send(t), UNCHANGED tcp PROVE IInv'
<1>1. Types /\ Kinds /\ RunnerNeverBlocks BY DEF IInv
<1>2. /\ SameKinds
      /\ \A fd \in Descriptor :
           table[fd].is = "receiver" => table'[fd].inbox >= table[fd].inbox
  BY <1>1, DeliverTable DEF Send
<1>3. runner = "read" => table'[client.fd].inbox > 0
  <2> SUFFICES ASSUME runner = "read" PROVE table'[client.fd].inbox > 0
    OBVIOUS
  <2>1. PICK fd \in Descriptor : fd = client.fd BY <1>1 DEF RunnerNeverBlocks
  <2>2. table[fd].is = "receiver" /\ table[fd].inbox > 0
    BY <1>1, <2>1 DEF RunnerNeverBlocks
  <2>3. table[fd] \in Entry /\ table'[fd] \in Entry /\ table'[fd].is = "receiver"
    BY <1>1, <1>2, <2>2 DEF Types, SameKinds
  <2>4. PICK a \in Nat : a = table[fd].inbox BY <2>2, <2>3, EntryKinds
  <2>5. PICK b \in Nat : b = table'[fd].inbox BY <2>3, EntryKinds
  <2>6. b >= a /\ a > 0 BY <1>2, <2>2, <2>4, <2>5
  <2> QED BY <2>1, <2>5, <2>6
<1> QED BY <1>2, <1>3, DatagramKeeps DEF Send, udp

LEMMA ReceiveKeeps ==
  ASSUME IInv, NEW t \in Transport, Receive(t), UNCHANGED tcp PROVE IInv'
<1>1. Types /\ Kinds /\ Accounted /\ RunnerNeverBlocks BY DEF IInv
<1>2. PICK fd : fd = transport[t].fd OBVIOUS
<1>3. fd \in Descriptor /\ table[fd].is = "receiver" /\ table[fd].inbox > 0
      /\ TakeDatagram(fd)
  BY <1>1, <1>2 DEF Receive, Types, Kinds, OrNone
<1>4. SameKinds /\ \A other \in Descriptor \ {fd} : table'[other] = table[other]
  BY <1>1, <1>3, TakeTable
<1>5. client.fd # fd
  <2>1. /\ t \in Holder /\ "client" \in Holder /\ t # "client"
        /\ Holds(t) = fd /\ Holds("client") = client.fd
    BY <1>2, HolderCases DEF Holder, Users
  <2> QED BY <1>1, <1>3, <2>1, OneReader, NoneIsNoDescriptor
<1>6. runner = "read" => table'[client.fd].inbox > 0
  BY <1>1, <1>4, <1>5 DEF RunnerNeverBlocks
<1> QED BY <1>4, <1>6, DatagramKeeps DEF Receive, KeepClient

LEMMA CloseKeeps ==
  ASSUME IInv, NEW t \in Transport, Close(t), UNCHANGED tcp PROVE IInv'
<1>1. Types /\ Kinds /\ PlainLosesOnlyZero BY DEF IInv
<1>2. PICK r : r = [transport[t] EXCEPT !.fd = None] OBVIOUS
<1>3. /\ transport[t].fd # None /\ CloseDescriptor(transport[t].fd)
      /\ transport' = [transport EXCEPT ![t].fd = None]
      /\ client' = client /\ runner' = runner
      /\ UNCHANGED <<abandoned, plain, listening, connection, peer>>
  BY DEF Close, KeepClient, tcp
<1>4. /\ r \in [fd : OrNone, sender : BOOLEAN, group : Group \cup {None}]
      /\ r.fd = None
  BY <1>1, <1>2 DEF Types, OrNone
<1>5. transport' = [transport EXCEPT ![t] = r] BY <1>2, <1>3
<1>6. Lost' = Lost /\ PlainLosesOnlyZero' BY <1>1, <1>3, NothingLost
<1>7. Holds(t) = transport[t].fd /\ t \in Holder /\ t # "client"
  BY HolderCases DEF Holder, Users
<1>8. OthersKept(t) /\ Holds(t)' = None
  BY <1>1, <1>3, <1>4, <1>5, TransportAssigns
<1>9. table' \in [Descriptor -> Entry] /\ Accounted' /\ OthersUnharmed(t)
  BY <1>3, <1>6, <1>7, <1>8, CloseOwned
<1>10. Types' BY <1>1, <1>3, <1>4, <1>5, <1>9 DEF Types
<1>11. /\ RunnerNeverBlocks'
       /\ client'.fd # None => table'[client'.fd].is = "receiver"
  BY <1>3, <1>7, <1>9, ClientUnharmed
<1>12. ASSUME NEW o \in Transport, transport'[o].fd # None, ~transport'[o].sender
       PROVE  table'[transport'[o].fd].is = "receiver"
  <2>1. o # t BY <1>1, <1>4, <1>5, <1>12 DEF Types
  <2>2. transport'[o] = transport[o] BY <1>1, <1>5, <2>1 DEF Types
  <2> QED BY <1>7, <1>9, <1>12, <2>1, <2>2, TransportsUnharmed
<1> QED BY <1>6, <1>9, <1>10, <1>11, <1>12 DEF IInv, Kinds

-----------------------------------------------------------------------------
(* The plain transport and the caller of TCPTransport *)

Peers == {"away", "pending", "connected", "closed", "reset"}

(* What an assignment to holder x leaves unchanged.                        *)
OnlyUser(x) ==
  /\ UNCHANGED <<transport, client, runner>> /\ peer' \in Peers
  /\ x # "plain" => plain' = plain
  /\ x # "listening" => listening' = listening
  /\ x # "connection" => connection' = connection

LEMMA UserRest ==
  ASSUME IInv, NEW x \in Users \ {"client"}, OnlyUser(x), OthersUnharmed(x),
         Holds(x)' \in OrNone, table' \in [Descriptor -> Entry]
  PROVE  Types' /\ Kinds' /\ RunnerNeverBlocks'
<1>1. Types /\ Kinds BY DEF IInv
<1>2. plain' \in OrNone /\ listening' \in OrNone /\ connection' \in OrNone
  BY <1>1, HolderCasesNext DEF OnlyUser, Types, Users
<1>3. Types' BY <1>1, <1>2 DEF Types, OnlyUser, Peers
<1>4. x \in Holder \ {"client"} BY DEF Holder
<1>5. /\ RunnerNeverBlocks'
      /\ client'.fd # None => table'[client'.fd].is = "receiver"
  BY <1>4, ClientUnharmed DEF OnlyUser
<1>6. ASSUME NEW o \in Transport, transport'[o].fd # None, ~transport'[o].sender
      PROVE  table'[transport'[o].fd].is = "receiver"
  <2>1. o # x /\ transport'[o] = transport[o] BY HolderCases DEF OnlyUser
  <2> QED BY <1>4, <1>6, <2>1, TransportsUnharmed
<1> QED BY <1>3, <1>5, <1>6 DEF Kinds

LEMMA UserMakes ==
  ASSUME IInv, NEW x \in Users \ {"client"}, OnlyUser(x), NEW ok \in BOOLEAN,
         NEW what \in Entry \ Free, Make(ok, what), Holds(x)' = Made(ok),
         Lost' = Lost \cup ({Holds(x)} \ {None}), PlainLosesOnlyZero'
  PROVE  IInv'
<1>1. x \in Holder /\ OthersKept(x)
  BY UserAssigns DEF OnlyUser, Holder
<1>2. Accounted' /\ OthersUnharmed(x)
  BY <1>1, MakeOwned
<1>3. table' \in [Descriptor -> Entry] /\ Made(ok) \in OrNone
  BY MakeTable DEF IInv
<1> QED BY <1>2, <1>3, UserRest DEF IInv

LEMMA UserCloses ==
  ASSUME IInv, NEW x \in Users \ {"client"}, OnlyUser(x), Holds(x) # None,
         CloseDescriptor(Holds(x)), Holds(x)' = None, abandoned' = abandoned
  PROVE  IInv'
<1>1. x \in Holder /\ OthersKept(x)
  BY UserAssigns DEF OnlyUser, Holder
<1>2. Lost' = Lost /\ PlainLosesOnlyZero' BY NothingLost DEF IInv
<1>3. Accounted' /\ OthersUnharmed(x) /\ table' \in [Descriptor -> Entry]
  BY <1>1, <1>2, CloseOwned
<1> QED BY <1>2, <1>3, UserRest DEF IInv, OrNone

LEMMA InitializeKeeps ==
  ASSUME IInv, NEW ok \in BOOLEAN, Initialize(ok), UNCHANGED tcp PROVE IInv'
<1>1. /\ Abandon(plain, "plain") /\ Make(ok, Sender) /\ plain' = Made(ok)
      /\ OnlyUser("plain") /\ ~(plain > 0)
  BY DEF Initialize, KeepTransports, KeepClient, OnlyUser, tcp, IInv, Types, Peers
<1>2. plain \in {0, None}
  BY <1>1, DescriptorAssumption DEF IInv, Types, OrNone, None
<1>3. Lost' = Lost \cup ({plain} \ {None}) /\ PlainLosesOnlyZero'
  BY <1>1, <1>2, AbandonLoses DEF IInv
<1>4. Sender \in Entry \ Free BY EntryKinds
<1>5. Holds("plain") = plain /\ Holds("plain")' = Made(ok) /\ "plain" \in Users \ {"client"}
  BY <1>1, HolderCases, HolderCasesNext DEF Users
<1> QED BY <1>1, <1>3, <1>4, <1>5, UserMakes

LEMMA SendMessageKeeps ==
  ASSUME IInv, NEW ok \in BOOLEAN, SendMessage(ok), UNCHANGED tcp PROVE IInv'
<1>1. /\ abandoned' = abandoned /\ Make(ok, Sender) /\ plain' = Made(ok)
      /\ OnlyUser("plain") /\ plain < 0
  BY DEF SendMessage, KeepTransports, KeepClient, OnlyUser, tcp, IInv, Types, Peers
<1>2. plain = None
  BY <1>1, DescriptorAssumption DEF IInv, Types, OrNone, None
<1>3. Lost' = Lost \cup ({plain} \ {None}) /\ PlainLosesOnlyZero'
  BY <1>1, <1>2, NothingLost DEF IInv
<1>4. Sender \in Entry \ Free BY EntryKinds
<1>5. Holds("plain") = plain /\ Holds("plain")' = Made(ok) /\ "plain" \in Users \ {"client"}
  BY <1>1, HolderCases, HolderCasesNext DEF Users
<1> QED BY <1>1, <1>3, <1>4, <1>5, UserMakes

(* Descriptor 0 is lost as a failed creation would lose it.                *)
LEMMA DestroyPlainKeeps ==
  ASSUME IInv, DestroyPlain, UNCHANGED tcp PROVE IInv'
<1>1. /\ OnlyUser("plain") /\ plain # None /\ plain' = None
  BY DEF DestroyPlain, KeepTransports, KeepClient, OnlyUser, tcp, IInv, Types, Peers
<1>2. Holds("plain") = plain /\ Holds("plain")' = None /\ "plain" \in Users \ {"client"}
  BY <1>1, HolderCases, HolderCasesNext DEF Users
<1>3. CASE plain > 0
  <2>1. CloseDescriptor(plain) /\ abandoned' = abandoned
    BY <1>3 DEF DestroyPlain
  <2> QED BY <1>1, <1>2, <2>1, UserCloses
<1>4. CASE ~(plain > 0)
  <2>1. Abandon(plain, "plain") /\ table' = table
    BY <1>4 DEF DestroyPlain
  <2>2. plain \in {0, None}
    BY <1>4, DescriptorAssumption DEF IInv, Types, OrNone, None
  <2>3. Lost' = Lost \cup ({plain} \ {None}) /\ PlainLosesOnlyZero'
    BY <2>1, <2>2, AbandonLoses DEF IInv
  <2>4. Make(FALSE, Sender) /\ Made(FALSE) = None /\ Sender \in Entry \ Free
    BY <2>1, EntryKinds DEF Make, Made
  <2> QED BY <1>1, <1>2, <2>3, <2>4, UserMakes
<1> QED BY <1>3, <1>4

LEMMA TcpCallKeeps ==
  ASSUME IInv, TcpCall, UNCHANGED udp PROVE IInv'
<1>1. Types /\ PlainLosesOnlyZero BY DEF IInv
<1>2. /\ Holds("listening") = listening /\ Holds("connection") = connection
      /\ Holds("listening")' = listening' /\ Holds("connection")' = connection'
      /\ {"listening", "connection"} \subseteq Users \ {"client"}
  BY HolderCases, HolderCasesNext DEF Users
<1>3. UNCHANGED <<transport, plain, client, runner>> BY DEF udp
<1>4. ASSUME NEW ok \in BOOLEAN, CreateServerSocket(ok) PROVE IInv'
  <2>1. /\ listening = None /\ Make(ok, Listener) /\ listening' = Made(ok)
        /\ OnlyUser("listening") /\ abandoned' = abandoned
    BY <1>1, <1>3, <1>4 DEF CreateServerSocket, OnlyUser, Types, Peers
  <2>2. Lost' = Lost \cup ({listening} \ {None}) /\ PlainLosesOnlyZero'
    BY <1>1, <2>1, NothingLost
  <2>3. Listener \in Entry \ Free BY EntryKinds
  <2> QED BY <1>2, <2>1, <2>2, <2>3, UserMakes
<1>5. ASSUME AcceptConnection PROVE IInv'
  <2>1. /\ connection = None /\ Make(TRUE, Connection) /\ connection' = Made(TRUE)
        /\ OnlyUser("connection") /\ abandoned' = abandoned
    BY <1>3, <1>5 DEF AcceptConnection, OnlyUser, Peers
  <2>2. Lost' = Lost \cup ({connection} \ {None}) /\ PlainLosesOnlyZero'
    BY <1>1, <2>1, NothingLost
  <2>3. Connection \in Entry \ Free BY EntryKinds
  <2> QED BY <1>2, <2>1, <2>2, <2>3, UserMakes
<1>6. ASSUME CloseListener PROVE IInv'
  <2>1. /\ listening # None /\ CloseDescriptor(listening) /\ listening' = None
        /\ OnlyUser("listening") /\ abandoned' = abandoned
    BY <1>1, <1>3, <1>6 DEF CloseListener, OnlyUser, Types, Peers
  <2> QED BY <1>2, <2>1, UserCloses
<1>7. ASSUME CloseConnection PROVE IInv'
  <2>1. /\ connection # None /\ CloseDescriptor(connection) /\ connection' = None
        /\ OnlyUser("connection") /\ abandoned' = abandoned
    BY <1>1, <1>3, <1>7 DEF CloseConnection, OnlyUser, Types, Peers
  <2> QED BY <1>2, <2>1, UserCloses
<1>8. ASSUME NEW length \in Length, BeginSendData(length) PROVE IInv'
  <2>1. UNCHANGED <<table, abandoned, listening, connection, peer>>
    BY <1>8 DEF BeginSendData, KeepSockets
  <2> QED BY <1>3, <2>1 DEF IInv, Types, Kinds, Accounted, Lost, InUse, Holds,
             PlainLosesOnlyZero, RunnerNeverBlocks
<1> QED BY <1>4, <1>5, <1>6, <1>7, <1>8 DEF TcpCall

-----------------------------------------------------------------------------
(* UTPClient *)

LEMMA ConnectKeeps ==
  ASSUME IInv, NEW ok \in BOOLEAN, Connect(ok), UNCHANGED tcp PROVE IInv'
<1>1. Types /\ Kinds /\ PlainLosesOnlyZero /\ RunnerNeverBlocks BY DEF IInv
<1>2. PICK what : what = Receiver(client.group) OBVIOUS
<1>3. what \in Entry \ Free /\ what.is = "receiver"
  BY <1>1, <1>2, EntryKinds DEF Types
<1>4. /\ runner = "idle" /\ runner' = runner
      /\ Abandon(client.fd, "client") /\ Make(ok, what)
      /\ UNCHANGED <<transport, plain, listening, connection, peer>>
  BY <1>2 DEF Connect, KeepOthers, tcp
<1>5. /\ client'.fd = Made(ok) /\ client'.connected = (client.connected \/ ok)
      /\ client'.overwritten = (~ok /\ (client.overwritten \/ client.connected))
  BY <1>1 DEF Connect, Types
<1>6. Made(ok) \in OrNone /\ table' \in [Descriptor -> Entry]
      /\ (ok => Made(ok) \in Descriptor /\ table'[Made(ok)] = what)
      /\ (~ok => Made(ok) = None)
  BY <1>1, <1>3, <1>4, MakeTable
<1>7. client' \in [fd : OrNone, group : Group, connected : BOOLEAN,
                   running : BOOLEAN, stopped : BOOLEAN, overwritten : BOOLEAN]
  BY <1>1, <1>6 DEF Connect, Types
<1>8. Lost' = Lost \cup ({client.fd} \ {None}) /\ PlainLosesOnlyZero'
  BY <1>1, <1>4, AbandonLoses
<1>9. /\ Holds("client") = client.fd /\ Holds("client")' = Made(ok)
      /\ "client" \in Users /\ "client" \in Holder
  BY <1>5, HolderCases, HolderCasesNext DEF Users, Holder
<1>10. OthersKept("client") BY <1>4, <1>9, UserAssigns
<1>11. Accounted' /\ OthersUnharmed("client")
  BY <1>3, <1>4, <1>8, <1>9, <1>10, MakeOwned
<1>12. Types' BY <1>1, <1>4, <1>6, <1>7 DEF Types
<1>13. ASSUME NEW o \in Transport, transport'[o].fd # None, ~transport'[o].sender
       PROVE  table'[transport'[o].fd].is = "receiver"
  <2>1. o # "client" /\ transport'[o] = transport[o] BY <1>4, <1>9, HolderCases
  <2> QED BY <1>9, <1>11, <1>13, <2>1, TransportsUnharmed
<1>14. Kinds' BY <1>3, <1>5, <1>6, <1>13 DEF Kinds
<1>15. RunnerNeverBlocks'
  <2>1. (client.connected /\ client.fd = None) = client.overwritten
    BY <1>1 DEF RunnerNeverBlocks
  <2>2. (client'.connected /\ client'.fd = None) = client'.overwritten
    <3>1. CASE ok BY <1>5, <1>6, <3>1, NoneIsNoDescriptor
    <3>2. CASE ~ok BY <1>1, <1>5, <1>6, <2>1, <3>2 DEF Types
    <3> QED BY <3>1, <3>2
  <2> QED BY <1>4, <2>2 DEF RunnerNeverBlocks
<1> QED BY <1>8, <1>11, <1>12, <1>14, <1>15 DEF IInv

LEMMA DisconnectKeeps ==
  ASSUME IInv, Disconnect, UNCHANGED tcp PROVE IInv'
<1>1. Types /\ Kinds /\ PlainLosesOnlyZero /\ Accounted BY DEF IInv
<1>2. /\ runner = "idle" /\ runner' = runner
      /\ IF client.fd # None THEN CloseDescriptor(client.fd) ELSE table' = table
      /\ UNCHANGED <<abandoned, transport, plain, listening, connection, peer>>
  BY DEF Disconnect, KeepOthers, tcp
<1>3. /\ client'.fd = None /\ client'.connected = FALSE /\ client'.overwritten = FALSE
      /\ client' \in [fd : OrNone, group : Group, connected : BOOLEAN,
                      running : BOOLEAN, stopped : BOOLEAN, overwritten : BOOLEAN]
  BY <1>1 DEF Disconnect, Types, OrNone
<1>4. Lost' = Lost /\ PlainLosesOnlyZero' BY <1>1, <1>2, NothingLost
<1>5. /\ Holds("client") = client.fd /\ Holds("client")' = None
      /\ "client" \in Users /\ "client" \in Holder
  BY <1>3, HolderCases, HolderCasesNext DEF Users, Holder
<1>6. OthersKept("client") BY <1>2, <1>5, UserAssigns
<1>7. table' \in [Descriptor -> Entry] /\ Accounted' /\ OthersUnharmed("client")
  <2>1. CASE client.fd # None
    BY <1>2, <1>4, <1>5, <1>6, <2>1, CloseOwned
  <2>2. CASE client.fd = None
    <3>1. table' = table /\ InUse' = InUse BY <1>2, <2>2 DEF InUse
    <3>2. \A h \in Holder : Holds(h)' = Holds(h)
      BY <1>5, <1>6, <2>2 DEF OthersKept
    <3>3. Accounted' BY <1>1, <1>4, <3>1, <3>2, SameOwned
    <3>4. OthersUnharmed("client")
      BY <1>1, <3>1 DEF OthersUnharmed, Accounted, InUse
    <3> QED BY <1>1, <3>1, <3>3, <3>4 DEF Types
  <2> QED BY <2>1, <2>2
<1>8. Types' BY <1>1, <1>2, <1>3, <1>7 DEF Types
<1>9. ASSUME NEW o \in Transport, transport'[o].fd # None, ~transport'[o].sender
      PROVE  table'[transport'[o].fd].is = "receiver"
  <2>1. o # "client" /\ transport'[o] = transport[o] BY <1>2, <1>5, HolderCases
  <2> QED BY <1>5, <1>7, <1>9, <2>1, TransportsUnharmed
<1>10. Kinds' BY <1>3, <1>9 DEF Kinds
<1>11. RunnerNeverBlocks' BY <1>2, <1>3 DEF RunnerNeverBlocks
<1> QED BY <1>4, <1>7, <1>8, <1>10, <1>11 DEF IInv

(* Steps that only move the thread or set flags.                           *)
LEMMA FlagKeeps ==
  ASSUME IInv, UNCHANGED <<table, abandoned, transport, plain>>, UNCHANGED tcp,
         client' \in [fd : OrNone, group : Group, connected : BOOLEAN,
                      running : BOOLEAN, stopped : BOOLEAN, overwritten : BOOLEAN],
         client'.fd = client.fd, client'.connected = client.connected,
         client'.overwritten = client.overwritten,
         runner' \in {"idle", "entered", "test", "check", "select", "read", "crashed"},
         runner' = "select" => client.fd \in Descriptor,
         runner' = "read" => /\ client.fd \in Descriptor
                             /\ runner = "read" \/ table[client.fd].inbox > 0,
         runner' = "crashed" => client.overwritten
  PROVE  IInv'
<1>1. Types /\ Kinds /\ Accounted /\ PlainLosesOnlyZero /\ RunnerNeverBlocks
  BY DEF IInv
<1>2. \A h \in Holder : Holds(h)' = Holds(h) BY NobodyAssigns DEF tcp
<1>3. Lost' = Lost /\ PlainLosesOnlyZero' BY <1>1, NothingLost
<1>4. Accounted' BY <1>1, <1>2, <1>3, SameOwned DEF InUse
<1>5. Types' BY <1>1 DEF Types, tcp
<1>6. Kinds' BY <1>1 DEF Kinds
<1>7. RunnerNeverBlocks'
  BY <1>1, NoneIsNoDescriptor DEF RunnerNeverBlocks, Kinds
<1> QED BY <1>3, <1>4, <1>5, <1>6, <1>7 DEF IInv

LEMMA EnterKeeps ==
  ASSUME IInv, NEW single \in BOOLEAN, Enter(single), UNCHANGED tcp PROVE IInv'
<1>1. Types /\ RunnerNeverBlocks BY DEF IInv
<1>2. /\ client' \in [fd : OrNone, group : Group, connected : BOOLEAN,
                      running : BOOLEAN, stopped : BOOLEAN, overwritten : BOOLEAN]
      /\ client'.fd = client.fd /\ client'.connected = client.connected
      /\ client'.overwritten = client.overwritten
  BY <1>1 DEF Enter, Types
<1>3. /\ runner' \in {"check", "entered"}
      /\ UNCHANGED <<table, abandoned, transport, plain>>
  BY DEF Enter, KeepOthers
<1> QED BY <1>2, <1>3, FlagKeeps

LEMMA StopKeeps ==
  ASSUME IInv, Stop, UNCHANGED tcp PROVE IInv'
<1>1. Types /\ RunnerNeverBlocks BY DEF IInv
<1>2. /\ client' \in [fd : OrNone, group : Group, connected : BOOLEAN,
                      running : BOOLEAN, stopped : BOOLEAN, overwritten : BOOLEAN]
      /\ client'.fd = client.fd /\ client'.connected = client.connected
      /\ client'.overwritten = client.overwritten
  BY <1>1 DEF Stop, Types, InLoop
<1>3. runner' = runner /\ UNCHANGED <<table, abandoned, transport, plain>>
  BY DEF Stop, KeepOthers
<1> QED BY <1>1, <1>2, <1>3, FlagKeeps DEF Types, RunnerNeverBlocks

LEMMA RunnerKeeps ==
  ASSUME IInv, RunnerStep, UNCHANGED tcp PROVE IInv'
<1>1. Types /\ Kinds /\ RunnerNeverBlocks BY DEF IInv
<1>2. client \in [fd : OrNone, group : Group, connected : BOOLEAN,
                  running : BOOLEAN, stopped : BOOLEAN, overwritten : BOOLEAN]
  BY <1>1 DEF Types
<1>3. ASSUME SetRunning PROVE IInv'
  <2>1. /\ client' \in [fd : OrNone, group : Group, connected : BOOLEAN,
                        running : BOOLEAN, stopped : BOOLEAN, overwritten : BOOLEAN]
        /\ client'.fd = client.fd /\ client'.connected = client.connected
        /\ client'.overwritten = client.overwritten
    BY <1>2, <1>3 DEF SetRunning
  <2>2. runner' = "test" /\ UNCHANGED <<table, abandoned, transport, plain>>
    BY <1>3 DEF SetRunning, Elsewhere, KeepOthers
  <2> QED BY <2>1, <2>2, FlagKeeps
<1>4. ASSUME LoopTest PROVE IInv'
  <2>1. /\ runner' \in {"check", "idle"} /\ client' = client
        /\ UNCHANGED <<table, abandoned, transport, plain>>
    BY <1>4 DEF LoopTest, Elsewhere, KeepOthers
  <2> QED BY <1>2, <2>1, FlagKeeps
<1>5. ASSUME Check PROVE IInv'
  <2>1. /\ client' = client /\ UNCHANGED <<table, abandoned, transport, plain>>
        /\ \/ runner' = "select" /\ client.fd # None
           \/ runner' \in {"idle", "test"}
           \/ runner' = "crashed" /\ client.connected /\ client.fd = None
    BY <1>5 DEF Check, Return, Elsewhere, KeepOthers
  <2>2. client.fd # None => client.fd \in Descriptor BY <1>2 DEF OrNone
  <2>3. client.connected /\ client.fd = None => client.overwritten
    BY <1>1 DEF RunnerNeverBlocks
  <2> QED BY <1>2, <2>1, <2>2, <2>3, FlagKeeps
<1>6. ASSUME Select PROVE IInv'
  <2>1. /\ client' = client /\ UNCHANGED <<table, abandoned, transport, plain>>
        /\ \/ runner' \in {"idle", "test"}
           \/ runner' = "read" /\ table[client.fd].inbox # 0
        /\ runner = "select"
    BY <1>6 DEF Select, Return, Elsewhere, KeepOthers
  <2>2. client.fd \in Descriptor /\ table[client.fd].is = "receiver"
    BY <1>1, <2>1 DEF RunnerNeverBlocks
  <2>3. table[client.fd].inbox \in Nat
    <3>1. table[client.fd] \in Entry BY <1>1, <2>2 DEF Types
    <3> QED BY <2>2, <3>1, EntryKinds
  <2>4. runner' = "read" => table[client.fd].inbox > 0
    BY <2>1, <2>3
  <2> QED BY <1>2, <2>1, <2>2, <2>4, FlagKeeps
<1>7. ASSUME ReadDatagram PROVE IInv'
  <2>1. /\ runner = "read" /\ runner' \in {"idle", "test"} /\ TakeDatagram(client.fd)
        /\ UNCHANGED <<abandoned, transport, plain, client>>
    BY <1>7 DEF ReadDatagram, Return, Elsewhere, KeepOthers
  <2>2. /\ client.fd \in Descriptor /\ table[client.fd].is = "receiver"
        /\ table[client.fd].inbox > 0
    BY <1>1, <2>1 DEF RunnerNeverBlocks
  <2>3. SameKinds BY <1>1, <2>1, <2>2, TakeTable
  <2> QED BY <2>1, <2>3, DatagramKeeps
<1> QED BY <1>3, <1>4, <1>5, <1>6, <1>7 DEF RunnerStep

-----------------------------------------------------------------------------
(* The whole *)

LEMMA UntouchedKeeps ==
  ASSUME IInv, UNCHANGED <<table, abandoned, listening, connection>>, UNCHANGED udp,
         peer' \in Peers
  PROVE  IInv'
BY DEF IInv, udp, Types, Peers, Kinds, Accounted, Lost, InUse, Holds,
       PlainLosesOnlyZero, RunnerNeverBlocks

LEMMA NextKeeps == IInv /\ [Next]_vars => IInv'
<1> SUFFICES ASSUME IInv, [Next]_vars PROVE IInv'
  OBVIOUS
<1>1. ASSUME UdpCall, UNCHANGED tcp PROVE IInv'
  BY <1>1, CreateKeeps, SendKeeps, ReceiveKeeps, CloseKeeps, InitializeKeeps,
     SendMessageKeeps, DestroyPlainKeeps, ConnectKeeps, DisconnectKeeps,
     EnterKeeps, StopKeeps
     DEF UdpCall
<1>2. ASSUME RunnerStep, UNCHANGED tcp PROVE IInv'
  BY <1>2, RunnerKeeps
<1>3. ASSUME TcpCall, UNCHANGED udp PROVE IInv'
  BY <1>3, TcpCallKeeps
<1>4. ASSUME SendDataStep, UNCHANGED udp PROVE IInv'
  <2>1. UNCHANGED <<table, abandoned, listening, connection>> /\ peer' \in {peer, "reset"}
    BY <1>4 DEF SendDataStep, SendSome, SendFails, KeepSockets
  <2>2. peer' \in Peers BY <2>1 DEF IInv, Types, Peers
  <2> QED BY <1>4, <2>1, <2>2, UntouchedKeeps
<1>5. ASSUME PeerStep, UNCHANGED udp PROVE IInv'
  <2>1. /\ UNCHANGED <<table, abandoned, listening, connection>>
        /\ peer' \in {peer, "pending", "closed"}
    BY <1>5 DEF PeerStep, PeerConnects, PeerReads, PeerCloses, KeepSockets, KeepStream
  <2>2. peer' \in Peers BY <2>1 DEF IInv, Types, Peers
  <2> QED BY <1>5, <2>1, <2>2, UntouchedKeeps
<1>6. ASSUME UNCHANGED vars PROVE IInv'
  <2>1. UNCHANGED <<table, abandoned, listening, connection>> /\ UNCHANGED udp
        /\ peer' = peer
    BY <1>6 DEF vars, kernel, tcp
  <2>2. peer' \in Peers BY <2>1 DEF IInv, Types, Peers
  <2> QED BY <2>1, <2>2, UntouchedKeeps
<1> QED BY <1>1, <1>2, <1>3, <1>4, <1>5, <1>6 DEF Next

LEMMA InitKeeps == Init => IInv
<1> SUFFICES ASSUME Init PROVE IInv
  OBVIOUS
<1>1. /\ \A fd \in Descriptor : table[fd] \in Free
      /\ table \in [Descriptor -> Free]
  BY DEF Init, KernelInit, Free
<1>2. Free \subseteq Entry BY DEF Free, Entry
<1>3. InUse = {} BY <1>1 DEF InUse, Free
<1>4. Lost = {} BY DEF Init, KernelInit, Lost
<1>5. PICK g \in Group :
        client = [fd |-> None, group |-> g, connected |-> FALSE, running |-> FALSE,
                  stopped |-> FALSE, overwritten |-> FALSE]
  BY DEF Init, UdpInit
<1>6. /\ transport = [t \in Transport |-> [fd |-> None, sender |-> FALSE, group |-> None]]
      /\ plain = None /\ listening = None /\ connection = None
      /\ runner = "idle" /\ peer = "away" /\ abandoned = {}
  BY DEF Init, KernelInit, UdpInit, TcpInit
<1>7. None \in OrNone BY DEF OrNone
<1>8. Types BY <1>1, <1>2, <1>5, <1>6, <1>7 DEF Types
<1>9. \A h \in Holder : Holds(h) = None
  <2> TAKE h \in Holder
  <2>1. CASE h \in Transport BY <1>6, <2>1, HolderCases
  <2>2. CASE h \in Users BY <1>5, <1>6, <2>2, HolderCases DEF Users
  <2> QED BY <2>1, <2>2 DEF Holder
<1>10. Accounted BY <1>3, <1>4, <1>9 DEF Accounted
<1>11. Kinds BY <1>5, <1>6 DEF Kinds
<1>12. PlainLosesOnlyZero BY <1>6 DEF PlainLosesOnlyZero
<1>13. RunnerNeverBlocks BY <1>5, <1>6 DEF RunnerNeverBlocks
<1> QED BY <1>8, <1>10, <1>11, <1>12, <1>13 DEF IInv

LEMMA EndpointsInvariant == Spec => []IInv
BY InitKeeps, NextKeeps, PTL DEF Spec

(* Every object names a descriptor or none, and the threads and the peer   *)
(* are where their code has a place for them.                              *)
THEOREM EndpointsTyped == Spec => []TypeOK
<1>1. IInv => TypeOK
  <2> SUFFICES ASSUME Types PROVE TypeOK
    BY DEF IInv
  <2>1. \A e \in Entry :
          e.is \in {"closed", "stdin", "sender", "receiver", "listener", "connection"}
    BY DEF Entry, Closed, StandardInput, Sender, Listener, Connection
  <2> QED BY <2>1, HoldsType DEF Types, TypeOK, OrNone
<1> QED BY <1>1, EndpointsInvariant, PTL

(* Every open descriptor has one owner or is lost, and no object names one *)
(* that is closed, lost or another's: close() of one object never closes   *)
(* the socket of another, through failed and repeated set-ups.             *)
THEOREM DescriptorsAccounted == Spec => []Accounted
<1>1. IInv => Accounted BY DEF IInv
<1> QED BY <1>1, EndpointsInvariant, PTL

(* UDPTransport of udp_transport.cpp takes descriptor 0 for none; it loses *)
(* no other.                                                               *)
THEOREM PlainLosesNoOther == Spec => []PlainLosesOnlyZero
<1>1. IInv => PlainLosesOnlyZero BY DEF IInv
<1> QED BY <1>1, EndpointsInvariant, PTL

(* What select has seen is there when UTPClient::receive_data reads it,    *)
(* and only a connect that failed while the client was connected leads     *)
(* FD_SET to a descriptor of -1.                                           *)
THEOREM RunnerNeverWaits == Spec => []RunnerNeverBlocks
<1>1. IInv => RunnerNeverBlocks BY DEF IInv
<1> QED BY <1>1, EndpointsInvariant, PTL
-----------------------------------------------------------------------------
(* FlattenSeq: what it makes of a sequence that grows by one.              *)

(* f joins the first n of ss: the recursion of FlattenSeq.                 *)
Joins(f, ss, n) ==
  f = [i \in 1..n |-> IF i = 1 THEN ss[i] ELSE f[i-1] \o ss[i]]

(* It has a solution: one for n - 1 is continued.                          *)
LEMMA JoinsExists == ASSUME NEW ss, NEW n \in Nat PROVE \E f : Joins(f, ss, n)
<1> DEFINE Bad == {m \in Nat : ~(\E f : Joins(f, ss, m))}
<1>1. SUFFICES ASSUME Bad # {} PROVE FALSE
  OBVIOUS
<1>2. PICK m \in Bad : \A k \in Bad : m <= k
  <2>1. Bad \in SUBSET Nat OBVIOUS
  <2> HIDE DEF Bad
  <2> QED BY <1>1, <2>1, Minimum
<1>3. m \in Nat /\ ~(\E f : Joins(f, ss, m)) BY <1>2
<1>4. CASE m = 0
  <2> DEFINE f == [i \in 1..0 |-> 0]
  <2>1. f = [i \in 1..m |-> IF i = 1 THEN ss[i] ELSE f[i-1] \o ss[i]] BY <1>4
  <2> HIDE DEF f
  <2> QED BY <1>3, <2>1 DEF Joins
<1>5. CASE m # 0
  <2>1. m - 1 \in Nat /\ m - 1 \notin Bad BY <1>2, <1>3, <1>5
  <2>2. PICK g : Joins(g, ss, m - 1) BY <2>1
  <2>3. g = [i \in 1..(m-1) |-> IF i = 1 THEN ss[i] ELSE g[i-1] \o ss[i]]
    BY <2>2 DEF Joins
  <2>4. \A i \in 1..(m-1) : g[i] = IF i = 1 THEN ss[i] ELSE g[i-1] \o ss[i]
    BY <2>3
  <2> DEFINE f == [i \in 1..m |-> IF i = 1 THEN ss[i] ELSE g[i-1] \o ss[i]]
  <2>5. \A i \in 1..m : i # 1 => f[i-1] = g[i-1]
    <3> SUFFICES ASSUME NEW i \in 1..m, i # 1 PROVE f[i-1] = g[i-1]
      OBVIOUS
    <3>1. i - 1 \in 1..(m - 1) /\ i - 1 \in 1..m BY <1>3
    <3> QED BY <2>4, <3>1
  <2>6. f = [i \in 1..m |-> IF i = 1 THEN ss[i] ELSE f[i-1] \o ss[i]]
    <3>1. \A i \in 1..m : (IF i = 1 THEN ss[i] ELSE g[i-1] \o ss[i])
                           = (IF i = 1 THEN ss[i] ELSE f[i-1] \o ss[i])
      <4> HIDE DEF f
      <4> QED BY <2>5
    <3>2. f = [i \in 1..m |-> IF i = 1 THEN ss[i] ELSE g[i-1] \o ss[i]] OBVIOUS
    <3> HIDE DEF f
    <3> QED BY <3>1, <3>2
  <2> HIDE DEF f
  <2> QED BY <1>3, <2>6 DEF Joins
<1> QED BY <1>4, <1>5

LEMMA FlattenIsJoin ==
  ASSUME NEW S, NEW ss \in Seq(Seq(S)), ss # << >>
  PROVE  \E f : Joins(f, ss, Len(ss)) /\ FlattenSeq(ss) = f[Len(ss)]
<1> DEFINE n == Len(ss)
           F == CHOOSE f : f = [i \in 1..Len(ss) |-> IF i = 1 THEN ss[i] ELSE f[i-1] \o ss[i]]
<1>1. n \in Nat /\ n # 0 OBVIOUS
<1>2. FlattenSeq(ss) = F[Len(ss)]
  BY <1>1 DEF FlattenSeq
<1>3. \E f : f = [i \in 1..Len(ss) |-> IF i = 1 THEN ss[i] ELSE f[i-1] \o ss[i]]
  BY <1>1, JoinsExists DEF Joins
<1>4. F = [i \in 1..Len(ss) |-> IF i = 1 THEN ss[i] ELSE F[i-1] \o ss[i]]
  BY <1>3
<1> HIDE DEF F
<1> QED BY <1>2, <1>4 DEF Joins

(* It has but one, which depends only on the sequences joined.            *)
LEMMA JoinsAgree ==
  ASSUME NEW f, NEW g, NEW ss, NEW tt, NEW n \in Nat, NEW m \in Nat, n <= m,
         Joins(f, ss, n), Joins(g, tt, m), \A i \in 1..n : ss[i] = tt[i]
  PROVE  \A i \in 1..n : f[i] = g[i]
<1> DEFINE Bad == {i \in 1..n : f[i] # g[i]}
<1>1. SUFFICES ASSUME Bad # {} PROVE FALSE
  OBVIOUS
<1>2. PICK i \in Bad : \A k \in Bad : i <= k
  <2>1. Bad \in SUBSET Nat OBVIOUS
  <2> HIDE DEF Bad
  <2> QED BY <1>1, <2>1, Minimum
<1>3. i \in 1..n /\ i \in 1..m /\ f[i] # g[i] BY <1>2
<1>4. f = [j \in 1..n |-> IF j = 1 THEN ss[j] ELSE f[j-1] \o ss[j]] BY DEF Joins
<1>5. g = [j \in 1..m |-> IF j = 1 THEN tt[j] ELSE g[j-1] \o tt[j]] BY DEF Joins
<1>6. f[i] = IF i = 1 THEN ss[i] ELSE f[i-1] \o ss[i] BY <1>3, <1>4
<1>7. g[i] = IF i = 1 THEN tt[i] ELSE g[i-1] \o tt[i] BY <1>3, <1>5
<1>8. CASE i = 1 BY <1>3, <1>6, <1>7, <1>8
<1>9. CASE i # 1
  <2>1. i - 1 \in 1..n /\ i - 1 \notin Bad BY <1>2, <1>3, <1>9
  <2>2. f[i-1] = g[i-1] BY <2>1
  <2> QED BY <1>3, <1>6, <1>7, <1>9, <2>2
<1> QED BY <1>8, <1>9

LEMMA AppendFacts ==
  ASSUME NEW T, NEW ss \in Seq(T), NEW s \in T
  PROVE  /\ Append(ss, s) \in Seq(T) /\ Append(ss, s) # << >>
         /\ Len(ss) = 0 => ss = << >>
         /\ Len(Append(ss, s)) = Len(ss) + 1 /\ Len(ss) \in Nat
         /\ Append(ss, s)[Len(ss) + 1] = s
         /\ \A i \in 1..Len(ss) : ss[i] = Append(ss, s)[i]
OBVIOUS

LEMMA FlattenAppend ==
  ASSUME NEW S, NEW ss \in Seq(Seq(S)), NEW s \in Seq(S)
  PROVE  FlattenSeq(Append(ss, s)) = FlattenSeq(ss) \o s
<1>1. PICK tt : tt = Append(ss, s) OBVIOUS
<1>2. PICK n : n = Len(ss) OBVIOUS
<1>3. /\ tt \in Seq(Seq(S)) /\ tt # << >> /\ Len(tt) = n + 1 /\ n \in Nat
      /\ tt[n + 1] = s /\ \A i \in 1..n : ss[i] = tt[i]
  BY <1>1, <1>2, AppendFacts
<1>4. PICK g : Joins(g, tt, n + 1) /\ FlattenSeq(tt) = g[n + 1]
  BY <1>3, FlattenIsJoin
<1>5. g = [j \in 1..(n + 1) |-> IF j = 1 THEN tt[j] ELSE g[j-1] \o tt[j]]
  BY <1>4 DEF Joins
<1>6. n + 1 \in 1..(n + 1) /\ n = (n + 1) - 1 BY <1>3
<1>7. g[n + 1] = IF n + 1 = 1 THEN tt[n + 1] ELSE g[(n + 1) - 1] \o tt[n + 1]
  BY <1>5, <1>6
<1>8. CASE n = 0
  <2>1. ss = << >> BY <1>2, <1>8, AppendFacts
  <2>2. FlattenSeq(ss) = << >> BY <2>1 DEF FlattenSeq
  <2>3. g[n + 1] = s BY <1>3, <1>7, <1>8
  <2>4. << >> \o s = s OBVIOUS
  <2> QED BY <1>1, <1>4, <2>2, <2>3, <2>4
<1>9. CASE n # 0
  <2>1. ss # << >> BY <1>2, <1>9
  <2>2. PICK f : Joins(f, ss, n) /\ FlattenSeq(ss) = f[n]
    BY <1>2, <2>1, FlattenIsJoin
  <2>3. n + 1 \in Nat /\ n <= n + 1 BY <1>3
  <2>4. \A i \in 1..n : f[i] = g[i]
    <3>1. n \in Nat /\ Joins(f, ss, n) /\ Joins(g, tt, n + 1) BY <1>3, <1>4, <2>2
    <3>2. \A i \in 1..n : ss[i] = tt[i] BY <1>3
    <3> QED BY <2>3, <3>1, <3>2, JoinsAgree
  <2>5. f[n] = g[n] BY <1>3, <1>9, <2>4
  <2>6. g[n + 1] = g[n] \o s BY <1>3, <1>6, <1>7, <1>9
  <2> QED BY <1>1, <1>4, <2>2, <2>5, <2>6
<1> QED BY <1>8, <1>9

LEMMA FlattenTyped ==
  ASSUME NEW S, NEW ss \in Seq(Seq(S)) PROVE FlattenSeq(ss) \in Seq(S)
<1>1. CASE ss = << >> BY <1>1 DEF FlattenSeq
<1>2. CASE ss # << >>
  <2>1. PICK n : n = Len(ss) OBVIOUS
  <2>2. n \in Nat /\ n # 0 /\ \A i \in 1..n : ss[i] \in Seq(S) BY <1>2, <2>1
  <2>3. PICK f : Joins(f, ss, n) /\ FlattenSeq(ss) = f[n]
    BY <1>2, <2>1, FlattenIsJoin
  <2>4. f = [i \in 1..n |-> IF i = 1 THEN ss[i] ELSE f[i-1] \o ss[i]]
    BY <2>3 DEF Joins
  <2>5. \A i \in 1..n : f[i] = IF i = 1 THEN ss[i] ELSE f[i-1] \o ss[i] BY <2>4
  <2> DEFINE Bad == {i \in 1..n : f[i] \notin Seq(S)}
  <2>6. Bad = {}
    <3>1. SUFFICES ASSUME Bad # {} PROVE FALSE
      OBVIOUS
    <3>2. PICK i \in Bad : \A k \in Bad : i <= k
      <4>1. Bad \in SUBSET Nat BY <2>2
      <4> HIDE DEF Bad
      <4> QED BY <3>1, <4>1, Minimum
    <3>3. i \in 1..n /\ f[i] \notin Seq(S) /\ i # 1 BY <2>2, <2>5, <3>2
    <3>4. i - 1 \in 1..n /\ i - 1 \notin Bad BY <2>2, <3>2, <3>3
    <3>5. f[i-1] \in Seq(S) /\ ss[i] \in Seq(S) BY <2>2, <3>3, <3>4
    <3>6. f[i-1] \o ss[i] \in Seq(S) BY <3>5, ConcatProperties
    <3> QED BY <2>5, <3>3, <3>6
  <2> QED BY <2>2, <2>3, <2>6
<1> QED BY <1>1, <1>2

-----------------------------------------------------------------------------
(* The stream of a connection *)

Byte == [message : Nat, at : Nat]
Sent == [message : Nat, length : Nat, sent : Nat, ok : BOOLEAN]

(* send_data is at work on a rest that is not empty.                       *)
Streamed ==
  /\ calls \in Nat
  /\ wire \in Seq(Byte) /\ arrived \in Seq(Byte) /\ told \in Seq(Sent)
  /\ \/ task = NoTask
     \/ /\ task \in [message : Nat, length : Nat, sent : Nat]
        /\ task.sent < task.length

SInv == Streamed /\ StreamWhole

Blocks(calls_) == [i \in DOMAIN calls_ |-> Bytes(calls_[i].message, 0, calls_[i].sent)]

LEMMA BytesTyped ==
  ASSUME NEW m \in Nat, NEW from \in Nat, NEW to \in Nat
  PROVE  Bytes(m, from, to) \in Seq(Byte)
<1>1. to - from \in Int /\ \A i \in 1..(to - from) : from + i \in Nat OBVIOUS
<1>2. \A i \in 1..(to - from) : [message |-> m, at |-> from + i] \in Byte
  BY <1>1 DEF Byte
<1>3. CASE to - from \in Nat BY <1>2, <1>3 DEF Bytes
<1>4. CASE to - from \notin Nat
  <2>1. 1..(to - from) = 1..0 BY <1>1, <1>4
  <2>2. Bytes(m, from, to) = [i \in 1..0 |-> [message |-> m, at |-> from + i]]
    BY <2>1 DEF Bytes
  <2> QED BY <2>2
<1> QED BY <1>3, <1>4

LEMMA BytesFacts ==
  ASSUME NEW m \in Nat, NEW from \in Nat, NEW n \in Nat
  PROVE  /\ Bytes(m, from, from + n) \in Seq(Byte)
         /\ Len(Bytes(m, from, from + n)) = n
         /\ \A i \in 1..n :
              Bytes(m, from, from + n)[i] = [message |-> m, at |-> from + i]
<1>1. from + n \in Nat /\ (from + n) - from = n OBVIOUS
<1>2. Bytes(m, from, from + n) = [i \in 1..n |-> [message |-> m, at |-> from + i]]
  BY <1>1 DEF Bytes
<1>3. Bytes(m, from, from + n) \in Seq(Byte) BY <1>1, BytesTyped
<1>4. DOMAIN Bytes(m, from, from + n) = 1..n BY <1>2
<1>5. Len(Bytes(m, from, from + n)) = n BY <1>3, <1>4, LenProperties
<1> QED BY <1>2, <1>3, <1>5

LEMMA FirstBytes ==
  ASSUME NEW m \in Nat, NEW n \in Nat
  PROVE  /\ Bytes(m, 0, n) \in Seq(Byte) /\ Len(Bytes(m, 0, n)) = n
         /\ \A i \in 1..n : Bytes(m, 0, n)[i] = [message |-> m, at |-> i]
<1>1. 0 \in Nat /\ n - 0 = n /\ \A i \in 1..n : 0 + i = i OBVIOUS
<1>2. Bytes(m, 0, n) = [i \in 1..n |-> [message |-> m, at |-> i]]
  BY <1>1 DEF Bytes
<1>3. Bytes(m, 0, n) \in Seq(Byte) BY <1>1, BytesTyped
<1>4. DOMAIN Bytes(m, 0, n) = 1..n BY <1>2
<1>5. Len(Bytes(m, 0, n)) = n BY <1>3, <1>4, LenProperties
<1> QED BY <1>2, <1>3, <1>5

(* What goes on where the last send stopped is the whole.                  *)
LEMMA BytesGoOn ==
  ASSUME NEW m \in Nat, NEW from \in Nat, NEW n \in Nat
  PROVE  Bytes(m, 0, from) \o Bytes(m, from, from + n) = Bytes(m, 0, from + n)
<1>1. PICK b : b = Bytes(m, 0, from) OBVIOUS
<1>2. PICK c : c = Bytes(m, from, from + n) OBVIOUS
<1>3. PICK d : d = Bytes(m, 0, from + n) OBVIOUS
<1>4. from + n \in Nat OBVIOUS
<1>5. /\ b \in Seq(Byte) /\ Len(b) = from
      /\ \A i \in 1..from : b[i] = [message |-> m, at |-> i]
  BY <1>1, FirstBytes
<1>6. /\ c \in Seq(Byte) /\ Len(c) = n
      /\ \A i \in 1..n : c[i] = [message |-> m, at |-> from + i]
  BY <1>2, BytesFacts
<1>7. /\ d \in Seq(Byte) /\ Len(d) = from + n
      /\ \A i \in 1..(from + n) : d[i] = [message |-> m, at |-> i]
  BY <1>3, <1>4, FirstBytes
<1>8. PICK e : e = b \o c OBVIOUS
<1>9. /\ e \in Seq(Byte) /\ Len(e) = from + n
      /\ \A i \in 1..(from + n) : e[i] = IF i <= from THEN b[i] ELSE c[i - from]
  <2>1. b \in Seq(Byte) /\ c \in Seq(Byte) BY <1>5, <1>6
  <2>2. /\ e \in Seq(Byte) /\ Len(e) = Len(b) + Len(c)
        /\ \A i \in 1..(Len(b) + Len(c)) :
             e[i] = IF i <= Len(b) THEN b[i] ELSE c[i - Len(b)]
    BY <1>8, <2>1, ConcatProperties
  <2>3. Len(b) = from /\ Len(c) = n BY <1>5, <1>6
  <2> QED BY <2>2, <2>3
<1>10. \A i \in 1..(from + n) : e[i] = d[i]
  <2> TAKE i \in 1..(from + n)
  <2>1. CASE i <= from BY <1>5, <1>7, <1>9, <2>1
  <2>2. CASE ~(i <= from)
    <3>1. i - from \in 1..n /\ from + (i - from) = i BY <2>2
    <3>2. e[i] = c[i - from] BY <1>9, <2>2
    <3>3. c[i - from] = [message |-> m, at |-> from + (i - from)] BY <1>6, <3>1
    <3> QED BY <1>7, <3>1, <3>2, <3>3
  <2> QED BY <2>1, <2>2
<1>11. e = d BY <1>7, <1>9, <1>10, SeqEqual
<1> QED BY <1>1, <1>2, <1>3, <1>8, <1>11

LEMMA NoBytes == \A m, n : n \in Nat => Bytes(m, n, n) = << >>
BY DEF Bytes

LEMMA BlocksTyped ==
  ASSUME NEW c \in Seq(Sent) PROVE Blocks(c) \in Seq(Seq(Byte)) /\ Len(Blocks(c)) = Len(c)
<1>1. DOMAIN c = 1..Len(c) /\ Len(c) \in Nat /\ \A i \in DOMAIN c : c[i] \in Sent
  OBVIOUS
<1>2. \A i \in 1..Len(c) : Bytes(c[i].message, 0, c[i].sent) \in Seq(Byte)
  BY <1>1, BytesTyped DEF Sent
<1>3. Blocks(c) = [i \in 1..Len(c) |-> Bytes(c[i].message, 0, c[i].sent)]
  BY <1>1 DEF Blocks
<1> QED BY <1>1, <1>2, <1>3

LEMMA BlocksAppend ==
  ASSUME NEW c \in Seq(Sent), NEW r \in Sent
  PROVE  FlattenSeq(Blocks(Append(c, r)))
           = FlattenSeq(Blocks(c)) \o Bytes(r.message, 0, r.sent)
<1>1. PICK b \in Seq(Byte) : b = Bytes(r.message, 0, r.sent)
  BY BytesTyped DEF Sent
<1>2. PICK d \in Seq(Sent) : d = Append(c, r) BY AppendFacts
<1>3. /\ Len(c) \in Nat /\ DOMAIN c = 1..Len(c) /\ DOMAIN d = 1..(Len(c) + 1)
      /\ d[Len(c) + 1] = r /\ \A i \in 1..Len(c) : d[i] = c[i]
  BY <1>2
<1>4. PICK bc \in Seq(Seq(Byte)) : bc = Blocks(c) /\ Len(bc) = Len(c) BY BlocksTyped
<1>5. Blocks(d) = Append(bc, b)
  <2>1. PICK a : a = Append(bc, b) OBVIOUS
  <2>2. PICK e : e = Blocks(d) OBVIOUS
  <2>3. /\ a \in Seq(Seq(Byte)) /\ Len(a) = Len(c) + 1 /\ a[Len(c) + 1] = b
        /\ \A i \in 1..Len(c) : a[i] = bc[i]
    BY <1>4, <2>1, AppendFacts
  <2>4. e \in Seq(Seq(Byte)) /\ Len(e) = Len(c) + 1
    <3>1. Len(d) = Len(c) + 1 BY <1>2, AppendFacts
    <3> QED BY <2>2, <3>1, BlocksTyped
  <2>5. \A i \in 1..(Len(c) + 1) : e[i] = Bytes(d[i].message, 0, d[i].sent)
    BY <1>3, <2>2 DEF Blocks
  <2>6. \A i \in 1..Len(c) : bc[i] = Bytes(c[i].message, 0, c[i].sent)
    BY <1>3, <1>4 DEF Blocks
  <2>7. \A i \in 1..(Len(c) + 1) : a[i] = e[i]
    <3> TAKE i \in 1..(Len(c) + 1)
    <3>1. CASE i = Len(c) + 1 BY <1>1, <1>3, <2>3, <2>5, <3>1
    <3>2. CASE i # Len(c) + 1
      <4>1. i \in 1..Len(c) BY <1>3, <3>2
      <4> QED BY <1>3, <2>3, <2>5, <2>6, <4>1
    <3> QED BY <3>1, <3>2
  <2> QED BY <2>1, <2>2, <2>3, <2>4, <2>7, SeqEqual
<1>6. FlattenSeq(Append(bc, b)) = FlattenSeq(bc) \o b BY FlattenAppend
<1> QED BY <1>1, <1>2, <1>4, <1>5, <1>6

(* The messages of the calls that have returned, and of the one at work.   *)
Stream == FlattenSeq(Blocks(told)) \o Bytes(task.message, 0, task.sent)

Returned ==
  \A i \in DOMAIN told : told[i].ok <=> told[i].sent = told[i].length

LEMMA WholeIsStream == StreamWhole <=> arrived \o wire = Stream /\ Returned
BY DEF StreamWhole, Stream, Returned, Blocks

LEMMA WholeNext == arrived' \o wire' = Stream' /\ Returned' => StreamWhole'
BY DEF StreamWhole, Stream, Returned, Blocks

LEMMA BlocksJoined == ASSUME NEW c \in Seq(Sent) PROVE FlattenSeq(Blocks(c)) \in Seq(Byte)
BY BlocksTyped, FlattenTyped

LEMMA ByteSequences ==
  ASSUME NEW s \in Seq(Byte), NEW t \in Seq(Byte)
  PROVE  s \o t \in Seq(Byte) /\ s \o << >> = s
BY ConcatProperties, ConcatEmptySeq

Cat(s, t) == s \o t

LEMMA CatAssociative ==
  ASSUME NEW S
  PROVE  \A s, t, u \in Seq(S) : Cat(Cat(s, t), u) = Cat(s, Cat(t, u))
BY ConcatAssociative DEF Cat

LEMMA Regrouped ==
  ASSUME NEW S, NEW a \in Seq(S), NEW b \in Seq(S), NEW c \in Seq(S), NEW d \in Seq(S),
         NEW e \in Seq(S), Cat(a, b) = Cat(c, d)
  PROVE  Cat(a, Cat(b, e)) = Cat(c, Cat(d, e))
<1>1. Cat(Cat(a, b), e) = Cat(a, Cat(b, e)) BY CatAssociative
<1>2. Cat(Cat(c, d), e) = Cat(c, Cat(d, e)) BY CatAssociative
<1> QED BY <1>1, <1>2

(* What a send does to the bytes on the connection.                        *)
LEMMA SendGrows ==
  ASSUME SInv, task # NoTask, NEW n \in Nat
  PROVE  /\ wire \o Bytes(task.message, task.sent, task.sent + n) \in Seq(Byte)
         /\ arrived \o (wire \o Bytes(task.message, task.sent, task.sent + n))
              = FlattenSeq(Blocks(told)) \o Bytes(task.message, 0, task.sent + n)
<1>1. task.message \in Nat /\ task.sent \in Nat BY DEF SInv, Streamed
<1>2. PICK f : f = FlattenSeq(Blocks(told)) OBVIOUS
<1>3. PICK b : b = Bytes(task.message, 0, task.sent) OBVIOUS
<1>4. PICK c : c = Bytes(task.message, task.sent, task.sent + n) OBVIOUS
<1>5. /\ f \in Seq(Byte) /\ b \in Seq(Byte) /\ c \in Seq(Byte)
      /\ wire \in Seq(Byte) /\ arrived \in Seq(Byte)
  <2>1. told \in Seq(Sent) /\ wire \in Seq(Byte) /\ arrived \in Seq(Byte) BY DEF SInv, Streamed
  <2> QED BY <1>1, <1>2, <1>3, <1>4, <2>1, BlocksJoined, FirstBytes, BytesFacts
<1>6. Cat(arrived, wire) = Cat(f, b) BY <1>2, <1>3, WholeIsStream DEF SInv, Stream, Cat
<1>7. Cat(arrived, Cat(wire, c)) = Cat(f, Cat(b, c)) BY <1>5, <1>6, Regrouped
<1>8. b \o c = Bytes(task.message, 0, task.sent + n) BY <1>1, <1>3, <1>4, BytesGoOn
<1>9. wire \o c \in Seq(Byte) BY <1>5, ByteSequences
<1> QED BY <1>2, <1>4, <1>7, <1>8, <1>9 DEF Cat

(* The call of send_data returns: its message goes to told.                *)
LEMMA ReturnTold ==
  ASSUME SInv, task # NoTask, NEW sent \in Nat, NEW ok \in BOOLEAN,
         SendDataReturns(sent, ok), ok <=> sent = task.length
  PROVE  /\ told' \in Seq(Sent) /\ task' = NoTask /\ Returned'
         /\ Stream' = FlattenSeq(Blocks(told)) \o Bytes(task.message, 0, sent)
<1>1. /\ told \in Seq(Sent) /\ task \in [message : Nat, length : Nat, sent : Nat]
      /\ Returned
  BY WholeIsStream DEF SInv, Streamed
<1>2. PICK r : r = [message |-> task.message, length |-> task.length, sent |-> sent, ok |-> ok]
  OBVIOUS
<1>3. r \in Sent /\ r.message = task.message /\ r.sent = sent /\ r.ok = ok /\ r.length = task.length
  BY <1>1, <1>2 DEF Sent
<1>4. told' = Append(told, r) /\ task' = NoTask BY <1>2 DEF SendDataReturns
<1>5. PICK n \in Nat : n = Len(told) BY <1>1
<1>6. /\ told' \in Seq(Sent) /\ DOMAIN told = 1..n /\ DOMAIN told' = 1..(n + 1)
      /\ told'[n + 1] = r /\ \A i \in 1..n : told'[i] = told[i]
  BY <1>1, <1>3, <1>4, <1>5
<1>7. Returned'
  <2> SUFFICES ASSUME NEW i \in DOMAIN told'
               PROVE  told'[i].ok <=> told'[i].sent = told'[i].length
    BY DEF Returned
  <2>1. CASE i = n + 1 BY <1>3, <1>6, <2>1
  <2>2. CASE i # n + 1
    <3>1. i \in 1..n /\ told'[i] = told[i] BY <1>6, <2>2
    <3>2. told[i].ok <=> told[i].sent = told[i].length
      BY <1>1, <1>6, <3>1 DEF Returned
    <3> QED BY <3>1, <3>2
  <2> QED BY <2>1, <2>2
<1>8. Stream' = FlattenSeq(Blocks(told)) \o Bytes(task.message, 0, sent)
  <2>1. FlattenSeq(Blocks(Append(told, r)))
          = FlattenSeq(Blocks(told)) \o Bytes(task.message, 0, sent)
    BY <1>1, <1>3, BlocksAppend
  <2>2. FlattenSeq(Blocks(Append(told, r))) \in Seq(Byte)
    BY <1>4, <1>6, BlocksJoined
  <2>3. Bytes(task'.message, 0, task'.sent) = << >>
    BY <1>4, NoBytes DEF NoTask
  <2>4. Stream' = FlattenSeq(Blocks(Append(told, r))) \o << >>
    BY <1>4, <2>3 DEF Stream, Blocks
  <2> QED BY <2>1, <2>2, <2>4, ConcatEmptySeq
<1> QED BY <1>4, <1>6, <1>7, <1>8

(* The bytes do not move.                                                  *)
LEMMA StreamQuiet ==
  ASSUME SInv, KeepStream, calls' \in Nat
  PROVE  SInv'
<1>1. /\ wire' = wire /\ arrived' = arrived /\ task' = task /\ told' = told
  BY DEF KeepStream
<1>2. Streamed' BY <1>1 DEF SInv, Streamed
<1>3. StreamWhole' BY <1>1 DEF SInv, StreamWhole
<1> QED BY <1>2, <1>3 DEF SInv

LEMMA TcpCallStreams == SInv /\ TcpCall => SInv'
<1> SUFFICES ASSUME SInv, TcpCall PROVE SInv'
  OBVIOUS
<1>1. calls' \in Nat
  <2>1. calls' = calls + 1
    BY DEF TcpCall, CreateServerSocket, AcceptConnection, CloseListener,
           CloseConnection, BeginSendData, Called
  <2> QED BY <2>1 DEF SInv, Streamed
<1>2. CASE \E ok \in BOOLEAN : CreateServerSocket(ok)
  BY <1>1, <1>2, StreamQuiet DEF CreateServerSocket
<1>3. CASE AcceptConnection
  BY <1>1, <1>3, StreamQuiet DEF AcceptConnection
<1>4. CASE CloseListener
  BY <1>1, <1>4, StreamQuiet DEF CloseListener
<1>5. CASE CloseConnection
  BY <1>1, <1>5, StreamQuiet DEF CloseConnection
<1>6. ASSUME NEW length \in Length, BeginSendData(length) PROVE SInv'
  <2>1. /\ task = NoTask /\ task' = [message |-> calls, length |-> length, sent |-> 0]
        /\ wire' = wire /\ arrived' = arrived /\ told' = told
    BY <1>6 DEF BeginSendData
  <2>2. length \in Nat /\ 0 < length BY TcpAssumption
  <2>3. Streamed'
    <3>1. calls \in Nat BY DEF SInv, Streamed
    <3>2. /\ task' \in [message : Nat, length : Nat, sent : Nat]
          /\ task'.sent < task'.length /\ task'.sent = 0
      BY <2>1, <2>2, <3>1
    <3> QED BY <1>1, <2>1, <3>2 DEF SInv, Streamed
  <2>4. Stream' = Stream
    <3>1. Bytes(task.message, 0, task.sent) = << >> BY <2>1, NoBytes DEF NoTask
    <3>2. Bytes(task'.message, 0, task'.sent) = << >> BY <2>1, NoBytes
    <3> QED BY <2>1, <3>1, <3>2 DEF Stream, Blocks
  <2>5. StreamWhole'
    <3>1. arrived' \o wire' = Stream' BY <2>1, <2>4, WholeIsStream DEF SInv
    <3>2. Returned' BY <2>1, WholeIsStream DEF SInv, Returned
    <3> QED BY <3>1, <3>2, WholeNext
  <2> QED BY <2>3, <2>5 DEF SInv
<1> QED BY <1>2, <1>3, <1>4, <1>5, <1>6 DEF TcpCall

LEMMA SendStreams == SInv /\ SendDataStep => SInv'
<1> SUFFICES ASSUME SInv, SendDataStep PROVE SInv'
  OBVIOUS
<1>1. task # NoTask BY DEF SendDataStep, SendSome, SendFails
<1>2. /\ task \in [message : Nat, length : Nat, sent : Nat] /\ task.sent < task.length
      /\ calls \in Nat /\ arrived \in Seq(Byte) /\ wire \in Seq(Byte) /\ told \in Seq(Sent)
      /\ Returned
  BY <1>1, WholeIsStream DEF SInv, Streamed
<1>3. ASSUME NEW n \in 1..Room, SendSome(n) PROVE SInv'
  <2>1. n \in Nat BY TcpAssumption
  <2>2. PICK c : c = Bytes(task.message, task.sent, task.sent + n) OBVIOUS
  <2>3. /\ n <= task.length - task.sent
        /\ wire' = wire \o c /\ arrived' = arrived /\ calls' = calls
    BY <1>3, <2>2 DEF SendSome
  <2>5. /\ wire' \in Seq(Byte)
        /\ arrived' \o wire' = FlattenSeq(Blocks(told)) \o Bytes(task.message, 0, task.sent + n)
    BY <1>1, <2>1, <2>2, <2>3, SendGrows
  <2>6. CASE task.sent + n = task.length
    <3>1. task.sent + n \in Nat /\ SendDataReturns(task.sent + n, TRUE)
      BY <1>2, <1>3, <2>1, <2>6 DEF SendSome
    <3>2. /\ told' \in Seq(Sent) /\ task' = NoTask /\ Returned'
          /\ Stream' = FlattenSeq(Blocks(told)) \o Bytes(task.message, 0, task.sent + n)
      BY <1>1, <2>6, <3>1, ReturnTold
    <3>3. Streamed' BY <1>2, <2>3, <2>5, <3>2 DEF Streamed
    <3>4. StreamWhole' BY <2>5, <3>2, WholeNext
    <3> QED BY <3>3, <3>4 DEF SInv
  <2>7. CASE task.sent + n # task.length
    <3>1. task' = [task EXCEPT !.sent = @ + n] /\ told' = told
      BY <1>3, <2>7 DEF SendSome
    <3>2. /\ task' \in [message : Nat, length : Nat, sent : Nat]
          /\ task'.message = task.message /\ task'.length = task.length
          /\ task'.sent = task.sent + n /\ task'.sent < task'.length
      <4>1. PICK total : total = task.sent + n OBVIOUS
      <4>2. total \in Nat /\ total < task.length BY <1>2, <2>1, <2>3, <2>7, <4>1
      <4>3. task' = [task EXCEPT !.sent = total] BY <3>1, <4>1
      <4> QED BY <1>2, <4>1, <4>2, <4>3
    <3>3. Streamed' BY <1>2, <2>3, <2>5, <3>1, <3>2 DEF Streamed
    <3>4. Stream' = FlattenSeq(Blocks(told)) \o Bytes(task.message, 0, task.sent + n)
      BY <3>1, <3>2 DEF Stream, Blocks
    <3>5. Returned' BY <1>2, <3>1 DEF Returned
    <3>6. StreamWhole' BY <2>5, <3>4, <3>5, WholeNext
    <3> QED BY <3>3, <3>6 DEF SInv
  <2> QED BY <2>6, <2>7
<1>4. ASSUME SendFails PROVE SInv'
  <2>1. /\ SendDataReturns(task.sent, FALSE)
        /\ calls' = calls /\ wire' = wire /\ arrived' = arrived
    BY <1>4 DEF SendFails
  <2>2. task.sent \in Nat /\ task.sent # task.length BY <1>2
  <2>3. /\ told' \in Seq(Sent) /\ task' = NoTask /\ Returned'
        /\ Stream' = FlattenSeq(Blocks(told)) \o Bytes(task.message, 0, task.sent)
    BY <1>1, <1>2, <2>1, <2>2, ReturnTold
  <2>4. Stream' = Stream BY <2>3 DEF Stream
  <2>5. Streamed' BY <1>2, <2>1, <2>3 DEF Streamed, NoTask
  <2>6. arrived' \o wire' = Stream' BY <2>1, <2>4, WholeIsStream DEF SInv
  <2>7. StreamWhole' BY <2>3, <2>6, WholeNext
  <2> QED BY <2>5, <2>7 DEF SInv
<1> QED BY <1>3, <1>4 DEF SendDataStep

LEMMA ReadMoves ==
  ASSUME NEW S, NEW a \in Seq(S), NEW w \in Seq(S), w # << >>
  PROVE  /\ Append(a, Head(w)) \in Seq(S) /\ Tail(w) \in Seq(S)
         /\ Append(a, Head(w)) \o Tail(w) = a \o w
<1>1. PICK t : t = Tail(w) OBVIOUS
<1>2. PICK b : b = Append(a, Head(w)) OBVIOUS
<1>3. /\ Head(w) \in S /\ Head(w) = w[1]
      /\ t \in Seq(S) /\ Len(t) = Len(w) - 1 /\ Len(t) \in Nat
      /\ \A i \in 1..Len(t) : t[i] = w[i + 1]
  BY <1>1, HeadTailProperties
<1>4. /\ b \in Seq(S) /\ Len(b) = Len(a) + 1 /\ b[Len(a) + 1] = w[1]
      /\ \A i \in 1..Len(a) : a[i] = b[i]
      /\ Len(a) \in Nat /\ Len(w) \in Nat
  BY <1>2, <1>3, AppendFacts
<1>5. PICK d : d = b \o t OBVIOUS
<1>6. PICK e : e = a \o w OBVIOUS
<1>7. /\ d \in Seq(S) /\ Len(d) = Len(b) + Len(t)
      /\ \A i \in 1..(Len(b) + Len(t)) : d[i] = IF i <= Len(b) THEN b[i] ELSE t[i - Len(b)]
  BY <1>3, <1>4, <1>5, ConcatProperties
<1>8. /\ e \in Seq(S) /\ Len(e) = Len(a) + Len(w)
      /\ \A i \in 1..(Len(a) + Len(w)) : e[i] = IF i <= Len(a) THEN a[i] ELSE w[i - Len(a)]
  BY <1>6, ConcatProperties
<1>9. Len(d) = Len(e) BY <1>3, <1>4, <1>7, <1>8
<1>10. ASSUME NEW i \in 1..Len(d) PROVE d[i] = e[i]
  <2>1. i \in Nat /\ i \in 1..(Len(b) + Len(t)) /\ i \in 1..(Len(a) + Len(w))
    BY <1>3, <1>4, <1>7, <1>8, <1>9
  <2>2. CASE i <= Len(a)
    <3>1. i \in 1..Len(a) /\ i <= Len(b) BY <1>4, <2>1, <2>2
    <3> QED BY <1>4, <1>7, <1>8, <2>1, <2>2, <3>1
  <2>3. CASE i = Len(a) + 1
    <3>1. i <= Len(b) /\ ~(i <= Len(a)) /\ i - Len(a) = 1 BY <1>4, <2>3
    <3> QED BY <1>4, <1>7, <1>8, <2>1, <2>3, <3>1
  <2>4. CASE i > Len(a) + 1
    <3>1. /\ ~(i <= Len(b)) /\ ~(i <= Len(a)) /\ i - Len(b) \in 1..Len(t)
          /\ (i - Len(b)) + 1 = i - Len(a)
      BY <1>3, <1>4, <2>1, <2>4
    <3> QED BY <1>3, <1>7, <1>8, <2>1, <3>1
  <2> QED BY <1>4, <2>1, <2>2, <2>3, <2>4
<1>11. d = e BY <1>7, <1>8, <1>9, <1>10, SeqEqual
<1> QED BY <1>1, <1>2, <1>3, <1>4, <1>5, <1>6, <1>11

LEMMA PeerStreams == SInv /\ PeerStep => SInv'
<1> SUFFICES ASSUME SInv, PeerStep PROVE SInv'
  OBVIOUS
<1>1. calls' \in Nat
  BY DEF SInv, Streamed, PeerStep, PeerConnects, PeerReads, PeerCloses
<1>2. CASE PeerConnects BY <1>1, <1>2, StreamQuiet DEF PeerConnects
<1>3. CASE PeerCloses BY <1>1, <1>3, StreamQuiet DEF PeerCloses
<1>4. CASE PeerReads
  <2>1. /\ peer' = peer /\ task' = task /\ told' = told /\ wire # << >>
        /\ arrived' = Append(arrived, Head(wire)) /\ wire' = Tail(wire)
    BY <1>4 DEF PeerReads
  <2>2. wire \in Seq(Byte) /\ arrived \in Seq(Byte) BY DEF SInv, Streamed
  <2>3. /\ arrived' \in Seq(Byte) /\ wire' \in Seq(Byte)
        /\ arrived' \o wire' = arrived \o wire
    BY <2>1, <2>2, ReadMoves
  <2>4. Streamed' BY <1>1, <2>1, <2>3 DEF SInv, Streamed
  <2>5. StreamWhole' BY <2>1, <2>3 DEF SInv, StreamWhole
  <2> QED BY <2>4, <2>5 DEF SInv
<1> QED BY <1>2, <1>3, <1>4 DEF PeerStep

LEMMA CallsCounted == SInv /\ (UdpCall \/ RunnerStep) => calls' \in Nat
<1>1. UdpCall => calls' = calls + 1
  BY DEF UdpCall, Called, Create, Send, Receive, Close, Initialize, SendMessage,
         DestroyPlain, Connect, Disconnect, Enter, Stop
<1>2. RunnerStep => calls' = calls
  BY DEF RunnerStep, SetRunning, LoopTest, Check, Select, ReadDatagram, Elsewhere
<1>3. SInv => calls \in Nat BY DEF SInv, Streamed
<1> QED BY <1>1, <1>2, <1>3

LEMMA StreamKeeps == SInv /\ [Next]_vars => SInv'
<1> SUFFICES ASSUME SInv, [Next]_vars PROVE SInv'
  OBVIOUS
<1>1. CASE (UdpCall \/ RunnerStep) /\ UNCHANGED tcp
  <2>1. KeepStream BY <1>1 DEF tcp, KeepStream
  <2> QED BY <1>1, <2>1, CallsCounted, StreamQuiet
<1>2. CASE TcpCall BY <1>2, TcpCallStreams
<1>3. CASE SendDataStep BY <1>3, SendStreams
<1>4. CASE PeerStep BY <1>4, PeerStreams
<1>5. CASE UNCHANGED vars
  <2>1. KeepStream /\ calls' = calls
    BY <1>5 DEF vars, kernel, tcp, KeepStream
  <2> QED BY <2>1, StreamQuiet DEF SInv, Streamed
<1> QED BY <1>1, <1>2, <1>3, <1>4, <1>5 DEF Next

LEMMA StreamInit == Init => SInv
<1> SUFFICES ASSUME Init PROVE SInv
  OBVIOUS
<1>1. calls = 0 /\ wire = << >> /\ arrived = << >> /\ told = << >> /\ task = NoTask
  BY DEF Init, KernelInit, TcpInit
<1>2. Streamed BY <1>1 DEF Streamed
<1>3. Stream = << >>
  <2>1. Blocks(told) = << >> BY <1>1 DEF Blocks
  <2>2. FlattenSeq(Blocks(told)) = << >> BY <2>1 DEF FlattenSeq
  <2>3. Bytes(task.message, 0, task.sent) = << >> BY <1>1, NoBytes DEF NoTask
  <2> QED BY <2>2, <2>3 DEF Stream
<1>4. Returned BY <1>1 DEF Returned
<1> QED BY <1>1, <1>2, <1>3, <1>4, WholeIsStream DEF SInv

(* The peer of a TCP connection reads the messages of send_data one after  *)
(* the other, each from its first byte and, unless send_data returned      *)
(* false for it, to its last, however the sends are split and wherever a   *)
(* send fails, for good or for a moment.                                   *)
THEOREM StreamStaysWhole == Spec => []StreamWhole
<1>1. SInv => StreamWhole BY DEF SInv
<1> QED BY <1>1, StreamInit, StreamKeeps, PTL DEF Spec
=============================================================================
