---------------------- MODULE NmosRegistration_proofs ----------------------
(* The node's tables follow the session manager, for any sources, sinks    *)
(* and changes of either, and whatever the worker is doing meanwhile; and  *)
(* a registry that has missed nothing is kept current with the tables, and *)
(* so with the session manager.                                            *)
EXTENDS NmosRegistration, FiniteSetTheorems, SequenceTheorems, TLAPS

EventSet == (SourceEvents \X Sources) \cup (SinkEvents \X Sinks)
              \cup (RegistryEvents \X {0})

(* The types the argument needs; an enabled source is in the table.        *)
Shape ==
  /\ source \in [Sources -> Nat] /\ senders \in [Sources -> Nat]
  /\ sink \in [Sinks -> Nat] /\ receivers \in [Sinks -> Nat]
  /\ enabled \subseteq {i \in Sources : source[i] # 0}
  /\ events \in Seq(EventSet)
  /\ running \in BOOLEAN /\ upsets \in Nat

IInv == Shape /\ TablesFollow

-----------------------------------------------------------------------------
(* Event queues.                                                           *)

(* An event is an id with the type its table goes with.                    *)
LEMMA EventParts ==
  ASSUME NEW e \in EventSet
  PROVE  /\ e[1] \in SourceEvents <=> e \in SourceEvents \X Sources
         /\ e[1] \in SinkEvents <=> e \in SinkEvents \X Sinks
         /\ e[1] \in SourceEvents => e[2] \in Sources
         /\ e[1] \in SinkEvents => e[2] \in Sinks
  BY DEF EventSet, SourceEvents, SinkEvents, RegistryEvents

(* No event of evs is about the id; event m of evs is the last about its   *)
(* own.                                                                    *)
Silent(evs, i, types) ==
  \A m \in DOMAIN evs : ~(evs[m][1] \in types /\ evs[m][2] = i)

Final(evs, m, types) ==
  /\ evs[m][1] \in types
  /\ \A l \in DOMAIN evs : l > m => ~(evs[l][1] \in types /\ evs[l][2] = evs[m][2])

(* Observers add events at the end: the last event about an id is one of   *)
(* the new ones, or an old one that none of the new ones is about.         *)
LEMMA Appended ==
  ASSUME events \in Seq(EventSet), NEW evs \in Seq(EventSet), events' = events \o evs,
         NEW types
  PROVE  /\ events' \in Seq(EventSet)
         /\ \A n \in DOMAIN events' : LastAbout(n, types)' =>
              \/ /\ n \in DOMAIN events /\ events'[n] = events[n] /\ LastAbout(n, types)
                 /\ Silent(evs, events[n][2], types)
              \/ \E m \in DOMAIN evs : events'[n] = evs[m] /\ Final(evs, m, types)
         /\ \A i : NoneAbout(i, types)' => NoneAbout(i, types) /\ Silent(evs, i, types)
  <1>1. /\ events' \in Seq(EventSet) /\ Len(events') = Len(events) + Len(evs)
        /\ Len(events) \in Nat /\ Len(evs) \in Nat
        /\ DOMAIN events = 1..Len(events) /\ DOMAIN evs = 1..Len(evs)
        /\ DOMAIN events' = 1..Len(events')
    OBVIOUS
  <1>2. /\ \A n \in DOMAIN events : n \in DOMAIN events' /\ events'[n] = events[n]
        /\ \A m \in DOMAIN evs : /\ Len(events) + m \in DOMAIN events'
                                 /\ events'[Len(events) + m] = evs[m]
    BY <1>1
  <1>3. ASSUME NEW n \in DOMAIN events', LastAbout(n, types)'
        PROVE  \/ /\ n \in DOMAIN events /\ events'[n] = events[n] /\ LastAbout(n, types)
                  /\ Silent(evs, events[n][2], types)
               \/ \E m \in DOMAIN evs : events'[n] = evs[m] /\ Final(evs, m, types)
    <2>1. /\ events'[n][1] \in types
          /\ \A m \in DOMAIN events' :
               m > n => ~(events'[m][1] \in types /\ events'[m][2] = events'[n][2])
      BY <1>3 DEF LastAbout
    <2>2. CASE n \in DOMAIN events
      <3>1. \A m \in DOMAIN evs : Len(events) + m > n
        BY <1>1, <2>2
      <3>2. Silent(evs, events[n][2], types)
        BY <1>2, <2>1, <2>2, <3>1 DEF Silent
      <3>3. LastAbout(n, types)
        BY <1>2, <2>1, <2>2 DEF LastAbout
      <3> QED
        BY <1>2, <2>2, <3>2, <3>3
    <2>3. CASE n \notin DOMAIN events
      <3>1. PICK m \in DOMAIN evs : n = Len(events) + m
        <4>1. n - Len(events) \in DOMAIN evs /\ n = Len(events) + (n - Len(events))
          BY <1>1, <2>3
        <4> QED
          BY <4>1
      <3>2. events'[n] = evs[m] /\ evs[m][1] \in types
        BY <1>2, <2>1, <3>1
      <3>3. ASSUME NEW l \in DOMAIN evs, l > m
            PROVE  ~(evs[l][1] \in types /\ evs[l][2] = evs[m][2])
        <4>1. Len(events) + l > n
          BY <1>1, <3>1, <3>3
        <4> QED
          BY <1>2, <2>1, <3>2, <4>1
      <3>4. Final(evs, m, types)
        BY <3>2, <3>3 DEF Final
      <3> QED
        BY <3>2, <3>4
    <2> QED
      BY <2>2, <2>3
  <1>4. ASSUME NEW i, NoneAbout(i, types)'
        PROVE  NoneAbout(i, types) /\ Silent(evs, i, types)
    <2>1. \A n \in DOMAIN events' : ~(events'[n][1] \in types /\ events'[n][2] = i)
      BY <1>4 DEF NoneAbout
    <2> QED
      BY <1>2, <2>1 DEF NoneAbout, Silent
  <1> QED
    BY <1>1, <1>3, <1>4

(* The worker takes the first event: what was the last one about an id     *)
(* stays the last one, unless it is the event taken.                       *)
LEMMA Popped ==
  ASSUME events \in Seq(EventSet), events # <<>>, events' = Tail(events), NEW types
  PROVE  /\ events' \in Seq(EventSet)
         /\ Head(events) = events[1] /\ events[1] \in EventSet /\ 1 \in DOMAIN events
         /\ \A n \in DOMAIN events' : LastAbout(n, types)' =>
              \E m \in DOMAIN events : events'[n] = events[m] /\ LastAbout(m, types)
         /\ \A i : NoneAbout(i, types)' =>
              IF events[1][1] \in types /\ events[1][2] = i
              THEN LastAbout(1, types) ELSE NoneAbout(i, types)
  <1>1. /\ events' \in Seq(EventSet) /\ Len(events') = Len(events) - 1
        /\ Len(events) \in Nat /\ Len(events) > 0
        /\ Head(events) = events[1] /\ events[1] \in EventSet
        /\ DOMAIN events = 1..Len(events) /\ DOMAIN events' = 1..Len(events')
        /\ \A n \in 1..Len(events') : events'[n] = events[n + 1]
    OBVIOUS
  <1>2. /\ 1 \in DOMAIN events
        /\ \A n \in DOMAIN events' : n + 1 \in DOMAIN events /\ events'[n] = events[n + 1]
        /\ \A m \in DOMAIN events : m # 1 => m - 1 \in DOMAIN events' /\ events'[m - 1] = events[m]
    BY <1>1
  <1>3. ASSUME NEW n \in DOMAIN events', LastAbout(n, types)'
        PROVE  \E m \in DOMAIN events : events'[n] = events[m] /\ LastAbout(m, types)
    <2>1. /\ events'[n][1] \in types
          /\ \A m \in DOMAIN events' :
               m > n => ~(events'[m][1] \in types /\ events'[m][2] = events'[n][2])
      BY <1>3 DEF LastAbout
    <2>2. n + 1 \in DOMAIN events /\ events'[n] = events[n + 1]
      BY <1>2
    <2>3. ASSUME NEW m \in DOMAIN events, m > n + 1
          PROVE  ~(events[m][1] \in types /\ events[m][2] = events[n + 1][2])
      <3>1. m # 1 /\ m - 1 > n
        BY <1>1, <2>3
      <3>2. m - 1 \in DOMAIN events' /\ events'[m - 1] = events[m]
        BY <1>2, <3>1
      <3> QED
        BY <2>1, <2>2, <3>1, <3>2
    <2>4. LastAbout(n + 1, types)
      BY <2>1, <2>2, <2>3 DEF LastAbout
    <2> QED
      BY <2>2, <2>4
  <1>4. ASSUME NEW i, NoneAbout(i, types)'
        PROVE  IF events[1][1] \in types /\ events[1][2] = i
               THEN LastAbout(1, types) ELSE NoneAbout(i, types)
    <2>1. ASSUME NEW m \in DOMAIN events, m # 1
          PROVE  ~(events[m][1] \in types /\ events[m][2] = i)
      <3>1. m - 1 \in DOMAIN events' /\ events'[m - 1] = events[m]
        BY <1>2, <2>1
      <3>2. \A n \in DOMAIN events' : ~(events'[n][1] \in types /\ events'[n][2] = i)
        BY <1>4 DEF NoneAbout
      <3> QED
        BY <3>1, <3>2
    <2>2. \A m \in DOMAIN events : m > 1 => m # 1
      BY <1>1
    <2>3. CASE events[1][1] \in types /\ events[1][2] = i
      BY <2>1, <2>2, <2>3 DEF LastAbout
    <2>4. CASE ~(events[1][1] \in types /\ events[1][2] = i)
      <3>1. NoneAbout(i, types)
        BY <2>1, <2>4 DEF NoneAbout
      <3> QED
        BY <2>4, <3>1
    <2> QED
      BY <2>3, <2>4
  <1> QED
    BY <1>1, <1>2, <1>3, <1>4

-----------------------------------------------------------------------------
(* The two tables, one by one.                                             *)

(* Nothing about sources happens.                                          *)
LEMMA SendersKept ==
  ASSUME Shape, running => SendersFollow, running' => running,
         UNCHANGED <<source, enabled, unseen, senders>>,
         \/ UNCHANGED events
         \/ \E evs \in Seq(EventSet) : /\ events' = events \o evs
                                       /\ \A m \in DOMAIN evs : evs[m][1] \notin SourceEvents
         \/ /\ events # <<>> /\ events' = Tail(events) /\ Head(events)[1] \notin SourceEvents
  PROVE  running' => SendersFollow'
  <1> SUFFICES ASSUME running', SendersFollow
               PROVE  SendersFollow'
    OBVIOUS
  <1>1. events \in Seq(EventSet)
    BY DEF Shape
  <1>2. /\ \A n \in DOMAIN events' : LastAbout(n, SourceEvents)' =>
             \E m \in DOMAIN events : events'[n] = events[m] /\ LastAbout(m, SourceEvents)
        /\ \A i : NoneAbout(i, SourceEvents)' => NoneAbout(i, SourceEvents)
    <2>1. CASE UNCHANGED events
      BY <2>1 DEF LastAbout, NoneAbout
    <2>2. CASE \E evs \in Seq(EventSet) :
                 events' = events \o evs /\ \A m \in DOMAIN evs : evs[m][1] \notin SourceEvents
      <3>1. PICK evs \in Seq(EventSet) :
                 events' = events \o evs /\ \A m \in DOMAIN evs : evs[m][1] \notin SourceEvents
        BY <2>2
      <3> QED
        BY <1>1, <3>1, Appended DEF Final
    <2>3. CASE events # <<>> /\ events' = Tail(events) /\ Head(events)[1] \notin SourceEvents
      <3>1. /\ Head(events) = events[1]
            /\ \A n \in DOMAIN events' : LastAbout(n, SourceEvents)' =>
                 \E m \in DOMAIN events : events'[n] = events[m] /\ LastAbout(m, SourceEvents)
            /\ \A i : NoneAbout(i, SourceEvents)' =>
                 IF events[1][1] \in SourceEvents /\ events[1][2] = i
                 THEN LastAbout(1, SourceEvents) ELSE NoneAbout(i, SourceEvents)
        BY <1>1, <2>3, Popped
      <3> QED
        BY <2>3, <3>1
    <2> QED
      BY <2>1, <2>2, <2>3
  <1> QED
    BY <1>2 DEF SendersFollow

(* Nothing about sinks happens.                                            *)
LEMMA ReceiversKept ==
  ASSUME Shape, running => ReceiversFollow, running' => running,
         UNCHANGED <<sink, receivers>>,
         \/ UNCHANGED events
         \/ \E evs \in Seq(EventSet) : /\ events' = events \o evs
                                       /\ \A m \in DOMAIN evs : evs[m][1] \notin SinkEvents
         \/ /\ events # <<>> /\ events' = Tail(events) /\ Head(events)[1] \notin SinkEvents
  PROVE  running' => ReceiversFollow'
  <1> SUFFICES ASSUME running', ReceiversFollow
               PROVE  ReceiversFollow'
    OBVIOUS
  <1>1. events \in Seq(EventSet)
    BY DEF Shape
  <1>2. /\ \A n \in DOMAIN events' : LastAbout(n, SinkEvents)' =>
             \E m \in DOMAIN events : events'[n] = events[m] /\ LastAbout(m, SinkEvents)
        /\ \A i : NoneAbout(i, SinkEvents)' => NoneAbout(i, SinkEvents)
    <2>1. CASE UNCHANGED events
      BY <2>1 DEF LastAbout, NoneAbout
    <2>2. CASE \E evs \in Seq(EventSet) :
                 events' = events \o evs /\ \A m \in DOMAIN evs : evs[m][1] \notin SinkEvents
      <3>1. PICK evs \in Seq(EventSet) :
                 events' = events \o evs /\ \A m \in DOMAIN evs : evs[m][1] \notin SinkEvents
        BY <2>2
      <3> QED
        BY <1>1, <3>1, Appended DEF Final
    <2>3. CASE events # <<>> /\ events' = Tail(events) /\ Head(events)[1] \notin SinkEvents
      <3>1. /\ Head(events) = events[1]
            /\ \A n \in DOMAIN events' : LastAbout(n, SinkEvents)' =>
                 \E m \in DOMAIN events : events'[n] = events[m] /\ LastAbout(m, SinkEvents)
            /\ \A i : NoneAbout(i, SinkEvents)' =>
                 IF events[1][1] \in SinkEvents /\ events[1][2] = i
                 THEN LastAbout(1, SinkEvents) ELSE NoneAbout(i, SinkEvents)
        BY <1>1, <2>3, Popped
      <3> QED
        BY <2>3, <3>1
    <2> QED
      BY <2>1, <2>2, <2>3
  <1> QED
    BY <1>2 DEF ReceiversFollow

(* Two queued at once.                                                     *)
LEMMA TwoEvents ==
  ASSUME NEW a, NEW b
  PROVE  <<a>> \o <<b>> = <<a, b>>
  <1> DEFINE p == <<a>> \o <<b>>
             q == <<a, b>>
  <1>1. p \in Seq({a, b}) /\ q \in Seq({a, b}) /\ Len(p) = 2 /\ Len(q) = 2
    OBVIOUS
  <1>2. p[1] = a /\ p[2] = b /\ q[1] = a /\ q[2] = b
    OBVIOUS
  <1>3. \A k \in 1..2 : k = 1 \/ k = 2
    OBVIOUS
  <1> HIDE DEF p, q
  <1>4. p = q
    BY <1>1, <1>2, <1>3, SeqEqual
  <1> QED
    BY <1>4 DEF p, q

(* What an observer queues, and nothing when the node stops.               *)
LEMMA QueueParts ==
  ASSUME events \in Seq(EventSet), NEW evs \in Seq(EventSet), Queue(evs)
  PROVE  /\ events' \in Seq(EventSet)
         /\ running => events' = events \o evs
         /\ \/ UNCHANGED events
            \/ events' = events \o evs
  <1>1. CASE running
    BY <1>1, Appended DEF Queue
  <1>2. CASE ~running
    BY <1>2 DEF Queue
  <1> QED
    BY <1>1, <1>2

(* add_source: the new source is the last thing the queue says about it,   *)
(* or, disabled before and after, it is not mentioned.                     *)
LEMMA AddSourceStep ==
  ASSUME IInv, NEW i \in Sources, NEW en \in BOOLEAN, AddSource(i, en)
  PROVE  IInv'
  <1> DEFINE removal == IF i \in enabled THEN <<Event("SourceRemoved", i)>> ELSE <<>>
             addition == IF en THEN <<Event("SourceAdded", i)>> ELSE <<>>
             evs == removal \o addition
  <1>1. Shape /\ (running => SendersFollow) /\ (running => ReceiversFollow)
    BY DEF IInv, TablesFollow
  <1>2. /\ source' = [source EXCEPT ![i] = upsets + 2]
        /\ enabled' = (IF en THEN enabled \cup {i} ELSE enabled \ {i})
        /\ unseen' = unseen \ {i} /\ Queue(evs)
        /\ UNCHANGED <<sink, senders, receivers, running>>
        /\ upsets' = upsets + 1
    BY DEF AddSource, Upset
  <1>3. /\ evs \in Seq(EventSet)
        /\ \A m \in DOMAIN evs : evs[m][1] \in SourceEvents /\ evs[m][2] = i
        /\ \A m \in DOMAIN evs :
             (\A l \in DOMAIN evs : ~(l > m)) => (evs[m][1] = "SourceAdded" <=> en)
        /\ (i \in enabled \/ en) => 1 \in DOMAIN evs
    <2>1. Event("SourceRemoved", i) \in EventSet /\ Event("SourceAdded", i) \in EventSet
      BY DEF Event, EventSet, SourceEvents
    <2>2. CASE i \in enabled /\ en
      <3>1. evs = <<<<"SourceRemoved", i>>, <<"SourceAdded", i>>>>
        <4>1. removal = <<<<"SourceRemoved", i>>>> /\ addition = <<<<"SourceAdded", i>>>>
          BY <2>2 DEF Event
        <4> HIDE DEF removal, addition
        <4> QED
          BY <4>1, TwoEvents
      <3> QED
        BY <2>1, <2>2, <3>1 DEF Event, SourceEvents
    <2>3. CASE i \in enabled /\ ~en
      <3>1. evs = <<<<"SourceRemoved", i>>>>
        BY <2>3 DEF Event
      <3> QED
        BY <2>1, <2>3, <3>1 DEF Event, SourceEvents
    <2>4. CASE i \notin enabled /\ en
      <3>1. evs = <<<<"SourceAdded", i>>>>
        BY <2>4 DEF Event
      <3> QED
        BY <2>1, <2>4, <3>1 DEF Event, SourceEvents
    <2>5. CASE i \notin enabled /\ ~en
      <3>1. evs = <<>>
        BY <2>5
      <3> QED
        BY <2>5, <3>1
    <2> QED
      BY <2>2, <2>3, <2>4, <2>5
  <1> HIDE DEF evs, removal, addition
  <1>4. events \in Seq(EventSet)
    BY <1>1 DEF Shape
  <1>5. /\ events' \in Seq(EventSet) /\ (running => events' = events \o evs)
        /\ (UNCHANGED events \/ events' = events \o evs)
    BY <1>2, <1>3, <1>4, QueueParts
  <1>6. Shape'
    BY <1>1, <1>2, <1>5 DEF Shape
  <1>7. ASSUME running' PROVE SendersFollow'
    <2>1. SendersFollow /\ events' = events \o evs
      BY <1>1, <1>2, <1>5, <1>7
    <2>2. /\ \A n \in DOMAIN events' : LastAbout(n, SourceEvents)' =>
               \/ /\ n \in DOMAIN events /\ events'[n] = events[n]
                  /\ LastAbout(n, SourceEvents) /\ Silent(evs, events[n][2], SourceEvents)
               \/ \E m \in DOMAIN evs : events'[n] = evs[m] /\ Final(evs, m, SourceEvents)
          /\ \A k : NoneAbout(k, SourceEvents)' =>
               NoneAbout(k, SourceEvents) /\ Silent(evs, k, SourceEvents)
      <3>1. evs \in Seq(EventSet)
        BY <1>3
      <3> QED
        BY <1>4, <2>1, <3>1, Appended
    <2>3. Silent(evs, i, SourceEvents) => i \notin enabled /\ ~en
      BY <1>3 DEF Silent
    <2>4. ASSUME NEW n \in DOMAIN events', LastAbout(n, SourceEvents)'
          PROVE  events'[n][1] = "SourceAdded" <=> events'[n][2] \in enabled'
      <3>1. CASE \E m \in DOMAIN evs : events'[n] = evs[m] /\ Final(evs, m, SourceEvents)
        <4>1. PICK m \in DOMAIN evs : events'[n] = evs[m] /\ Final(evs, m, SourceEvents)
          BY <3>1
        <4>2. evs[m][2] = i /\ (evs[m][1] = "SourceAdded" <=> en)
          BY <1>3, <4>1 DEF Final
        <4> QED
          BY <1>2, <4>1, <4>2
      <3>2. CASE /\ n \in DOMAIN events /\ events'[n] = events[n]
                 /\ LastAbout(n, SourceEvents) /\ Silent(evs, events[n][2], SourceEvents)
        <4>1. events[n][1] = "SourceAdded" <=> events[n][2] \in enabled
          BY <2>1, <3>2 DEF SendersFollow
        <4>2. events[n][2] \in enabled' <=> events[n][2] \in enabled
          BY <1>2, <2>3, <3>2
        <4> QED
          BY <3>2, <4>1, <4>2
      <3> QED
        BY <2>2, <2>4, <3>1, <3>2
    <2>5. ASSUME NEW k \in Sources, NoneAbout(k, SourceEvents)'
          PROVE  /\ k \in enabled' => senders'[k] = source'[k]
                 /\ source'[k] = 0 => senders'[k] = 0 \/ k \in unseen'
      <3>1. /\ k \in enabled => senders[k] = source[k]
            /\ source[k] = 0 => senders[k] = 0 \/ k \in unseen
        BY <2>1, <2>2, <2>5 DEF SendersFollow
      <3>2. CASE k = i
        <4>1. i \notin enabled /\ ~en
          BY <2>2, <2>3, <2>5, <3>2
        <4>2. source'[i] # 0
          BY <1>1, <1>2 DEF Shape
        <4> QED
          BY <1>2, <3>2, <4>1, <4>2
      <3>3. CASE k # i
        BY <1>1, <1>2, <3>1, <3>3 DEF Shape
      <3> QED
        BY <3>2, <3>3
    <2> QED
      BY <2>4, <2>5 DEF SendersFollow
  <1>8. running' => ReceiversFollow'
    <2>1. \A m \in DOMAIN evs : evs[m][1] \notin SinkEvents
      BY <1>3 DEF SourceEvents, SinkEvents
    <2> QED
      BY <1>1, <1>2, <1>3, <1>5, <2>1, ReceiversKept
  <1> QED
    BY <1>6, <1>7, <1>8 DEF IInv, TablesFollow

(* remove_source: an enabled source leaves a removal as the last event; a  *)
(* disabled one leaves none and is noted as unseen.                        *)
LEMMA RemoveSourceStep ==
  ASSUME IInv, NEW i \in Sources, RemoveSource(i)
  PROVE  IInv'
  <1> DEFINE evs == IF i \in enabled THEN <<Event("SourceRemoved", i)>> ELSE <<>>
  <1>1. Shape /\ (running => SendersFollow) /\ (running => ReceiversFollow)
    BY DEF IInv, TablesFollow
  <1>2. /\ source' = [source EXCEPT ![i] = 0]
        /\ enabled' = enabled \ {i}
        /\ unseen' = (IF i \in enabled THEN unseen ELSE unseen \cup {i}) /\ Queue(evs)
        /\ UNCHANGED <<sink, senders, receivers, running>>
        /\ upsets' = upsets + 1
    BY DEF RemoveSource, Upset
  <1>3. /\ evs \in Seq(EventSet)
        /\ \A m \in DOMAIN evs : evs[m] = <<"SourceRemoved", i>>
        /\ i \in enabled => 1 \in DOMAIN evs
    <2>1. Event("SourceRemoved", i) \in EventSet
      BY DEF Event, EventSet, SourceEvents
    <2>2. CASE i \in enabled
      <3>1. evs = <<<<"SourceRemoved", i>>>>
        BY <2>2 DEF Event
      <3> QED
        BY <2>1, <2>2, <3>1 DEF Event
    <2>3. CASE i \notin enabled
      <3>1. evs = <<>>
        BY <2>3
      <3> QED
        BY <2>3, <3>1
    <2> QED
      BY <2>2, <2>3
  <1> HIDE DEF evs
  <1>4. events \in Seq(EventSet)
    BY <1>1 DEF Shape
  <1>5. /\ events' \in Seq(EventSet) /\ (running => events' = events \o evs)
        /\ (UNCHANGED events \/ events' = events \o evs)
    BY <1>2, <1>3, <1>4, QueueParts
  <1>6. Shape'
    BY <1>1, <1>2, <1>5 DEF Shape
  <1>7. ASSUME running' PROVE SendersFollow'
    <2>1. SendersFollow /\ events' = events \o evs
      BY <1>1, <1>2, <1>5, <1>7
    <2>2. /\ \A n \in DOMAIN events' : LastAbout(n, SourceEvents)' =>
               \/ /\ n \in DOMAIN events /\ events'[n] = events[n]
                  /\ LastAbout(n, SourceEvents) /\ Silent(evs, events[n][2], SourceEvents)
               \/ \E m \in DOMAIN evs : events'[n] = evs[m] /\ Final(evs, m, SourceEvents)
          /\ \A k : NoneAbout(k, SourceEvents)' =>
               NoneAbout(k, SourceEvents) /\ Silent(evs, k, SourceEvents)
      <3>1. evs \in Seq(EventSet)
        BY <1>3
      <3> QED
        BY <1>4, <2>1, <3>1, Appended
    <2>3. Silent(evs, i, SourceEvents) => i \notin enabled
      BY <1>3 DEF Silent, SourceEvents
    <2>4. ASSUME NEW n \in DOMAIN events', LastAbout(n, SourceEvents)'
          PROVE  events'[n][1] = "SourceAdded" <=> events'[n][2] \in enabled'
      <3>1. CASE \E m \in DOMAIN evs : events'[n] = evs[m]
        BY <1>2, <1>3, <3>1
      <3>2. CASE /\ n \in DOMAIN events /\ events'[n] = events[n]
                 /\ LastAbout(n, SourceEvents) /\ Silent(evs, events[n][2], SourceEvents)
        <4>1. events[n][1] = "SourceAdded" <=> events[n][2] \in enabled
          BY <2>1, <3>2 DEF SendersFollow
        <4>2. events[n][2] \in enabled' <=> events[n][2] \in enabled
          BY <1>2, <2>3, <3>2
        <4> QED
          BY <3>2, <4>1, <4>2
      <3> QED
        BY <2>2, <2>4, <3>1, <3>2
    <2>5. ASSUME NEW k \in Sources, NoneAbout(k, SourceEvents)'
          PROVE  /\ k \in enabled' => senders'[k] = source'[k]
                 /\ source'[k] = 0 => senders'[k] = 0 \/ k \in unseen'
      <3>1. /\ k \in enabled => senders[k] = source[k]
            /\ source[k] = 0 => senders[k] = 0 \/ k \in unseen
        BY <2>1, <2>2, <2>5 DEF SendersFollow
      <3>2. CASE k = i
        <4>1. i \notin enabled
          BY <2>2, <2>3, <2>5, <3>2
        <4> QED
          BY <1>2, <3>2, <4>1
      <3>3. CASE k # i
        BY <1>1, <1>2, <3>1, <3>3 DEF Shape
      <3> QED
        BY <3>2, <3>3
    <2> QED
      BY <2>4, <2>5 DEF SendersFollow
  <1>8. running' => ReceiversFollow'
    <2>1. \A m \in DOMAIN evs : evs[m][1] \notin SinkEvents
      BY <1>3 DEF SinkEvents
    <2> QED
      BY <1>1, <1>2, <1>3, <1>5, <2>1, ReceiversKept
  <1> QED
    BY <1>6, <1>7, <1>8 DEF IInv, TablesFollow

(* add_sink and remove_sink: the last event about the sink says whether    *)
(* there is one.                                                           *)
LEMMA ChangeSinkStep ==
  ASSUME IInv, NEW j \in Sinks, NEW v \in Nat, NEW evs \in Seq(EventSet),
         sink' = [sink EXCEPT ![j] = v], Queue(evs),
         UNCHANGED <<source, enabled, unseen, senders, receivers, running>>,
         upsets' = upsets + 1,
         \A m \in DOMAIN evs : evs[m][1] \in SinkEvents /\ evs[m][2] = j,
         \A m \in DOMAIN evs :
           (\A l \in DOMAIN evs : ~(l > m)) => (evs[m][1] = "SinkAdded" <=> v # 0),
         1 \in DOMAIN evs
  PROVE  IInv'
  <1>1. Shape /\ (running => SendersFollow) /\ (running => ReceiversFollow)
    BY DEF IInv, TablesFollow
  <1>2. events \in Seq(EventSet)
    BY <1>1 DEF Shape
  <1>3. /\ events' \in Seq(EventSet) /\ (running => events' = events \o evs)
        /\ (UNCHANGED events \/ events' = events \o evs)
    BY <1>2, QueueParts
  <1>4. Shape'
    BY <1>1, <1>3 DEF Shape
  <1>5. ASSUME running' PROVE ReceiversFollow'
    <2>1. ReceiversFollow /\ events' = events \o evs
      BY <1>1, <1>3, <1>5
    <2>2. /\ \A n \in DOMAIN events' : LastAbout(n, SinkEvents)' =>
               \/ /\ n \in DOMAIN events /\ events'[n] = events[n]
                  /\ LastAbout(n, SinkEvents) /\ Silent(evs, events[n][2], SinkEvents)
               \/ \E m \in DOMAIN evs : events'[n] = evs[m] /\ Final(evs, m, SinkEvents)
          /\ \A k : NoneAbout(k, SinkEvents)' =>
               NoneAbout(k, SinkEvents) /\ Silent(evs, k, SinkEvents)
      BY <1>2, <2>1, Appended
    <2>3. ~Silent(evs, j, SinkEvents)
      BY DEF Silent
    <2>4. ASSUME NEW n \in DOMAIN events', LastAbout(n, SinkEvents)'
          PROVE  events'[n][1] = "SinkAdded" <=> sink'[events'[n][2]] # 0
      <3>1. CASE \E m \in DOMAIN evs : events'[n] = evs[m] /\ Final(evs, m, SinkEvents)
        <4>1. PICK m \in DOMAIN evs : events'[n] = evs[m] /\ Final(evs, m, SinkEvents)
          BY <3>1
        <4>2. evs[m][2] = j /\ (evs[m][1] = "SinkAdded" <=> v # 0)
          BY <4>1 DEF Final
        <4> QED
          BY <1>1, <4>1, <4>2 DEF Shape
      <3>2. CASE /\ n \in DOMAIN events /\ events'[n] = events[n]
                 /\ LastAbout(n, SinkEvents) /\ Silent(evs, events[n][2], SinkEvents)
        <4>1. events[n][1] = "SinkAdded" <=> sink[events[n][2]] # 0
          BY <2>1, <3>2 DEF ReceiversFollow
        <4>2. events[n][2] # j
          BY <2>3, <3>2
        <4>3. events[n] \in EventSet /\ events[n][1] \in SinkEvents
          BY <1>2, <3>2 DEF LastAbout
        <4>4. events[n][2] \in Sinks
          BY <4>3, EventParts
        <4> QED
          BY <1>1, <3>2, <4>1, <4>2, <4>4 DEF Shape
      <3> QED
        BY <2>2, <2>4, <3>1, <3>2
    <2>5. ASSUME NEW k \in Sinks, NoneAbout(k, SinkEvents)'
          PROVE  receivers'[k] = sink'[k]
      <3>1. receivers[k] = sink[k] /\ k # j
        BY <2>1, <2>2, <2>3, <2>5 DEF ReceiversFollow
      <3> QED
        BY <1>1, <3>1 DEF Shape
    <2> QED
      BY <2>4, <2>5 DEF ReceiversFollow
  <1>6. running' => SendersFollow'
    <2>1. \A m \in DOMAIN evs : evs[m][1] \notin SourceEvents
      BY DEF SourceEvents, SinkEvents
    <2> QED
      BY <1>1, <1>3, <2>1, SendersKept
  <1> QED
    BY <1>4, <1>5, <1>6 DEF IInv, TablesFollow

(* add_sink queues the removal of the old sink before the new one.         *)
LEMMA AddSinkStep ==
  ASSUME IInv, NEW j \in Sinks, AddSink(j)
  PROVE  IInv'
  <1> DEFINE evs == (IF sink[j] # 0 THEN <<Event("SinkRemoved", j)>> ELSE <<>>)
                      \o <<Event("SinkAdded", j)>>
  <1>1. /\ sink' = [sink EXCEPT ![j] = upsets + 2] /\ Queue(evs) /\ upsets' = upsets + 1
        /\ UNCHANGED <<source, enabled, unseen, senders, receivers, running>>
    BY DEF AddSink, Upset
  <1>2. upsets + 2 \in Nat /\ upsets + 2 # 0
    BY DEF IInv, Shape
  <1>3. /\ evs \in Seq(EventSet) /\ 1 \in DOMAIN evs
        /\ \A m \in DOMAIN evs : evs[m][1] \in SinkEvents /\ evs[m][2] = j
        /\ \A m \in DOMAIN evs :
             (\A l \in DOMAIN evs : ~(l > m)) => evs[m][1] = "SinkAdded"
    <2>1. Event("SinkRemoved", j) \in EventSet /\ Event("SinkAdded", j) \in EventSet
      BY DEF Event, EventSet, SinkEvents
    <2>2. CASE sink[j] # 0
      <3>1. evs = <<<<"SinkRemoved", j>>, <<"SinkAdded", j>>>>
        BY <2>2, TwoEvents DEF Event
      <3> QED
        BY <2>1, <3>1 DEF Event, SinkEvents
    <2>3. CASE sink[j] = 0
      <3>1. evs = <<<<"SinkAdded", j>>>>
        BY <2>3 DEF Event
      <3> QED
        BY <2>1, <3>1 DEF Event, SinkEvents
    <2> QED
      BY <2>2, <2>3
  <1> HIDE DEF evs
  <1> QED
    BY <1>1, <1>2, <1>3, ChangeSinkStep

(* remove_sink queues a removal.                                           *)
LEMMA RemoveSinkStep ==
  ASSUME IInv, NEW j \in Sinks, RemoveSink(j)
  PROVE  IInv'
  <1> DEFINE evs == <<Event("SinkRemoved", j)>>
  <1>1. /\ sink' = [sink EXCEPT ![j] = 0] /\ Queue(evs) /\ upsets' = upsets + 1
        /\ UNCHANGED <<source, enabled, unseen, senders, receivers, running>>
    BY DEF RemoveSink, Upset
  <1>2. /\ evs \in Seq(EventSet) /\ 1 \in DOMAIN evs
        /\ \A m \in DOMAIN evs : evs[m][1] \in SinkEvents /\ evs[m][2] = j
        /\ \A m \in DOMAIN evs : evs[m][1] # "SinkAdded"
    <2>1. Event("SinkRemoved", j) \in EventSet
      BY DEF Event, EventSet, SinkEvents
    <2> QED
      BY <2>1 DEF Event, SinkEvents
  <1> HIDE DEF evs
  <1> QED
    BY <1>1, <1>2, ChangeSinkStep

-----------------------------------------------------------------------------
(* The worker's own steps on the tables.                                   *)

(* register_source and unregister_source with the event they handle: when  *)
(* it is the last about the source, the table ends up right.               *)
LEMMA HandleSourceStep ==
  ASSUME IInv, HandleSourceAdded \/ HandleSourceRemoved
  PROVE  IInv'
  <1> DEFINE i == Head(events)[2]
  <1>1. Shape /\ (running => SendersFollow) /\ (running => ReceiversFollow)
    BY DEF IInv, TablesFollow
  <1>2. /\ events # <<>> /\ events' = Tail(events)
        /\ \/ /\ Head(events)[1] = "SourceAdded"
              /\ senders' = Built(senders, i, source[i])
           \/ /\ Head(events)[1] = "SourceRemoved"
              /\ senders' = [senders EXCEPT ![i] = 0]
        /\ UNCHANGED <<source, enabled, sink, unseen, receivers, running, upsets>>
    BY DEF HandleSourceAdded, HandleSourceRemoved, Pop, manager
  <1>3. events \in Seq(EventSet)
    BY <1>1 DEF Shape
  <1>4. /\ events' \in Seq(EventSet)
        /\ Head(events) = events[1] /\ events[1] \in EventSet /\ 1 \in DOMAIN events
        /\ \A n \in DOMAIN events' : LastAbout(n, SourceEvents)' =>
             \E m \in DOMAIN events : events'[n] = events[m] /\ LastAbout(m, SourceEvents)
        /\ \A k : NoneAbout(k, SourceEvents)' =>
             IF events[1][1] \in SourceEvents /\ events[1][2] = k
             THEN LastAbout(1, SourceEvents) ELSE NoneAbout(k, SourceEvents)
    BY <1>2, <1>3, Popped
  <1>5. i = events[1][2] /\ events[1][1] \in SourceEvents /\ i \in Sources
    BY <1>2, <1>4, EventParts DEF SourceEvents
  <1> HIDE DEF i
  <1>6. /\ senders' \in [Sources -> Nat]
        /\ \A k \in Sources : k # i => senders'[k] = senders[k]
    BY <1>1, <1>2, <1>5 DEF Shape, Built
  <1>7. Shape'
    BY <1>1, <1>2, <1>4, <1>6 DEF Shape
  <1>8. ASSUME running' PROVE SendersFollow'
    <2>1. SendersFollow
      BY <1>1, <1>2, <1>8
    <2>2. ASSUME NEW n \in DOMAIN events', LastAbout(n, SourceEvents)'
          PROVE  events'[n][1] = "SourceAdded" <=> events'[n][2] \in enabled'
      BY <1>2, <1>4, <2>1, <2>2 DEF SendersFollow
    <2>3. ASSUME NEW k \in Sources, NoneAbout(k, SourceEvents)'
          PROVE  /\ k \in enabled' => senders'[k] = source'[k]
                 /\ source'[k] = 0 => senders'[k] = 0 \/ k \in unseen'
      <3>1. CASE k # i
        <4>1. NoneAbout(k, SourceEvents)
          BY <1>4, <1>5, <2>3, <3>1
        <4> QED
          BY <1>2, <1>6, <2>1, <3>1, <4>1 DEF SendersFollow
      <3>2. CASE k = i
        <4>1. LastAbout(1, SourceEvents)
          BY <1>4, <1>5, <2>3, <3>2
        <4>2. events[1][1] = "SourceAdded" <=> i \in enabled
          BY <1>4, <1>5, <2>1, <4>1 DEF SendersFollow
        <4>3. CASE events[1][1] = "SourceAdded"
          <5>1. source[i] # 0
            BY <1>1, <4>2, <4>3 DEF Shape
          <5>2. senders'[i] = source[i]
            BY <1>1, <1>2, <1>4, <1>5, <4>3, <5>1 DEF Built, Shape
          <5> QED
            BY <1>2, <3>2, <5>1, <5>2
        <4>4. CASE events[1][1] # "SourceAdded"
          <5>1. senders'[i] = 0
            BY <1>1, <1>2, <1>4, <1>5, <4>4 DEF Shape
          <5> QED
            BY <1>2, <3>2, <4>2, <4>4, <5>1
        <4> QED
          BY <4>3, <4>4
      <3> QED
        BY <3>1, <3>2
    <2> QED
      BY <2>2, <2>3 DEF SendersFollow
  <1>9. running' => ReceiversFollow'
    <2>1. Head(events)[1] \notin SinkEvents
      BY <1>2 DEF SinkEvents
    <2> QED
      BY <1>1, <1>2, <2>1, ReceiversKept
  <1> QED
    BY <1>7, <1>8, <1>9 DEF IInv, TablesFollow

(* register_sink and unregister_sink, likewise.                            *)
LEMMA HandleSinkStep ==
  ASSUME IInv, HandleSinkAdded \/ HandleSinkRemoved
  PROVE  IInv'
  <1> DEFINE j == Head(events)[2]
  <1>1. Shape /\ (running => SendersFollow) /\ (running => ReceiversFollow)
    BY DEF IInv, TablesFollow
  <1>2. /\ events # <<>> /\ events' = Tail(events)
        /\ \/ /\ Head(events)[1] = "SinkAdded"
              /\ receivers' = Built(receivers, j, sink[j])
           \/ /\ Head(events)[1] = "SinkRemoved"
              /\ receivers' = [receivers EXCEPT ![j] = 0]
        /\ UNCHANGED <<source, enabled, sink, unseen, senders, running, upsets>>
    BY DEF HandleSinkAdded, HandleSinkRemoved, Pop, manager
  <1>3. events \in Seq(EventSet)
    BY <1>1 DEF Shape
  <1>4. /\ events' \in Seq(EventSet)
        /\ Head(events) = events[1] /\ events[1] \in EventSet /\ 1 \in DOMAIN events
        /\ \A n \in DOMAIN events' : LastAbout(n, SinkEvents)' =>
             \E m \in DOMAIN events : events'[n] = events[m] /\ LastAbout(m, SinkEvents)
        /\ \A k : NoneAbout(k, SinkEvents)' =>
             IF events[1][1] \in SinkEvents /\ events[1][2] = k
             THEN LastAbout(1, SinkEvents) ELSE NoneAbout(k, SinkEvents)
    BY <1>2, <1>3, Popped
  <1>5. j = events[1][2] /\ events[1][1] \in SinkEvents /\ j \in Sinks
    BY <1>2, <1>4, EventParts DEF SinkEvents
  <1> HIDE DEF j
  <1>6. /\ receivers' \in [Sinks -> Nat]
        /\ \A k \in Sinks : k # j => receivers'[k] = receivers[k]
    <2>1. receivers \in [Sinks -> Nat] /\ sink[j] \in Nat
      BY <1>1, <1>5 DEF Shape
    <2>2. CASE receivers' = Built(receivers, j, sink[j])
      BY <1>5, <2>1, <2>2 DEF Built
    <2>3. CASE receivers' = [receivers EXCEPT ![j] = 0]
      BY <1>5, <2>1, <2>3
    <2> QED
      BY <1>2, <2>2, <2>3
  <1>7. Shape'
    BY <1>1, <1>2, <1>4, <1>6 DEF Shape
  <1>8. ASSUME running' PROVE ReceiversFollow'
    <2>1. ReceiversFollow
      BY <1>1, <1>2, <1>8
    <2>2. ASSUME NEW n \in DOMAIN events', LastAbout(n, SinkEvents)'
          PROVE  events'[n][1] = "SinkAdded" <=> sink'[events'[n][2]] # 0
      BY <1>2, <1>4, <2>1, <2>2 DEF ReceiversFollow
    <2>3. ASSUME NEW k \in Sinks, NoneAbout(k, SinkEvents)'
          PROVE  receivers'[k] = sink'[k]
      <3>1. CASE k # j
        <4>1. NoneAbout(k, SinkEvents)
          BY <1>4, <1>5, <2>3, <3>1
        <4> QED
          BY <1>2, <1>6, <2>1, <3>1, <4>1 DEF ReceiversFollow
      <3>2. CASE k = j
        <4>1. LastAbout(1, SinkEvents)
          BY <1>4, <1>5, <2>3, <3>2
        <4>2. events[1][1] = "SinkAdded" <=> sink[j] # 0
          BY <1>4, <1>5, <2>1, <4>1 DEF ReceiversFollow
        <4>3. receivers'[j] = sink[j]
          BY <1>1, <1>2, <1>4, <1>5, <4>2 DEF Built, Shape
        <4> QED
          BY <1>2, <3>2, <4>3
      <3> QED
        BY <3>1, <3>2
    <2> QED
      BY <2>2, <2>3 DEF ReceiversFollow
  <1>9. running' => SendersFollow'
    <2>1. Head(events)[1] \notin SourceEvents
      BY <1>2 DEF SourceEvents
    <2> QED
      BY <1>1, <1>2, <2>1, SendersKept
  <1> QED
    BY <1>7, <1>8, <1>9 DEF IInv, TablesFollow

(* full_registration brings an entry up to date by itself: it can only     *)
(* make the table righter, and the events to come are still true.          *)
LEMMA SyncSourceStep ==
  ASSUME IInv, NEW i \in Sources, SyncSource(i)
  PROVE  IInv'
  <1>1. Shape /\ (running => SendersFollow) /\ (running => ReceiversFollow)
    BY DEF IInv, TablesFollow
  <1>2. /\ senders' = Built(senders, i, source[i])
        /\ UNCHANGED <<source, enabled, sink, unseen, events, receivers, running, upsets>>
    BY DEF SyncSource, manager
  <1>3. /\ senders' \in [Sources -> Nat]
        /\ \A k \in Sources : senders'[k] = senders[k] \/ (source[k] # 0 /\ senders'[k] = source[k])
    BY <1>1, <1>2 DEF Shape, Built
  <1>4. Shape'
    BY <1>1, <1>2, <1>3 DEF Shape
  <1>5. /\ \A n : LastAbout(n, SourceEvents)' = LastAbout(n, SourceEvents)
        /\ \A k : NoneAbout(k, SourceEvents)' = NoneAbout(k, SourceEvents)
    BY <1>2 DEF LastAbout, NoneAbout
  <1>6. running' => SendersFollow'
    BY <1>1, <1>2, <1>3, <1>5 DEF SendersFollow
  <1>7. running' => ReceiversFollow'
    BY <1>1, <1>2, ReceiversKept
  <1> QED
    BY <1>4, <1>6, <1>7 DEF IInv, TablesFollow

(* The same for a sink.                                                    *)
LEMMA SyncSinkStep ==
  ASSUME IInv, NEW j \in Sinks, SyncSink(j)
  PROVE  IInv'
  <1>1. Shape /\ (running => SendersFollow) /\ (running => ReceiversFollow)
    BY DEF IInv, TablesFollow
  <1>2. /\ receivers' = Built(receivers, j, sink[j])
        /\ UNCHANGED <<source, enabled, sink, unseen, events, senders, running, upsets>>
    BY DEF SyncSink, manager
  <1>3. /\ receivers' \in [Sinks -> Nat]
        /\ \A k \in Sinks : receivers'[k] = receivers[k] \/ receivers'[k] = sink[k]
    BY <1>1, <1>2 DEF Shape, Built
  <1>4. Shape'
    BY <1>1, <1>2, <1>3 DEF Shape
  <1>5. /\ \A n : LastAbout(n, SinkEvents)' = LastAbout(n, SinkEvents)
        /\ \A k : NoneAbout(k, SinkEvents)' = NoneAbout(k, SinkEvents)
    BY <1>2 DEF LastAbout, NoneAbout
  <1>6. running' => ReceiversFollow'
    BY <1>1, <1>2, <1>3, <1>5 DEF ReceiversFollow
  <1>7. running' => SendersFollow'
    BY <1>1, <1>2, SendersKept
  <1> QED
    BY <1>4, <1>6, <1>7 DEF IInv, TablesFollow

(* Every other step leaves the tables and the session manager alone; at    *)
(* most it queues or takes an event about registries, or stops the node.   *)
LEMMA OtherStep ==
  ASSUME IInv, UNCHANGED <<manager, senders, receivers>>, upsets' \in Nat,
         running' \in BOOLEAN, running' => running,
         \/ UNCHANGED events
         \/ \E e \in RegistryEvents \X {0} : events' = Append(events, e)
         \/ events # <<>> /\ events' = Tail(events) /\ Head(events)[1] \in RegistryEvents
  PROVE  IInv'
  <1>1. Shape /\ (running => SendersFollow) /\ (running => ReceiversFollow)
    BY DEF IInv, TablesFollow
  <1>2. UNCHANGED <<source, enabled, sink, unseen, senders, receivers>>
    BY DEF manager
  <1>3. events \in Seq(EventSet)
    BY <1>1 DEF Shape
  <1>4. CASE UNCHANGED events
    BY <1>1, <1>2, <1>4, SendersKept, ReceiversKept DEF IInv, TablesFollow, Shape
  <1>5. CASE \E e \in RegistryEvents \X {0} : events' = Append(events, e)
    <2>1. PICK e \in RegistryEvents \X {0} : events' = Append(events, e)
      BY <1>5
    <2> DEFINE evs == <<e>>
    <2>2. e \in EventSet /\ e[1] \notin SourceEvents /\ e[1] \notin SinkEvents
      BY <2>1 DEF EventSet, SourceEvents, SinkEvents, RegistryEvents
    <2>3. /\ evs \in Seq(EventSet) /\ events' = events \o evs
          /\ \A m \in DOMAIN evs : evs[m] = e
      BY <1>3, <2>1, <2>2, AppendIsConcat
    <2> HIDE DEF evs
    <2>4. events' \in Seq(EventSet)
      BY <1>3, <2>3, Appended
    <2>5. running' => SendersFollow'
      BY <1>1, <1>2, <2>2, <2>3, SendersKept
    <2>6. running' => ReceiversFollow'
      BY <1>1, <1>2, <2>2, <2>3, ReceiversKept
    <2> QED
      BY <1>1, <1>2, <2>4, <2>5, <2>6 DEF IInv, TablesFollow, Shape
  <1>6. CASE events # <<>> /\ events' = Tail(events) /\ Head(events)[1] \in RegistryEvents
    <2>1. Head(events)[1] \notin SourceEvents /\ Head(events)[1] \notin SinkEvents
      BY <1>6 DEF SourceEvents, SinkEvents, RegistryEvents
    <2>2. events' \in Seq(EventSet)
      BY <1>3, <1>6, Popped
    <2>3. running' => SendersFollow'
      BY <1>1, <1>2, <1>6, <2>1, SendersKept
    <2>4. running' => ReceiversFollow'
      BY <1>1, <1>2, <1>6, <2>1, ReceiversKept
    <2> QED
      BY <1>1, <1>2, <2>2, <2>3, <2>4 DEF IInv, TablesFollow, Shape
  <1> QED
    BY <1>4, <1>5, <1>6

-----------------------------------------------------------------------------
(* The tables are built from the status file and nothing is queued.        *)
LEMMA InitIInv == Init => IInv
  <1> SUFFICES ASSUME Init PROVE IInv
    OBVIOUS
  <1>1. Shape
    BY DEF Init, Shape
  <1>2. DOMAIN events = {} /\ senders = source /\ receivers = sink
    BY DEF Init
  <1> QED
    BY <1>1, <1>2 DEF IInv, TablesFollow, SendersFollow, ReceiversFollow, Shape

(* Every step keeps the tables following.                                  *)
LEMMA NextIInv == IInv /\ [Next]_vars => IInv'
  <1> SUFFICES ASSUME IInv, [Next]_vars PROVE IInv'
    OBVIOUS
  <1>1. upsets \in Nat /\ running \in BOOLEAN
    BY DEF IInv, Shape
  <1>2. CASE \E i \in Sources, en \in BOOLEAN : AddSource(i, en)
    BY <1>2, AddSourceStep
  <1>3. CASE \E i \in Sources : RemoveSource(i)
    BY <1>3, RemoveSourceStep
  <1>4. CASE \E j \in Sinks : AddSink(j)
    BY <1>4, AddSinkStep
  <1>5. CASE \E j \in Sinks : RemoveSink(j)
    BY <1>5, RemoveSinkStep
  <1>6. CASE \E i \in Sources : SyncSource(i)
    BY <1>6, SyncSourceStep
  <1>7. CASE \E j \in Sinks : SyncSink(j)
    BY <1>7, SyncSinkStep
  <1>8. CASE HandleSourceAdded \/ HandleSourceRemoved
    BY <1>8, HandleSourceStep
  <1>9. CASE HandleSinkAdded \/ HandleSinkRemoved
    BY <1>9, HandleSinkStep
  <1>10. CASE RegistryResolved
    <2>1. Event("RegistryUpdated", 0) \in RegistryEvents \X {0}
      BY DEF Event, RegistryEvents
    <2> QED
      BY <1>1, <1>10, <2>1, OtherStep DEF RegistryResolved, Upset
  <1>11. CASE RegistryRemoved
    <2>1. Event("RegistryLost", 0) \in RegistryEvents \X {0}
      BY DEF Event, RegistryEvents
    <2> QED
      BY <1>1, <1>11, <2>1, OtherStep DEF RegistryRemoved, Upset
  <1>12. CASE HandleRegistryUpdated \/ HandleRegistryLost
    BY <1>1, <1>12, OtherStep
       DEF HandleRegistryUpdated, HandleRegistryLost, Pop, RegistryEvents
  <1>13. CASE BeginFull \/ SnapshotSinks \/ Collect
    BY <1>1, <1>13, OtherStep DEF BeginFull, SnapshotSinks, Collect
  <1>14. CASE Push
    BY <1>1, <1>14, OtherStep DEF Push, Arrives, Lost, Upset
  <1>15. CASE Pushed \/ Enter \/ Drained
    BY <1>1, <1>15, OtherStep DEF Pushed, Enter, Drained
  <1>16. CASE Heartbeat
    BY <1>1, <1>16, OtherStep
       DEF Heartbeat, HeartbeatForgotten, HeartbeatHeard, HeartbeatLost, RefreshNode, Upset
  <1>17. CASE \/ ClockFlips
              \/ \E g \in Registries : Forget(g)
              \/ \E i \in Sources : ActivateSender(i)
              \/ \E j \in Sinks : ActivateReceiver(j)
    BY <1>1, <1>17, OtherStep DEF ClockFlips, Forget, ActivateSender, ActivateReceiver, Upset
  <1>18. CASE Stop
    BY <1>1, <1>18, OtherStep DEF Stop
  <1>19. CASE UNCHANGED vars
    <2>1. UNCHANGED <<manager, senders, receivers, upsets, running, events>>
      BY <1>19 DEF vars, manager
    <2> QED
      BY <1>1, <2>1, OtherStep
  <1> QED
    BY <1>2, <1>3, <1>4, <1>5, <1>6, <1>7, <1>8, <1>9, <1>10, <1>11, <1>12, <1>13,
       <1>14, <1>15, <1>16, <1>17, <1>18, <1>19
       DEF Next, Worker, Environment, Full, Handle

(* Whatever the observers of the session manager queue while the worker    *)
(* registers, handles events or talks to a registry, a running node's      *)
(* tables are what the session manager has once the events are handled     *)
(* (on_source_add and the others, registration_worker, full_registration). *)
THEOREM NodeFollows == Spec => []TablesFollow
  <1>1. IInv => TablesFollow
    BY DEF IInv
  <1> QED
    BY InitIInv, NextIInv, <1>1, PTL DEF Spec

-----------------------------------------------------------------------------
(* The registry.                                                           *)

Documents == (SUBSET Nat) \cup (SUBSET BOOLEAN) \cup (SUBSET Resources)
Requests == [op : {"POST", "DELETE"}, res : Resources, doc : Documents]

(* What a registry should hold, and the document of each resource but the  *)
(* node, whose clock may have changed since.                               *)
WantedOf(s, t) ==
  {Node, Device} \cup Listed(s, t)
    \cup ({"source", "flow"} \X {i \in Sources : s[i] # 0})

DocOf(s, t, r) ==
  IF r = Device THEN Listed(s, t)
  ELSE {IF r[1] = "receiver" THEN t[r[2]] ELSE s[r[2]]}

Wanted == WantedOf(senders, receivers)
WantedDoc(r) == DocOf(senders, receivers, r)

(* A request brings about what is wanted.  The documents in w are those    *)
(* IS-05 has rewritten.                                                    *)
RightOf(s, t, w, req) ==
  IF req.res \in WantedOf(s, t)
  THEN /\ req.op = "POST"
       /\ req.res # Node /\ req.res \notin w => req.doc = DocOf(s, t, req.res)
  ELSE req.op = "DELETE"

Right(req) == RightOf(senders, receivers, rewritten, req)

Tables == senders \in [Sources -> Nat] /\ receivers \in [Sinks -> Nat]

(* The resources, one by one.                                              *)
LEMMA ResourceKinds ==
  ASSUME NEW r \in Resources
  PROVE  \/ r = Node
         \/ r = Device
         \/ \E i \in Sources : \/ r = <<"source", i>>
                               \/ r = <<"flow", i>>
                               \/ r = <<"sender", i>>
         \/ \E j \in Sinks : r = <<"receiver", j>>
  BY DEF Resources

LEMMA KindsApart ==
  /\ Node # Device
  /\ \A i, k : /\ <<"source", i>> \notin {Node, Device, <<"flow", k>>, <<"sender", k>>, <<"receiver", k>>}
               /\ <<"flow", i>> \notin {Node, Device, <<"sender", k>>, <<"receiver", k>>}
               /\ <<"sender", i>> \notin {Node, Device, <<"receiver", k>>}
               /\ <<"receiver", i>> \notin {Node, Device}
               /\ <<"source", i>> = <<"source", k>> => i = k
               /\ <<"flow", i>> = <<"flow", k>> => i = k
               /\ <<"sender", i>> = <<"sender", k>> => i = k
               /\ <<"receiver", i>> = <<"receiver", k>> => i = k
  BY DEF Node, Device

LEMMA AreResources ==
  /\ Node \in Resources /\ Device \in Resources
  /\ \A i \in Sources : /\ <<"source", i>> \in Resources
                        /\ <<"flow", i>> \in Resources
                        /\ <<"sender", i>> \in Resources
  /\ \A j \in Sinks : <<"receiver", j>> \in Resources
  BY DEF Resources

LEMMA WantedOfKinds ==
  ASSUME NEW s, NEW t
  PROVE  /\ Node \in WantedOf(s, t) /\ Device \in WantedOf(s, t)
         /\ \A i \in Sources : /\ <<"source", i>> \in WantedOf(s, t) <=> s[i] # 0
                               /\ <<"flow", i>> \in WantedOf(s, t) <=> s[i] # 0
                               /\ <<"sender", i>> \in WantedOf(s, t) <=> s[i] # 0
         /\ \A j \in Sinks : <<"receiver", j>> \in WantedOf(s, t) <=> t[j] # 0
         /\ WantedOf(s, t) \subseteq Resources
  BY DEF WantedOf, Listed, Node, Device, Resources

LEMMA WantedKinds ==
  /\ Node \in Wanted /\ Device \in Wanted
  /\ \A i \in Sources : /\ <<"source", i>> \in Wanted <=> senders[i] # 0
                        /\ <<"flow", i>> \in Wanted <=> senders[i] # 0
                        /\ <<"sender", i>> \in Wanted <=> senders[i] # 0
  /\ \A j \in Sinks : <<"receiver", j>> \in Wanted <=> receivers[j] # 0
  /\ Wanted \subseteq Resources
  BY WantedOfKinds DEF Wanted

LEMMA ParentKinds ==
  /\ Parents(Node) = {} /\ Parents(Device) = {Node}
  /\ \A i : /\ Parents(<<"source", i>>) = {Device}
            /\ Parents(<<"flow", i>>) = {Device, <<"source", i>>}
            /\ Parents(<<"sender", i>>) = {Device, <<"flow", i>>}
            /\ Parents(<<"receiver", i>>) = {Device}
  BY DEF Parents, Node, Device

(* What a wanted resource refers to is wanted.                             *)
LEMMA ParentsWantedOf ==
  ASSUME NEW s, NEW t, NEW r \in WantedOf(s, t)
  PROVE  Parents(r) \subseteq WantedOf(s, t)
  <1>1. r \in Resources
    BY WantedOfKinds
  <1>2. CASE r \in {Node, Device}
    BY <1>2, WantedOfKinds, ParentKinds
  <1>3. CASE \E i \in Sources : \/ r = <<"source", i>>
                                \/ r = <<"flow", i>>
                                \/ r = <<"sender", i>>
    <2>1. PICK i \in Sources : r \in {<<"source", i>>, <<"flow", i>>, <<"sender", i>>}
      BY <1>3
    <2>2. s[i] # 0
      BY <2>1, WantedOfKinds
    <2>3. Parents(r) \subseteq {Device, <<"source", i>>, <<"flow", i>>}
      BY <2>1, ParentKinds
    <2> QED
      BY <2>2, <2>3, WantedOfKinds
  <1>4. CASE \E j \in Sinks : r = <<"receiver", j>>
    BY <1>4, WantedOfKinds, ParentKinds
  <1> QED
    BY <1>1, <1>2, <1>3, <1>4, ResourceKinds

LEMMA DocumentsRight ==
  /\ WantedDoc(Device) = Listed(senders, receivers)
  /\ \A i : /\ WantedDoc(<<"source", i>>) = {senders[i]}
            /\ WantedDoc(<<"flow", i>>) = {senders[i]}
            /\ WantedDoc(<<"sender", i>>) = {senders[i]}
            /\ WantedDoc(<<"receiver", i>>) = {receivers[i]}
  BY DEF WantedDoc, DocOf, Device

(* What a resource does not hang on, and what refers to it.                *)
LEMMA ChildKinds ==
  ASSUME NEW r \in Resources
  PROVE  \A i : /\ <<"sender", i>> \notin Parents(r) /\ <<"receiver", i>> \notin Parents(r)
                /\ <<"flow", i>> \in Parents(r) => r = <<"sender", i>>
                /\ <<"source", i>> \in Parents(r) => r = <<"flow", i>>
  <1> SUFFICES ASSUME NEW i
               PROVE  /\ <<"sender", i>> \notin Parents(r) /\ <<"receiver", i>> \notin Parents(r)
                      /\ <<"flow", i>> \in Parents(r) => r = <<"sender", i>>
                      /\ <<"source", i>> \in Parents(r) => r = <<"flow", i>>
    OBVIOUS
  <1>1. CASE Parents(r) \subseteq {Node, Device}
    BY <1>1, KindsApart
  <1>2. ASSUME NEW k, r = <<"flow", k>>
        PROVE  /\ <<"sender", i>> \notin Parents(r) /\ <<"receiver", i>> \notin Parents(r)
               /\ <<"flow", i>> \notin Parents(r)
               /\ <<"source", i>> \in Parents(r) => i = k
    <2>1. Parents(r) = {Device, <<"source", k>>}
      BY <1>2, ParentKinds
    <2> QED
      BY <2>1, KindsApart
  <1>3. ASSUME NEW k, r = <<"sender", k>>
        PROVE  /\ <<"sender", i>> \notin Parents(r) /\ <<"receiver", i>> \notin Parents(r)
               /\ <<"source", i>> \notin Parents(r)
               /\ <<"flow", i>> \in Parents(r) => i = k
    <2>1. Parents(r) = {Device, <<"flow", k>>}
      BY <1>3, ParentKinds
    <2> QED
      BY <2>1, KindsApart
  <1>4. \/ Parents(r) \subseteq {Node, Device}
        \/ \E k : r = <<"flow", k>>
        \/ \E k : r = <<"sender", k>>
    BY ResourceKinds, ParentKinds
  <1> QED
    BY <1>1, <1>2, <1>3, <1>4

(* The document of a resource is a set of numbers.                         *)
LEMMA HeldTyped ==
  ASSUME NEW x, NEW n \in Nat, NEW w
  PROVE  /\ Held(x, n, w) \in SUBSET Nat
         /\ x \notin w => Held(x, n, w) = {n}
  BY DEF Held

(* Requests are well formed.                                               *)
LEMMA RequestsTyped ==
  ASSUME NEW s \in [Sources -> Nat], NEW r \in [Sinks -> Nat], clock \in BOOLEAN
  PROVE  /\ PostNode \in Requests /\ PostDevice(s, r) \in Requests
         /\ \A i \in Sources : /\ Post(<<"source", i>>, {s[i]}) \in Requests
                               /\ Post(<<"flow", i>>, {s[i]}) \in Requests
                               /\ \A w : Post(<<"sender", i>>, Held(<<"sender", i>>, s[i], w))
                                          \in Requests
         /\ \A j \in Sinks : \A w : ReceiverPost(j, r, w) \in Requests
         /\ \A x \in Resources : Delete(x) \in Requests
  <1>1. /\ \A n \in Nat : {n} \in Documents
        /\ \A x, w : \A n \in Nat : Held(x, n, w) \in Documents
    BY HeldTyped DEF Documents
  <1>2. {clock} \in Documents /\ {} \in Documents
    <2>1. {clock} \in SUBSET BOOLEAN /\ {} \in SUBSET Resources
      BY Zenon
    <2> QED
      BY <2>1, Zenon DEF Documents
  <1>3. Listed(s, r) \in Documents
    <2>1. Listed(s, r) \subseteq Resources
      BY AreResources DEF Listed
    <2> QED
      BY <2>1, Zenon DEF Documents
  <1>4. /\ \A i \in Sources : s[i] \in Nat
        /\ \A j \in Sinks : r[j] \in Nat
    OBVIOUS
  <1>5. \A x \in Resources, d \in Documents : Post(x, d) \in Requests
    BY DEF Post, Requests
  <1>6. \A x \in Resources : Delete(x) \in Requests
    BY <1>2 DEF Delete, Requests
  <1> QED
    BY <1>1, <1>2, <1>3, <1>4, <1>5, <1>6, AreResources DEF PostNode, PostDevice, ReceiverPost

(* The numbers of a finite set in order are a sequence of all of them.     *)
LEMMA OrderIsSequence ==
  ASSUME NEW S, IsFiniteSet(S), NEW f \in InOrder(S)
  PROVE  /\ f \in Seq(S) /\ Len(f) \in Nat /\ DOMAIN f = 1..Len(f)
         /\ \A i \in S : \E n \in 1..Len(f) : f[n] = i
  <1>1. Cardinality(S) \in Nat
    BY FS_CardinalityType
  <1>2. f \in [1..Cardinality(S) -> S] /\ Range(f) = S
    BY DEF InOrder
  <1>3. f \in Seq(S) /\ Len(f) = Cardinality(S)
    BY <1>1, <1>2
  <1> QED
    BY <1>1, <1>2, <1>3 DEF Range

(* Where the elements of a concatenation come from.                        *)
LEMMA ConcatParts ==
  ASSUME NEW S, NEW s \in Seq(S), NEW t \in Seq(S)
  PROVE  /\ s \o t \in Seq(S) /\ Len(s \o t) = Len(s) + Len(t)
         /\ \A n \in 1..Len(s) : (s \o t)[n] = s[n]
         /\ \A n \in 1..Len(t) : (s \o t)[Len(s) + n] = t[n]
  OBVIOUS

(* The requests of a full registration: where each one is.                 *)
SenderPost(i) == Post(<<"sender", i>>, Held(<<"sender", i>>, senders[i], rewritten))

LEMMA FullPlaces ==
  ASSUME Tables, clock \in BOOLEAN,
         NEW ss \in Seq(Sources), NEW rs \in Seq(Sinks)
  PROVE  LET P == FullPushes(ss, rs)
         IN  /\ P \in Seq(Requests) /\ Len(P) = 2 + 3 * Len(ss) + Len(rs)
             /\ P[1] = PostNode /\ P[2] = PostDevice(senders, receivers)
             /\ \A k \in 1..Len(ss) :
                  /\ P[3 * k] = Post(<<"source", ss[k]>>, {senders[ss[k]]})
                  /\ P[3 * k + 1] = Post(<<"flow", ss[k]>>, {senders[ss[k]]})
                  /\ P[3 * k + 2] = SenderPost(ss[k])
             /\ \A k \in 1..Len(rs) :
                  P[2 + 3 * Len(ss) + k] = ReceiverPost(rs[k], receivers, rewritten)
  <1> DEFINE A == <<PostNode, PostDevice(senders, receivers)>>
             B == [n \in 1..3 * Len(ss) |->
                     SourcePosts(ss[(n + 2) \div 3], senders, rewritten)[1 + ((n - 1) % 3)]]
             C == [n \in DOMAIN rs |-> ReceiverPost(rs[n], receivers, rewritten)]
             P == FullPushes(ss, rs)
             a == Len(ss)
             b == Len(rs)
  <1>1. /\ a \in Nat /\ b \in Nat /\ DOMAIN rs = 1..b
        /\ \A k \in 1..a : ss[k] \in Sources
        /\ \A k \in 1..b : rs[k] \in Sinks
    OBVIOUS
  <1>2. A \in Seq(Requests) /\ Len(A) = 2 /\ A[1] = PostNode
        /\ A[2] = PostDevice(senders, receivers)
    BY RequestsTyped DEF Tables
  <1>3. C \in Seq(Requests) /\ Len(C) = b
        /\ \A k \in 1..b : C[k] = ReceiverPost(rs[k], receivers, rewritten)
    <2>1. \A k \in 1..b : ReceiverPost(rs[k], receivers, rewritten) \in Requests
      BY <1>1, RequestsTyped DEF Tables
    <2> QED
      BY <1>1, <2>1
  <1>4. \A n \in 1..3 * a : (n + 2) \div 3 \in 1..a /\ 1 + ((n - 1) % 3) \in 1..3
    BY <1>1
  <1>5. ASSUME NEW i \in Sources
        PROVE  /\ SourcePosts(i, senders, rewritten)[1] = Post(<<"source", i>>, {senders[i]})
               /\ SourcePosts(i, senders, rewritten)[2] = Post(<<"flow", i>>, {senders[i]})
               /\ SourcePosts(i, senders, rewritten)[3] = SenderPost(i)
               /\ \A c \in 1..3 : SourcePosts(i, senders, rewritten)[c] \in Requests
    <2>1. /\ SourcePosts(i, senders, rewritten)[1] = Post(<<"source", i>>, {senders[i]})
          /\ SourcePosts(i, senders, rewritten)[2] = Post(<<"flow", i>>, {senders[i]})
          /\ SourcePosts(i, senders, rewritten)[3] = SenderPost(i)
      BY DEF SourcePosts, SenderPost
    <2>2. /\ SourcePosts(i, senders, rewritten)[1] \in Requests
          /\ SourcePosts(i, senders, rewritten)[2] \in Requests
          /\ SourcePosts(i, senders, rewritten)[3] \in Requests
      BY <2>1, RequestsTyped DEF Tables, SenderPost
    <2>3. 1..3 = {1, 2, 3}
      OBVIOUS
    <2> QED
      BY <2>1, <2>2, <2>3, Zenon
  <1>6. /\ B \in Seq(Requests) /\ Len(B) = 3 * a
        /\ \A n \in 1..3 * a :
             B[n] = SourcePosts(ss[(n + 2) \div 3], senders, rewritten)[1 + ((n - 1) % 3)]
    <2>1. \A n \in 1..3 * a : B[n] \in Requests
      BY <1>1, <1>4, <1>5
    <2>2. 3 * a \in Nat
      BY <1>1
    <2> QED
      BY <2>1, <2>2
  <1>7. \A k \in 1..a :
          /\ B[3 * k - 2] = Post(<<"source", ss[k]>>, {senders[ss[k]]})
          /\ B[3 * k - 1] = Post(<<"flow", ss[k]>>, {senders[ss[k]]})
          /\ B[3 * k] = SenderPost(ss[k])
    <2> SUFFICES ASSUME NEW k \in 1..a
                 PROVE  /\ B[3 * k - 2] = Post(<<"source", ss[k]>>, {senders[ss[k]]})
                        /\ B[3 * k - 1] = Post(<<"flow", ss[k]>>, {senders[ss[k]]})
                        /\ B[3 * k] = SenderPost(ss[k])
      OBVIOUS
    <2>1. /\ 3 * k - 2 \in 1..3 * a /\ 3 * k - 1 \in 1..3 * a /\ 3 * k \in 1..3 * a
          /\ (3 * k - 2 + 2) \div 3 = k /\ (3 * k - 2 - 1) % 3 = 0
          /\ (3 * k - 1 + 2) \div 3 = k /\ (3 * k - 1 - 1) % 3 = 1
          /\ (3 * k + 2) \div 3 = k /\ (3 * k - 1) % 3 = 2
      BY <1>1
    <2>2. /\ B[3 * k - 2] = SourcePosts(ss[k], senders, rewritten)[1]
          /\ B[3 * k - 1] = SourcePosts(ss[k], senders, rewritten)[2]
          /\ B[3 * k] = SourcePosts(ss[k], senders, rewritten)[3]
      <3> DEFINE E(n) == SourcePosts(ss[(n + 2) \div 3], senders, rewritten)[1 + ((n - 1) % 3)]
      <3>1. B[3 * k - 2] = E(3 * k - 2) /\ B[3 * k - 1] = E(3 * k - 1) /\ B[3 * k] = E(3 * k)
        BY <1>6, <2>1, Zenon
      <3>2. /\ E(3 * k - 2) = SourcePosts(ss[k], senders, rewritten)[1]
            /\ E(3 * k - 1) = SourcePosts(ss[k], senders, rewritten)[2]
            /\ E(3 * k) = SourcePosts(ss[k], senders, rewritten)[3]
        <4>1. 1 + 0 = 1 /\ 1 + 1 = 2 /\ 1 + 2 = 3
          OBVIOUS
        <4> QED
          BY <2>1, <4>1, Zenon
      <3> QED
        BY <3>1, <3>2, Zenon
    <2> HIDE DEF B
    <2> QED
      BY <1>1, <1>5, <2>2
  <1>8. P = (A \o B) \o C
    BY DEF FullPushes
  <1> HIDE DEF A, B, C, P, a, b
  <1>9. /\ P \in Seq(Requests) /\ Len(P) = 2 + 3 * a + b
        /\ P[1] = A[1] /\ P[2] = A[2]
        /\ \A n \in 1..3 * a : P[2 + n] = B[n]
        /\ \A n \in 1..b : P[2 + 3 * a + n] = C[n]
    <2> DEFINE Q == A \o B
    <2>1. /\ Q \in Seq(Requests) /\ Len(Q) = 2 + 3 * a
          /\ Q[1] = A[1] /\ Q[2] = A[2]
          /\ \A n \in 1..3 * a : Q[2 + n] = B[n]
      <3>1. 1 \in 1..Len(A) /\ 2 \in 1..Len(A)
        BY <1>2
      <3>2. A \in Seq(Requests) /\ B \in Seq(Requests)
        BY <1>2, <1>6
      <3>3. /\ Q \in Seq(Requests) /\ Len(Q) = Len(A) + Len(B)
            /\ \A n \in 1..Len(A) : Q[n] = A[n]
            /\ \A n \in 1..Len(B) : Q[Len(A) + n] = B[n]
        BY <3>2, ConcatParts
      <3> HIDE DEF Q
      <3> QED
        BY <1>2, <1>6, <3>1, <3>3, Zenon
    <2>2. P = Q \o C
      BY <1>8
    <2> HIDE DEF Q
    <2>3. /\ 1 \in 1..Len(Q) /\ 2 \in 1..Len(Q)
          /\ \A n \in 1..3 * a : 2 + n \in 1..Len(Q)
      BY <1>1, <2>1
    <2>4. /\ P \in Seq(Requests) /\ Len(P) = Len(Q) + Len(C)
          /\ \A n \in 1..Len(Q) : P[n] = Q[n]
          /\ \A n \in 1..Len(C) : P[Len(Q) + n] = C[n]
      <3>1. Q \in Seq(Requests) /\ C \in Seq(Requests)
        BY <1>3, <2>1
      <3> QED
        BY <2>2, <3>1, ConcatParts
    <2> QED
      BY <1>3, <2>1, <2>3, <2>4, Zenon
  <1>10. \A k \in 1..a :
           /\ P[3 * k] = Post(<<"source", ss[k]>>, {senders[ss[k]]})
           /\ P[3 * k + 1] = Post(<<"flow", ss[k]>>, {senders[ss[k]]})
           /\ P[3 * k + 2] = SenderPost(ss[k])
    <2> SUFFICES ASSUME NEW k \in 1..a
                 PROVE  /\ P[3 * k] = Post(<<"source", ss[k]>>, {senders[ss[k]]})
                        /\ P[3 * k + 1] = Post(<<"flow", ss[k]>>, {senders[ss[k]]})
                        /\ P[3 * k + 2] = SenderPost(ss[k])
      OBVIOUS
    <2>1. /\ 3 * k - 2 \in 1..3 * a /\ 3 * k - 1 \in 1..3 * a /\ 3 * k \in 1..3 * a
          /\ 2 + (3 * k - 2) = 3 * k /\ 2 + (3 * k - 1) = 3 * k + 1
          /\ 2 + 3 * k = 3 * k + 2
      BY <1>1
    <2>2. P[3 * k] = B[3 * k - 2] /\ P[3 * k + 1] = B[3 * k - 1] /\ P[3 * k + 2] = B[3 * k]
      BY <1>9, <2>1
    <2> QED
      BY <1>7, <2>2
  <1> QED
    BY <1>2, <1>3, <1>9, <1>10 DEF P, a, b

(* A full registration is right, complete and sends parents first.         *)
Complete(s, t, Q) == \A r \in WantedOf(s, t) : \E n \in DOMAIN Q : Q[n].res = r
ParentsFirst(Q) ==
  \A n \in DOMAIN Q : \A p \in Parents(Q[n].res) : \E m \in 1..n - 1 : Q[m].res = p

LEMMA FullContents ==
  ASSUME Tables, clock \in BOOLEAN,
         NEW ss \in InOrder({i \in Sources : senders[i] # 0}),
         NEW rs \in InOrder({j \in Sinks : receivers[j] # 0}),
         NEW P, P = FullPushes(ss, rs)
  PROVE  /\ P \in Seq(Requests)
         /\ \A n \in DOMAIN P : RightOf(senders, receivers, rewritten, P[n])
         /\ Complete(senders, receivers, P) /\ ParentsFirst(P)
  <1> DEFINE a == Len(ss)
             b == Len(rs)
             SS == {i \in Sources : senders[i] # 0}
             RS == {j \in Sinks : receivers[j] # 0}
  <1>1. IsFiniteSet(SS) /\ IsFiniteSet(RS)
    BY RegistrationConstants, FS_Subset
  <1>2. /\ ss \in Seq(SS) /\ a \in Nat /\ \A i \in SS : \E n \in 1..a : ss[n] = i
        /\ rs \in Seq(RS) /\ b \in Nat /\ \A j \in RS : \E n \in 1..b : rs[n] = j
    <2> HIDE DEF SS, RS
    <2>1. ss \in InOrder(SS) /\ rs \in InOrder(RS)
      BY DEF SS, RS
    <2> QED
      BY <1>1, <2>1, OrderIsSequence
  <1>3. ss \in Seq(Sources) /\ rs \in Seq(Sinks)
    BY <1>2
  <1>4. /\ \A k \in 1..a : ss[k] \in Sources /\ senders[ss[k]] # 0
        /\ \A k \in 1..b : rs[k] \in Sinks /\ receivers[rs[k]] # 0
    BY <1>2
  <1>5. /\ P \in Seq(Requests) /\ Len(P) = 2 + 3 * a + b
        /\ P[1] = PostNode /\ P[2] = PostDevice(senders, receivers)
        /\ \A k \in 1..a :
             /\ P[3 * k] = Post(<<"source", ss[k]>>, {senders[ss[k]]})
             /\ P[3 * k + 1] = Post(<<"flow", ss[k]>>, {senders[ss[k]]})
             /\ P[3 * k + 2] = SenderPost(ss[k])
        /\ \A k \in 1..b : P[2 + 3 * a + k] = ReceiverPost(rs[k], receivers, rewritten)
    BY <1>3, FullPlaces
  <1> HIDE DEF a, b, SS, RS
  <1>6. DOMAIN P = 1..(2 + 3 * a + b)
    BY <1>5
  <1>7. ASSUME NEW n \in DOMAIN P
        PROVE  \/ n = 1
               \/ n = 2
               \/ \E k \in 1..a : n = 3 * k \/ n = 3 * k + 1 \/ n = 3 * k + 2
               \/ \E k \in 1..b : n = 2 + 3 * a + k
    <2>1. CASE n \in 3..2 + 3 * a
      <3>1. n \div 3 \in 1..a
        BY <1>2, <2>1
      <3>2. n \in Nat
        BY <1>2, <2>1
      <3>3. PICK k \in 1..a : k = n \div 3
        BY <3>1
      <3>4. n = 3 * k \/ n = 3 * k + 1 \/ n = 3 * k + 2
        BY <3>2, <3>3
      <3> QED
        BY <3>4
    <2>2. CASE n > 2 + 3 * a
      <3>1. n - 2 - 3 * a \in 1..b /\ n = 2 + 3 * a + (n - 2 - 3 * a)
        BY <1>2, <1>6, <2>2
      <3> QED
        BY <3>1
    <2> QED
      BY <1>2, <1>6, <2>1, <2>2
  <1>8. ASSUME NEW n \in DOMAIN P
        PROVE  RightOf(senders, receivers, rewritten, P[n])
    <2>1. CASE n = 1
      BY <1>5, <2>1, WantedKinds DEF RightOf, Wanted, PostNode, Post
    <2>2. CASE n = 2
      BY <1>5, <2>2, WantedKinds, DocumentsRight DEF RightOf, Wanted, WantedDoc, PostDevice, Post
    <2>3. ASSUME NEW k \in 1..a, n \in {3 * k, 3 * k + 1, 3 * k + 2}
          PROVE  RightOf(senders, receivers, rewritten, P[n])
      <3> DEFINE i == ss[k]
      <3>1. i \in Sources /\ senders[i] # 0
        BY <1>4
      <3>2. \/ P[n] = Post(<<"source", i>>, {senders[i]})
            \/ P[n] = Post(<<"flow", i>>, {senders[i]})
            \/ P[n] = SenderPost(i)
        BY <1>5, <2>3
      <3> HIDE DEF i
      <3>3. ASSUME NEW x \in {<<"source", i>>, <<"flow", i>>, <<"sender", i>>},
                   NEW d, P[n] = Post(x, d), x \notin rewritten => d = {senders[i]}
            PROVE  RightOf(senders, receivers, rewritten, P[n])
        <4>1. x \in Wanted /\ WantedDoc(x) = {senders[i]}
          BY <3>1, WantedKinds, DocumentsRight
        <4> QED
          BY <3>3, <4>1 DEF RightOf, Wanted, WantedDoc, Post
      <3>4. CASE P[n] = SenderPost(i)
        <4>1. <<"sender", i>> \notin rewritten =>
                Held(<<"sender", i>>, senders[i], rewritten) = {senders[i]}
          BY DEF Held
        <4> QED
          BY <3>3, <3>4, <4>1 DEF SenderPost
      <3> QED
        BY <3>2, <3>3, <3>4
    <2>4. ASSUME NEW k \in 1..b, n = 2 + 3 * a + k
          PROVE  RightOf(senders, receivers, rewritten, P[n])
      <3> DEFINE j == rs[k]
      <3>1. j \in Sinks /\ receivers[j] # 0
        BY <1>4
      <3>2. P[n] = ReceiverPost(j, receivers, rewritten)
        BY <1>5, <2>4, Zenon
      <3>3. PICK d : /\ P[n] = Post(<<"receiver", j>>, d)
                     /\ <<"receiver", j>> \notin rewritten => d = {receivers[j]}
        BY <3>2 DEF ReceiverPost, Held
      <3> HIDE DEF j
      <3> QED
        BY <3>1, <3>3, WantedKinds, DocumentsRight DEF RightOf, Wanted, WantedDoc, Post
    <2> QED
      BY <1>7, <2>1, <2>2, <2>3, <2>4
  <1>9. /\ P[1].res = Node /\ P[2].res = Device
        /\ \A k \in 1..a : /\ P[3 * k].res = <<"source", ss[k]>>
                           /\ P[3 * k + 1].res = <<"flow", ss[k]>>
                           /\ P[3 * k + 2].res = <<"sender", ss[k]>>
        /\ \A k \in 1..b : P[2 + 3 * a + k].res = <<"receiver", rs[k]>>
    <2>1. \A x, d : Post(x, d).res = x
      BY DEF Post
    <2>2. P[1].res = Node /\ P[2].res = Device
      BY <1>5, <2>1 DEF PostNode, PostDevice
    <2>3. ASSUME NEW k \in 1..a
          PROVE  /\ P[3 * k].res = <<"source", ss[k]>>
                 /\ P[3 * k + 1].res = <<"flow", ss[k]>>
                 /\ P[3 * k + 2].res = <<"sender", ss[k]>>
      <3>1. /\ P[3 * k] = Post(<<"source", ss[k]>>, {senders[ss[k]]})
            /\ P[3 * k + 1] = Post(<<"flow", ss[k]>>, {senders[ss[k]]})
            /\ P[3 * k + 2] = SenderPost(ss[k])
        BY <1>5
      <3> QED
        BY <2>1, <3>1 DEF SenderPost
    <2>4. ASSUME NEW k \in 1..b
          PROVE  P[2 + 3 * a + k].res = <<"receiver", rs[k]>>
      <3>1. P[2 + 3 * a + k] = ReceiverPost(rs[k], receivers, rewritten)
        BY <1>5
      <3> QED
        BY <2>1, <3>1 DEF ReceiverPost
    <2> QED
      BY <2>2, <2>3, <2>4
  <1>10. ASSUME NEW r \in Wanted
         PROVE  \E n \in DOMAIN P : P[n].res = r
    <2>1. CASE r \in {Node, Device}
      <3>1. 1 \in DOMAIN P /\ 2 \in DOMAIN P
        BY <1>2, <1>6
      <3> QED
        BY <1>9, <2>1, <3>1, Zenon
    <2>2. ASSUME NEW i \in Sources, r \in {<<"source", i>>, <<"flow", i>>, <<"sender", i>>}
          PROVE  \E n \in DOMAIN P : P[n].res = r
      <3>1. senders[i] # 0
        BY <2>2, WantedKinds
      <3>2. PICK k \in 1..a : ss[k] = i
        BY <1>2, <3>1 DEF SS
      <3>3. 3 * k \in DOMAIN P /\ 3 * k + 1 \in DOMAIN P /\ 3 * k + 2 \in DOMAIN P
        BY <1>2, <1>6
      <3> QED
        BY <1>9, <2>2, <3>2, <3>3
    <2>3. ASSUME NEW j \in Sinks, r = <<"receiver", j>>
          PROVE  \E n \in DOMAIN P : P[n].res = r
      <3>1. receivers[j] # 0
        BY <2>3, WantedKinds
      <3>2. PICK k \in 1..b : rs[k] = j
        BY <1>2, <3>1 DEF RS
      <3>3. 2 + 3 * a + k \in DOMAIN P
        BY <1>2, <1>6
      <3> QED
        BY <1>9, <2>3, <3>2, <3>3
    <2> QED
      BY <2>1, <2>2, <2>3, ResourceKinds, WantedKinds
  <1>11. ASSUME NEW n \in DOMAIN P, NEW p \in Parents(P[n].res)
         PROVE  \E m \in 1..n - 1 : P[m].res = p
    <2>1. CASE n = 1
      BY <1>9, <1>11, <2>1, ParentKinds
    <2>2. CASE n = 2
      BY <1>9, <1>11, <2>2, ParentKinds
    <2>3. ASSUME NEW k \in 1..a, n \in {3 * k, 3 * k + 1, 3 * k + 2}
          PROVE  \E m \in 1..n - 1 : P[m].res = p
      <3>1. /\ 2 \in 1..n - 1
            /\ n # 3 * k => 3 * k \in 1..n - 1
            /\ n = 3 * k + 2 => 3 * k + 1 \in 1..n - 1
        BY <1>2, <2>3
      <3>2. \/ p = Device
            \/ n = 3 * k + 1 /\ p = <<"source", ss[k]>>
            \/ n = 3 * k + 2 /\ p = <<"flow", ss[k]>>
        <4>1. CASE n = 3 * k
          <5>1. P[n].res = <<"source", ss[k]>>
            BY <1>9, <4>1
          <5> QED
            BY <1>11, <4>1, <5>1, ParentKinds
        <4>2. CASE n = 3 * k + 1
          <5>1. P[n].res = <<"flow", ss[k]>>
            BY <1>9, <4>2
          <5> QED
            BY <1>11, <4>2, <5>1, ParentKinds
        <4>3. CASE n = 3 * k + 2
          <5>1. P[n].res = <<"sender", ss[k]>>
            BY <1>9, <4>3
          <5> QED
            BY <1>11, <4>3, <5>1, ParentKinds
        <4> QED
          BY <2>3, <4>1, <4>2, <4>3
      <3>3. n = 3 * k + 1 => n # 3 * k
        BY <1>2, <2>3
      <3> QED
        BY <1>9, <3>1, <3>2, <3>3
    <2>4. ASSUME NEW k \in 1..b, n = 2 + 3 * a + k
          PROVE  \E m \in 1..n - 1 : P[m].res = p
      <3>1. 2 \in 1..n - 1
        BY <1>2, <2>4
      <3>2. p = Device
        BY <1>9, <1>11, <2>4, ParentKinds
      <3> QED
        BY <1>9, <3>1, <3>2
    <2> QED
      BY <1>7, <2>1, <2>2, <2>3, <2>4
  <1> QED
    BY <1>5, <1>8, <1>10, <1>11 DEF Wanted, Complete, ParentsFirst

-----------------------------------------------------------------------------
(* Types.                                                                  *)

Bounds == unseen \subseteq {i \in Sources : source[i] = 0} /\ upsets \in 0..MaxUpsets

WorkerOK ==
  /\ discovered \in BOOLEAN /\ clock \in BOOLEAN
  /\ pc \in {"full", "sources", "sinks", "push", "top", "drain", "node", "done"}
  /\ back \in {"top", "drain", "node", "done"} /\ (back = "done" => pc \in {"push", "done"})
  /\ pc \notin {"sources", "sinks"} => todo = {}
  /\ pc # "push" => pushes = <<>>
  /\ pushes \in Seq(Requests)

NetworkOK ==
  /\ DOMAIN registry = Registries
  /\ \A g \in Registries : DOMAIN registry[g] \subseteq Resources
  /\ trusted \subseteq Registries /\ rejected \in BOOLEAN

RewrittenOK == rewritten \subseteq Listed(senders, receivers)

TInv == IInv /\ Bounds /\ WorkerOK /\ NetworkOK /\ RewrittenOK

(* The id of an event is one of the table its type goes with.              *)
LEMMA EventId ==
  ASSUME events \in Seq(EventSet), events # <<>>
  PROVE  /\ Head(events)[1] \in SourceEvents => Head(events)[2] \in Sources
         /\ Head(events)[1] \in SinkEvents => Head(events)[2] \in Sinks
  <1>1. Head(events) \in EventSet
    OBVIOUS
  <1> QED
    BY <1>1, EventParts

LEMMA BuiltTyped ==
  ASSUME NEW S, NEW t \in [S -> Nat], NEW i \in S, NEW v \in Nat
  PROVE  /\ Built(t, i, v) \in [S -> Nat]
         /\ \A k \in S : Built(t, i, v)[k] = IF k = i /\ v # 0 THEN v ELSE t[k]
  BY DEF Built

(* Counters and flags, then the worker, then the registries.               *)
LEMMA BoundsStep ==
  ASSUME TInv, [Next]_vars
  PROVE  Bounds'
  <1>1. Bounds /\ source \in [Sources -> Nat] /\ enabled \subseteq {i \in Sources : source[i] # 0}
    BY DEF TInv, IInv, Shape
  <1>2. MaxUpsets \in Nat
    BY RegistrationConstants
  <1>3. CASE \E i \in Sources, en \in BOOLEAN : AddSource(i, en)
    BY <1>1, <1>2, <1>3 DEF AddSource, Upset, Bounds
  <1>4. CASE \E i \in Sources : RemoveSource(i)
    BY <1>1, <1>2, <1>4 DEF RemoveSource, Upset, Bounds
  <1>5. ASSUME Upset \/ UNCHANGED upsets, UNCHANGED <<source, unseen>>
        PROVE  Bounds'
    BY <1>1, <1>2, <1>5 DEF Upset, Bounds
  <1>6. CASE \E j \in Sinks : AddSink(j) \/ RemoveSink(j)
    BY <1>5, <1>6 DEF AddSink, RemoveSink
  <1>7. CASE \/ RegistryResolved \/ RegistryRemoved \/ ClockFlips \/ Stop
             \/ \E g \in Registries : Forget(g)
             \/ \E i \in Sources : ActivateSender(i)
             \/ \E j \in Sinks : ActivateReceiver(j)
    BY <1>5, <1>7 DEF RegistryResolved, RegistryRemoved, ClockFlips, Stop, Forget,
                      ActivateSender, ActivateReceiver, manager
  <1>8. CASE Full
    BY <1>5, <1>8 DEF Full, BeginFull, SnapshotSinks, Collect, SyncSource, SyncSink, manager
  <1>9. CASE Push \/ Pushed \/ Enter \/ Drained
    BY <1>5, <1>9 DEF Push, Arrives, Lost, Pushed, Enter, Drained, manager
  <1>10. CASE Handle
    BY <1>5, <1>10 DEF Handle, HandleSourceAdded, HandleSourceRemoved, HandleSinkAdded,
                       HandleSinkRemoved, HandleRegistryUpdated, HandleRegistryLost, manager
  <1>11. CASE Heartbeat
    BY <1>5, <1>11 DEF Heartbeat, HeartbeatForgotten, HeartbeatHeard, HeartbeatLost,
                       RefreshNode, manager
  <1>12. CASE UNCHANGED vars
    BY <1>5, <1>12 DEF vars
  <1> QED
    BY <1>3, <1>4, <1>6, <1>7, <1>8, <1>9, <1>10, <1>11, <1>12 DEF Next, Worker, Environment

LEMMA WorkerStep ==
  ASSUME TInv, [Next]_vars
  PROVE  WorkerOK'
  <1>1. /\ WorkerOK /\ Tables /\ events \in Seq(EventSet)
        /\ source \in [Sources -> Nat] /\ sink \in [Sinks -> Nat]
    BY DEF TInv, IInv, Shape, Tables
  <1>2. <<>> \in Seq(Requests)
    OBVIOUS
  <1>3. CASE Environment
    <2>1. UNCHANGED <<pc, back, todo, pushes>>
      BY <1>3 DEF Environment, AddSource, RemoveSource, AddSink, RemoveSink,
         RegistryResolved, RegistryRemoved, Forget, ClockFlips, Stop,
         ActivateSender, ActivateReceiver, worker
    <2>2. UNCHANGED discovered \/ discovered' = TRUE \/ discovered' = FALSE
      BY <1>3 DEF Environment, AddSource, RemoveSource, AddSink, RemoveSink,
         RegistryResolved, RegistryRemoved, Forget, ClockFlips, Stop,
         ActivateSender, ActivateReceiver
    <2>3. UNCHANGED clock \/ clock' = ~clock
      BY <1>3 DEF Environment, AddSource, RemoveSource, AddSink, RemoveSink,
         RegistryResolved, RegistryRemoved, Forget, ClockFlips, Stop,
         ActivateSender, ActivateReceiver
    <2>4. discovered' \in BOOLEAN
      BY <1>1, <2>2 DEF WorkerOK
    <2>5. clock' \in BOOLEAN
      BY <1>1, <2>3 DEF WorkerOK
    <2> QED
      BY <1>1, <2>1, <2>4, <2>5 DEF WorkerOK
  <1>4. CASE \/ BeginFull \/ SnapshotSinks
             \/ \E i \in Sources : SyncSource(i)
             \/ \E j \in Sinks : SyncSink(j)
    BY <1>1, <1>4 DEF WorkerOK, BeginFull, SnapshotSinks, SyncSource, SyncSink
  <1>5. CASE Collect
    <2>1. pushes' \in Seq(Requests)
      BY <1>1, <1>5, FullContents DEF Collect, WorkerOK
    <2> QED
      BY <1>1, <1>5, <2>1 DEF WorkerOK, Collect
  <1>6. CASE Push
    BY <1>1, <1>6 DEF WorkerOK, Push
  <1>7. CASE Pushed \/ Drained \/ HandleRegistryUpdated \/ HandleRegistryLost
             \/ HeartbeatForgotten \/ HeartbeatHeard \/ HeartbeatLost
    BY <1>1, <1>7 DEF WorkerOK, Pushed, Drained, HandleRegistryUpdated, HandleRegistryLost,
       HeartbeatForgotten, HeartbeatHeard, HeartbeatLost, Pop, worker
  <1>8. CASE Enter
    <2>1. Delete(Node) \in Requests
      BY <1>1, RequestsTyped, AreResources DEF WorkerOK, Tables
    <2>2. <<Delete(Node)>> \in Seq(Requests)
      BY <2>1
    <2> QED
      BY <1>1, <1>2, <1>8, <2>2 DEF WorkerOK, Enter
  <1>9. CASE RefreshNode
    <2>1. PostNode \in Requests
      BY <1>1, RequestsTyped DEF WorkerOK, Tables
    <2>2. <<PostNode>> \in Seq(Requests)
      BY <2>1
    <2> QED
      BY <1>1, <1>9, <2>2 DEF WorkerOK, RefreshNode
  <1>10. ASSUME pc = "drain", pc' = "push", back' = "drain", pushes' \in Seq(Requests),
                UNCHANGED <<todo, discovered, clock>>
         PROVE  WorkerOK'
    BY <1>1, <1>10 DEF WorkerOK
  <1>11. CASE HandleSourceAdded
    <2> DEFINE i == Head(events)[2]
               s == Built(senders, i, source[i])
               w == Fresh(<<"sender", i>>, source[i])
    <2>1. i \in Sources
      BY <1>1, <1>11, EventId DEF HandleSourceAdded, Pop, SourceEvents
    <2>2. s \in [Sources -> Nat]
      <3>1. senders \in [Sources -> Nat] /\ source[i] \in Nat
        BY <1>1, <2>1 DEF Tables
      <3> HIDE DEF i
      <3> QED
        BY <2>1, <3>1, BuiltTyped
    <2> HIDE DEF s, i, w
    <2>3. Append(SourcePosts(i, s, w), PostDevice(s, receivers)) \in Seq(Requests)
      <3>1. /\ PostDevice(s, receivers) \in Requests
            /\ Post(<<"source", i>>, {s[i]}) \in Requests
            /\ Post(<<"flow", i>>, {s[i]}) \in Requests
            /\ Post(<<"sender", i>>, Held(<<"sender", i>>, s[i], w)) \in Requests
        BY <1>1, <2>1, <2>2, RequestsTyped DEF WorkerOK, Tables
      <3>2. SourcePosts(i, s, w) \in Seq(Requests)
        BY <3>1 DEF SourcePosts
      <3> QED
        BY <3>1, <3>2
    <2>4. pushes' \in Seq(Requests)
      BY <1>2, <1>11, <2>3 DEF HandleSourceAdded, i, s, w
    <2> QED
      BY <1>10, <1>11, <2>4 DEF HandleSourceAdded, Pop
  <1>12. CASE HandleSourceRemoved
    <2> DEFINE i == Head(events)[2]
               s == [senders EXCEPT ![i] = 0]
    <2>1. i \in Sources
      BY <1>1, <1>12, EventId DEF HandleSourceRemoved, Pop, SourceEvents
    <2>2. s \in [Sources -> Nat]
      BY <1>1, <2>1 DEF Tables
    <2> HIDE DEF s, i
    <2>3. <<PostDevice(s, receivers), Delete(<<"sender", i>>),
            Delete(<<"flow", i>>), Delete(<<"source", i>>)>> \in Seq(Requests)
      <3>1. /\ PostDevice(s, receivers) \in Requests /\ Delete(<<"sender", i>>) \in Requests
            /\ Delete(<<"flow", i>>) \in Requests /\ Delete(<<"source", i>>) \in Requests
        BY <1>1, <2>1, <2>2, RequestsTyped, AreResources DEF WorkerOK, Tables
      <3> QED
        BY <3>1
    <2>4. pushes' \in Seq(Requests)
      BY <1>2, <1>12, <2>3 DEF HandleSourceRemoved, i, s
    <2> QED
      BY <1>10, <1>12, <2>4 DEF HandleSourceRemoved, Pop
  <1>13. CASE HandleSinkAdded
    <2> DEFINE j == Head(events)[2]
               r == Built(receivers, j, sink[j])
               w == Fresh(<<"receiver", j>>, sink[j])
    <2>1. j \in Sinks
      BY <1>1, <1>13, EventId DEF HandleSinkAdded, Pop, SinkEvents
    <2>2. r \in [Sinks -> Nat]
      <3>1. receivers \in [Sinks -> Nat] /\ sink[j] \in Nat
        BY <1>1, <2>1 DEF Tables
      <3> HIDE DEF j
      <3> QED
        BY <2>1, <3>1, BuiltTyped
    <2> HIDE DEF r, j, w
    <2>3. <<ReceiverPost(j, r, w), PostDevice(senders, r)>> \in Seq(Requests)
      <3>1. ReceiverPost(j, r, w) \in Requests /\ PostDevice(senders, r) \in Requests
        BY <1>1, <2>1, <2>2, RequestsTyped DEF WorkerOK, Tables
      <3> QED
        BY <3>1
    <2>4. pushes' \in Seq(Requests)
      BY <1>2, <1>13, <2>3 DEF HandleSinkAdded, j, r, w
    <2> QED
      BY <1>10, <1>13, <2>4 DEF HandleSinkAdded, Pop
  <1>14. CASE HandleSinkRemoved
    <2> DEFINE j == Head(events)[2]
               r == [receivers EXCEPT ![j] = 0]
    <2>1. j \in Sinks
      BY <1>1, <1>14, EventId DEF HandleSinkRemoved, Pop, SinkEvents
    <2>2. r \in [Sinks -> Nat]
      BY <1>1, <2>1 DEF Tables
    <2> HIDE DEF r, j
    <2>3. <<PostDevice(senders, r), Delete(<<"receiver", j>>)>> \in Seq(Requests)
      <3>1. PostDevice(senders, r) \in Requests /\ Delete(<<"receiver", j>>) \in Requests
        BY <1>1, <2>1, <2>2, RequestsTyped, AreResources DEF WorkerOK, Tables
      <3> QED
        BY <3>1
    <2>4. pushes' \in Seq(Requests)
      BY <1>2, <1>14, <2>3 DEF HandleSinkRemoved, j, r
    <2> QED
      BY <1>10, <1>14, <2>4 DEF HandleSinkRemoved, Pop
  <1>15. CASE UNCHANGED vars
    BY <1>1, <1>15 DEF WorkerOK, vars
  <1>16. CASE Full
    BY <1>4, <1>5, <1>16 DEF Full
  <1>17. CASE Handle
    BY <1>7, <1>11, <1>12, <1>13, <1>14, <1>17 DEF Handle
  <1>18. CASE Heartbeat
    BY <1>7, <1>9, <1>18 DEF Heartbeat
  <1> QED
    BY <1>3, <1>6, <1>7, <1>8, <1>15, <1>16, <1>17, <1>18 DEF Next, Worker

(* What a request does to the registry it is sent to.                      *)
LEMMA ArrivesParts ==
  ASSUME DOMAIN registry = Registries, NEW req \in Requests, Arrives(req)
  PROVE  LET g == Effective
         IN  /\ g \in Registries /\ DOMAIN registry' = Registries
             /\ trusted' = trusted \cap {g}
             /\ \A h \in Registries : h # g => registry'[h] = registry[h]
             /\ ~Accepts(g, req) => registry' = registry
             /\ Accepts(g, req) /\ req.op = "POST" =>
                  registry'[g] = Put(registry[g], req.res, req.doc)
             /\ req.op = "DELETE" =>
                  Accepts(g, req) /\ registry'[g] = Drop(registry[g], req.res)
             /\ rejected' = (rejected \/ (g \in trusted /\ ~Accepts(g, req)))
  <1> DEFINE g == Effective
  <1>1. g \in Registries
    BY DEF Effective, Registries
  <1>2. /\ registry' = IF ~Accepts(g, req) THEN registry
                       ELSE [registry EXCEPT ![g] = IF req.op = "POST"
                                                    THEN Put(@, req.res, req.doc)
                                                    ELSE Drop(@, req.res)]
        /\ trusted' = trusted \cap {g}
        /\ rejected' = (rejected \/ (g \in trusted /\ ~Accepts(g, req)))
    BY DEF Arrives
  <1>3. req.op = "DELETE" => Accepts(g, req)
    BY DEF Accepts
  <1> HIDE DEF g
  <1>4. /\ DOMAIN registry' = Registries
        /\ \A h \in Registries : h # g => registry'[h] = registry[h]
        /\ ~Accepts(g, req) => registry' = registry
    BY <1>1, <1>2
  <1>5. Accepts(g, req) /\ req.op = "POST" =>
          registry'[g] = Put(registry[g], req.res, req.doc)
    BY <1>1, <1>2
  <1>6. Accepts(g, req) /\ req.op = "DELETE" => registry'[g] = Drop(registry[g], req.res)
    BY <1>1, <1>2
  <1> QED
    BY <1>1, <1>2, <1>3, <1>4, <1>5, <1>6, Zenon DEF g

LEMMA NetworkStep ==
  ASSUME TInv, [Next]_vars
  PROVE  NetworkOK'
  <1>1. NetworkOK /\ pushes \in Seq(Requests)
    BY DEF TInv, WorkerOK
  <1>2. \A g \in Registries : DOMAIN registry[g] \subseteq Resources
    BY <1>1 DEF NetworkOK
  <1>3. ASSUME DOMAIN registry' = Registries,
               \A g \in Registries : DOMAIN registry'[g] \subseteq Resources,
               trusted' \subseteq Registries, rejected' \in BOOLEAN
        PROVE  NetworkOK'
    BY <1>3 DEF NetworkOK
  <1>4. CASE UNCHANGED network
    BY <1>1, <1>4 DEF NetworkOK, network
  <1>5. CASE Collect
    <2>1. trusted' \subseteq trusted \cup {Effective} /\ UNCHANGED <<registry, rejected>>
      BY <1>5 DEF Collect
    <2>2. Effective \in Registries
      BY DEF Effective, Registries
    <2> QED
      BY <1>1, <2>1, <2>2 DEF NetworkOK
  <1>6. CASE \E g \in Registries : Forget(g)
    <2>1. PICK g \in Registries : Forget(g)
      BY <1>6
    <2>2. DOMAIN <<>> = {}
      OBVIOUS
    <2>3. /\ registry' = [registry EXCEPT ![g] = <<>>] /\ trusted' = trusted \ {g}
          /\ rejected' = rejected
      BY <2>1 DEF Forget
    <2>4. DOMAIN registry' = Registries /\ \A h \in Registries : DOMAIN registry'[h] \subseteq Resources
      BY <1>1, <1>2, <2>2, <2>3 DEF NetworkOK
    <2> QED
      BY <1>1, <1>3, <2>3, <2>4 DEF NetworkOK
  <1>7. CASE Push
    <2> DEFINE req == Head(pushes)
    <2>1. CASE Lost
      BY <1>1, <2>1 DEF NetworkOK, Lost
    <2>2. CASE Arrives(req)
      <3>1. req \in Requests /\ req.res \in Resources /\ req.op \in {"POST", "DELETE"}
        <4>1. req \in Requests
          BY <1>1, <1>7 DEF Push
        <4> QED
          BY <4>1 DEF Requests
      <3> DEFINE g == Effective
      <3>2. DOMAIN registry = Registries
        BY <1>1 DEF NetworkOK
      <3> HIDE DEF req
      <3>3. /\ g \in Registries /\ DOMAIN registry' = Registries
            /\ trusted' = trusted \cap {g}
            /\ \A h \in Registries : h # g => registry'[h] = registry[h]
            /\ ~Accepts(g, req) => registry' = registry
            /\ Accepts(g, req) /\ req.op = "POST" =>
                 registry'[g] = Put(registry[g], req.res, req.doc)
            /\ req.op = "DELETE" =>
                 Accepts(g, req) /\ registry'[g] = Drop(registry[g], req.res)
            /\ rejected' = (rejected \/ (g \in trusted /\ ~Accepts(g, req)))
        BY <2>2, <3>1, <3>2, ArrivesParts
      <3> HIDE DEF g
      <3>5. DOMAIN registry'[g] \subseteq Resources
        <4>1. CASE ~Accepts(g, req)
          BY <1>2, <3>3, <4>1
        <4>2. CASE Accepts(g, req) /\ req.op = "POST"
          BY <1>2, <3>1, <3>3, <4>2 DEF Put
        <4>3. CASE req.op = "DELETE"
          BY <1>2, <3>1, <3>3, <4>3 DEF Drop
        <4> QED
          BY <3>1, <4>1, <4>2, <4>3
      <3>6. \A h \in Registries : DOMAIN registry'[h] \subseteq Resources
        BY <1>2, <3>3, <3>5
      <3>7. rejected' \in BOOLEAN
        BY <3>3, Zenon
      <3> QED
        BY <1>1, <1>3, <3>3, <3>6, <3>7 DEF NetworkOK
    <2> QED
      BY <1>7, <2>1, <2>2 DEF Push
  <1>8. CASE Environment
    BY <1>4, <1>6, <1>8 DEF Environment, AddSource, RemoveSource, AddSink, RemoveSink,
       RegistryResolved, RegistryRemoved, ClockFlips, Stop, ActivateSender, ActivateReceiver
  <1>9. CASE Full
    BY <1>4, <1>5, <1>9 DEF Full, BeginFull, SnapshotSinks, SyncSource, SyncSink
  <1>10. CASE Handle
    BY <1>4, <1>10 DEF Handle, HandleSourceAdded, HandleSourceRemoved, HandleSinkAdded,
       HandleSinkRemoved, HandleRegistryUpdated, HandleRegistryLost
  <1>11. CASE Heartbeat
    BY <1>4, <1>11 DEF Heartbeat, HeartbeatForgotten, HeartbeatHeard, HeartbeatLost, RefreshNode
  <1>12. CASE Pushed \/ Enter \/ Drained
    BY <1>4, <1>12 DEF Pushed, Enter, Drained
  <1>13. CASE UNCHANGED vars
    BY <1>4, <1>13 DEF vars, network
  <1> QED
    BY <1>7, <1>8, <1>9, <1>10, <1>11, <1>12, <1>13 DEF Next, Worker

(* Only an entry can have been rewritten: what takes an entry away, or     *)
(* builds it anew, takes the mark with it.                                 *)
LEMMA ListedKinds ==
  ASSUME NEW s, NEW t
  PROVE  /\ Listed(s, t) \subseteq ({"sender"} \X Sources) \cup ({"receiver"} \X Sinks)
         /\ \A i \in Sources : <<"sender", i>> \in Listed(s, t) <=> s[i] # 0
         /\ \A j \in Sinks : <<"receiver", j>> \in Listed(s, t) <=> t[j] # 0
  BY DEF Listed

LEMMA RewrittenStep ==
  ASSUME TInv, [Next]_vars
  PROVE  RewrittenOK'
  <1>1. /\ rewritten \subseteq Listed(senders, receivers) /\ events \in Seq(EventSet)
        /\ source \in [Sources -> Nat] /\ senders \in [Sources -> Nat]
        /\ sink \in [Sinks -> Nat] /\ receivers \in [Sinks -> Nat]
    BY DEF TInv, IInv, Shape, RewrittenOK
  <1>2. CASE UNCHANGED <<senders, receivers, rewritten>>
    BY <1>1, <1>2 DEF RewrittenOK
  <1>3. ASSUME NEW i \in Sources, UNCHANGED receivers, senders' \in [Sources -> Nat],
               \A k \in Sources : k # i => senders'[k] = senders[k],
               \/ rewritten' = rewritten \ {<<"sender", i>>}
               \/ rewritten' \subseteq rewritten /\ senders'[i] = senders[i]
        PROVE  RewrittenOK'
    <2>1. ASSUME NEW r \in rewritten'
          PROVE  r \in Listed(senders', receivers')
      <3>1. r \in Listed(senders, receivers)
        BY <1>1, <1>3
      <3>2. CASE \E k \in Sources : r = <<"sender", k>>
        <4>1. PICK k \in Sources : r = <<"sender", k>>
          BY <3>2
        <4>2. senders[k] # 0 /\ senders'[k] = senders[k]
          BY <1>3, <3>1, <4>1, ListedKinds
        <4> QED
          BY <4>1, <4>2, ListedKinds
      <3>3. CASE \E j \in Sinks : r = <<"receiver", j>>
        BY <1>3, <3>1, <3>3, ListedKinds
      <3> QED
        BY <3>1, <3>2, <3>3, ListedKinds
    <2> QED
      BY <2>1 DEF RewrittenOK
  <1>4. ASSUME NEW j \in Sinks, UNCHANGED senders, receivers' \in [Sinks -> Nat],
               \A k \in Sinks : k # j => receivers'[k] = receivers[k],
               \/ rewritten' = rewritten \ {<<"receiver", j>>}
               \/ rewritten' \subseteq rewritten /\ receivers'[j] = receivers[j]
        PROVE  RewrittenOK'
    <2>1. ASSUME NEW r \in rewritten'
          PROVE  r \in Listed(senders', receivers')
      <3>1. r \in Listed(senders, receivers)
        BY <1>1, <1>4
      <3>2. CASE \E k \in Sinks : r = <<"receiver", k>>
        <4>1. PICK k \in Sinks : r = <<"receiver", k>>
          BY <3>2
        <4>2. receivers[k] # 0 /\ receivers'[k] = receivers[k]
          BY <1>4, <3>1, <4>1, ListedKinds
        <4> QED
          BY <4>1, <4>2, ListedKinds
      <3>3. CASE \E i \in Sources : r = <<"sender", i>>
        BY <1>4, <3>1, <3>3, ListedKinds
      <3> QED
        BY <3>1, <3>2, <3>3, ListedKinds
    <2> QED
      BY <2>1 DEF RewrittenOK
  <1>5. ASSUME NEW i \in Sources, UNCHANGED receivers,
               senders' = Built(senders, i, source[i]),
               rewritten' = Fresh(<<"sender", i>>, source[i])
        PROVE  RewrittenOK'
    BY <1>1, <1>3, <1>5 DEF Built, Fresh
  <1>6. ASSUME NEW j \in Sinks, UNCHANGED senders,
               receivers' = Built(receivers, j, sink[j]),
               rewritten' = Fresh(<<"receiver", j>>, sink[j])
        PROVE  RewrittenOK'
    BY <1>1, <1>4, <1>6 DEF Built, Fresh
  <1>7. CASE \E i \in Sources : SyncSource(i)
    BY <1>5, <1>7 DEF SyncSource
  <1>8. CASE \E j \in Sinks : SyncSink(j)
    BY <1>6, <1>8 DEF SyncSink
  <1>9. CASE HandleSourceAdded
    <2>1. Head(events)[2] \in Sources
      BY <1>1, <1>9, EventId DEF HandleSourceAdded, Pop, SourceEvents
    <2> QED
      BY <1>5, <1>9, <2>1 DEF HandleSourceAdded
  <1>10. CASE HandleSourceRemoved
    <2>1. Head(events)[2] \in Sources
      BY <1>1, <1>10, EventId DEF HandleSourceRemoved, Pop, SourceEvents
    <2> QED
      BY <1>1, <1>3, <1>10, <2>1 DEF HandleSourceRemoved
  <1>11. CASE HandleSinkAdded
    <2>1. Head(events)[2] \in Sinks
      BY <1>1, <1>11, EventId DEF HandleSinkAdded, Pop, SinkEvents
    <2> QED
      BY <1>6, <1>11, <2>1 DEF HandleSinkAdded
  <1>12. CASE HandleSinkRemoved
    <2>1. Head(events)[2] \in Sinks
      BY <1>1, <1>12, EventId DEF HandleSinkRemoved, Pop, SinkEvents
    <2> QED
      BY <1>1, <1>4, <1>12, <2>1 DEF HandleSinkRemoved
  <1>13. CASE \E i \in Sources : ActivateSender(i)
    BY <1>1, <1>13, ListedKinds DEF ActivateSender, RewrittenOK
  <1>14. CASE \E j \in Sinks : ActivateReceiver(j)
    BY <1>1, <1>14, ListedKinds DEF ActivateReceiver, RewrittenOK
  <1>15. CASE \/ \E i \in Sources : RemoveSource(i) \/ \E en \in BOOLEAN : AddSource(i, en)
              \/ \E j \in Sinks : AddSink(j) \/ RemoveSink(j)
              \/ RegistryResolved \/ RegistryRemoved \/ ClockFlips \/ Stop
              \/ \E g \in Registries : Forget(g)
    BY <1>2, <1>15 DEF RemoveSource, AddSource, AddSink, RemoveSink, RegistryResolved,
       RegistryRemoved, ClockFlips, Stop, Forget
  <1>16. CASE BeginFull \/ SnapshotSinks \/ Collect \/ Push \/ Pushed \/ Enter \/ Drained
              \/ HandleRegistryUpdated \/ HandleRegistryLost \/ Heartbeat
    BY <1>2, <1>16 DEF BeginFull, SnapshotSinks, Collect, Push, Pushed, Enter, Drained,
       HandleRegistryUpdated, HandleRegistryLost, Heartbeat, HeartbeatForgotten,
       HeartbeatHeard, HeartbeatLost, RefreshNode
  <1>17. CASE UNCHANGED vars
    BY <1>2, <1>17 DEF vars
  <1> QED
    BY <1>7, <1>8, <1>9, <1>10, <1>11, <1>12, <1>13, <1>14, <1>15, <1>16, <1>17
       DEF Next, Worker, Environment, Full, Handle

LEMMA TInvInit == Init => TInv
  <1> SUFFICES ASSUME Init PROVE TInv
    OBVIOUS
  <1>1. Bounds
    BY RegistrationConstants DEF Init, Bounds
  <1>2. WorkerOK
    <2>1. discovered \in BOOLEAN /\ clock \in BOOLEAN
      BY Zenon DEF Init
    <2>2. /\ pc = "full" /\ back = "top" /\ todo = {} /\ pushes = <<>>
          /\ pushes \in Seq(Requests)
      BY DEF Init
    <2> QED
      BY <2>1, <2>2 DEF WorkerOK
  <1>3. NetworkOK
    <2>1. rejected \in BOOLEAN
      BY Zenon DEF Init
    <2>2. /\ DOMAIN registry = Registries /\ trusted = {}
          /\ \A g \in Registries : DOMAIN registry[g] = {}
      BY DEF Init
    <2> QED
      BY <2>1, <2>2 DEF NetworkOK
  <1>4. RewrittenOK
    BY DEF Init, RewrittenOK
  <1> QED
    BY <1>1, <1>2, <1>3, <1>4, InitIInv DEF TInv

LEMMA TInvNext == TInv /\ [Next]_vars => TInv'
  BY BoundsStep, WorkerStep, NetworkStep, RewrittenStep, NextIInv DEF TInv

-----------------------------------------------------------------------------
(* A registry that has missed nothing.                                     *)

SettledOf(s, t, w, held, r) ==
  IF r \in WantedOf(s, t)
  THEN r \in DOMAIN held /\ (r # Node /\ r \notin w => held[r] = DocOf(s, t, r))
  ELSE r \notin DOMAIN held

(* What no request of Q is about is already as it should be; what a        *)
(* document refers to is there or is sent before it, and what refers to a  *)
(* resource is not there or is dealt with before the resource is deleted.  *)
SettlingOf(s, t, w, Q, held) ==
  /\ \A r \in Resources : (\A n \in DOMAIN Q : Q[n].res # r) => SettledOf(s, t, w, held, r)
  /\ \A n \in DOMAIN Q : Q[n].op = "POST" =>
       \A p \in Parents(Q[n].res) : p \in DOMAIN held \/ \E m \in 1..n - 1 : Q[m].res = p
  /\ \A n \in DOMAIN Q : Q[n].op = "DELETE" =>
       \A r \in DOMAIN held : Q[n].res \in Parents(r) => \E m \in 1..n - 1 : Q[m].res = r

AllSettled(s, t, w, held) == \A r \in Resources : SettledOf(s, t, w, held, r)

Settling(g) == SettlingOf(senders, receivers, rewritten, pushes, registry[g])

(* Every resource is there with all it refers to.                          *)
Family(held) == \A r \in DOMAIN held : Parents(r) \subseteq DOMAIN held

(* Between operations a registry that has missed nothing is current; while *)
(* a full registration collects, it holds nothing that is not wanted; and  *)
(* while requests are sent, they settle all that is not settled yet.  The  *)
(* last request of all deletes the node.                                   *)
RInv ==
  /\ ~rejected
  /\ \A g \in trusted : Family(registry[g])
  /\ Between => \A g \in trusted : Current(g)
  /\ pc \in {"full", "sources", "sinks"} =>
       \A g \in trusted : DOMAIN registry[g] \subseteq Wanted
  /\ pc = "push" /\ back # "done" =>
       /\ \A n \in DOMAIN pushes : Right(pushes[n])
       /\ \A g \in trusted : Settling(g)
  /\ pc = "push" /\ back = "done" => \A n \in DOMAIN pushes : pushes[n] = Delete(Node)

(* Current says that everything is settled.                                *)
LEMMA CurrentSettled ==
  ASSUME Tables, RewrittenOK, NEW g, DOMAIN registry[g] \subseteq Resources
  PROVE  Current(g) <=> AllSettled(senders, receivers, rewritten, registry[g])
  <1>1. Current(g) <=> /\ DOMAIN registry[g] = Wanted
                       /\ \A r \in Wanted \ {Node} :
                            registry[g][r] = WantedDoc(r) \/ r \in rewritten
    <2>1. Device \in Wanted /\ Device # Node
      BY WantedKinds, KindsApart
    <2>2. Current(g) <=>
            /\ DOMAIN registry[g] = Wanted
            /\ registry[g][Device] = Listed(senders, receivers)
            /\ \A r \in DOMAIN registry[g] \ {Node, Device} :
                 \/ registry[g][r] = {IF r[1] = "receiver" THEN receivers[r[2]]
                                                           ELSE senders[r[2]]}
                 \/ r \in rewritten
      BY DEF Current, Wanted, WantedOf
    <2>3. \A r : r # Device => WantedDoc(r) = {IF r[1] = "receiver" THEN receivers[r[2]]
                                                                  ELSE senders[r[2]]}
      BY DEF WantedDoc, DocOf
    <2>4. WantedDoc(Device) = Listed(senders, receivers)
      BY DEF WantedDoc, DocOf
    <2>5. Device \notin rewritten
      BY ListedKinds, KindsApart DEF RewrittenOK
    <2> QED
      BY <2>1, <2>2, <2>3, <2>4, <2>5
  <1>2. Wanted \subseteq Resources
    BY WantedKinds
  <1> QED
    BY <1>1, <1>2 DEF AllSettled, SettledOf, Wanted, WantedDoc

(* The tables change in one place: what is wanted of the others stays.     *)
LEMMA OneSource ==
  ASSUME NEW s, NEW u, NEW t, NEW i \in Sources,
         \A k \in Sources : k # i => u[k] = s[k],
         NEW r \in Resources, r \notin {Device, <<"source", i>>, <<"flow", i>>, <<"sender", i>>}
  PROVE  /\ r \in WantedOf(u, t) <=> r \in WantedOf(s, t)
         /\ r # Node => DocOf(u, t, r) = DocOf(s, t, r)
  <1>1. CASE r = Node
    BY <1>1, WantedOfKinds
  <1>2. ASSUME NEW k \in Sources, r \in {<<"source", k>>, <<"flow", k>>, <<"sender", k>>}
        PROVE  /\ r \in WantedOf(u, t) <=> r \in WantedOf(s, t)
               /\ DocOf(u, t, r) = DocOf(s, t, r)
    <2>1. k # i
      BY <1>2
    <2>2. u[k] = s[k]
      BY <2>1
    <2>3. (r \in WantedOf(u, t) <=> u[k] # 0) /\ (r \in WantedOf(s, t) <=> s[k] # 0)
      BY <1>2, WantedOfKinds
    <2>4. DocOf(u, t, r) = DocOf(s, t, r)
      BY <1>2, <2>2 DEF DocOf, Device
    <2> QED
      BY <2>2, <2>3, <2>4
  <1>3. ASSUME NEW j \in Sinks, r = <<"receiver", j>>
        PROVE  /\ r \in WantedOf(u, t) <=> r \in WantedOf(s, t)
               /\ DocOf(u, t, r) = DocOf(s, t, r)
    <2>1. (r \in WantedOf(u, t) <=> t[j] # 0) /\ (r \in WantedOf(s, t) <=> t[j] # 0)
      BY <1>3, WantedOfKinds
    <2> QED
      BY <1>3, <2>1 DEF DocOf, Device
  <1> QED
    BY <1>1, <1>2, <1>3, ResourceKinds

LEMMA OneSink ==
  ASSUME NEW s, NEW t, NEW u, NEW j \in Sinks,
         \A k \in Sinks : k # j => u[k] = t[k],
         NEW r \in Resources, r \notin {Device, <<"receiver", j>>}
  PROVE  /\ r \in WantedOf(s, u) <=> r \in WantedOf(s, t)
         /\ r # Node => DocOf(s, u, r) = DocOf(s, t, r)
  <1>1. CASE r = Node
    BY <1>1, WantedOfKinds
  <1>2. ASSUME NEW k \in Sources, r \in {<<"source", k>>, <<"flow", k>>, <<"sender", k>>}
        PROVE  /\ r \in WantedOf(s, u) <=> r \in WantedOf(s, t)
               /\ DocOf(s, u, r) = DocOf(s, t, r)
    <2>1. (r \in WantedOf(s, u) <=> s[k] # 0) /\ (r \in WantedOf(s, t) <=> s[k] # 0)
      BY <1>2, WantedOfKinds
    <2> QED
      BY <1>2, <2>1 DEF DocOf, Device
  <1>3. ASSUME NEW k \in Sinks, r = <<"receiver", k>>
        PROVE  /\ r \in WantedOf(s, u) <=> r \in WantedOf(s, t)
               /\ DocOf(s, u, r) = DocOf(s, t, r)
    <2>1. u[k] = t[k]
      BY <1>3
    <2>2. (r \in WantedOf(s, u) <=> u[k] # 0) /\ (r \in WantedOf(s, t) <=> t[k] # 0)
      BY <1>3, WantedOfKinds
    <2> QED
      BY <1>3, <2>1, <2>2 DEF DocOf, Device
  <1> QED
    BY <1>1, <1>2, <1>3, ResourceKinds

(* A registration in full only adds to the tables.                         *)
LEMMA WantedGrows ==
  ASSUME NEW s, NEW t, NEW u, NEW v,
         \A i \in Sources : s[i] # 0 => u[i] # 0,
         \A j \in Sinks : t[j] # 0 => v[j] # 0
  PROVE  WantedOf(s, t) \subseteq WantedOf(u, v)
  BY DEF WantedOf, Listed

(* An operation on one source or sink: what changes is in the requests,    *)
(* and they refer to the node, the device or one another in order.         *)
Covers(s, t, w, u, v, x, Q) ==
  \A r \in Resources : (\A n \in DOMAIN Q : Q[n].res # r) =>
    /\ r \in WantedOf(u, v) <=> r \in WantedOf(s, t)
    /\ r # Node => DocOf(u, v, r) = DocOf(s, t, r)
    /\ r \in w => r \in x

Sorted(Q) ==
  \A n \in DOMAIN Q :
    /\ Q[n].op = "POST" => \A p \in Parents(Q[n].res) :
         p \in {Node, Device} \/ \E m \in 1..n - 1 : Q[m].res = p
    /\ Q[n].op = "DELETE" => \A r \in Resources :
         Q[n].res \in Parents(r) => \E m \in 1..n - 1 : Q[m].res = r

LEMMA OperationSettles ==
  ASSUME NEW s, NEW t, NEW w, NEW u, NEW v, NEW x, NEW held, NEW Q,
         DOMAIN held \subseteq Resources,
         AllSettled(s, t, w, held), Covers(s, t, w, u, v, x, Q), Sorted(Q)
  PROVE  SettlingOf(u, v, x, Q, held)
  <1>1. ASSUME NEW r \in Resources, \A n \in DOMAIN Q : Q[n].res # r
        PROVE  SettledOf(u, v, x, held, r)
    <2>1. /\ r \in WantedOf(u, v) <=> r \in WantedOf(s, t)
          /\ r # Node => DocOf(u, v, r) = DocOf(s, t, r)
          /\ r \in w => r \in x
      BY <1>1 DEF Covers
    <2>2. SettledOf(s, t, w, held, r)
      BY DEF AllSettled
    <2> QED
      BY <2>1, <2>2 DEF SettledOf
  <1>2. Node \in DOMAIN held /\ Device \in DOMAIN held
    <2>1. Node \in WantedOf(s, t) /\ Device \in WantedOf(s, t)
      BY WantedOfKinds
    <2>2. SettledOf(s, t, w, held, Node) /\ SettledOf(s, t, w, held, Device)
      BY AreResources DEF AllSettled
    <2> QED
      BY <2>1, <2>2 DEF SettledOf
  <1> QED
    BY <1>1, <1>2 DEF SettlingOf, Sorted

LEMMA PostRight ==
  ASSUME NEW s, NEW t, NEW w, NEW x \in WantedOf(s, t), NEW d,
         x # Node /\ x \notin w => d = DocOf(s, t, x)
  PROVE  RightOf(s, t, w, Post(x, d))
  BY DEF RightOf, Post

LEMMA DeleteRight ==
  ASSUME NEW s, NEW t, NEW w, NEW x, x \notin WantedOf(s, t)
  PROVE  RightOf(s, t, w, Delete(x))
  BY DEF RightOf, Delete

SourceAddedPushes(i, u, t, x) == Append(SourcePosts(i, u, x), PostDevice(u, t))

(* register_source: source, flow and sender, each after what it refers to, *)
(* then the device.                                                        *)
LEMMA SourceAddedRequests ==
  ASSUME NEW s, NEW t, NEW w, NEW x, NEW u, NEW i \in Sources, u[i] # 0,
         \A k \in Sources : k # i => u[k] = s[k],
         w \ {<<"sender", i>>} \subseteq x,
         NEW Q, Q = SourceAddedPushes(i, u, t, x)
  PROVE  /\ \A n \in DOMAIN Q : RightOf(u, t, x, Q[n])
         /\ Covers(s, t, w, u, t, x, Q) /\ Sorted(Q)
  <1> DEFINE Changed == {Device, <<"source", i>>, <<"flow", i>>, <<"sender", i>>}
  <1>1. /\ DOMAIN Q = {1, 2, 3, 4}
        /\ Q[1] = Post(<<"source", i>>, {u[i]}) /\ Q[2] = Post(<<"flow", i>>, {u[i]})
        /\ Q[3] = Post(<<"sender", i>>, Held(<<"sender", i>>, u[i], x))
        /\ Q[4] = Post(Device, Listed(u, t))
    BY DEF SourceAddedPushes, SourcePosts, PostDevice
  <1>2. /\ Q[1].res = <<"source", i>> /\ Q[2].res = <<"flow", i>>
        /\ Q[3].res = <<"sender", i>> /\ Q[4].res = Device
    BY <1>1 DEF Post
  <1>3. \A n \in DOMAIN Q : RightOf(u, t, x, Q[n])
    <2>2. /\ <<"source", i>> \in WantedOf(u, t) /\ <<"flow", i>> \in WantedOf(u, t)
          /\ <<"sender", i>> \in WantedOf(u, t) /\ Device \in WantedOf(u, t)
      BY WantedOfKinds
    <2>3. /\ DocOf(u, t, <<"source", i>>) = {u[i]} /\ DocOf(u, t, <<"flow", i>>) = {u[i]}
          /\ DocOf(u, t, <<"sender", i>>) = {u[i]} /\ DocOf(u, t, Device) = Listed(u, t)
      BY DEF DocOf, Device
    <2>4. /\ RightOf(u, t, x, Q[1]) /\ RightOf(u, t, x, Q[2])
          /\ RightOf(u, t, x, Q[3]) /\ RightOf(u, t, x, Q[4])
      <3>1. RightOf(u, t, x, Post(<<"source", i>>, {u[i]}))
        BY <2>2, <2>3, PostRight
      <3>2. RightOf(u, t, x, Post(<<"flow", i>>, {u[i]}))
        BY <2>2, <2>3, PostRight
      <3>3. RightOf(u, t, x, Post(<<"sender", i>>, Held(<<"sender", i>>, u[i], x)))
        BY <2>2, <2>3, PostRight DEF Held
      <3>4. RightOf(u, t, x, Post(Device, Listed(u, t)))
        BY <2>2, <2>3, PostRight
      <3> QED
        BY <1>1, <3>1, <3>2, <3>3, <3>4
    <2> QED
      BY <1>1, <2>4
  <1>4. ASSUME NEW r \in Resources \ Changed
        PROVE  /\ r \in WantedOf(u, t) <=> r \in WantedOf(s, t)
               /\ r # Node => DocOf(u, t, r) = DocOf(s, t, r)
    BY OneSource
  <1>9. \A r \in Resources \ Changed : r \in w => r \in x
    OBVIOUS
  <1>5. \A r \in Changed : \E n \in DOMAIN Q : Q[n].res = r
    BY <1>1, <1>2
  <1>6. ASSUME NEW n \in DOMAIN Q, NEW p \in Parents(Q[n].res)
        PROVE  p \in {Node, Device} \/ \E m \in 1..n - 1 : Q[m].res = p
    <2>1. CASE n = 1
      <3>1. p = Device
        <4>1. Q[n].res = <<"source", i>>
          BY <1>2, <2>1
        <4> QED
          BY <1>6, <4>1, ParentKinds
      <3> QED
        BY <3>1
    <2>2. CASE n = 2
      <3>1. 1 \in 1..n - 1
        BY <2>2
      <3>2. p \in {Device, <<"source", i>>}
        BY <1>2, <1>6, <2>2, ParentKinds
      <3> QED
        BY <1>2, <3>1, <3>2
    <2>3. CASE n = 3
      <3>1. 2 \in 1..n - 1
        BY <2>3
      <3>2. p \in {Device, <<"flow", i>>}
        BY <1>2, <1>6, <2>3, ParentKinds
      <3> QED
        BY <1>2, <3>1, <3>2
    <2>4. CASE n = 4
      BY <1>2, <1>6, <2>4, ParentKinds
    <2> QED
      BY <1>1, <2>1, <2>2, <2>3, <2>4
  <1>7. Covers(s, t, w, u, t, x, Q)
    <2>1. ASSUME NEW r \in Resources, \A n \in DOMAIN Q : Q[n].res # r
          PROVE  r \in Resources \ Changed
      BY <1>5, <2>1
    <2> HIDE DEF Changed
    <2> QED
      BY <1>4, <1>9, <2>1, Zenon DEF Covers
  <1>8. Sorted(Q)
    <2>1. \A n \in DOMAIN Q : Q[n].op # "DELETE"
      BY <1>1 DEF Post
    <2> QED
      BY <1>6, <2>1 DEF Sorted
  <1> QED
    BY <1>3, <1>7, <1>8

(* unregister_source: the device without the sender, then the deletions.   *)
LEMMA SourceRemovedRequests ==
  ASSUME NEW s, NEW t, NEW w, NEW x, NEW u, NEW i \in Sources, u[i] = 0,
         \A k \in Sources : k # i => u[k] = s[k],
         w \ {<<"sender", i>>} \subseteq x,
         NEW Q, Q = <<PostDevice(u, t), Delete(<<"sender", i>>),
                      Delete(<<"flow", i>>), Delete(<<"source", i>>)>>
  PROVE  /\ \A n \in DOMAIN Q : RightOf(u, t, x, Q[n])
         /\ Covers(s, t, w, u, t, x, Q) /\ Sorted(Q)
  <1> DEFINE Changed == {Device, <<"source", i>>, <<"flow", i>>, <<"sender", i>>}
  <1>1. /\ DOMAIN Q = {1, 2, 3, 4}
        /\ Q[1] = Post(Device, Listed(u, t)) /\ Q[2] = Delete(<<"sender", i>>)
        /\ Q[3] = Delete(<<"flow", i>>) /\ Q[4] = Delete(<<"source", i>>)
    BY DEF PostDevice
  <1>2. /\ Q[1].res = Device /\ Q[2].res = <<"sender", i>>
        /\ Q[3].res = <<"flow", i>> /\ Q[4].res = <<"source", i>>
        /\ Q[2].op = "DELETE" /\ Q[3].op = "DELETE" /\ Q[4].op = "DELETE"
    BY <1>1 DEF Post, Delete
  <1>3. \A n \in DOMAIN Q : RightOf(u, t, x, Q[n])
    <2>1. /\ <<"source", i>> \notin WantedOf(u, t) /\ <<"flow", i>> \notin WantedOf(u, t)
          /\ <<"sender", i>> \notin WantedOf(u, t) /\ Device \in WantedOf(u, t)
      BY WantedOfKinds
    <2>2. DocOf(u, t, Device) = Listed(u, t)
      BY DEF DocOf
    <2>3. RightOf(u, t, x, Post(Device, Listed(u, t)))
      BY <2>1, <2>2, PostRight
    <2>4. /\ RightOf(u, t, x, Delete(<<"sender", i>>)) /\ RightOf(u, t, x, Delete(<<"flow", i>>))
          /\ RightOf(u, t, x, Delete(<<"source", i>>))
      BY <2>1, DeleteRight
    <2> QED
      BY <1>1, <2>3, <2>4
  <1>4. \A r \in Resources \ Changed :
          /\ r \in WantedOf(u, t) <=> r \in WantedOf(s, t)
          /\ r # Node => DocOf(u, t, r) = DocOf(s, t, r)
    BY OneSource
  <1>8. \A r \in Resources \ Changed : r \in w => r \in x
    OBVIOUS
  <1>5. \A r \in Changed : \E n \in DOMAIN Q : Q[n].res = r
    BY <1>1, <1>2
  <1>6. Covers(s, t, w, u, t, x, Q)
    <2>1. ASSUME NEW r \in Resources, \A n \in DOMAIN Q : Q[n].res # r
          PROVE  r \in Resources \ Changed
      BY <1>5, <2>1
    <2> QED
      BY <1>4, <1>8, <2>1 DEF Covers
  <1>7. Sorted(Q)
    <2>1. ASSUME NEW n \in DOMAIN Q, Q[n].op = "POST"
          PROVE  Q[n].res = Device
      BY <1>1, <1>2, <2>1
    <2>2. ASSUME NEW n \in DOMAIN Q, Q[n].op = "DELETE",
                 NEW r \in Resources, Q[n].res \in Parents(r)
          PROVE  \E m \in 1..n - 1 : Q[m].res = r
      <3>1. n # 1
        BY <1>1, <2>2 DEF Post
      <3>5. /\ <<"sender", i>> \notin Parents(r)
            /\ <<"flow", i>> \in Parents(r) => r = <<"sender", i>>
            /\ <<"source", i>> \in Parents(r) => r = <<"flow", i>>
        BY ChildKinds
      <3>2. CASE n = 2
        BY <1>2, <2>2, <3>2, <3>5
      <3>3. CASE n = 3
        <4>1. r = <<"sender", i>> /\ 2 \in 1..n - 1
          BY <1>2, <2>2, <3>3, <3>5
        <4> QED
          BY <1>2, <4>1
      <3>4. CASE n = 4
        <4>1. r = <<"flow", i>> /\ 3 \in 1..n - 1
          BY <1>2, <2>2, <3>4, <3>5
        <4> QED
          BY <1>2, <4>1
      <3> QED
        BY <1>1, <3>1, <3>2, <3>3, <3>4
    <2> QED
      BY <2>1, <2>2, ParentKinds DEF Sorted
  <1> QED
    BY <1>3, <1>6, <1>7

(* register_sink: the receiver, then the device.                           *)
LEMMA SinkAddedRequests ==
  ASSUME NEW s, NEW t, NEW w, NEW x, NEW u, NEW j \in Sinks, u[j] # 0,
         \A k \in Sinks : k # j => u[k] = t[k],
         w \ {<<"receiver", j>>} \subseteq x,
         NEW Q, Q = <<ReceiverPost(j, u, x), PostDevice(s, u)>>
  PROVE  /\ \A n \in DOMAIN Q : RightOf(s, u, x, Q[n])
         /\ Covers(s, t, w, s, u, x, Q) /\ Sorted(Q)
  <1> DEFINE Changed == {Device, <<"receiver", j>>}
  <1>1. /\ DOMAIN Q = {1, 2}
        /\ Q[1] = Post(<<"receiver", j>>, Held(<<"receiver", j>>, u[j], x))
        /\ Q[2] = Post(Device, Listed(s, u))
    BY DEF PostDevice, ReceiverPost
  <1>2. Q[1].res = <<"receiver", j>> /\ Q[2].res = Device
    BY <1>1 DEF Post
  <1>3. \A n \in DOMAIN Q : RightOf(s, u, x, Q[n])
    <2>1. <<"receiver", j>> \in WantedOf(s, u) /\ Device \in WantedOf(s, u)
      BY WantedOfKinds
    <2>2. /\ DocOf(s, u, Device) = Listed(s, u)
          /\ DocOf(s, u, <<"receiver", j>>) = {u[j]}
      BY DEF DocOf, Device
    <2>3. RightOf(s, u, x, Post(Device, Listed(s, u)))
      BY <2>1, <2>2, PostRight
    <2>4. RightOf(s, u, x, Post(<<"receiver", j>>, Held(<<"receiver", j>>, u[j], x)))
      BY <2>1, <2>2, PostRight DEF Held
    <2> QED
      BY <1>1, <2>3, <2>4
  <1>4. \A r \in Resources \ Changed :
          /\ r \in WantedOf(s, u) <=> r \in WantedOf(s, t)
          /\ r # Node => DocOf(s, u, r) = DocOf(s, t, r)
    BY OneSink
  <1>8. \A r \in Resources \ Changed : r \in w => r \in x
    OBVIOUS
  <1>5. \A r \in Changed : \E n \in DOMAIN Q : Q[n].res = r
    BY <1>1, <1>2
  <1>6. Covers(s, t, w, s, u, x, Q)
    <2>1. ASSUME NEW r \in Resources, \A n \in DOMAIN Q : Q[n].res # r
          PROVE  r \in Resources \ Changed
      BY <1>5, <2>1
    <2> QED
      BY <1>4, <1>8, <2>1 DEF Covers
  <1>7. Sorted(Q)
    <2>1. \A n \in DOMAIN Q : Q[n].res \in {<<"receiver", j>>, Device}
      BY <1>1, <1>2
    <2>2. Parents(<<"receiver", j>>) = {Device} /\ Parents(Device) = {Node}
      BY ParentKinds
    <2>3. \A n \in DOMAIN Q : Q[n].op # "DELETE"
      BY <1>1 DEF Post
    <2> QED
      BY <2>1, <2>2, <2>3 DEF Sorted
  <1> QED
    BY <1>3, <1>6, <1>7

(* unregister_sink.                                                        *)
LEMMA SinkRemovedRequests ==
  ASSUME NEW s, NEW t, NEW w, NEW x, NEW u, NEW j \in Sinks, u[j] = 0,
         \A k \in Sinks : k # j => u[k] = t[k],
         w \ {<<"receiver", j>>} \subseteq x,
         NEW Q, Q = <<PostDevice(s, u), Delete(<<"receiver", j>>)>>
  PROVE  /\ \A n \in DOMAIN Q : RightOf(s, u, x, Q[n])
         /\ Covers(s, t, w, s, u, x, Q) /\ Sorted(Q)
  <1> DEFINE Changed == {Device, <<"receiver", j>>}
  <1>1. /\ DOMAIN Q = {1, 2}
        /\ Q[1] = Post(Device, Listed(s, u)) /\ Q[2] = Delete(<<"receiver", j>>)
    BY DEF PostDevice
  <1>2. Q[1].res = Device /\ Q[2].res = <<"receiver", j>> /\ Q[2].op = "DELETE"
    BY <1>1 DEF Post, Delete
  <1>3. \A n \in DOMAIN Q : RightOf(s, u, x, Q[n])
    <2>1. <<"receiver", j>> \notin WantedOf(s, u) /\ Device \in WantedOf(s, u)
      BY WantedOfKinds
    <2>2. DocOf(s, u, Device) = Listed(s, u)
      BY DEF DocOf
    <2>3. RightOf(s, u, x, Post(Device, Listed(s, u)))
      BY <2>1, <2>2, PostRight
    <2>4. RightOf(s, u, x, Delete(<<"receiver", j>>))
      BY <2>1, DeleteRight
    <2> QED
      BY <1>1, <2>3, <2>4
  <1>4. \A r \in Resources \ Changed :
          /\ r \in WantedOf(s, u) <=> r \in WantedOf(s, t)
          /\ r # Node => DocOf(s, u, r) = DocOf(s, t, r)
    BY OneSink
  <1>8. \A r \in Resources \ Changed : r \in w => r \in x
    OBVIOUS
  <1>5. \A r \in Changed : \E n \in DOMAIN Q : Q[n].res = r
    BY <1>1, <1>2
  <1>6. Covers(s, t, w, s, u, x, Q)
    <2>1. ASSUME NEW r \in Resources, \A n \in DOMAIN Q : Q[n].res # r
          PROVE  r \in Resources \ Changed
      BY <1>5, <2>1
    <2> QED
      BY <1>4, <1>8, <2>1 DEF Covers
  <1>7. Sorted(Q)
    <2>1. ASSUME NEW n \in DOMAIN Q, Q[n].op = "POST"
          PROVE  Q[n].res = Device
      BY <1>1, <1>2, <2>1
    <2>2. \A n \in DOMAIN Q : Q[n].op = "DELETE" => Q[n].res = <<"receiver", j>>
      BY <1>1, <1>2 DEF Post
    <2>3. \A r \in Resources : <<"receiver", j>> \notin Parents(r)
      BY ChildKinds
    <2>4. Parents(Device) = {Node}
      BY ParentKinds
    <2> QED
      BY <2>1, <2>2, <2>3, <2>4 DEF Sorted
  <1> QED
    BY <1>3, <1>6, <1>7

(* A request that is right and next in order is accepted and settles what  *)
(* it is about.                                                            *)
LEMMA FirstSettles ==
  ASSUME NEW s, NEW t, NEW w, NEW held, NEW Q \in Seq(Requests), Q # <<>>,
         \A n \in DOMAIN Q : RightOf(s, t, w, Q[n]),
         SettlingOf(s, t, w, Q, held), Family(held),
         NEW req, req = Head(Q), NEW after,
         after = IF req.op = "POST" THEN Put(held, req.res, req.doc) ELSE Drop(held, req.res)
  PROVE  /\ req.op = "POST" => Parents(req.res) \subseteq DOMAIN held
         /\ \A n \in DOMAIN Tail(Q) : RightOf(s, t, w, Tail(Q)[n])
         /\ SettlingOf(s, t, w, Tail(Q), after) /\ Family(after)
  <1> DEFINE T == Tail(Q)
             x == req.res
  <1>1. /\ req = Q[1] /\ req \in Requests /\ 1 \in DOMAIN Q
        /\ \A n \in DOMAIN T : n + 1 \in DOMAIN Q /\ T[n] = Q[n + 1] /\ n \in Nat
        /\ \A n \in DOMAIN Q : n \in Nat /\ (n = 1 \/ (n > 1 /\ n - 1 \in DOMAIN T /\ T[n - 1] = Q[n]))
    OBVIOUS
  <1>2. RightOf(s, t, w, req) /\ req.op \in {"POST", "DELETE"} /\ x \in Resources
    BY <1>1 DEF Requests
  <1>3. 1..1 - 1 = {}
    OBVIOUS
  <1>4. req.op = "POST" => Parents(x) \subseteq DOMAIN held
    <2>1. Q[1].op = "POST" => \A p \in Parents(Q[1].res) :
            p \in DOMAIN held \/ \E m \in 1..1 - 1 : Q[m].res = p
      BY <1>1 DEF SettlingOf
    <2> QED
      BY <1>1, <1>3, <2>1
  <1>5. \A n \in DOMAIN T : RightOf(s, t, w, T[n]) /\ T[n].op \in {"POST", "DELETE"}
    <2>1. \A n \in DOMAIN Q : Q[n] \in Requests
      OBVIOUS
    <2>2. \A q \in Requests : q.op \in {"POST", "DELETE"}
      BY DEF Requests
    <2> HIDE DEF T
    <2> QED
      BY <1>1, <2>1, <2>2
  (* What comes before a request and is not the first is still to come.    *)
  <1>6. ASSUME NEW n \in DOMAIN T, NEW m \in 1..(n + 1) - 1, Q[m].res # x
        PROVE  \E l \in 1..n - 1 : T[l].res = Q[m].res
    <2>1. DOMAIN Q = 1..Len(Q) /\ Len(Q) \in Nat /\ n \in Nat /\ n + 1 \in DOMAIN Q
      BY <1>1
    <2>2. m \in DOMAIN Q /\ m # 1
      BY <1>1, <1>6, <2>1
    <2>3. m - 1 \in 1..n - 1 /\ m - 1 \in DOMAIN T /\ T[m - 1] = Q[m]
      BY <1>1, <2>1, <2>2
    <2> QED
      BY <2>3
  <1> HIDE DEF T
  <1>7. ASSUME SettledOf(s, t, w, after, x),
               \A r \in Resources :
                 r # x /\ SettledOf(s, t, w, held, r) => SettledOf(s, t, w, after, r),
               DOMAIN held \ {x} \subseteq DOMAIN after,
               x \in DOMAIN after \/ x \notin WantedOf(s, t),
               DOMAIN after \subseteq DOMAIN held \cup (WantedOf(s, t) \cap {x})
        PROVE  SettlingOf(s, t, w, T, after)
    <2>1. ASSUME NEW r \in Resources, \A n \in DOMAIN T : T[n].res # r
          PROVE  SettledOf(s, t, w, after, r)
      <3>1. CASE r = x
        BY <1>7, <3>1
      <3>2. CASE r # x
        <4>1. \A n \in DOMAIN Q : Q[n].res # r
          BY <1>1, <2>1, <3>2
        <4>2. SettledOf(s, t, w, held, r)
          BY <4>1 DEF SettlingOf
        <4> QED
          BY <1>7, <3>2, <4>2
      <3> QED
        BY <3>1, <3>2
    <2>2. ASSUME NEW n \in DOMAIN T, T[n].op = "POST", NEW p \in Parents(T[n].res)
          PROVE  p \in DOMAIN after \/ \E m \in 1..n - 1 : T[m].res = p
      <3>1. p \in WantedOf(s, t)
        BY <1>5, <2>2, ParentsWantedOf DEF RightOf
      <3>2. p \in DOMAIN held \/ \E m \in 1..(n + 1) - 1 : Q[m].res = p
        BY <1>1, <2>2 DEF SettlingOf
      <3>3. CASE p = x
        BY <1>7, <3>1, <3>3
      <3>4. CASE p # x
        BY <1>6, <1>7, <3>2, <3>4
      <3> QED
        BY <3>3, <3>4
    <2>3. ASSUME NEW n \in DOMAIN T, T[n].op = "DELETE", NEW r \in DOMAIN after,
                 T[n].res \in Parents(r)
          PROVE  \E m \in 1..n - 1 : T[m].res = r
      <3>1. r \notin WantedOf(s, t)
        BY <1>5, <2>3, ParentsWantedOf DEF RightOf
      <3>2. r \in DOMAIN held
        BY <1>7, <3>1
      <3>3. \E m \in 1..(n + 1) - 1 : Q[m].res = r
        BY <1>1, <2>3, <3>2 DEF SettlingOf
      <3>4. r # x
        <4>1. CASE r = x
          <5>1. x \notin DOMAIN after
            BY <1>7, <3>1, <4>1 DEF SettledOf
          <5> QED
            BY <2>3, <4>1, <5>1
        <4> QED
          BY <4>1
      <3> QED
        BY <1>6, <3>3, <3>4
    <2> QED
      BY <2>1, <2>2, <2>3 DEF SettlingOf
  <1>8. CASE req.op = "POST"
    <2>1. x \in WantedOf(s, t) /\ (x # Node /\ x \notin w => req.doc = DocOf(s, t, x))
      BY <1>2, <1>8 DEF RightOf
    <2>2. /\ DOMAIN after = DOMAIN held \cup {x} /\ after[x] = req.doc
          /\ \A r \in DOMAIN held : r # x => after[r] = held[r]
      BY <1>8 DEF Put
    <2>3. SettledOf(s, t, w, after, x)
      BY <2>1, <2>2 DEF SettledOf
    <2>4. \A r \in Resources : r # x /\ SettledOf(s, t, w, held, r) => SettledOf(s, t, w, after, r)
      BY <2>2 DEF SettledOf
    <2>5. Family(after)
      BY <1>4, <1>8, <2>2 DEF Family
    <2>6. SettlingOf(s, t, w, T, after)
      BY <1>7, <2>1, <2>2, <2>3, <2>4
    <2> QED
      BY <1>4, <1>5, <2>5, <2>6 DEF T
  <1>9. CASE req.op = "DELETE"
    <2>1. x \notin WantedOf(s, t) /\ x \notin {Node, Device}
      BY <1>2, <1>9, WantedOfKinds DEF RightOf
    <2>2. /\ DOMAIN after = DOMAIN held \ {x}
          /\ \A r \in DOMAIN held : r # x => after[r] = held[r]
      BY <1>9, <2>1 DEF Drop, Dependents
    <2>3. SettledOf(s, t, w, after, x)
      BY <2>1, <2>2 DEF SettledOf
    <2>4. \A r \in Resources : r # x /\ SettledOf(s, t, w, held, r) => SettledOf(s, t, w, after, r)
      BY <2>2 DEF SettledOf
    <2>5. \A r \in DOMAIN held : x \notin Parents(r)
      BY <1>1, <1>3, <1>9 DEF SettlingOf
    <2>6. Family(after)
      BY <2>2, <2>5 DEF Family
    <2>7. SettlingOf(s, t, w, T, after)
      BY <1>7, <2>1, <2>2, <2>3, <2>4
    <2> QED
      BY <1>4, <1>5, <1>9, <2>6, <2>7 DEF T
  <1> QED
    BY <1>2, <1>8, <1>9

(* What an operation that begins between two others leaves in hand.        *)
LEMMA OperationBegun ==
  ASSUME ~rejected', pc' = "push", back' # "done",
         \A n \in DOMAIN pushes' : RightOf(senders', receivers', rewritten', pushes'[n]),
         \A g \in trusted' : SettlingOf(senders', receivers', rewritten', pushes', registry'[g]),
         \A g \in trusted' : Family(registry'[g])
  PROVE  RInv'
  BY DEF RInv, Between, Right, Settling

(* An event handled: its requests are right and in order.                  *)
LEMMA HandleKeepsCurrent ==
  ASSUME TInv, TInv', RInv,
         HandleSourceAdded \/ HandleSourceRemoved \/ HandleSinkAdded \/ HandleSinkRemoved
  PROVE  RInv'
  <1>1. /\ pc = "drain" /\ pc' = "push" /\ back' = "drain" /\ events # <<>>
        /\ UNCHANGED <<registry, trusted, rejected>>
    BY DEF HandleSourceAdded, HandleSourceRemoved, HandleSinkAdded, HandleSinkRemoved, Pop, network
  <1>2. /\ Tables /\ events \in Seq(EventSet) /\ ~rejected
        /\ source \in [Sources -> Nat] /\ senders \in [Sources -> Nat]
        /\ sink \in [Sinks -> Nat] /\ receivers \in [Sinks -> Nat]
    BY DEF TInv, IInv, Shape, Tables, RInv
  <1>3. \A g \in trusted : AllSettled(senders, receivers, rewritten, registry[g])
    <2> SUFFICES ASSUME NEW g \in trusted PROVE AllSettled(senders, receivers, rewritten, registry[g])
      OBVIOUS
    <2>1. Current(g) /\ DOMAIN registry[g] \subseteq Resources /\ RewrittenOK
      BY <1>1 DEF RInv, Between, TInv, NetworkOK
    <2> QED
      BY <1>2, <2>1, CurrentSettled
  <1>4. ASSUME \A n \in DOMAIN pushes' : RightOf(senders', receivers', rewritten', pushes'[n]),
               Covers(senders, receivers, rewritten, senders', receivers', rewritten', pushes'), Sorted(pushes')
        PROVE  RInv'
    <2>1. \A g \in trusted' : SettlingOf(senders', receivers', rewritten', pushes', registry'[g])
      <3>1. \A g \in trusted : DOMAIN registry[g] \subseteq Resources
        BY DEF TInv, NetworkOK
      <3> QED
        BY <1>1, <1>3, <1>4, <3>1, OperationSettles
    <2>2. \A g \in trusted' : Family(registry'[g])
      BY <1>1 DEF RInv
    <2> QED
      BY <1>1, <1>2, <1>4, <2>1, <2>2, OperationBegun
  <1>5. ASSUME UNCHANGED <<senders, receivers>>, rewritten \subseteq rewritten',
               DOMAIN pushes' = {}
        PROVE  RInv'
    BY <1>4, <1>5 DEF Covers, Sorted
  <1>6. CASE HandleSourceAdded
    <2> DEFINE i == Head(events)[2]
    <2>1. /\ senders' = Built(senders, i, source[i]) /\ UNCHANGED receivers
          /\ rewritten' = Fresh(<<"sender", i>>, source[i])
          /\ pushes' = IF source[i] = 0 THEN <<>>
                       ELSE Append(SourcePosts(i, senders', rewritten'),
                                   PostDevice(senders', receivers))
      BY <1>6 DEF HandleSourceAdded
    <2>2. i \in Sources
      BY <1>1, <1>2, <1>6, EventId DEF HandleSourceAdded, Pop, SourceEvents
    <2> HIDE DEF i
    <2>3. CASE source[i] = 0
      <3>1. senders' = senders /\ rewritten' = rewritten
        BY <1>2, <2>1, <2>2, <2>3 DEF Built, Fresh
      <3> QED
        BY <1>5, <2>1, <2>3, <3>1
    <2>4. CASE source[i] # 0
      <3>1. /\ senders'[i] # 0
            /\ \A k \in Sources : k # i => senders'[k] = senders[k]
            /\ rewritten \ {<<"sender", i>>} \subseteq rewritten'
        BY <1>2, <2>1, <2>2, <2>4 DEF Built, Fresh
      <3>2. pushes' = SourceAddedPushes(i, senders', receivers, rewritten')
        BY <2>1, <2>4 DEF SourceAddedPushes
      <3>3. /\ \A n \in DOMAIN pushes' : RightOf(senders', receivers', rewritten', pushes'[n])
            /\ Covers(senders, receivers, rewritten, senders', receivers', rewritten', pushes') /\ Sorted(pushes')
        BY <2>1, <2>2, <3>1, <3>2, SourceAddedRequests
      <3> QED
        BY <1>4, <3>3
    <2> QED
      BY <2>3, <2>4
  <1>7. CASE HandleSourceRemoved
    <2> DEFINE i == Head(events)[2]
    <2>1. /\ senders' = [senders EXCEPT ![i] = 0] /\ UNCHANGED receivers
          /\ rewritten' = rewritten \ {<<"sender", i>>}
          /\ pushes' = IF senders[i] = 0 THEN <<>>
                       ELSE <<PostDevice(senders', receivers), Delete(<<"sender", i>>),
                              Delete(<<"flow", i>>), Delete(<<"source", i>>)>>
      BY <1>7 DEF HandleSourceRemoved
    <2>2. i \in Sources
      BY <1>1, <1>2, <1>7, EventId DEF HandleSourceRemoved, Pop, SourceEvents
    <2> HIDE DEF i
    <2>3. CASE senders[i] = 0
      <3>1. senders' = senders /\ rewritten' = rewritten
        <4>1. <<"sender", i>> \notin rewritten
          BY <2>2, <2>3, ListedKinds DEF TInv, RewrittenOK
        <4> QED
          BY <1>2, <2>1, <2>2, <2>3, <4>1
      <3> QED
        BY <1>5, <2>1, <2>3, <3>1
    <2>4. CASE senders[i] # 0
      <3>1. /\ senders'[i] = 0
            /\ \A k \in Sources : k # i => senders'[k] = senders[k]
            /\ rewritten \ {<<"sender", i>>} \subseteq rewritten'
        BY <1>2, <2>1, <2>2, <2>4 DEF Built, Fresh
      <3>2. pushes' = <<PostDevice(senders', receivers), Delete(<<"sender", i>>),
                              Delete(<<"flow", i>>), Delete(<<"source", i>>)>>
        BY <2>1, <2>4
      <3>3. /\ \A n \in DOMAIN pushes' : RightOf(senders', receivers', rewritten', pushes'[n])
            /\ Covers(senders, receivers, rewritten, senders', receivers', rewritten', pushes') /\ Sorted(pushes')
        <4>1. receivers' = receivers
          BY <2>1
        <4> QED
          BY <2>2, <3>1, <3>2, <4>1, SourceRemovedRequests, SMTT(30)
      <3> QED
        BY <1>4, <3>3
    <2> QED
      BY <2>3, <2>4
  <1>8. CASE HandleSinkAdded
    <2> DEFINE j == Head(events)[2]
    <2>1. /\ receivers' = Built(receivers, j, sink[j]) /\ UNCHANGED senders
          /\ rewritten' = Fresh(<<"receiver", j>>, sink[j])
          /\ pushes' = IF sink[j] = 0 THEN <<>>
                       ELSE <<ReceiverPost(j, receivers', rewritten'), PostDevice(senders, receivers')>>
      BY <1>8 DEF HandleSinkAdded
    <2>2. j \in Sinks
      BY <1>1, <1>2, <1>8, EventId DEF HandleSinkAdded, Pop, SinkEvents
    <2> HIDE DEF j
    <2>3. CASE sink[j] = 0
      <3>1. receivers' = receivers /\ rewritten' = rewritten
        BY <1>2, <2>1, <2>2, <2>3 DEF Built, Fresh
      <3> QED
        BY <1>5, <2>1, <2>3, <3>1
    <2>4. CASE sink[j] # 0
      <3>1. /\ receivers'[j] # 0
            /\ \A k \in Sinks : k # j => receivers'[k] = receivers[k]
            /\ rewritten \ {<<"receiver", j>>} \subseteq rewritten'
        BY <1>2, <2>1, <2>2, <2>4 DEF Built, Fresh
      <3>2. pushes' = <<ReceiverPost(j, receivers', rewritten'), PostDevice(senders, receivers')>>
        BY <2>1, <2>4
      <3>3. /\ \A n \in DOMAIN pushes' : RightOf(senders', receivers', rewritten', pushes'[n])
            /\ Covers(senders, receivers, rewritten, senders', receivers', rewritten', pushes') /\ Sorted(pushes')
        BY <2>1, <2>2, <3>1, <3>2, SinkAddedRequests
      <3> QED
        BY <1>4, <3>3
    <2> QED
      BY <2>3, <2>4
  <1>9. CASE HandleSinkRemoved
    <2> DEFINE j == Head(events)[2]
    <2>1. /\ receivers' = [receivers EXCEPT ![j] = 0] /\ UNCHANGED senders
          /\ rewritten' = rewritten \ {<<"receiver", j>>}
          /\ pushes' = IF receivers[j] = 0 THEN <<>>
                       ELSE <<PostDevice(senders, receivers'), Delete(<<"receiver", j>>)>>
      BY <1>9 DEF HandleSinkRemoved
    <2>2. j \in Sinks
      BY <1>1, <1>2, <1>9, EventId DEF HandleSinkRemoved, Pop, SinkEvents
    <2> HIDE DEF j
    <2>3. CASE receivers[j] = 0
      <3>1. receivers' = receivers /\ rewritten' = rewritten
        <4>1. <<"receiver", j>> \notin rewritten
          BY <2>2, <2>3, ListedKinds DEF TInv, RewrittenOK
        <4> QED
          BY <1>2, <2>1, <2>2, <2>3, <4>1
      <3> QED
        BY <1>5, <2>1, <2>3, <3>1
    <2>4. CASE receivers[j] # 0
      <3>1. /\ receivers'[j] = 0
            /\ \A k \in Sinks : k # j => receivers'[k] = receivers[k]
            /\ rewritten \ {<<"receiver", j>>} \subseteq rewritten'
        BY <1>2, <2>1, <2>2, <2>4 DEF Built, Fresh
      <3>2. pushes' = <<PostDevice(senders, receivers'), Delete(<<"receiver", j>>)>>
        BY <2>1, <2>4
      <3>3. /\ \A n \in DOMAIN pushes' : RightOf(senders', receivers', rewritten', pushes'[n])
            /\ Covers(senders, receivers, rewritten, senders', receivers', rewritten', pushes') /\ Sorted(pushes')
        BY <2>1, <2>2, <3>1, <3>2, SinkRemovedRequests
      <3> QED
        BY <1>4, <3>3
    <2> QED
      BY <2>3, <2>4
  <1> QED
    BY <1>6, <1>7, <1>8, <1>9

(* One request: lost, or taken by the registry in use.                     *)
LEMMA PushKeepsCurrent ==
  ASSUME TInv, RInv, Push
  PROVE  RInv'
  <1> DEFINE req == Head(pushes)
  <1>1. /\ pc = "push" /\ pc' = "push" /\ pushes # <<>> /\ pushes' = Tail(pushes)
        /\ UNCHANGED <<senders, receivers, rewritten, back>>
        /\ Arrives(req) \/ Lost
    BY DEF Push
  <1>2. /\ pushes \in Seq(Requests) /\ DOMAIN registry = Registries /\ ~rejected
        /\ trusted \subseteq Registries
    BY DEF TInv, WorkerOK, NetworkOK, RInv
  <1>3. req \in Requests /\ req = pushes[1] /\ 1 \in DOMAIN pushes
        /\ \A n \in DOMAIN pushes' : n + 1 \in DOMAIN pushes /\ pushes'[n] = pushes[n + 1]
    BY <1>1, <1>2
  <1> HIDE DEF req
  <1>4. CASE Lost
    <2>1. trusted' = {} /\ ~rejected'
      BY <1>2, <1>4 DEF Lost
    <2>2. back # "done" => \A n \in DOMAIN pushes' : RightOf(senders', receivers', rewritten', pushes'[n])
      BY <1>1, <1>3 DEF RInv, Right
    <2>3. back = "done" => \A n \in DOMAIN pushes' : pushes'[n] = Delete(Node)
      BY <1>1, <1>3 DEF RInv
    <2> QED
      BY <1>1, <2>1, <2>2, <2>3 DEF RInv, Between, Right
  <1>5. CASE Arrives(req)
    <2> DEFINE g == Effective
    <2>1. /\ g \in Registries /\ trusted' = trusted \cap {g}
          /\ Accepts(g, req) /\ req.op = "POST" =>
               registry'[g] = Put(registry[g], req.res, req.doc)
          /\ req.op = "DELETE" =>
               Accepts(g, req) /\ registry'[g] = Drop(registry[g], req.res)
          /\ rejected' = (rejected \/ (g \in trusted /\ ~Accepts(g, req)))
      BY <1>2, <1>3, <1>5, ArrivesParts
    <2>2. Parents(req.res) \subseteq DOMAIN registry[g] => Accepts(g, req)
      BY DEF Accepts
    <2>3. req.op \in {"POST", "DELETE"}
      BY <1>3 DEF Requests
    <2> HIDE DEF g
    <2>4. CASE back = "done"
      <3>1. req.op = "DELETE" /\ req.res = Node
        BY <1>1, <1>3, <2>4 DEF RInv, Delete
      <3>2. ~rejected'
        BY <1>2, <2>1, <3>1
      <3>4. DOMAIN registry'[g] = {}
        <4>1. Dependents(Node) = Resources
          BY KindsApart DEF Dependents
        <4>2. DOMAIN registry[g] \subseteq Resources
          BY <2>1 DEF TInv, NetworkOK
        <4> QED
          BY <2>1, <3>1, <4>1, <4>2 DEF Drop
      <3>5. \A h \in trusted' : Family(registry'[h])
        BY <2>1, <3>4 DEF Family
      <3>3. \A n \in DOMAIN pushes' : pushes'[n] = Delete(Node)
        BY <1>1, <1>3, <2>4 DEF RInv
      <3> QED
        BY <1>1, <2>4, <3>2, <3>3, <3>5 DEF RInv, Between
    <2>5. CASE back # "done"
      <3>1. \A n \in DOMAIN pushes : RightOf(senders, receivers, rewritten, pushes[n])
        BY <1>1, <2>5 DEF RInv, Right
      <3>2. \A n \in DOMAIN pushes' : RightOf(senders', receivers', rewritten', pushes'[n])
        BY <1>1, <1>3, <3>1
      <3>3. CASE g \notin trusted
        <4>1. trusted' = {} /\ ~rejected'
          BY <1>2, <2>1, <3>3
        <4> QED
          BY <1>1, <2>5, <3>2, <4>1, OperationBegun
      <3>4. CASE g \in trusted
        <4> DEFINE after == IF req.op = "POST" THEN Put(registry[g], req.res, req.doc)
                                               ELSE Drop(registry[g], req.res)
        <4>1. SettlingOf(senders, receivers, rewritten, pushes, registry[g])
          BY <1>1, <2>5, <3>4 DEF RInv, Settling
        <4>2. /\ req.op = "POST" => Parents(req.res) \subseteq DOMAIN registry[g]
              /\ SettlingOf(senders, receivers, rewritten, Tail(pushes), after)
              /\ Family(after)
          <5>1. Family(registry[g])
            BY <3>4 DEF RInv
          <5> QED
            BY <1>1, <1>2, <3>1, <4>1, <5>1, FirstSettles DEF req
        <4>3. Accepts(g, req)
          BY <2>1, <2>2, <2>3, <4>2
        <4>4. registry'[g] = after
          BY <2>1, <2>3, <4>3
        <4> HIDE DEF after
        <4>5. ~rejected'
          BY <1>2, <2>1, <4>3
        <4>6. \A h \in trusted' : /\ SettlingOf(senders', receivers', rewritten', pushes', registry'[h])
                                 /\ Family(registry'[h])
          BY <1>1, <2>1, <4>2, <4>4
        <4> QED
          BY <1>1, <2>5, <3>2, <4>5, <4>6, OperationBegun
      <3> QED
        BY <3>3, <3>4
    <2> QED
      BY <2>4, <2>5
  <1> QED
    BY <1>1, <1>4, <1>5

(* full_registration: the tables grow, then everything is sent.            *)
LEMMA FullKeepsCurrent ==
  ASSUME TInv, TInv', RInv, Full
  PROVE  RInv'
  <1>1. /\ Tables /\ ~rejected /\ clock \in BOOLEAN
        /\ source \in [Sources -> Nat] /\ sink \in [Sinks -> Nat]
        /\ senders \in [Sources -> Nat] /\ receivers \in [Sinks -> Nat]
    BY DEF TInv, IInv, Shape, Tables, WorkerOK, RInv
  <1>2. pc \in {"full", "sources", "sinks"} =>
          \A g \in trusted : DOMAIN registry[g] \subseteq WantedOf(senders, receivers)
    BY DEF RInv, Wanted
  <1>3. ASSUME pc \in {"full", "sources", "sinks"}, pc' \in {"sources", "sinks"},
               UNCHANGED <<registry, trusted, rejected>>,
               \A i \in Sources : senders[i] # 0 => senders'[i] # 0,
               \A j \in Sinks : receivers[j] # 0 => receivers'[j] # 0
        PROVE  RInv'
    <2>1. WantedOf(senders, receivers) \subseteq WantedOf(senders', receivers')
      BY <1>3, WantedGrows
    <2>2. \A g \in trusted' : DOMAIN registry'[g] \subseteq WantedOf(senders', receivers')
      BY <1>2, <1>3, <2>1
    <2>3. \A g \in trusted' : Family(registry'[g])
      BY <1>3 DEF RInv
    <2> QED
      BY <1>1, <1>3, <2>2, <2>3 DEF RInv, Between, Wanted
  <1>4. CASE BeginFull \/ SnapshotSinks
    BY <1>3, <1>4 DEF BeginFull, SnapshotSinks, network
  <1>5. CASE \E i \in Sources : SyncSource(i)
    <2>1. PICK i \in Sources : SyncSource(i)
      BY <1>5
    <2>2. \A k \in Sources : senders[k] # 0 => senders'[k] # 0
      BY <1>1, <2>1 DEF SyncSource, Built
    <2> QED
      BY <1>3, <2>1, <2>2 DEF SyncSource, network
  <1>6. CASE \E j \in Sinks : SyncSink(j)
    <2>1. PICK j \in Sinks : SyncSink(j)
      BY <1>6
    <2>2. \A k \in Sinks : receivers[k] # 0 => receivers'[k] # 0
      BY <1>1, <2>1 DEF SyncSink, Built
    <2> QED
      BY <1>3, <2>1, <2>2 DEF SyncSink, network
  <1>7. CASE Collect
    <2>1. /\ pc = "sinks" /\ pc' = "push" /\ UNCHANGED <<senders, receivers, rewritten, registry, rejected, back>>
          /\ trusted' = trusted \cup {g \in {Effective} : registry[g] = <<>>}
      BY <1>7 DEF Collect
    <2>2. /\ \A n \in DOMAIN pushes' : RightOf(senders, receivers, rewritten, pushes'[n])
          /\ Complete(senders, receivers, pushes') /\ ParentsFirst(pushes')
      <3>1. PICK ss \in InOrder({i \in Sources : senders[i] # 0}),
                 rs \in InOrder({j \in Sinks : receivers[j] # 0}) :
                 pushes' = FullPushes(ss, rs)
        BY <1>7 DEF Collect
      <3> QED
        BY <1>1, <3>1, FullContents
    <2>3. \A g \in trusted' : DOMAIN registry[g] \subseteq WantedOf(senders, receivers)
      BY <1>2, <2>1
    <2>4. ASSUME NEW g \in trusted'
          PROVE  /\ SettlingOf(senders', receivers', rewritten', pushes', registry'[g])
                 /\ Family(registry'[g])
      <3>1. ASSUME NEW r \in Resources, \A n \in DOMAIN pushes' : pushes'[n].res # r
            PROVE  SettledOf(senders, receivers, rewritten, registry[g], r)
        BY <2>2, <2>3, <3>1 DEF SettledOf, Complete
      <3>2. ASSUME NEW n \in DOMAIN pushes', pushes'[n].op = "DELETE",
                   NEW r \in DOMAIN registry[g]
            PROVE  pushes'[n].res \notin Parents(r)
        BY <2>2, <2>3, <3>2, ParentsWantedOf DEF RightOf
      <3>3. Family(registry[g])
        <4>1. g \in trusted \/ registry[g] = <<>>
          BY <2>1
        <4> QED
          BY <4>1 DEF RInv, Family
      <3> QED
        BY <2>1, <2>2, <3>1, <3>2, <3>3 DEF SettlingOf, ParentsFirst
    <2>5. \A n \in DOMAIN pushes' : RightOf(senders', receivers', rewritten', pushes'[n])
      BY <2>1, <2>2
    <2>6. back # "done"
      BY <2>1 DEF TInv, WorkerOK
    <2> QED
      BY <1>1, <2>1, <2>4, <2>5, <2>6, OperationBegun
  <1> QED
    BY <1>4, <1>5, <1>6, <1>7 DEF Full

(* The invariant of a registry that has missed nothing, step by step.      *)
LEMMA RInvInit == Init => RInv
  BY DEF Init, RInv, Between

LEMMA RInvNext == TInv /\ TInv' /\ RInv /\ [Next]_vars => RInv'
  <1> SUFFICES ASSUME TInv, TInv', RInv, [Next]_vars PROVE RInv'
    OBVIOUS
  <1>1. /\ ~rejected /\ WorkerOK /\ Tables /\ RewrittenOK
        /\ \A g \in trusted : Family(registry[g])
    BY DEF RInv, TInv, IInv, Shape, Tables
  (* Steps that leave the worker and the tables alone.                     *)
  <1>2. ASSUME UNCHANGED <<pc, back, pushes, senders, receivers, rejected>>,
               rewritten \subseteq rewritten', trusted' \subseteq trusted, \A g \in trusted' : registry'[g] = registry[g]
        PROVE  RInv'
    <2>1. ~rejected' /\ \A g \in trusted' : Family(registry'[g])
      BY <1>1, <1>2
    <2>2. ASSUME Between', NEW g \in trusted'
          PROVE  Current(g)'
      <3>1. Current(g)
        BY <1>2, <2>2 DEF RInv, Between
      <3> QED
        BY <1>2, <2>2, <3>1 DEF Current
    <2>3. ASSUME pc \in {"full", "sources", "sinks"}
          PROVE  \A g \in trusted' : DOMAIN registry'[g] \subseteq Wanted'
      BY <1>2, <2>3 DEF RInv, Wanted
    <2>4. ASSUME pc = "push", back # "done"
          PROVE  /\ \A n \in DOMAIN pushes' : Right(pushes[n])'
                 /\ \A g \in trusted' : Settling(g)'
      <3>1. \A n \in DOMAIN pushes : Right(pushes[n])
        BY <2>4 DEF RInv
      <3>2. \A g \in trusted : Settling(g)
        BY <2>4 DEF RInv
      <3>3. \A n \in DOMAIN pushes' : Right(pushes[n])'
        BY <1>2, <3>1 DEF Right, RightOf
      <3>4. \A g \in trusted' : Settling(g)'
        BY <1>2, <3>2 DEF Settling, SettlingOf, SettledOf
      <3> QED
        BY <3>3, <3>4
    <2> QED
      BY <1>2, <2>1, <2>2, <2>3, <2>4 DEF RInv
  <1>3. CASE Environment
    <2>1. CASE \E g \in Registries : Forget(g)
      <3>1. PICK g \in Registries : Forget(g)
        BY <2>1
      <3>2. \A h \in trusted' : registry'[h] = registry[h]
        BY <3>1 DEF Forget, TInv, NetworkOK
      <3> QED
        BY <1>2, <3>1, <3>2 DEF Forget, worker
    <2>2. CASE /\ UNCHANGED <<worker, senders, receivers, network>>
               /\ rewritten \subseteq rewritten'
      BY <1>2, <2>2 DEF worker, network
    <2>3. CASE \E i \in Sources : RemoveSource(i) \/ \E en \in BOOLEAN : AddSource(i, en)
      BY <2>2, <2>3 DEF RemoveSource, AddSource
    <2>4. CASE \E j \in Sinks : AddSink(j) \/ RemoveSink(j)
      BY <2>2, <2>4 DEF AddSink, RemoveSink
    <2>5. CASE RegistryResolved \/ RegistryRemoved \/ ClockFlips \/ Stop
      BY <2>2, <2>5 DEF RegistryResolved, RegistryRemoved, ClockFlips, Stop
    <2>6. CASE \/ \E i \in Sources : ActivateSender(i)
               \/ \E j \in Sinks : ActivateReceiver(j)
      BY <2>2, <2>6 DEF ActivateSender, ActivateReceiver
    <2> QED
      BY <1>3, <2>1, <2>3, <2>4, <2>5, <2>6 DEF Environment
  <1>4. CASE Pushed
    <2>1. /\ pc = "push" /\ pushes = <<>> /\ pc' = back
          /\ UNCHANGED <<back, senders, receivers, rewritten, registry, trusted, rejected>>
      BY <1>4 DEF Pushed, network
    <2>2. CASE back = "done"
      BY <1>1, <2>1, <2>2 DEF RInv, Between
    <2>3. CASE back # "done"
      <3>1. ASSUME NEW g \in trusted
            PROVE  Current(g)
        <4>1. SettlingOf(senders, receivers, rewritten, pushes, registry[g])
          BY <2>1, <2>3 DEF RInv, Settling
        <4>2. AllSettled(senders, receivers, rewritten, registry[g])
          BY <2>1, <4>1 DEF SettlingOf, AllSettled
        <4>3. DOMAIN registry[g] \subseteq Resources
          BY DEF TInv, NetworkOK
        <4> QED
          BY <1>1, <4>2, <4>3, CurrentSettled
      <3>2. pc' \in {"top", "drain", "node"}
        BY <1>1, <2>1, <2>3 DEF WorkerOK
      <3> QED
        BY <1>1, <2>1, <3>1, <3>2 DEF RInv, Between, Current
    <2> QED
      BY <2>2, <2>3
  (* Steps from one place between operations to another, or to a full      *)
  (* registration.                                                         *)
  <1>5. ASSUME Between, pc' \in {"top", "drain", "node", "full"},
               UNCHANGED <<senders, receivers, rewritten, registry, trusted, rejected>>
        PROVE  RInv'
    <2>1. \A g \in trusted : Current(g)
      BY <1>5 DEF RInv
    <2>2. \A g \in trusted : DOMAIN registry[g] \subseteq Wanted
      BY <2>1 DEF Current, Wanted, WantedOf
    <2> QED
      BY <1>1, <1>5, <2>1, <2>2 DEF RInv, Between, Current, Wanted
  <1>6. CASE Drained \/ HandleRegistryUpdated \/ HandleRegistryLost
             \/ HeartbeatForgotten \/ HeartbeatHeard \/ HeartbeatLost
    BY <1>5, <1>6 DEF Drained, HandleRegistryUpdated, HandleRegistryLost, HeartbeatForgotten,
       HeartbeatHeard, HeartbeatLost, Pop, Between, network, worker
  <1>7. CASE Enter
    <2>1. CASE running
      BY <1>5, <1>7, <2>1 DEF Enter, Between, network
    <2>2. CASE ~running
      <3>1. /\ pc' = "push" /\ back' = "done" /\ pushes' = <<Delete(Node)>>
            /\ UNCHANGED <<rejected, registry, trusted>>
        BY <1>7, <2>2 DEF Enter, network
      <3>2. \A n \in DOMAIN pushes' : pushes'[n] = Delete(Node)
        BY <3>1
      <3> QED
        BY <1>1, <3>1, <3>2 DEF RInv, Between
    <2> QED
      BY <2>1, <2>2
  <1>8. CASE RefreshNode
    <2>1. /\ Between /\ pc' = "push" /\ back' = "top" /\ pushes' = <<PostNode>>
          /\ UNCHANGED <<senders, receivers, rewritten, registry, trusted, rejected>>
      BY <1>8 DEF RefreshNode, Between, network
    <2>2. /\ DOMAIN pushes' = {1} /\ pushes'[1] = Post(Node, {clock})
      BY <2>1 DEF PostNode
    <2>3. pushes'[1].res = Node /\ Parents(Node) = {}
      BY <2>2, ParentKinds DEF Post
    <2>4. RightOf(senders, receivers, rewritten, pushes'[1])
      <3>1. Node \in WantedOf(senders, receivers)
        BY WantedOfKinds
      <3> QED
        BY <2>2, <3>1 DEF RightOf, Post
    <2>5. Covers(senders, receivers, rewritten, senders, receivers, rewritten, pushes') /\ Sorted(pushes')
      <3>1. pushes'[1].op # "DELETE"
        BY <2>2 DEF Post
      <3> QED
        BY <2>2, <2>3, <3>1 DEF Covers, Sorted
    <2>6. ASSUME NEW g \in trusted
          PROVE  SettlingOf(senders, receivers, rewritten, pushes', registry[g])
      <3>1. Current(g) /\ DOMAIN registry[g] \subseteq Resources
        BY <2>1 DEF RInv, TInv, NetworkOK
      <3> QED
        BY <1>1, <2>5, <3>1, CurrentSettled, OperationSettles
    <2> QED
      BY <1>1, <2>1, <2>2, <2>4, <2>6, OperationBegun
  <1>9. CASE UNCHANGED vars
    BY <1>2, <1>9 DEF vars
  <1>10. CASE Handle
    BY <1>6, <1>10, HandleKeepsCurrent DEF Handle
  <1>11. CASE Heartbeat
    BY <1>6, <1>8, <1>11 DEF Heartbeat
  <1> QED
    BY <1>3, <1>4, <1>6, <1>7, <1>9, <1>10, <1>11, FullKeepsCurrent, PushKeepsCurrent
       DEF Next, Worker

(* The node's tables, queue and requests are well formed in every state;   *)
(* only a sender or receiver there is can have been rewritten by IS-05;    *)
(* and a registry that has missed nothing holds no resource without all it *)
(* refers to, at any request (nmos_manager.cpp, all of the registration    *)
(* worker).                                                                *)
THEOREM RegistrationTypes == Spec => []TypeOK
  <1>1. TInv /\ RInv /\ [Next]_vars => (TInv /\ RInv)'
    BY TInvNext, RInvNext
  <1>2. TInv /\ RInv => TypeOK
    BY DEF TInv, IInv, Shape, Bounds, WorkerOK, NetworkOK, RewrittenOK, RInv, Family,
           TypeOK, EventSet
  <1> QED
    BY TInvInit, RInvInit, <1>1, <1>2, PTL DEF Spec

(* A registry that has missed nothing since it was empty refuses none of   *)
(* the documents the node sends, in the order full_registration,           *)
(* register_source, unregister_source and the others send them; whenever   *)
(* the worker is between operations it holds exactly the resources of the  *)
(* node's tables, and of each the document built last.  The documents an   *)
(* IS-05 activation has rewritten since are excepted: apply_sender_        *)
(* activation and apply_receiver_activation push nothing.                  *)
THEOREM RegistryKeptCurrent == Spec => []RegistryCurrent
  <1>1. TInv /\ RInv /\ [Next]_vars => (TInv /\ RInv)'
    BY TInvNext, RInvNext
  <1>2. RInv => RegistryCurrent
    BY DEF RInv, RegistryCurrent
  <1> QED
    BY TInvInit, RInvInit, <1>1, <1>2, PTL DEF Spec

(* From the session manager to the registry: what it has is what the       *)
(* registry holds, and the device lists it; the documents are of its       *)
(* version, but for those of senders and receivers IS-05 has rewritten.    *)
Mirrors(g) ==
  /\ \A j \in Sinks :
       /\ <<"receiver", j>> \in DOMAIN registry[g] <=> sink[j] # 0
       /\ <<"receiver", j>> \in registry[g][Device] <=> sink[j] # 0
       /\ sink[j] # 0 => \/ registry[g][<<"receiver", j>>] = {sink[j]}
                         \/ <<"receiver", j>> \in rewritten
  /\ \A i \in enabled :
       /\ <<"sender", i>> \in registry[g][Device]
       /\ \A kind \in {"source", "flow", "sender"} :
            /\ <<kind, i>> \in DOMAIN registry[g]
            /\ \/ registry[g][<<kind, i>>] = {source[i]}
               \/ kind = "sender" /\ <<"sender", i>> \in rewritten
  /\ \A i \in Sources : source[i] = 0 /\ i \notin unseen =>
       /\ <<"sender", i>> \notin registry[g][Device]
       /\ \A kind \in {"source", "flow", "sender"} : <<kind, i>> \notin DOMAIN registry[g]

RegistryMirrors == running /\ Between /\ events = <<>> => \A g \in trusted : Mirrors(g)

(* Once the worker has handled every event and is between operations, a    *)
(* registry that has missed nothing shows what the session manager has,    *)
(* end to end from its observers over senders_ and receivers_ to the       *)
(* pushes of registration_worker: a receiver for each sink and no other,   *)
(* a source, flow and sender for each enabled source, and none for a       *)
(* source that is gone, unless it was removed while disabled.  Each        *)
(* document is of the present version; the sender's and the receiver's may *)
(* be behind what IS-05 has made of them, which nothing pushes.            *)
THEOREM RegistryMirrorsManager == Spec => []RegistryMirrors
  <1>1. TablesFollow /\ TypeOK /\ RegistryCurrent => RegistryMirrors
    <2> SUFFICES ASSUME TablesFollow, TypeOK, RegistryCurrent, running, Between,
                        events = <<>>, NEW g \in trusted
                 PROVE  Mirrors(g)
      BY DEF RegistryMirrors
    <2>1. Current(g)
      BY DEF RegistryCurrent
    <2>2. DOMAIN events = {}
      OBVIOUS
    <2>3. /\ \A i \in Sources : /\ i \in enabled => senders[i] = source[i]
                                /\ source[i] = 0 => senders[i] = 0 \/ i \in unseen
          /\ \A j \in Sinks : receivers[j] = sink[j]
      BY <2>2 DEF TablesFollow, SendersFollow, ReceiversFollow, NoneAbout
    <2>4. enabled \subseteq {i \in Sources : source[i] # 0}
      BY DEF TypeOK
    <2>5. Tables
      BY DEF TypeOK, Tables
    <2>6. /\ DOMAIN registry[g] = Wanted
          /\ registry[g][Device] = Listed(senders, receivers)
          /\ \A r \in DOMAIN registry[g] \ {Node, Device} :
               \/ registry[g][r] = {IF r[1] = "receiver" THEN receivers[r[2]]
                                                         ELSE senders[r[2]]}
               \/ r \in rewritten
      BY <2>1 DEF Current, Wanted, WantedOf
    <2>7. ASSUME NEW j \in Sinks
          PROVE  /\ <<"receiver", j>> \in DOMAIN registry[g] <=> sink[j] # 0
                 /\ <<"receiver", j>> \in registry[g][Device] <=> sink[j] # 0
                 /\ sink[j] # 0 => \/ registry[g][<<"receiver", j>>] = {sink[j]}
                                   \/ <<"receiver", j>> \in rewritten
      <3>1. <<"receiver", j>> \in Listed(senders, receivers) <=> receivers[j] # 0
        BY DEF Listed
      <3>2. <<"receiver", j>> \in Wanted <=> receivers[j] # 0
        BY WantedKinds
      <3>3. <<"receiver", j>> \notin {Node, Device}
        BY DEF Node, Device
      <3> QED
        BY <2>3, <2>6, <3>1, <3>2, <3>3
    <2>8. ASSUME NEW i \in Sources, NEW kind \in {"source", "flow", "sender"}
          PROVE  /\ <<kind, i>> \in DOMAIN registry[g] <=> senders[i] # 0
                 /\ <<"sender", i>> \in registry[g][Device] <=> senders[i] # 0
                 /\ senders[i] # 0 =>
                      \/ registry[g][<<kind, i>>] = {senders[i]}
                      \/ kind = "sender" /\ <<"sender", i>> \in rewritten
      <3>1. <<"sender", i>> \in Listed(senders, receivers) <=> senders[i] # 0
        BY DEF Listed
      <3>2. <<kind, i>> \in Wanted <=> senders[i] # 0
        BY WantedKinds
      <3>3. <<kind, i>> \notin {Node, Device} /\ kind # "receiver"
        BY DEF Node, Device
      <3>4. <<kind, i>> \in rewritten => kind = "sender"
        BY ListedKinds DEF TypeOK
      <3> QED
        BY <2>6, <3>1, <3>2, <3>3, <3>4
    <2> QED
      BY <2>3, <2>4, <2>7, <2>8 DEF Mirrors
  <1> QED
    BY <1>1, NodeFollows, RegistrationTypes, RegistryKeptCurrent, PTL
=============================================================================
