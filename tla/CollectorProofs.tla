-------------------------- MODULE CollectorProofs --------------------------
(* Proofs about Collector, for every set of calls, connections, messages,   *)
(* netmasks, buckets and capacities: its state is well typed, an entry is   *)
(* the smallest of the samples compared with it, counters do not fall       *)
(* behind the cache, and a page counts one set of entries and leaves out    *)
(* none that stayed.                                                        *)
EXTENDS Collector, FiniteSetTheorems, TLAPS

LEMMA TailType == \A S : \A s \in Seq(S) : s # <<>> => Tail(s) \in Seq(S)
  OBVIOUS

LEMMA HeadType == \A S : \A s \in Seq(S) : s # <<>> => Head(s) \in S
  OBVIOUS

(* The sample a handler deals with, its agent and its series.               *)
LEMMA CurrentSample ==
    ASSUME TypeOK, NEW h \in Calls, cur[h] # <<>>
    PROVE  /\ Head(cur[h]) \in Samples /\ Tail(cur[h]) \in Seq(Samples)
           /\ Rtt(h) \in Rtts /\ Rtt(h) \in Nat
           /\ KeyOf(h, Head(cur[h])) \in Keys
           /\ SeriesOf(h, Head(cur[h])) \in Series
  <1>1. cur[h] \in Seq(Samples)
    BY DEF TypeOK
  <1>2. Head(cur[h]) \in Samples /\ Tail(cur[h]) \in Seq(Samples)
    BY <1>1, TailType, HeadType
  <1>3. /\ Head(cur[h]).conn \in Conns /\ Head(cur[h]).host \in Hosts
        /\ Head(cur[h]).rtt \in Rtts /\ now \in 0..MaxTime /\ Addr[h] \in Peers
    BY <1>2 DEF Samples, TypeOK, Peers
  <1>4. AgentOf(h, Head(cur[h])) \in Agents
    BY <1>3 DEF AgentOf, Agents
  <1>5. KeyOf(h, Head(cur[h])) \in Keys
    BY <1>3, <1>4 DEF KeyOf, Keys
  <1>6. SeriesOf(h, Head(cur[h])) \in Series
    BY <1>3 DEF SeriesOf, Series
  <1>7. Rtt(h) \in Rtts /\ Rtt(h) \in Nat
    BY <1>3, CollectorAssumption DEF Rtt
  <1> QED
    BY <1>2, <1>5, <1>6, <1>7

(* A handler inside or_insert_with_if.                                      *)
LEMMA AskingType ==
    ASSUME TypeOK, NEW h \in DOMAIN asks
    PROVE  /\ h \in Calls /\ h \in up /\ cur[h] # <<>>
           /\ asks[h] \in [key : Keys, place : Places] /\ Key(h) \in Keys
           /\ Rtt(h) \in Rtts /\ Rtt(h) \in Nat
           /\ SeriesOf(h, Head(cur[h])) \in Series /\ Tail(cur[h]) \in Seq(Samples)
  <1>1. h \in Calls /\ h \in up /\ cur[h] # <<>> /\ asks[h] \in [key : Keys, place : Places]
    BY DEF TypeOK
  <1>2. Key(h) \in Keys
    BY <1>1 DEF Key
  <1> QED
    BY <1>1, <1>2, CurrentSample

LEMMA Moved ==
    ASSUME TypeOK, NEW h \in DOMAIN asks, NEW p \in Places,
           asks' = [asks EXCEPT ![h].place = p]
    PROVE  /\ DOMAIN asks' = DOMAIN asks
           /\ asks'[h] = [key |-> asks[h].key, place |-> p]
           /\ \A x \in DOMAIN asks : x # h => asks'[x] = asks[x]
           /\ \A x \in DOMAIN asks' : asks'[x] \in [key : Keys, place : Places]
           /\ \A x \in DOMAIN asks' : asks'[x].key = asks[x].key
  <1>1. asks[h] \in [key : Keys, place : Places]
    BY AskingType
  <1>2. asks'[h] = [asks[h] EXCEPT !.place = p] /\ DOMAIN asks' = DOMAIN asks
    OBVIOUS
  <1>3. asks'[h] = [key |-> asks[h].key, place |-> p]
    BY <1>1, <1>2
  <1>4. \A x \in DOMAIN asks : x # h => asks'[x] = asks[x]
    OBVIOUS
  <1>5. \A x \in DOMAIN asks' : asks'[x] \in [key : Keys, place : Places]
    BY <1>1, <1>2, <1>3, <1>4 DEF TypeOK
  <1> QED
    BY <1>2, <1>3, <1>4, <1>5

LEMMA NetOfType == \A k \in Keys : NetOf(k) \in Nets
  BY DEF Keys, NetOf, Nets

(* What the handlers leave alone, and the type of what they change.         *)
HandlerType ==
    /\ msgs \in 0..MaxMsgs
    /\ up \subseteq Calls
    /\ cur \in [Calls -> Seq(Samples)]
    /\ \A h \in Calls : h \notin up => cur[h] = <<>>
    /\ DOMAIN asks \subseteq up
    /\ \A h \in DOMAIN asks : asks[h] \in [key : Keys, place : Places] /\ cur[h] # <<>>

RestType ==
    /\ now \in 0..MaxTime
    /\ DOMAIN store \subseteq Keys /\ \A k \in DOMAIN store : store[k] \in Stored
    /\ events \in [Series -> Nat]
    /\ scrape \in {"idle", "iterating", "done"}
    /\ left \subseteq Keys /\ seen \subseteq Entries
    /\ hist \in [Nets -> [Bounds \cup {Inf} -> Nat]]
    /\ unique \in [SrcNets -> SUBSET {Src[c] : c \in Conns}]
    /\ scrapes \in 0..MaxScrapes
    /\ compared \subseteq Entries /\ removed \subseteq Keys
    /\ aborted \in [Series -> Nat]

LEMMA TypeParts == TypeOK <=> HandlerType /\ RestType
  BY DEF TypeOK, HandlerType, RestType

LEMMA TypeInit == Init => TypeOK
  <1> SUFFICES ASSUME Init PROVE TypeOK
    OBVIOUS
  <1>1. <<>> \in Seq(Samples)
    OBVIOUS
  <1>2. DOMAIN store = {} /\ DOMAIN asks = {}
    BY DEF Init
  <1>3. HandlerType
    BY <1>1, <1>2, CollectorAssumption DEF Init, HandlerType
  <1>4. hist \in [Nets -> [Bounds \cup {Inf} -> Nat]]
    BY DEF Init, NoHist
  <1>5. unique \in [SrcNets -> SUBSET {Src[c] : c \in Conns}]
    BY DEF Init, NoUnique
  <1>6. now \in 0..MaxTime /\ scrapes \in 0..MaxScrapes
    BY CollectorAssumption DEF Init
  <1>7. RestType
    BY <1>2, <1>4, <1>5, <1>6 DEF Init, RestType
  <1> QED
    BY <1>3, <1>7, TypeParts

(* The handlers' own variables.                                             *)
LEMMA HandlerStep == TypeOK /\ [Next]_vars => HandlerType'
  <1> SUFFICES ASSUME TypeOK, [Next]_vars PROVE HandlerType'
    OBVIOUS
  <1> USE CollectorAssumption
  <1>1. ASSUME UNCHANGED callVars PROVE HandlerType'
    BY <1>1 DEF TypeOK, HandlerType, callVars
  <1>2. ASSUME NEW s \in Streams, Open(s) PROVE HandlerType'
    BY <1>2 DEF TypeOK, HandlerType, Open, Calls
  <1>3. ASSUME NEW s \in Streams, NEW m \in Msgs, Read(s, m) PROVE HandlerType'
    <2>1. m \in Seq(Samples) /\ s \in Calls /\ msgs' \in 0..MaxMsgs
      BY <1>3 DEF TypeOK, Read, Calls
    <2>2. s \in up /\ s \notin DOMAIN asks
      BY <1>3 DEF TypeOK, Read
    <2> QED
      BY <1>3, <2>1, <2>2 DEF TypeOK, HandlerType, Read
  <1>4. ASSUME NEW h \in Calls, EndOfStream(h) \/ Reply(h) PROVE HandlerType'
    <2>1. /\ h \in up /\ h \notin DOMAIN asks /\ cur[h] = <<>> /\ up' = up \ {h}
          /\ UNCHANGED <<msgs, cur, asks>>
      BY <1>4 DEF TypeOK, EndOfStream, Reply
    <2> QED
      BY <2>1 DEF TypeOK, HandlerType
  <1>5. ASSUME NEW f \in Flows, NEW m \in Msgs, Call(f, m) PROVE HandlerType'
    <2>1. m \in Seq(Samples) /\ f \in Calls /\ msgs' \in 0..MaxMsgs
      BY <1>5 DEF TypeOK, Call, Calls
    <2>2. f \notin DOMAIN asks
      BY <1>5 DEF TypeOK, Call
    <2> QED
      BY <1>5, <2>1, <2>2 DEF TypeOK, HandlerType, Call
  <1>6. ASSUME NEW h \in Calls, Skip(h) PROVE HandlerType'
    <2>1. Tail(cur[h]) \in Seq(Samples) /\ h \in up /\ h \notin DOMAIN asks
      BY <1>6, CurrentSample DEF Skip, Facing
    <2> QED
      BY <1>6, <2>1 DEF TypeOK, HandlerType, Skip
  <1>7. ASSUME NEW h \in Calls, Ask(h) PROVE HandlerType'
    <2> DEFINE k == KeyOf(h, Head(cur[h]))
    <2>1. h \in up /\ cur[h] # <<>> /\ k \in Keys
      BY <1>7, CurrentSample DEF Ask, Facing
    <2>2. /\ asks' = [x \in DOMAIN asks \cup {h} |->
                        IF x = h THEN [key |-> k, place |-> "asks"] ELSE asks[x]]
          /\ UNCHANGED <<msgs, up, cur>>
      BY <1>7 DEF Ask
    <2> HIDE DEF k
    <2>3. [key |-> k, place |-> "asks"] \in [key : Keys, place : Places]
      BY <2>1 DEF Places
    <2>4. \A x \in DOMAIN asks' : asks'[x] \in [key : Keys, place : Places] /\ cur[x] # <<>>
      BY <2>1, <2>2, <2>3 DEF TypeOK
    <2> QED
      BY <2>1, <2>2, <2>4 DEF TypeOK, HandlerType
  <1>8. ASSUME NEW h \in Calls, NEW p \in Places, h \in DOMAIN asks,
               asks' = [asks EXCEPT ![h].place = p], UNCHANGED <<msgs, up, cur>>
        PROVE  HandlerType'
    <2>1. /\ DOMAIN asks' = DOMAIN asks
          /\ \A x \in DOMAIN asks' : asks'[x] \in [key : Keys, place : Places]
      BY <1>8, Moved
    <2> QED
      BY <1>8, <2>1 DEF TypeOK, HandlerType
  <1>9. ASSUME NEW h \in Calls, FindKept(h) \/ Wait(h) \/ Lead(h) \/ Fill(h)
        PROVE  HandlerType'
    BY <1>8, <1>9 DEF FindKept, Wait, Lead, Fill, Deciding, MoveTo, At, Places
  <1>10. ASSUME NEW h \in Calls, Count(h) PROVE HandlerType'
    <2>1. h \in DOMAIN asks /\ h \in up /\ Tail(cur[h]) \in Seq(Samples)
      BY <1>10, AskingType DEF Count, At
    <2>2. /\ asks' = Answered(h) /\ cur' = [cur EXCEPT ![h] = Tail(cur[h])]
          /\ UNCHANGED <<msgs, up>>
      BY <1>10 DEF Count
    <2>3. DOMAIN asks' = DOMAIN asks \ {h}
      BY <2>2 DEF Answered
    <2>4. ASSUME NEW x \in DOMAIN asks'
          PROVE  asks'[x] \in [key : Keys, place : Places] /\ cur'[x] # <<>>
      <3>1. x \in DOMAIN asks /\ x # h /\ Key(x) \in Keys /\ x \in Calls
            /\ asks[x] \in [key : Keys, place : Places] /\ cur[x] # <<>>
        BY <2>3, AskingType
      <3>2. asks'[x] = [key |-> Key(x), place |-> "answered"] \/ asks'[x] = asks[x]
        BY <2>2, <2>3 DEF Answered
      <3>3. asks'[x] \in [key : Keys, place : Places]
        BY <3>1, <3>2 DEF Places
      <3> QED
        BY <2>2, <3>1, <3>3 DEF TypeOK
    <2> QED
      BY <2>1, <2>2, <2>3, <2>4 DEF TypeOK, HandlerType
  <1>11. ASSUME NEW h \in Calls, NoAddress(h) \/ Cancel(h) PROVE HandlerType'
    <2>1. /\ h \in up /\ up' = up \ {h} /\ DOMAIN asks' = DOMAIN asks \ {h}
          /\ \A x \in DOMAIN asks' : asks'[x] = asks[x]
          /\ cur' = [cur EXCEPT ![h] = <<>>]
          /\ UNCHANGED msgs
      BY <1>11 DEF NoAddress, Cancel, Facing
    <2>2. <<>> \in Seq(Samples)
      OBVIOUS
    <2> QED
      BY <2>1, <2>2 DEF TypeOK, HandlerType
  <1>12. CASE Tick \/ BeginScrape \/ EndScrape \/ UNCHANGED vars
    BY <1>1, <1>12 DEF Tick, BeginScrape, EndScrape, vars
  <1>13. ASSUME NEW k \in DOMAIN store, Drop(k) \/ Visit(k) PROVE HandlerType'
    BY <1>1, <1>13 DEF Drop, Visit
  <1> QED
    BY <1>2, <1>3, <1>4, <1>5, <1>6, <1>7, <1>9, <1>10, <1>11, <1>12, <1>13 DEF Next, Calls

LEMMA RecordType ==
    ASSUME TypeOK, NEW k \in Keys, NEW rtt \in Rtts
    PROVE  Record(k, rtt) \in [Nets -> [Bounds \cup {Inf} -> Nat]]
  <1>1. NetOf(k) \in Nets
    BY NetOfType
  <1>2. hist \in [Nets -> [Bounds \cup {Inf} -> Nat]]
    BY DEF TypeOK
  <1>3. [b \in Bounds \cup {Inf} |->
           IF b = Inf \/ rtt <= b THEN hist[NetOf(k)][b] + 1 ELSE hist[NetOf(k)][b]]
          \in [Bounds \cup {Inf} -> Nat]
    BY <1>1, <1>2
  <1> QED
    BY <1>1, <1>2, <1>3 DEF Record

(* What Fill does, with its value and its key in hand.                      *)
LEMMA FillType ==
    ASSUME TypeOK, NEW h \in Calls, Fill(h)
    PROVE  /\ h \in DOMAIN asks /\ Key(h) \in Keys /\ Rtt(h) \in Rtts /\ Rtt(h) \in Nat
           /\ SeriesOf(h, Head(cur[h])) \in Series
           /\ DOMAIN store' = DOMAIN store \cup {Key(h)}
           /\ store'[Key(h)] = [rtt |-> Rtt(h), at |-> now, by |-> SeriesOf(h, Head(cur[h]))]
           /\ store'[Key(h)] \in Stored /\ store'[Key(h)].rtt = Rtt(h)
           /\ store'[Key(h)].by = SeriesOf(h, Head(cur[h]))
           /\ \A q \in DOMAIN store : q # Key(h) => store'[q] = store[q]
  <1>1. h \in DOMAIN asks
    BY DEF Fill, At
  <1>2. /\ Key(h) \in Keys /\ Rtt(h) \in Rtts /\ Rtt(h) \in Nat
        /\ SeriesOf(h, Head(cur[h])) \in Series
    BY <1>1, AskingType
  <1>3. /\ DOMAIN store' = DOMAIN store \cup {Key(h)}
        /\ store'[Key(h)] = [rtt |-> Rtt(h), at |-> now, by |-> SeriesOf(h, Head(cur[h]))]
        /\ \A q \in DOMAIN store : q # Key(h) => store'[q] = store[q]
    BY DEF Fill
  <1>4. store'[Key(h)] \in Stored
    BY <1>2, <1>3 DEF Stored, TypeOK
  <1> QED
    BY <1>1, <1>2, <1>3, <1>4

(* The cache, the counters and the page.                                    *)
LEMMA RestStep == TypeOK /\ [Next]_vars => RestType'
  <1> SUFFICES ASSUME TypeOK, [Next]_vars PROVE RestType'
    OBVIOUS
  <1> USE CollectorAssumption
  <1>1. ASSUME UNCHANGED <<now, store, events, pageVars, histVars>> PROVE RestType'
    BY <1>1 DEF TypeOK, RestType, pageVars, histVars
  <1>2. ASSUME NEW s \in Streams,
               Open(s) \/ EndOfStream(s) \/ \E m \in Msgs : Read(s, m)
        PROVE  RestType'
    BY <1>1, <1>2 DEF Open, EndOfStream, Read
  <1>3. ASSUME NEW f \in Flows, Reply(f) \/ \E m \in Msgs : Call(f, m) PROVE RestType'
    BY <1>1, <1>3 DEF Reply, Call
  <1>4. ASSUME NEW h \in Calls, Skip(h) \/ NoAddress(h) \/ Ask(h) PROVE RestType'
    BY <1>1, <1>4 DEF Skip, NoAddress, Ask
  <1>5. ASSUME NEW h \in Calls, Wait(h) \/ Lead(h) PROVE RestType'
    BY <1>1, <1>5 DEF Wait, Lead, MoveTo, pageVars, histVars
  <1>6. ASSUME NEW h \in Calls, FindKept(h) PROVE RestType'
    <2>1. h \in DOMAIN asks
      BY <1>6 DEF FindKept, Deciding, At
    <2>2. compared' = compared \cup {[key |-> Key(h), rtt |-> Rtt(h)]}
          /\ UNCHANGED <<now, store, events, pageVars, removed, aborted>>
      BY <1>6 DEF FindKept, MoveTo, Compare, pageVars
    <2>3. [key |-> Key(h), rtt |-> Rtt(h)] \in Entries
      BY <2>1, AskingType DEF Entries
    <2>4. compared' \subseteq Entries
      BY <2>2, <2>3 DEF TypeOK
    <2> QED
      BY <2>2, <2>4 DEF TypeOK, RestType, pageVars
  <1>7. ASSUME NEW h \in Calls, Fill(h) PROVE RestType'
    <2> DEFINE k == Key(h)
    <2>0. /\ k \in Keys /\ Rtt(h) \in Rtts
          /\ DOMAIN store' = DOMAIN store \cup {k} /\ store'[k] \in Stored
          /\ \A q \in DOMAIN store : q # k => store'[q] = store[q]
      BY <1>7, FillType
    <2>1. DOMAIN store' \subseteq Keys /\ \A q \in DOMAIN store' : store'[q] \in Stored
      <3> HIDE DEF k
      <3> QED
        BY <2>0 DEF TypeOK
    <2>2. compared' \subseteq Entries
      <3>1. [key |-> k, rtt |-> Rtt(h)] \in Entries
        BY <2>0 DEF Entries
      <3>2. compared' = compared \cup {[key |-> k, rtt |-> Rtt(h)]}
        BY <1>7 DEF Fill, Compare
      <3> QED
        BY <3>1, <3>2 DEF TypeOK
    <2>3. left' \subseteq Keys /\ removed' \subseteq Keys
      BY <1>7 DEF Fill, TypeOK
    <2>4. UNCHANGED <<now, events, scrape, seen, hist, unique, scrapes, aborted>>
      BY <1>7 DEF Fill
    <2> QED
      BY <2>1, <2>2, <2>3, <2>4 DEF TypeOK, RestType
  <1>8. ASSUME NEW h \in Calls, Count(h) PROVE RestType'
    <2>1. SeriesOf(h, Head(cur[h])) \in Series
      BY <1>8, AskingType DEF Count, At
    <2>2. events' \in [Series -> Nat]
      BY <1>8, <2>1 DEF TypeOK, Count
    <2> QED
      BY <1>8, <2>2 DEF TypeOK, RestType, Count, pageVars, histVars
  <1>9. ASSUME NEW h \in Calls, Cancel(h) PROVE RestType'
    <2>1. aborted' \in [Series -> Nat]
      <3>1. CASE At(h, "stored")
        <4>1. SeriesOf(h, Head(cur[h])) \in Series
          BY <3>1, AskingType DEF At
        <4> QED
          BY <1>9, <3>1, <4>1 DEF TypeOK, Cancel
      <3>2. CASE ~At(h, "stored")
        BY <1>9, <3>2 DEF TypeOK, Cancel
      <3> QED
        BY <3>1, <3>2
    <2> QED
      BY <1>9, <2>1 DEF TypeOK, RestType, Cancel, pageVars
  <1>10. CASE Tick
    <2>1. now' \in 0..MaxTime
      BY <1>10 DEF TypeOK, Tick
    <2> QED
      BY <1>10, <2>1 DEF TypeOK, RestType, Tick, pageVars, histVars
  <1>11. ASSUME NEW k \in DOMAIN store, Drop(k) PROVE RestType'
    BY <1>11 DEF TypeOK, RestType, Drop
  <1>12. CASE BeginScrape
    <2>1. hist' \in [Nets -> [Bounds \cup {Inf} -> Nat]]
      BY <1>12 DEF BeginScrape, NoHist
    <2>2. unique' \in [SrcNets -> SUBSET {Src[c] : c \in Conns}]
      BY <1>12 DEF BeginScrape, NoUnique
    <2>3. scrapes' \in 0..MaxScrapes
      BY <1>12 DEF TypeOK, BeginScrape
    <2>4. left' \subseteq Keys /\ seen' \subseteq Entries
      BY <1>12 DEF TypeOK, BeginScrape
    <2> QED
      BY <1>12, <2>1, <2>2, <2>3, <2>4 DEF TypeOK, RestType, BeginScrape, histVars
  <1>13. ASSUME NEW k \in DOMAIN store, Visit(k) PROVE RestType'
    <2>1. k \in Keys /\ store[k].rtt \in Rtts
      BY DEF TypeOK, Stored
    <2>2. hist' \in [Nets -> [Bounds \cup {Inf} -> Nat]]
      BY <1>13, <2>1, RecordType DEF Visit
    <2>3. unique' \in [SrcNets -> SUBSET {Src[c] : c \in Conns}]
      <3>1. k.conn \in Conns
        BY <2>1 DEF Keys
      <3> QED
        BY <1>13, <3>1 DEF TypeOK, Visit, SrcNets
    <2>4. seen' \subseteq Entries
      BY <1>13, <2>1 DEF TypeOK, Visit, Entries
    <2> QED
      BY <1>13, <2>2, <2>3, <2>4 DEF TypeOK, RestType, Visit, histVars
  <1>14. CASE EndScrape
    BY <1>14 DEF TypeOK, RestType, EndScrape, histVars
  <1>15. CASE UNCHANGED vars
    BY <1>1, <1>15 DEF vars
  <1> QED
    BY <1>2, <1>3, <1>4, <1>5, <1>6, <1>7, <1>8, <1>9, <1>10, <1>11, <1>12, <1>13, <1>14,
       <1>15 DEF Next

LEMMA TypeStep == TypeOK /\ [Next]_vars => TypeOK'
  <1> SUFFICES ASSUME TypeOK, [Next]_vars PROVE TypeOK'
    OBVIOUS
  <1>1. HandlerType' /\ RestType'
    BY HandlerStep, RestStep
  <1> QED
    BY <1>1 DEF TypeOK, HandlerType, RestType

(* Every reachable state is well typed; in particular a handler that ended  *)
(* has nothing left to deal with and asks the cache for nothing, however it *)
(* ended.                                                                   *)
THEOREM TypeCorrect == Spec => []TypeOK
  BY TypeInit, TypeStep, PTL DEF Spec

-----------------------------------------------------------------------------
(* One call at a time stores a value under a key.                           *)

Leading(h) == h \in DOMAIN asks /\ asks[h].place \in {"leads", "stored"}

(* At most one call leads a key, and the value it is about to store is not  *)
(* one the entry would be kept for.                                         *)
LeaderInv ==
    /\ \A g, h \in Calls : Leading(g) /\ Leading(h) /\ Key(g) = Key(h) => g = h
    /\ \A h \in Calls : At(h, "leads") => ~Kept(Key(h), Rtt(h))

(* No new leader, and no entry that is kept where it was not.               *)
LEMMA LeaderFewer ==
    ASSUME LeaderInv,
           \A h \in Calls : Leading(h)' => /\ Leading(h) /\ asks'[h] = asks[h]
                                           /\ cur'[h] = cur[h],
           \A h \in Calls : Kept(Key(h), Rtt(h))' /\ At(h, "leads") /\ asks'[h] = asks[h]
                              /\ cur'[h] = cur[h] => Kept(Key(h), Rtt(h))
    PROVE  LeaderInv'
  <1>1. ASSUME NEW g \in Calls, NEW h \in Calls, Leading(g)', Leading(h)', Key(g)' = Key(h)'
        PROVE  g = h
    BY <1>1 DEF LeaderInv, Key
  <1>2. ASSUME NEW h \in Calls, At(h, "leads")' PROVE ~Kept(Key(h), Rtt(h))'
    <2>1. Leading(h)'
      BY <1>2 DEF At, Leading
    <2>2. asks'[h] = asks[h] /\ cur'[h] = cur[h] /\ At(h, "leads")
      BY <1>2, <2>1 DEF At, Leading
    <2> QED
      BY <2>2 DEF LeaderInv
  <1> QED
    BY <1>1, <1>2 DEF LeaderInv

LEMMA SameKept ==
    ASSUME UNCHANGED <<now, store>>, NEW h, asks'[h] = asks[h], cur'[h] = cur[h]
    PROVE  Kept(Key(h), Rtt(h))' <=> Kept(Key(h), Rtt(h))
  BY DEF Kept, Visible, Key, Rtt

LEMMA LeaderStep == TypeOK /\ LeaderInv /\ [Next]_vars => LeaderInv'
  <1> SUFFICES ASSUME TypeOK, LeaderInv, [Next]_vars PROVE LeaderInv'
    OBVIOUS
  <1>1. ASSUME UNCHANGED <<now, store>>,
               \A h \in Calls : Leading(h)' => /\ Leading(h) /\ asks'[h] = asks[h]
                                               /\ cur'[h] = cur[h]
        PROVE  LeaderInv'
    BY <1>1, LeaderFewer, SameKept
  <1>2. ASSUME UNCHANGED <<now, store, asks>>, \A h \in DOMAIN asks : cur'[h] = cur[h]
        PROVE  LeaderInv'
    <2>1. \A h \in Calls : Leading(h)' => /\ Leading(h) /\ asks'[h] = asks[h]
                                          /\ cur'[h] = cur[h]
      BY <1>2 DEF Leading
    <2> QED
      BY <1>1, <1>2, <2>1
  <1>3. ASSUME UNCHANGED <<asks, cur>>,
               \A k \in Keys : k \in DOMAIN store' /\ Visible(k)' =>
                               k \in DOMAIN store /\ Visible(k) /\ store'[k] = store[k]
        PROVE  LeaderInv'
    <2>1. \A h \in Calls : Leading(h)' => /\ Leading(h) /\ asks'[h] = asks[h]
                                          /\ cur'[h] = cur[h]
      BY <1>3 DEF Leading
    <2>2. ASSUME NEW h \in Calls, Kept(Key(h), Rtt(h))', At(h, "leads")
          PROVE  Kept(Key(h), Rtt(h))
      <3>1. Key(h) \in Keys /\ Key(h)' = Key(h) /\ Rtt(h)' = Rtt(h)
        BY <1>3, <2>2, AskingType DEF At, Key, Rtt
      <3> QED
        BY <1>3, <2>2, <3>1 DEF Kept, Visible
    <2> QED
      BY <2>1, <2>2, LeaderFewer
  <1>4. ASSUME NEW s \in Streams, Open(s) \/ EndOfStream(s) \/ \E m \in Msgs : Read(s, m)
        PROVE  LeaderInv'
    <2>1. \A h \in DOMAIN asks : cur[h] # <<>>
      BY DEF TypeOK
    <2>2. \A h \in DOMAIN asks : cur'[h] = cur[h]
      BY <1>4, <2>1 DEF Open, EndOfStream, Read, TypeOK
    <2> QED
      BY <1>2, <1>4, <2>2 DEF Open, EndOfStream, Read
  <1>5. ASSUME NEW f \in Flows, Reply(f) \/ \E m \in Msgs : Call(f, m) PROVE LeaderInv'
    <2>1. \A h \in DOMAIN asks : h \in up
      BY DEF TypeOK
    <2>2. \A h \in DOMAIN asks : cur'[h] = cur[h]
      BY <1>5, <2>1 DEF Reply, Call, TypeOK
    <2> QED
      BY <1>2, <1>5, <2>2 DEF Reply, Call
  <1>6. ASSUME NEW h \in Calls, Skip(h) \/ NoAddress(h) PROVE LeaderInv'
    <2>1. h \notin DOMAIN asks
      BY <1>6 DEF Skip, NoAddress, Facing
    <2>2. \A x \in DOMAIN asks : cur'[x] = cur[x]
      BY <1>6, <2>1 DEF Skip, NoAddress, TypeOK
    <2> QED
      BY <1>2, <1>6, <2>2 DEF Skip, NoAddress
  <1>7. ASSUME NEW h \in Calls, Ask(h) PROVE LeaderInv'
    <2>1. /\ asks'[h].place = "asks" /\ DOMAIN asks' = DOMAIN asks \cup {h}
          /\ \A x \in DOMAIN asks : x # h => asks'[x] = asks[x]
          /\ UNCHANGED <<now, store, cur>>
      BY <1>7 DEF Ask
    <2> QED
      BY <1>1, <2>1 DEF Leading
  <1>8. ASSUME NEW h \in Calls, FindKept(h) \/ Wait(h) PROVE LeaderInv'
    <2>1. PICK p \in {"answered", "waits"} : asks' = [asks EXCEPT ![h].place = p]
      BY <1>8 DEF FindKept, Wait, MoveTo
    <2>2. h \in DOMAIN asks /\ UNCHANGED <<now, store, cur>>
      BY <1>8 DEF FindKept, Wait, MoveTo, Deciding, At
    <2>3. /\ DOMAIN asks' = DOMAIN asks /\ asks'[h].place = p
          /\ \A x \in DOMAIN asks : x # h => asks'[x] = asks[x]
      BY <2>1, <2>2, Moved DEF Places
    <2> QED
      BY <1>1, <2>2, <2>3 DEF Leading
  <1>9. ASSUME NEW h \in Calls, Lead(h) PROVE LeaderInv'
    <2>1. /\ h \in DOMAIN asks /\ asks' = [asks EXCEPT ![h].place = "leads"]
          /\ UNCHANGED <<now, store, cur>>
          /\ Leaders(Key(h)) = {} /\ ~Kept(Key(h), Rtt(h))
      BY <1>9 DEF Lead, MoveTo, Deciding, At
    <2>2. /\ DOMAIN asks' = DOMAIN asks
          /\ asks'[h] = [key |-> asks[h].key, place |-> "leads"]
          /\ \A x \in DOMAIN asks : x # h => asks'[x] = asks[x]
      BY <2>1, Moved DEF Places
    <2>3. \A x \in Calls : x # h /\ Leading(x)' => Leading(x) /\ Key(x)' = Key(x) /\ Key(x) # Key(h)
      BY <2>1, <2>2 DEF Leading, Leaders, Key
    <2>4. Key(h)' = Key(h)
      BY <2>2 DEF Key
    <2>5. ASSUME NEW g \in Calls, NEW x \in Calls, Leading(g)', Leading(x)', Key(g)' = Key(x)'
          PROVE  g = x
      BY <2>3, <2>4, <2>5 DEF LeaderInv
    <2>6. ASSUME NEW x \in Calls, At(x, "leads")' PROVE ~Kept(Key(x), Rtt(x))'
      <3>1. CASE x = h
        BY <2>1, <2>4, <3>1 DEF Kept, Visible, Rtt
      <3>2. CASE x # h
        <4>1. asks'[x] = asks[x] /\ At(x, "leads")
          BY <2>2, <2>6, <3>2 DEF At
        <4> QED
          BY <2>1, <4>1, SameKept DEF LeaderInv
      <3> QED
        BY <3>1, <3>2
    <2> QED
      BY <2>5, <2>6 DEF LeaderInv
  <1>10. ASSUME NEW h \in Calls, Fill(h) PROVE LeaderInv'
    <2>1. /\ h \in DOMAIN asks /\ asks' = [asks EXCEPT ![h].place = "stored"]
          /\ UNCHANGED <<now, cur>> /\ Leading(h)
      BY <1>10 DEF Fill, At, Leading
    <2>2. /\ DOMAIN asks' = DOMAIN asks
          /\ asks'[h] = [key |-> asks[h].key, place |-> "stored"]
          /\ \A x \in DOMAIN asks : x # h => asks'[x] = asks[x]
      BY <2>1, Moved DEF Places
    <2>3. \A x \in Calls : /\ Leading(x)' => Leading(x)
                           /\ x \in DOMAIN asks => Key(x)' = Key(x)
      BY <2>1, <2>2 DEF Leading, Key
    <2>4. ASSUME NEW g \in Calls, NEW x \in Calls, Leading(g)', Leading(x)', Key(g)' = Key(x)'
          PROVE  g = x
      BY <2>3, <2>4 DEF LeaderInv, Leading
    <2>5. ASSUME NEW x \in Calls, At(x, "leads")' PROVE ~Kept(Key(x), Rtt(x))'
      <3>1. x # h /\ asks'[x] = asks[x] /\ At(x, "leads") /\ Leading(x)
        BY <2>2, <2>5 DEF At, Leading
      <3>2. Key(x) # Key(h) /\ Key(x)' = Key(x) /\ Rtt(x)' = Rtt(x)
        BY <2>1, <2>3, <3>1 DEF LeaderInv, Leading, Rtt
      <3>3. /\ Key(x) \in DOMAIN store' => Key(x) \in DOMAIN store
            /\ Key(x) \in DOMAIN store => store'[Key(x)] = store[Key(x)]
        <4> DEFINE k == Key(h)
                   y == Key(x)
        <4>1. /\ DOMAIN store' = DOMAIN store \cup {k}
              /\ \A q \in DOMAIN store : q # k => store'[q] = store[q]
          BY <1>10, FillType
        <4>2. y # k
          BY <3>2
        <4> HIDE DEF k, y
        <4>3. (y \in DOMAIN store' => y \in DOMAIN store)
              /\ (y \in DOMAIN store => store'[y] = store[y])
          BY <4>1, <4>2
        <4> QED
          BY <4>3 DEF y
      <3>4. ~Kept(Key(x), Rtt(x))
        BY <3>1 DEF LeaderInv
      <3> QED
        BY <2>1, <3>2, <3>3, <3>4 DEF Kept, Visible
    <2> QED
      BY <2>4, <2>5 DEF LeaderInv
  <1>11. ASSUME NEW h \in Calls, Count(h) PROVE LeaderInv'
    <2>1. /\ DOMAIN asks' = DOMAIN asks \ {h}
          /\ \A x \in DOMAIN asks' : asks'[x] = asks[x] \/ asks'[x].place = "answered"
          /\ cur' = [cur EXCEPT ![h] = Tail(cur[h])] /\ UNCHANGED <<now, store>>
      BY <1>11 DEF Count, Answered
    <2>2. \A x \in DOMAIN asks' : cur'[x] = cur[x]
      BY <2>1 DEF TypeOK
    <2> QED
      BY <1>1, <2>1, <2>2 DEF Leading
  <1>12. ASSUME NEW h \in Calls, Cancel(h) PROVE LeaderInv'
    <2>1. /\ DOMAIN asks' = DOMAIN asks \ {h} /\ \A x \in DOMAIN asks' : asks'[x] = asks[x]
          /\ cur' = [cur EXCEPT ![h] = <<>>] /\ UNCHANGED <<now, store>>
      BY <1>12 DEF Cancel
    <2>2. \A x \in DOMAIN asks' : cur'[x] = cur[x]
      BY <2>1 DEF TypeOK
    <2> QED
      BY <1>1, <2>1, <2>2 DEF Leading
  <1>13. CASE Tick
    <2>1. \A k \in DOMAIN store : store[k].at \in Nat /\ now \in Nat /\ Timeout \in Nat
      BY CollectorAssumption DEF TypeOK, Stored
    <2>2. now' = now + 1 /\ UNCHANGED <<store, asks, cur>>
      BY <1>13 DEF Tick, callVars
    <2>3. \A k \in DOMAIN store : now' - store[k].at < Timeout => now - store[k].at < Timeout
      BY <2>1, <2>2
    <2> QED
      BY <1>3, <2>2, <2>3 DEF Kept, Visible
  <1>14. ASSUME NEW k \in DOMAIN store, Drop(k) PROVE LeaderInv'
    <2>1. /\ DOMAIN store' = DOMAIN store \ {k} /\ \A q \in DOMAIN store' : store'[q] = store[q]
          /\ UNCHANGED <<now, asks, cur>>
      BY <1>14 DEF Drop, callVars
    <2> QED
      BY <1>3, <2>1 DEF Kept, Visible
  <1>15. ASSUME NEW k \in DOMAIN store, Visit(k) PROVE LeaderInv'
    BY <1>2, <1>15 DEF Visit, callVars
  <1>16. CASE BeginScrape \/ EndScrape \/ UNCHANGED vars
    BY <1>2, <1>16 DEF BeginScrape, EndScrape, callVars, vars
  <1> QED
    BY <1>4, <1>5, <1>6, <1>7, <1>8, <1>9, <1>10, <1>11, <1>12, <1>13, <1>14, <1>15, <1>16
       DEF Next

-----------------------------------------------------------------------------
(* The smallest sample.                                                     *)

(* What the history knows: a key that was compared is in the cache, or was  *)
(* dropped from it.                                                         *)
Reported ==
    \A r \in compared : r.key \in DOMAIN store \/ r.key \in removed

MinInv == EntryIsLeast /\ Reported

LEMMA MinFind ==
    ASSUME TypeOK, MinInv, NEW h \in Calls, FindKept(h)
    PROVE  MinInv'
  <1> DEFINE k == Key(h)
             new == [key |-> k, rtt |-> Rtt(h)]
  <1>1. /\ compared' = compared \cup {new} /\ UNCHANGED <<store, removed>>
        /\ k \in DOMAIN store /\ store[k].rtt <= Rtt(h)
    BY DEF FindKept, Compare, Kept
  <1>2. new.key = k /\ new.rtt = Rtt(h)
    OBVIOUS
  <1> HIDE DEF k, new
  <1>3. Reported'
    BY <1>1, <1>2 DEF MinInv, Reported
  <1>4. EntryIsLeast'
    BY <1>1, <1>2 DEF MinInv, EntryIsLeast
  <1> QED
    BY <1>3, <1>4 DEF MinInv

LEMMA MinFill ==
    ASSUME TypeOK, LeaderInv, MinInv, NEW h \in Calls, Fill(h)
    PROVE  MinInv'
  <1> DEFINE k == Key(h)
             new == [key |-> k, rtt |-> Rtt(h)]
  <1>1. /\ DOMAIN store' = DOMAIN store \cup {k} /\ store'[k].rtt = Rtt(h)
        /\ \A q \in DOMAIN store : q # k => store'[q] = store[q]
        /\ Rtt(h) \in Nat
    BY FillType
  <1>2. /\ compared' = compared \cup {new} /\ removed \subseteq removed'
        /\ k \in DOMAIN store => Visible(k) \/ k \in removed'
    BY DEF Fill, Compare
  <1>3. k \in DOMAIN store /\ Visible(k) => ~(store[k].rtt <= Rtt(h))
    BY DEF Fill, LeaderInv, Kept
  <1>4. new.key = k /\ new.rtt = Rtt(h)
    OBVIOUS
  <1>5. \A q \in DOMAIN store : store[q].rtt \in Nat
    BY CollectorAssumption DEF TypeOK, Stored
  <1>6. \A r \in compared : r.rtt \in Nat
    BY CollectorAssumption DEF TypeOK, Entries
  <1> HIDE DEF k, new
  <1>7. Reported'
    BY <1>1, <1>2, <1>4 DEF MinInv, Reported
  <1>8. ASSUME NEW q \in DOMAIN store', q # k
        PROVE  /\ [key |-> q, rtt |-> store'[q].rtt] \in compared'
               /\ q \notin removed' => \A r \in compared' : r.key = q => store'[q].rtt <= r.rtt
    BY <1>1, <1>2, <1>4, <1>8 DEF MinInv, EntryIsLeast
  <1>9. [key |-> k, rtt |-> store'[k].rtt] \in compared'
    BY <1>1, <1>2 DEF new
  <1>10. ASSUME k \notin removed', NEW r \in compared', r.key = k
         PROVE  store'[k].rtt <= r.rtt
    <2>1. CASE r = new
      BY <1>1, <1>4, <2>1
    <2>2. CASE r # new
      <3>1. r \in compared /\ k \notin removed
        BY <1>2, <1>10, <2>2
      <3>2. k \in DOMAIN store /\ Visible(k)
        BY <1>2, <1>10, <3>1 DEF MinInv, Reported
      <3>3. store[k].rtt <= r.rtt /\ ~(store[k].rtt <= Rtt(h))
        BY <1>3, <1>10, <3>1, <3>2 DEF MinInv, EntryIsLeast
      <3> QED
        BY <1>1, <1>5, <1>6, <3>1, <3>2, <3>3
    <2> QED
      BY <2>1, <2>2
  <1>11. EntryIsLeast'
    BY <1>8, <1>9, <1>10 DEF EntryIsLeast
  <1> QED
    BY <1>7, <1>11 DEF MinInv

LEMMA MinStep == TypeOK /\ LeaderInv /\ MinInv /\ [Next]_vars => MinInv'
  <1> SUFFICES ASSUME TypeOK, LeaderInv, MinInv, [Next]_vars PROVE MinInv'
    OBVIOUS
  <1>1. ASSUME UNCHANGED <<store, compared, removed>> PROVE MinInv'
    BY <1>1 DEF MinInv, EntryIsLeast, Reported
  <1>2. ASSUME NEW k \in DOMAIN store, Drop(k) PROVE MinInv'
    <2>1. /\ store' = [q \in DOMAIN store \ {k} |-> store[q]]
          /\ removed' = removed \cup {k} /\ compared' = compared
      BY <1>2 DEF Drop
    <2>2. DOMAIN store' = DOMAIN store \ {k} /\ \A q \in DOMAIN store' : store'[q] = store[q]
      BY <2>1
    <2> QED
      BY <2>1, <2>2 DEF MinInv, EntryIsLeast, Reported
  <1>3. ASSUME NEW k \in DOMAIN store, Visit(k) PROVE UNCHANGED <<store, compared, removed>>
    BY <1>3 DEF Visit, histVars
  <1>4. ASSUME NEW h \in Calls,
               Skip(h) \/ NoAddress(h) \/ Ask(h) \/ Wait(h) \/ Lead(h) \/ Count(h) \/ Cancel(h)
        PROVE  UNCHANGED <<store, compared, removed>>
    BY <1>4 DEF Skip, NoAddress, Ask, Wait, Lead, Count, Cancel, histVars
  <1>5. ASSUME NEW s \in Streams, Open(s) \/ EndOfStream(s) \/ \E m \in Msgs : Read(s, m)
        PROVE  UNCHANGED <<store, compared, removed>>
    BY <1>5 DEF Open, EndOfStream, Read, histVars
  <1>6. ASSUME NEW f \in Flows, Reply(f) \/ \E m \in Msgs : Call(f, m)
        PROVE  UNCHANGED <<store, compared, removed>>
    BY <1>6 DEF Reply, Call, histVars
  <1>7. CASE Tick \/ BeginScrape \/ EndScrape \/ UNCHANGED vars
    BY <1>1, <1>7 DEF Tick, BeginScrape, EndScrape, histVars, vars
  <1> QED
    BY <1>1, <1>2, <1>3, <1>4, <1>5, <1>6, <1>7, MinFind, MinFill DEF Next

LEMMA LeaderInit == Init => LeaderInv
  BY DEF Init, LeaderInv, Leading, At

(* However the calls of an agent interleave, whoever leads, waits or is cut *)
(* off, an entry that was not dropped holds the smallest of the round trip  *)
(* times stored under its key or compared with it.                          *)
THEOREM LeastCorrect == Spec => []EntryIsLeast
  <1>1. Init => MinInv
    BY DEF Init, MinInv, EntryIsLeast, Reported
  <1>2. TypeOK /\ LeaderInv /\ MinInv /\ [Next]_vars => TypeOK' /\ LeaderInv' /\ MinInv'
    BY TypeStep, LeaderStep, MinStep
  <1>3. MinInv => EntryIsLeast
    BY DEF MinInv
  <1> QED
    BY <1>1, <1>2, <1>3, TypeInit, LeaderInit, PTL DEF Spec

-----------------------------------------------------------------------------
(* What was there when the page was begun and has not been dropped is there. *)
CompleteInv == left \subseteq DOMAIN store /\ PageIsComplete

(* A step that keeps the cache and the page's side of it, or loses entries   *)
(* from both, or lowers an entry, leaves a page as complete as it was.       *)
LEMMA CompleteKept ==
    ASSUME TypeOK, CompleteInv, left' \subseteq left, left' \subseteq DOMAIN store',
           \A k \in left' : store'[k].rtt <= store[k].rtt,
           \A k \in left' : store'[k].rtt \in Nat,
           \A k \in left' : Visible(k)' => Visible(k),
           UNCHANGED <<scrape, seen>>
    PROVE  CompleteInv'
  <1>1. (scrape = "done" => \A k \in left : Visible(k) => \E e \in seen : e.key = k)'
    BY DEF CompleteInv, PageIsComplete
  <1>2. ASSUME NEW e \in seen, e.key \in left' PROVE store'[e.key].rtt <= e.rtt
    <2>1. e.key \in left /\ e.key \in DOMAIN store /\ store[e.key].rtt <= e.rtt
      BY <1>2 DEF CompleteInv, PageIsComplete
    <2>2. \A k \in DOMAIN store : store[k].rtt \in Nat
      BY CollectorAssumption DEF TypeOK, Stored
    <2>3. e.rtt \in Nat
      BY CollectorAssumption DEF TypeOK, Entries
    <2> QED
      BY <1>2, <2>1, <2>2, <2>3
  <1> QED
    BY <1>1, <1>2 DEF CompleteInv, PageIsComplete

LEMMA CompleteStep == TypeOK /\ LeaderInv /\ CompleteInv /\ [Next]_vars => CompleteInv'
  <1> SUFFICES ASSUME TypeOK, LeaderInv, CompleteInv, [Next]_vars PROVE CompleteInv'
    OBVIOUS
  <1>0. /\ left \subseteq DOMAIN store
        /\ \A k \in DOMAIN store : store[k].rtt \in Nat
    <2>1. left \subseteq DOMAIN store
      BY DEF CompleteInv
    <2>2. \A k \in DOMAIN store : store[k].rtt \in Nat
      BY CollectorAssumption DEF TypeOK, Stored
    <2> QED
      BY <2>1, <2>2
  <1>1. ASSUME UNCHANGED <<now, store, scrape, left, seen>> PROVE CompleteInv'
    BY <1>1 DEF CompleteInv, PageIsComplete, Visible
  <1>2. CASE Tick
    <2>1. now' = now + 1 /\ UNCHANGED <<store, scrape, left, seen>>
      BY <1>2 DEF Tick, pageVars
    <2>2. \A k \in DOMAIN store : store[k].at \in Nat /\ now \in Nat /\ Timeout \in Nat
      BY CollectorAssumption DEF TypeOK, Stored
    <2>3. \A k \in DOMAIN store : now' - store[k].at < Timeout => now - store[k].at < Timeout
      BY <2>1, <2>2
    <2>4. \A k \in left' : Visible(k)' => Visible(k)
      BY <1>0, <2>1, <2>3 DEF Visible
    <2> QED
      BY <1>0, <2>1, <2>4, CompleteKept
  <1>3. CASE BeginScrape
    <2>1. /\ left' \subseteq DOMAIN store' /\ seen' = {} /\ scrape' = "iterating"
      BY <1>3 DEF BeginScrape
    <2> QED
      BY <2>1 DEF CompleteInv, PageIsComplete
  <1>4. ASSUME NEW k \in DOMAIN store, Visit(k) PROVE CompleteInv'
    <2> DEFINE e == [key |-> k, rtt |-> store[k].rtt]
    <2>1. /\ scrape = "iterating" /\ seen' = seen \cup {e}
          /\ UNCHANGED <<now, store, scrape, left>>
      BY <1>4 DEF Visit
    <2>2. e.key = k /\ store[k].rtt <= e.rtt
      BY <1>0
    <2> HIDE DEF e
    <2> QED
      BY <2>1, <2>2 DEF CompleteInv, PageIsComplete
  <1>5. ASSUME NEW k \in DOMAIN store, Drop(k) PROVE CompleteInv'
    <2>1. /\ store' = [q \in DOMAIN store \ {k} |-> store[q]] /\ left' = left \ {k}
          /\ UNCHANGED <<now, scrape, seen>>
      BY <1>5 DEF Drop
    <2>2. DOMAIN store' = DOMAIN store \ {k} /\ \A q \in DOMAIN store' : store'[q] = store[q]
      BY <2>1
    <2>3. /\ left' \subseteq left /\ left' \subseteq DOMAIN store'
          /\ \A q \in left' : store'[q].rtt <= store[q].rtt /\ store'[q].rtt \in Nat
      BY <1>0, <2>1, <2>2
    <2>4. \A q \in left' : Visible(q)' => Visible(q)
      BY <2>1, <2>2, <2>3 DEF Visible
    <2> QED
      BY <2>1, <2>3, <2>4, CompleteKept
  <1>6. ASSUME NEW h \in Calls, Fill(h) PROVE CompleteInv'
    <2> DEFINE k == Key(h)
    <2>1. /\ DOMAIN store' = DOMAIN store \cup {k} /\ store'[k].rtt = Rtt(h)
          /\ \A q \in DOMAIN store : q # k => store'[q] = store[q]
          /\ Rtt(h) \in Nat
      BY <1>6, FillType
    <2>2. /\ left' \subseteq left /\ UNCHANGED <<now, scrape, seen>>
          /\ k \in left' => Visible(k)
      BY <1>0, <1>6 DEF Fill
    <2>3. k \in DOMAIN store /\ Visible(k) => ~(store[k].rtt <= Rtt(h))
      BY <1>6 DEF Fill, LeaderInv, Kept
    <2> HIDE DEF k
    <2>4. /\ left' \subseteq DOMAIN store'
          /\ \A q \in left' : store'[q].rtt <= store[q].rtt /\ store'[q].rtt \in Nat
      <3>1. ASSUME NEW q \in left', q # k
            PROVE  store'[q].rtt <= store[q].rtt /\ store'[q].rtt \in Nat
        BY <1>0, <2>1, <2>2, <3>1
      <3>2. ASSUME k \in left'
            PROVE  store'[k].rtt <= store[k].rtt /\ store'[k].rtt \in Nat
        <4>1. k \in DOMAIN store /\ store[k].rtt \in Nat /\ ~(store[k].rtt <= Rtt(h))
          BY <1>0, <2>2, <2>3, <3>2
        <4> QED
          BY <2>1, <4>1
      <3> QED
        BY <1>0, <2>1, <2>2, <3>1, <3>2
    <2>5. \A q \in left' : Visible(q)' => Visible(q)
      <3>1. ASSUME NEW q \in left', q # k PROVE Visible(q)' => Visible(q)
        <4>1. q \in DOMAIN store /\ store'[q] = store[q] /\ now' = now
          BY <1>0, <2>1, <2>2, <3>1
        <4> QED
          BY <4>1 DEF Visible
      <3> QED
        BY <2>2, <3>1
    <2> QED
      BY <2>2, <2>4, <2>5, CompleteKept
  <1>7. CASE EndScrape
    <2>1. /\ \A k \in left : Visible(k) => \E e \in seen : e.key = k
          /\ UNCHANGED <<now, store, left, seen>>
      BY <1>7 DEF EndScrape
    <2> QED
      BY <2>1 DEF CompleteInv, PageIsComplete, Visible
  <1>8. ASSUME NEW h \in Calls,
               \/ Skip(h) \/ NoAddress(h) \/ Ask(h) \/ FindKept(h) \/ Wait(h) \/ Lead(h)
               \/ Count(h) \/ Cancel(h)
        PROVE  CompleteInv'
    BY <1>1, <1>8 DEF Skip, NoAddress, Ask, FindKept, Wait, Lead, MoveTo, Count, Cancel, pageVars
  <1>9. ASSUME NEW s \in Streams, Open(s) \/ EndOfStream(s) \/ \E m \in Msgs : Read(s, m)
        PROVE  CompleteInv'
    BY <1>1, <1>9 DEF Open, EndOfStream, Read, pageVars
  <1>10. ASSUME NEW f \in Flows, Reply(f) \/ \E m \in Msgs : Call(f, m)
         PROVE  CompleteInv'
    BY <1>1, <1>10 DEF Reply, Call, pageVars
  <1>11. CASE UNCHANGED vars
    BY <1>1, <1>11 DEF vars, pageVars
  <1> QED
    BY <1>2, <1>3, <1>4, <1>5, <1>6, <1>7, <1>8, <1>9, <1>10, <1>11 DEF Next

(* A finished page shows every entry that was in the cache from its first    *)
(* moment on, whatever was inserted, dropped or expired meanwhile, and no    *)
(* round trip time smaller than the one the cache holds.                     *)
THEOREM CompleteCorrect == Spec => []PageIsComplete
  <1>1. Init => CompleteInv
    BY DEF Init, CompleteInv, PageIsComplete
  <1>2. TypeOK /\ LeaderInv /\ CompleteInv /\ [Next]_vars
          => TypeOK' /\ LeaderInv' /\ CompleteInv'
    BY TypeStep, LeaderStep, CompleteStep
  <1>3. CompleteInv => PageIsComplete
    BY DEF CompleteInv
  <1> QED
    BY <1>1, <1>2, <1>3, TypeInit, LeaderInit, PTL DEF Spec

-----------------------------------------------------------------------------
(* Counters.                                                                *)

(* The entries of a series, and its handlers between storing and counting.  *)
EntriesOf(s) == {k \in DOMAIN store : store[k].by = s}
HalfOf(s)    == {h \in DOMAIN asks : At(h, "stored") /\ SeriesOf(h, Head(cur[h])) = s}

CountInv == IsFiniteSet(DOMAIN store) /\ CountersCoverStore

LEMMA CountParts ==
    ASSUME TypeOK, CountInv, NEW s \in Series
    PROVE  /\ IsFiniteSet(EntriesOf(s)) /\ IsFiniteSet(HalfOf(s))
           /\ Cardinality(EntriesOf(s)) \in Nat /\ Cardinality(HalfOf(s)) \in Nat
           /\ events[s] \in Nat /\ aborted[s] \in Nat
           /\ Cardinality(EntriesOf(s)) <= events[s] + aborted[s] + Cardinality(HalfOf(s))
  <1>1. IsFiniteSet(DOMAIN asks) /\ IsFiniteSet(DOMAIN store)
    <2>1. DOMAIN asks \subseteq Calls /\ IsFiniteSet(Calls)
      BY CollectorAssumption DEF TypeOK
    <2> QED
      BY <2>1, FS_Subset DEF CountInv
  <1>2. IsFiniteSet(EntriesOf(s)) /\ IsFiniteSet(HalfOf(s))
    BY <1>1, FS_Subset DEF EntriesOf, HalfOf
  <1>3. events[s] \in Nat /\ aborted[s] \in Nat
    BY DEF TypeOK
  <1>4. Cardinality(EntriesOf(s)) <= events[s] + aborted[s] + Cardinality(HalfOf(s))
    BY DEF CountInv, CountersCoverStore, EntriesOf, HalfOf
  <1> QED
    BY <1>2, <1>3, <1>4, FS_CardinalityType

(* It is enough to look at one series at a time.                            *)
LEMMA CountEach ==
    ASSUME IsFiniteSet(DOMAIN store'),
           \A s \in Series : Cardinality(EntriesOf(s)')
                               <= events'[s] + aborted'[s] + Cardinality(HalfOf(s)')
    PROVE  CountInv'
  BY DEF CountInv, CountersCoverStore, EntriesOf, HalfOf

(* No entry more, the same handlers in between, no event less.              *)
LEMMA CountStays ==
    ASSUME TypeOK, CountInv, DOMAIN store' \subseteq DOMAIN store,
           \A k \in DOMAIN store' : store'[k] = store[k],
           \A s \in Series : /\ HalfOf(s)' = HalfOf(s)
                             /\ events'[s] \in Nat /\ events[s] <= events'[s]
                             /\ aborted'[s] = aborted[s]
    PROVE  CountInv'
  <1>1. IsFiniteSet(DOMAIN store')
    BY FS_Subset DEF CountInv
  <1>2. ASSUME NEW s \in Series
        PROVE  Cardinality(EntriesOf(s)') <= events'[s] + aborted'[s] + Cardinality(HalfOf(s)')
    <2>1. EntriesOf(s)' \subseteq EntriesOf(s)
      BY DEF EntriesOf
    <2>2. Cardinality(EntriesOf(s)') <= Cardinality(EntriesOf(s))
          /\ Cardinality(EntriesOf(s)') \in Nat
      BY <2>1, CountParts, FS_Subset, FS_CardinalityType
    <2>3. /\ Cardinality(EntriesOf(s)) \in Nat /\ Cardinality(HalfOf(s)) \in Nat
          /\ events[s] \in Nat /\ aborted[s] \in Nat
          /\ Cardinality(EntriesOf(s)) <= events[s] + aborted[s] + Cardinality(HalfOf(s))
      BY CountParts
    <2>4. /\ HalfOf(s)' = HalfOf(s) /\ aborted'[s] = aborted[s]
          /\ events'[s] \in Nat /\ events[s] <= events'[s]
      OBVIOUS
    <2> QED
      BY <2>2, <2>3, <2>4
  <1> QED
    BY <1>1, <1>2, CountEach

(* A handler enters the place between storing and counting.                 *)
LEMMA CountFill ==
    ASSUME TypeOK, CountInv, NEW h \in Calls, Fill(h)
    PROVE  CountInv'
  <1> DEFINE k == Key(h)
             r == SeriesOf(h, Head(cur[h]))
  <1>1. /\ DOMAIN store' = DOMAIN store \cup {k} /\ store'[k].by = r
        /\ \A q \in DOMAIN store : q # k => store'[q] = store[q]
        /\ h \in DOMAIN asks
    BY FillType
  <1>2. /\ asks' = [asks EXCEPT ![h].place = "stored"]
        /\ UNCHANGED <<cur, events, aborted>> /\ ~At(h, "stored")
    BY DEF Fill, At
  <1>3. /\ DOMAIN asks' = DOMAIN asks /\ At(h, "stored")'
        /\ \A x \in DOMAIN asks : x # h => (At(x, "stored")' <=> At(x, "stored"))
    BY <1>1, <1>2, Moved DEF At, Places
  <1>4. \A x \in DOMAIN asks : SeriesOf(x, Head(cur[x]))' = SeriesOf(x, Head(cur[x]))
    BY <1>2 DEF SeriesOf
  <1>5. IsFiniteSet(DOMAIN store')
    BY <1>1, FS_AddElement DEF CountInv
  <1>6. ASSUME NEW s \in Series
        PROVE  Cardinality(EntriesOf(s)') <= events'[s] + aborted'[s] + Cardinality(HalfOf(s)')
    <2>1. /\ IsFiniteSet(EntriesOf(s)) /\ IsFiniteSet(HalfOf(s))
          /\ Cardinality(EntriesOf(s)) \in Nat /\ Cardinality(HalfOf(s)) \in Nat
          /\ events[s] \in Nat /\ aborted[s] \in Nat
          /\ Cardinality(EntriesOf(s)) <= events[s] + aborted[s] + Cardinality(HalfOf(s))
      BY CountParts
    <2>2. CASE s = r
      <3>1. h \notin HalfOf(s) /\ HalfOf(s)' = HalfOf(s) \cup {h}
        BY <1>1, <1>2, <1>3, <1>4, <2>2 DEF HalfOf
      <3>2. Cardinality(HalfOf(s)') = Cardinality(HalfOf(s)) + 1
        BY <2>1, <3>1, FS_AddElement
      <3>3. EntriesOf(s)' \subseteq EntriesOf(s) \cup {k}
        <4> HIDE DEF k, r
        <4> QED
          BY <1>1 DEF EntriesOf
      <3>4. /\ IsFiniteSet(EntriesOf(s) \cup {k})
            /\ \/ Cardinality(EntriesOf(s) \cup {k}) = Cardinality(EntriesOf(s))
               \/ Cardinality(EntriesOf(s) \cup {k}) = Cardinality(EntriesOf(s)) + 1
        BY <2>1, FS_AddElement
      <3>5. /\ Cardinality(EntriesOf(s)') <= Cardinality(EntriesOf(s) \cup {k})
            /\ Cardinality(EntriesOf(s)') \in Nat
        BY <3>3, <3>4, FS_Subset, FS_CardinalityType
      <3> QED
        BY <1>2, <2>1, <3>2, <3>4, <3>5
    <2>3. CASE s # r
      <3>1. HalfOf(s)' = HalfOf(s)
        BY <1>1, <1>3, <1>4, <2>3 DEF HalfOf
      <3>2. EntriesOf(s)' \subseteq EntriesOf(s)
        <4> HIDE DEF k, r
        <4> QED
          BY <1>1, <2>3 DEF EntriesOf
      <3>3. /\ Cardinality(EntriesOf(s)') <= Cardinality(EntriesOf(s))
            /\ Cardinality(EntriesOf(s)') \in Nat
        BY <2>1, <3>2, FS_Subset, FS_CardinalityType
      <3> QED
        BY <1>2, <2>1, <3>1, <3>3
    <2> QED
      BY <2>2, <2>3
  <1> QED
    BY <1>5, <1>6, CountEach

(* A handler leaves that place, and is accounted for by the counter, or as  *)
(* cut off.                                                                 *)
LEMMA CountLeaves ==
    ASSUME TypeOK, CountInv, NEW h \in DOMAIN asks, At(h, "stored"), store' = store,
           \A s \in Series : HalfOf(s)' = HalfOf(s) \ {h},
           \/ /\ events' = [events EXCEPT ![SeriesOf(h, Head(cur[h]))] = @ + 1]
              /\ aborted' = aborted
           \/ /\ aborted' = [aborted EXCEPT ![SeriesOf(h, Head(cur[h]))] = @ + 1]
              /\ events' = events
    PROVE  CountInv'
  <1> DEFINE r == SeriesOf(h, Head(cur[h]))
  <1>1. IsFiniteSet(DOMAIN store')
    BY DEF CountInv
  <1>2. ASSUME NEW s \in Series
        PROVE  Cardinality(EntriesOf(s)') <= events'[s] + aborted'[s] + Cardinality(HalfOf(s)')
    <2>1. /\ IsFiniteSet(HalfOf(s))
          /\ Cardinality(EntriesOf(s)) \in Nat /\ Cardinality(HalfOf(s)) \in Nat
          /\ events[s] \in Nat /\ aborted[s] \in Nat
          /\ Cardinality(EntriesOf(s)) <= events[s] + aborted[s] + Cardinality(HalfOf(s))
      BY CountParts
    <2>2. events \in [Series -> Nat] /\ aborted \in [Series -> Nat]
      BY DEF TypeOK
    <2>3. EntriesOf(s)' = EntriesOf(s)
      BY DEF EntriesOf
    <2>4. CASE s = r
      <3>1. h \in HalfOf(s)
        BY <2>4 DEF HalfOf
      <3>2. Cardinality(HalfOf(s)') = Cardinality(HalfOf(s)) - 1
        BY <2>1, <3>1, FS_RemoveElement
      <3>3. /\ events'[s] + aborted'[s] = events[s] + aborted[s] + 1
            /\ events'[s] \in Nat /\ aborted'[s] \in Nat
        BY <2>1, <2>2, <2>4
      <3> QED
        BY <2>1, <2>3, <3>2, <3>3
    <2>5. CASE s # r
      <3>1. HalfOf(s)' = HalfOf(s)
        BY <2>5 DEF HalfOf
      <3>2. events'[s] = events[s] /\ aborted'[s] = aborted[s]
        BY <2>2, <2>5
      <3> QED
        BY <2>1, <2>3, <3>1, <3>2
    <2> QED
      BY <2>4, <2>5
  <1> QED
    BY <1>1, <1>2, CountEach

LEMMA CountStep == TypeOK /\ CountInv /\ [Next]_vars => CountInv'
  <1> SUFFICES ASSUME TypeOK, CountInv, [Next]_vars PROVE CountInv'
    OBVIOUS
  <1>0. \A s \in Series : events[s] \in Nat
    BY DEF TypeOK
  <1>1. ASSUME UNCHANGED <<store, events, aborted>>,
               \A h \in Calls : At(h, "stored")' <=> At(h, "stored"),
               \A h \in DOMAIN asks : cur'[h] = cur[h]
        PROVE  CountInv'
    <2>1. DOMAIN asks \subseteq Calls
      BY DEF TypeOK
    <2>2. \A s \in Series : \A h : h \in HalfOf(s)' => h \in HalfOf(s)
      <3> SUFFICES ASSUME NEW s \in Series, NEW h, h \in HalfOf(s)' PROVE h \in HalfOf(s)
        OBVIOUS
      <3>1. CASE h \in Calls
        <4>1. At(h, "stored") /\ cur'[h] = cur[h]
          BY <1>1, <3>1 DEF HalfOf, At
        <4> QED
          BY <4>1 DEF HalfOf, SeriesOf, At
      <3>2. CASE h \notin Calls
        <4>1. DOMAIN asks' \subseteq Calls
          BY TypeStep DEF TypeOK
        <4> QED
          BY <3>2, <4>1 DEF HalfOf
      <3> QED
        BY <3>1, <3>2
    <2>3. \A s \in Series : \A h : h \in HalfOf(s) => h \in HalfOf(s)'
      BY <1>1, <2>1 DEF HalfOf, SeriesOf, At
    <2>4. \A s \in Series : HalfOf(s)' = HalfOf(s)
      BY <2>2, <2>3
    <2> QED
      BY <1>0, <1>1, <2>4, CountStays
  <1>2. ASSUME UNCHANGED <<asks, events, aborted>>, DOMAIN store' \subseteq DOMAIN store,
               \A k \in DOMAIN store' : store'[k] = store[k],
               \A h \in DOMAIN asks : cur'[h] = cur[h]
        PROVE  CountInv'
    <2>1. \A s \in Series : HalfOf(s)' = HalfOf(s)
      BY <1>2 DEF HalfOf, SeriesOf, At
    <2> QED
      BY <1>0, <1>2, <2>1, CountStays
  <1>3. ASSUME NEW s \in Streams, Open(s) \/ EndOfStream(s) \/ \E m \in Msgs : Read(s, m)
        PROVE  CountInv'
    <2>1. \A h \in DOMAIN asks : cur[h] # <<>>
      BY DEF TypeOK
    <2>2. \A h \in DOMAIN asks : cur'[h] = cur[h]
      BY <1>3, <2>1 DEF Open, EndOfStream, Read, TypeOK
    <2> QED
      BY <1>2, <1>3, <2>2 DEF Open, EndOfStream, Read, histVars
  <1>4. ASSUME NEW f \in Flows, Reply(f) \/ \E m \in Msgs : Call(f, m) PROVE CountInv'
    <2>1. \A h \in DOMAIN asks : h \in up
      BY DEF TypeOK
    <2>2. \A h \in DOMAIN asks : cur'[h] = cur[h]
      BY <1>4, <2>1 DEF Reply, Call, TypeOK
    <2> QED
      BY <1>2, <1>4, <2>2 DEF Reply, Call, histVars
  <1>5. ASSUME NEW h \in Calls, Skip(h) \/ NoAddress(h) PROVE CountInv'
    <2>1. h \notin DOMAIN asks
      BY <1>5 DEF Skip, NoAddress, Facing
    <2>2. \A x \in DOMAIN asks : cur'[x] = cur[x]
      BY <1>5, <2>1 DEF Skip, NoAddress, TypeOK
    <2> QED
      BY <1>2, <1>5, <2>2 DEF Skip, NoAddress, histVars
  <1>6. ASSUME NEW h \in Calls, Ask(h) PROVE CountInv'
    <2>1. /\ asks'[h].place = "asks" /\ DOMAIN asks' = DOMAIN asks \cup {h} /\ h \notin DOMAIN asks
          /\ \A x \in DOMAIN asks : x # h => asks'[x] = asks[x]
          /\ UNCHANGED <<store, events, aborted, cur>>
      BY <1>6 DEF Ask, Facing, histVars
    <2> QED
      BY <1>1, <2>1 DEF At
  <1>7. ASSUME NEW h \in Calls, FindKept(h) \/ Wait(h) \/ Lead(h) PROVE CountInv'
    <2>1. PICK p \in {"answered", "waits", "leads"} : asks' = [asks EXCEPT ![h].place = p]
      BY <1>7 DEF FindKept, Wait, Lead, MoveTo
    <2>2. /\ h \in DOMAIN asks /\ asks[h].place # "stored"
          /\ UNCHANGED <<store, events, aborted, cur>>
      BY <1>7 DEF FindKept, Wait, Lead, MoveTo, Deciding, At
    <2>3. /\ DOMAIN asks' = DOMAIN asks /\ asks'[h].place = p
          /\ \A x \in DOMAIN asks : x # h => asks'[x] = asks[x]
      BY <2>1, <2>2, Moved DEF Places
    <2> QED
      BY <1>1, <2>2, <2>3 DEF At
  <1>8. ASSUME NEW h \in Calls, h \in DOMAIN asks, DOMAIN asks' = DOMAIN asks \ {h},
               \A x \in DOMAIN asks' : At(x, "stored")' <=> At(x, "stored"),
               \A x \in DOMAIN asks' : cur'[x] = cur[x]
        PROVE  \A s \in Series : HalfOf(s)' = HalfOf(s) \ {h}
    BY <1>8 DEF HalfOf, SeriesOf, At
  <1>9. ASSUME NEW h \in Calls, Count(h) PROVE CountInv'
    <2>1. /\ DOMAIN asks' = DOMAIN asks \ {h} /\ h \in DOMAIN asks
          /\ \A x \in DOMAIN asks' : \/ asks'[x] = asks[x]
                                     \/ asks'[x].place = "answered" /\ asks[x].place = "waits"
          /\ cur' = [cur EXCEPT ![h] = Tail(cur[h])] /\ store' = store /\ aborted' = aborted
          /\ events' = [events EXCEPT ![SeriesOf(h, Head(cur[h]))] = @ + 1]
      BY <1>9 DEF Count, Answered, At, histVars
    <2>2. /\ \A x \in DOMAIN asks' : At(x, "stored")' <=> At(x, "stored")
          /\ \A x \in DOMAIN asks' : cur'[x] = cur[x]
      BY <2>1 DEF At, TypeOK
    <2>3. \A s \in Series : HalfOf(s)' = HalfOf(s) \ {h}
      BY <1>8, <2>1, <2>2
    <2>4. CASE At(h, "stored")
      BY <2>1, <2>3, <2>4, CountLeaves
    <2>5. CASE ~At(h, "stored")
      <3>1. \A s \in Series : HalfOf(s)' = HalfOf(s)
        BY <2>3, <2>5 DEF HalfOf
      <3>2. \A s \in Series : events'[s] \in Nat /\ events[s] <= events'[s]
        <4>1. events \in [Series -> Nat]
          BY DEF TypeOK
        <4> QED
          BY <2>1, <4>1
      <3> QED
        BY <2>1, <3>1, <3>2, CountStays
    <2> QED
      BY <2>4, <2>5
  <1>10. ASSUME NEW h \in Calls, Cancel(h) PROVE CountInv'
    <2>1. /\ DOMAIN asks' = DOMAIN asks \ {h} /\ \A x \in DOMAIN asks' : asks'[x] = asks[x]
          /\ cur' = [cur EXCEPT ![h] = <<>>] /\ store' = store /\ events' = events
      BY <1>10 DEF Cancel
    <2>2. /\ \A x \in DOMAIN asks' : At(x, "stored")' <=> At(x, "stored")
          /\ \A x \in DOMAIN asks' : cur'[x] = cur[x]
      BY <2>1 DEF At, TypeOK
    <2>3. CASE At(h, "stored")
      <3>1. \A s \in Series : HalfOf(s)' = HalfOf(s) \ {h}
        BY <1>8, <2>1, <2>2, <2>3 DEF At
      <3> QED
        BY <1>10, <2>1, <2>3, <3>1, CountLeaves DEF Cancel, At
    <2>4. CASE ~At(h, "stored")
      <3>1. \A s \in Series : HalfOf(s)' = HalfOf(s)
        BY <2>1, <2>2, <2>4 DEF HalfOf, SeriesOf, At
      <3> QED
        BY <1>0, <1>10, <2>1, <2>4, <3>1, CountStays DEF Cancel
    <2> QED
      BY <2>3, <2>4
  <1>11. ASSUME NEW k \in DOMAIN store, Drop(k) PROVE CountInv'
    <2>1. /\ DOMAIN store' = DOMAIN store \ {k}
          /\ \A q \in DOMAIN store' : store'[q] = store[q]
          /\ UNCHANGED <<asks, cur, events, aborted>>
      BY <1>11 DEF Drop, callVars
    <2> QED
      BY <1>2, <2>1
  <1>12. ASSUME NEW k \in DOMAIN store, Visit(k) PROVE CountInv'
    BY <1>2, <1>12 DEF Visit, callVars, histVars
  <1>13. CASE Tick \/ BeginScrape \/ EndScrape \/ UNCHANGED vars
    BY <1>2, <1>13 DEF Tick, BeginScrape, EndScrape, callVars, histVars, vars
  <1> QED
    BY <1>3, <1>4, <1>5, <1>6, <1>7, <1>9, <1>10, <1>11, <1>12, <1>13, CountFill DEF Next

(* Whatever calls are cut off and entries dropped, a series' counter covers *)
(* the entries its calls have in the cache.                                 *)
THEOREM CountCorrect == Spec => []CountersCoverStore
  <1>1. Init => CountInv
    <2> SUFFICES ASSUME Init PROVE CountInv
      OBVIOUS
    <2>1. /\ DOMAIN store = {} /\ DOMAIN asks = {}
          /\ \A s \in Series : events[s] = 0 /\ aborted[s] = 0
      BY DEF Init
    <2>2. \A s \in Series : EntriesOf(s) = {} /\ HalfOf(s) = {}
      BY <2>1 DEF EntriesOf, HalfOf
    <2>3. IsFiniteSet({}) /\ Cardinality({}) = 0
      BY FS_EmptySet
    <2>4. ASSUME NEW s \in Series
          PROVE  Cardinality(EntriesOf(s)) <= events[s] + aborted[s] + Cardinality(HalfOf(s))
      <3>1. Cardinality(EntriesOf(s)) = 0 /\ Cardinality(HalfOf(s)) = 0
        BY <2>2, <2>3
      <3>2. events[s] = 0 /\ aborted[s] = 0
        BY <2>1
      <3> QED
        BY <3>1, <3>2
    <2> QED
      BY <2>1, <2>3, <2>4 DEF CountInv, CountersCoverStore, EntriesOf, HalfOf
  <1>2. TypeOK /\ CountInv /\ [Next]_vars => TypeOK' /\ CountInv'
    BY TypeStep, CountStep
  <1>3. CountInv => CountersCoverStore
    BY DEF CountInv
  <1> QED
    BY <1>1, <1>2, <1>3, TypeInit, PTL DEF Spec

-----------------------------------------------------------------------------
(* A page.                                                                  *)

(* The entries a bucket counts.                                             *)
Within(S, n, b) == {e \in S : NetOf(e.key) = n /\ (b = Inf \/ e.rtt <= b)}

ExactInv == IsFiniteSet(seen) /\ PageIsExact

LEMMA ExactVisit ==
    ASSUME TypeOK, ExactInv, NEW k \in DOMAIN store, Visit(k)
    PROVE  ExactInv'
  <1> DEFINE e == [key |-> k, rtt |-> store[k].rtt]
             src == SrcTrunc[Src[k.conn]]
  <1>1. k \in Keys /\ NetOf(k) \in Nets
    BY NetOfType DEF TypeOK
  <1>2. e \notin seen /\ seen' = seen \cup {e} /\ hist' = Record(k, store[k].rtt)
        /\ unique' = [unique EXCEPT ![src] = @ \cup {Src[k.conn]}]
    BY DEF Visit
  <1>3. e.key = k /\ e.rtt = store[k].rtt
    OBVIOUS
  <1> HIDE DEF e
  <1>4. IsFiniteSet(seen) /\ IsFiniteSet(seen')
    BY <1>2, FS_AddElement DEF ExactInv
  <1>5. ASSUME NEW n \in Nets, NEW b \in Bounds \cup {Inf}
        PROVE  hist'[n][b] = Cardinality(Within(seen', n, b))
    <2>1. hist[n][b] = Cardinality(Within(seen, n, b))
      BY DEF ExactInv, PageIsExact, Within
    <2>2. hist \in [Nets -> [Bounds \cup {Inf} -> Nat]]
      BY DEF TypeOK
    <2>3. IsFiniteSet(Within(seen, n, b)) /\ e \notin Within(seen, n, b)
      BY <1>2, <1>4, FS_Subset DEF Within
    <2>4. CASE n = NetOf(k) /\ (b = Inf \/ store[k].rtt <= b)
      <3>1. Within(seen', n, b) = Within(seen, n, b) \cup {e}
        BY <1>2, <1>3, <2>4 DEF Within
      <3>2. hist'[n][b] = hist[n][b] + 1
        BY <1>1, <1>2, <2>2, <2>4 DEF Record
      <3> QED
        BY <2>1, <2>3, <3>1, <3>2, FS_AddElement
    <2>5. CASE ~(n = NetOf(k) /\ (b = Inf \/ store[k].rtt <= b))
      <3>1. Within(seen', n, b) = Within(seen, n, b)
        BY <1>2, <1>3, <2>5 DEF Within
      <3>2. hist'[n][b] = hist[n][b]
        BY <1>1, <1>2, <2>2, <2>5 DEF Record
      <3> QED
        BY <2>1, <3>1, <3>2
    <2> QED
      BY <2>4, <2>5
  <1>6. ASSUME NEW s \in SrcNets
        PROVE  unique'[s] = {Src[x.key.conn] : x \in {y \in seen' : SrcTrunc[Src[y.key.conn]] = s}}
    <2>1. unique[s] = {Src[x.key.conn] : x \in {y \in seen : SrcTrunc[Src[y.key.conn]] = s}}
      BY DEF ExactInv, PageIsExact
    <2>2. src \in SrcNets /\ unique \in [SrcNets -> SUBSET {Src[c] : c \in Conns}]
      BY <1>1 DEF TypeOK, Keys, SrcNets
    <2>3. CASE s = src
      BY <1>2, <1>3, <2>1, <2>2, <2>3
    <2>4. CASE s # src
      BY <1>2, <1>3, <2>1, <2>2, <2>4
    <2> QED
      BY <2>3, <2>4
  <1> QED
    BY <1>4, <1>5, <1>6 DEF ExactInv, PageIsExact, Within

LEMMA ExactEmpty ==
    (seen = {} /\ hist = NoHist /\ unique = NoUnique) => ExactInv
  <1> SUFFICES ASSUME seen = {}, hist = NoHist, unique = NoUnique PROVE ExactInv
    OBVIOUS
  <1>1. IsFiniteSet({}) /\ Cardinality({}) = 0
    BY FS_EmptySet
  <1>2. \A n \in Nets, b \in Bounds \cup {Inf} : hist[n][b] = 0 /\ Within(seen, n, b) = {}
    BY DEF NoHist, Within
  <1>3. \A s \in SrcNets : unique[s] = {}
    BY DEF NoUnique
  <1> QED
    BY <1>1, <1>2, <1>3 DEF ExactInv, PageIsExact, Within

LEMMA ExactStep == TypeOK /\ ExactInv /\ [Next]_vars => ExactInv'
  <1> SUFFICES ASSUME TypeOK, ExactInv, [Next]_vars PROVE ExactInv'
    OBVIOUS
  <1>1. ASSUME UNCHANGED <<seen, hist, unique>> PROVE ExactInv'
    BY <1>1 DEF ExactInv, PageIsExact
  <1>2. CASE BeginScrape
    <2>1. seen' = {} /\ hist' = NoHist /\ unique' = NoUnique
      BY <1>2 DEF BeginScrape
    <2>2. ((seen = {} /\ hist = NoHist /\ unique = NoUnique) => ExactInv)'
      BY ExactEmpty, PTL
    <2> QED
      BY <2>1, <2>2 DEF NoHist, NoUnique
  <1>3. ASSUME NEW k \in DOMAIN store, Drop(k) PROVE ExactInv'
    BY <1>1, <1>3 DEF Drop
  <1>4. ASSUME NEW h \in Calls,
               \/ Skip(h) \/ NoAddress(h) \/ Ask(h) \/ FindKept(h) \/ Wait(h) \/ Lead(h)
               \/ Fill(h) \/ Count(h) \/ Cancel(h)
        PROVE  ExactInv'
    BY <1>1, <1>4 DEF Skip, NoAddress, Ask, FindKept, Wait, Lead, MoveTo, Fill, Count, Cancel,
       pageVars
  <1>5. ASSUME NEW s \in Streams, Open(s) \/ EndOfStream(s) \/ \E m \in Msgs : Read(s, m)
        PROVE  ExactInv'
    BY <1>1, <1>5 DEF Open, EndOfStream, Read, pageVars
  <1>6. ASSUME NEW f \in Flows, Reply(f) \/ \E m \in Msgs : Call(f, m) PROVE ExactInv'
    BY <1>1, <1>6 DEF Reply, Call, pageVars
  <1>7. CASE Tick \/ EndScrape \/ UNCHANGED vars
    BY <1>1, <1>7 DEF Tick, EndScrape, pageVars, vars
  <1> QED
    BY <1>2, <1>3, <1>4, <1>5, <1>6, <1>7, ExactVisit DEF Next

(* For any netmasks, buckets and addresses, what a page counts is one set   *)
(* of entries, each counted once in every bucket it belongs to.             *)
THEOREM ExactCorrect == Spec => []PageIsExact
  <1>1. Init => ExactInv
    BY ExactEmpty DEF Init
  <1>2. TypeOK /\ ExactInv /\ [Next]_vars => TypeOK' /\ ExactInv'
    BY TypeStep, ExactStep
  <1>3. ExactInv => PageIsExact
    BY DEF ExactInv
  <1> QED
    BY <1>1, <1>2, <1>3, TypeInit, PTL DEF Spec
=============================================================================
