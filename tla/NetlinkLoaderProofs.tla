------------------------ MODULE NetlinkLoaderProofs ------------------------
(* Proofs about NetlinkLoader, for every set of sockets, addresses and      *)
(* bounds: a request holds exactly the records of its dumps, a socket is    *)
(* reported again only after new activity, and what is left out although it *)
(* is new was overtaken by another socket of its family.                    *)
EXTENDS NetlinkLoader, TLAPS

LEMMA SeqAppend ==
    ASSUME NEW S, NEW s \in Seq(S), NEW e \in S
    PROVE  /\ Append(s, e) \in Seq(S)
           /\ Len(s) \in Nat
           /\ Len(Append(s, e)) = Len(s) + 1
           /\ \A i \in 1..Len(s) : Append(s, e)[i] = s[i]
           /\ Append(s, e)[Len(s) + 1] = e
  OBVIOUS

LEMMA SeqElem ==
    ASSUME NEW S, NEW s \in Seq(S), NEW i \in 1..Len(s)
    PROVE  s[i] \in S
  OBVIOUS

(* A dump lists a socket once, and the IPv4 dump comes first.               *)
ListedOnce ==
    \A i \in 1..Len(listed) :
        /\ phase = "v4" => Family[listed[i].socket] = "v4"
        /\ phase = Family[listed[i].socket] => listed[i].socket \notin todo

(* The type invariant but for ListedOnce.                                   *)
Typed ==
    /\ host \subseteq Addresses
    /\ phase \in {"addresses", "v4", "v6", "asleep", "stuck", "broken", "over"}
    /\ localIps \subseteq Addresses
    /\ latest \in [Families -> Figures] /\ newest \in Figures
    /\ todo \subseteq Sockets /\ (phase \in Families => todo \subseteq OfFamily(phase))
    /\ request \subseteq Samples
    /\ rounds \in 0..MaxRounds
    /\ base \in [Families -> Figures]
    /\ listed \in Seq(Samples)
    /\ sentAt \in [Sockets -> 0..Never]

LEMMA TypeParts == TypeOK <=> Typed /\ ListedOnce
  BY DEF TypeOK, Typed, ListedOnce

LEMMA SampleType ==
    ASSUME NEW s \in Sockets, NEW a \in Figures
    PROVE  /\ Sample(s, a) \in Samples
           /\ a \in Nat /\ a \in 0..Never
           /\ Family[s] \in Families
           /\ Sample(s, a).socket = s /\ Sample(s, a).act = a
  BY SocketsAssumption DEF Sample, Samples, Figures, Never

LEMMA ListedFamily ==
    ASSUME Typed, NEW i \in 1..Len(listed)
    PROVE  listed[i] \in Samples /\ Family[listed[i].socket] \in {"v4", "v6"}
  <1>1. listed[i] \in Samples
    BY SeqElem DEF Typed
  <1> QED
    BY <1>1, SocketsAssumption DEF Samples, Families

-----------------------------------------------------------------------------
(* The type invariant.                                                      *)

LEMMA TypeInit == Init => TypeOK
  BY SocketsAssumption DEF Init, TypeOK, Figures, Never, Nothing, Families, Samples

\* A dump starts with nothing of its family listed.
LEMMA DumpType ==
    ASSUME Typed, NEW f \in Families, NEW a \in [Families -> Figures], Dump(f, a)
    PROVE  /\ phase' = f /\ todo' = OfFamily(f)
           /\ newest' \in Figures /\ base' \in [Families -> Figures]
           /\ todo' \subseteq Sockets
  BY DEF Typed, Dump, OfFamily

LEMMA ContinueType ==
    ASSUME Typed, ListedOnce, NEW f \in Families, NEW a \in [Families -> Figures],
           phase = f, Continue(f, a), listed' = listed
    PROVE  /\ phase' \in {"v6", "asleep"}
           /\ newest' \in Figures /\ base' \in [Families -> Figures]
           /\ todo' \subseteq Sockets /\ (phase' \in Families => todo' \subseteq OfFamily(phase'))
           /\ ListedOnce'
  <1>1. CASE f = "v4" /\ Dump("v6", a)
    <2>1. phase' = "v6" /\ todo' = OfFamily("v6") /\ newest' \in Figures
          /\ base' \in [Families -> Figures] /\ todo' \subseteq Sockets
      BY <1>1, DumpType DEF Families
    <2>2. \A i \in 1..Len(listed) : Family[listed[i].socket] = "v4"
      BY <1>1 DEF ListedOnce
    <2> QED
      BY <2>1, <2>2 DEF ListedOnce
  <1>2. CASE f = "v6" /\ phase' = "asleep" /\ UNCHANGED <<todo, newest, base>>
    <2>1. \A i \in 1..Len(listed) : Family[listed[i].socket] # "asleep"
      BY ListedFamily
    <2> QED
      BY <1>2, <2>1 DEF Typed, ListedOnce, Families
  <1> QED
    BY <1>1, <1>2 DEF Continue

LEMMA PushType ==
    ASSUME Typed, ListedOnce, NEW s \in Sockets, NEW a \in Figures, Lists(s), phase' = phase,
           listed' = Append(listed, Sample(s, a))
    PROVE  listed' \in Seq(Samples) /\ ListedOnce'
  <1>1. /\ listed \in Seq(Samples) /\ Len(listed) \in Nat
        /\ listed' \in Seq(Samples) /\ Len(listed') = Len(listed) + 1
        /\ \A i \in 1..Len(listed) : listed'[i] = listed[i]
        /\ listed'[Len(listed) + 1].socket = s
    BY SampleType, SeqAppend DEF Typed
  <1>2. phase = Family[s] /\ s \notin todo' /\ todo' \subseteq todo
    BY DEF Lists, Typed, OfFamily
  <1>3. ASSUME NEW i \in 1..Len(listed')
        PROVE  /\ phase' = "v4" => Family[listed'[i].socket] = "v4"
               /\ phase' = Family[listed'[i].socket] => listed'[i].socket \notin todo'
    <2>1. CASE i \in 1..Len(listed)
      BY <2>1, <1>1, <1>2 DEF ListedOnce
    <2>2. CASE i = Len(listed) + 1
      BY <2>2, <1>1, <1>2
    <2> QED
      BY <2>1, <2>2, <1>1
  <1> QED
    BY <1>1, <1>3 DEF ListedOnce

LEMMA TypeStep == TypeOK /\ [Next]_vars => TypeOK'
  <1> SUFFICES ASSUME Typed, ListedOnce, [Next]_vars
               PROVE  Typed' /\ ListedOnce'
    BY TypeParts DEF TypeOK, Typed, ListedOnce
  <1> USE SocketsAssumption
  <1>3. ASSUME NEW a \in Addresses, AddAddress(a) PROVE Typed' /\ ListedOnce'
    BY <1>3 DEF AddAddress, Typed, ListedOnce, loaderVars, histVars, OfFamily
  <1>4. CASE ReadAddresses
    <2>1. \A i \in 1..Len(listed) : Family[listed[i].socket] # "asleep"
      BY ListedFamily
    <2> QED
      BY <1>4, <2>1 DEF ReadAddresses, Typed, ListedOnce, histVars, OfFamily, Families
  <1>5. ASSUME NEW s \in Sockets, Ignore(s) \/ Omit(s) PROVE Typed' /\ ListedOnce'
    BY <1>5 DEF Ignore, Omit, Lists, Typed, ListedOnce, loaderVars, histVars, OfFamily
  <1>6. ASSUME NEW s \in Sockets, NEW a \in Figures, ReportFirst(s, a) PROVE Typed' /\ ListedOnce'
    <2>1. listed' \in Seq(Samples) /\ ListedOnce'
      BY <1>6, PushType DEF ReportFirst, Push
    <2>2. newest' \in Figures /\ request' \subseteq Samples /\ sentAt' \in [Sockets -> 0..Never]
      BY <1>6, SampleType DEF ReportFirst, Push, Greater, Typed
    <2> QED
      BY <1>6, <2>1, <2>2 DEF ReportFirst, Lists, Typed, OfFamily
  <1>7. ASSUME NEW s \in Sockets, NEW a \in Figures, ReportNewer(s, a) PROVE Typed' /\ ListedOnce'
    <2>1. listed' \in Seq(Samples) /\ ListedOnce'
      BY <1>7, PushType DEF ReportNewer, Push
    <2>2. /\ latest' \in [Families -> Figures] /\ request' \subseteq Samples
          /\ sentAt' \in [Sockets -> 0..Never]
      BY <1>7, SampleType DEF ReportNewer, Push, Typed
    <2> QED
      BY <1>7, <2>1, <2>2 DEF ReportNewer, Lists, Typed, OfFamily
  <1>8. ASSUME NEW s \in Sockets, NEW a \in Figures, PassOver(s, a) PROVE Typed' /\ ListedOnce'
    <2>1. listed' \in Seq(Samples) /\ ListedOnce'
      BY <1>8, PushType DEF PassOver
    <2> QED
      BY <1>8, <2>1 DEF PassOver, Lists, Typed, loaderVars, OfFamily
  <1>9. ASSUME NEW f \in Families, Done(f) PROVE Typed' /\ ListedOnce'
    <2>1. latest' \in [Families -> Figures]
      BY <1>9 DEF Done, Kept, Typed
    <2>2. /\ phase' \in {"v6", "asleep"}
          /\ newest' \in Figures /\ base' \in [Families -> Figures]
          /\ todo' \subseteq Sockets /\ (phase' \in Families => todo' \subseteq OfFamily(phase'))
          /\ ListedOnce'
      BY <1>9, <2>1, ContinueType DEF Done
    <2> QED
      BY <1>9, <2>1, <2>2 DEF Done, Typed, OfFamily
  <1>10. ASSUME NEW f \in Families, SendFails(f) PROVE Typed' /\ ListedOnce'
    <2>1. latest \in [Families -> Figures]
      BY DEF Typed
    <2>2. /\ phase' \in {"v6", "asleep"}
          /\ newest' \in Figures /\ base' \in [Families -> Figures]
          /\ todo' \subseteq Sockets /\ (phase' \in Families => todo' \subseteq OfFamily(phase'))
          /\ ListedOnce'
      BY <1>10, <2>1, ContinueType DEF SendFails, Untouched
    <2> QED
      BY <1>10, <2>2 DEF SendFails, Typed, OfFamily
  <1>11. CASE Wake
    <2>1. /\ phase' = "v4" /\ todo' = OfFamily("v4") /\ newest' \in Figures
          /\ base' \in [Families -> Figures] /\ todo' \subseteq Sockets
      BY <1>11, DumpType DEF Wake, Typed, Families
    <2>2. listed' = <<>> /\ ListedOnce'
      BY <1>11 DEF Wake, ListedOnce
    <2> QED
      BY <1>11, <2>1, <2>2 DEF Wake, Typed, Families, OfFamily
  <1>12. CASE AddressesFail \/ CallEnds
    <2>1. \A i \in 1..Len(listed) : Family[listed[i].socket] # "over"
      BY ListedFamily
    <2> QED
      BY <1>12, <2>1 DEF AddressesFail, CallEnds, Typed, ListedOnce, loaderVars, histVars, OfFamily, Families
  <1>13. CASE DumpFails
    <2>1. \A i \in 1..Len(listed) : Family[listed[i].socket] # "stuck"
      BY ListedFamily
    <2> QED
      BY <1>13, <2>1 DEF DumpFails, Typed, ListedOnce, loaderVars, histVars, OfFamily, Families
  <1>14. CASE Reconnect \/ LoadPanics
    <2>1. DropLoader /\ phase' \in {"addresses", "broken"}
      BY <1>14 DEF Reconnect, LoadPanics
    <2>2. host' \subseteq Addresses /\ rounds' \in 0..MaxRounds
      BY <1>14 DEF Reconnect, LoadPanics, Typed
    <2>3. /\ latest' \in [Families -> Figures] /\ newest' \in Figures
          /\ base' \in [Families -> Figures] /\ sentAt' \in [Sockets -> 0..Never]
      BY <2>1 DEF DropLoader, Nothing, Figures, Never
    <2>4. localIps' = {} /\ todo' = {} /\ request' = {} /\ listed' = <<>>
      BY <2>1 DEF DropLoader
    <2> QED
      BY <2>1, <2>2, <2>3, <2>4 DEF Typed, ListedOnce, Families
  <1>15. CASE UNCHANGED vars
    BY <1>15 DEF vars, loaderVars, histVars, Typed, ListedOnce, OfFamily
  <1> QED
    BY <1>3, <1>4, <1>5, <1>6, <1>7, <1>8, <1>9, <1>10, <1>11, <1>12,
       <1>13, <1>14, <1>15 DEF Next, Load, Examine

\* The loader's state has its types, a dump lists a socket once and the IPv4
\* dump comes first: TypeOK, for load and start_loading.
THEOREM TypeCorrect == Spec => []TypeOK
  BY TypeInit, TypeStep, PTL DEF Spec

-----------------------------------------------------------------------------
(* The requests.                                                            *)

(* While a family is dumped its mark is the greatest of the mark at the     *)
(* start and of what was listed since; it stays 0 in a first dump.          *)
MarkInv ==
    \A f \in Families : phase = f =>
        /\ base[f] = 0 => latest[f] = 0
        /\ base[f] > 0 =>
             /\ latest[f] >= base[f]
             /\ \A i \in 1..Len(listed) :
                  Family[listed[i].socket] = f => listed[i].act <= latest[f]
             /\ \/ latest[f] = base[f]
                \/ \E i \in 1..Len(listed) :
                     Family[listed[i].socket] = f /\ listed[i].act = latest[f]

(* Belongs and the set it selects, of any list and any marks.               *)
BelongsIn(l, b, i) ==
    LET f == Family[l[i].socket]
    IN  \/ b[f] = 0
        \/ /\ l[i].act > b[f]
           /\ \A j \in 1..(i - 1) : Family[l[j].socket] = f => l[j].act < l[i].act

ChosenIn(l, b) == {l[i] : i \in {j \in 1..Len(l) : BelongsIn(l, b, j)}}

(* Whether a sample listed after l belongs in the request.                  *)
IsRecord(l, b, e) ==
    \/ b[Family[e.socket]] = 0
    \/ /\ e.act > b[Family[e.socket]]
       /\ \A j \in 1..Len(l) : Family[l[j].socket] = Family[e.socket] => l[j].act < e.act

LEMMA RecordsAre == RequestIsRecords <=> request = ChosenIn(listed, base)
  BY DEF RequestIsRecords, Belongs, ChosenIn, BelongsIn

\* One more socket listed changes nothing for those before it.
LEMMA ChosenAppend ==
    ASSUME NEW l \in Seq(Samples), NEW e \in Samples, NEW b
    PROVE  /\ IsRecord(l, b, e) => ChosenIn(Append(l, e), b) = ChosenIn(l, b) \cup {e}
           /\ ~IsRecord(l, b, e) => ChosenIn(Append(l, e), b) = ChosenIn(l, b)
  <1> DEFINE m == Append(l, e)
             n == Len(l) + 1
  <1>1. /\ Len(l) \in Nat /\ Len(m) = n
        /\ \A i \in 1..Len(l) : m[i] = l[i]
        /\ m[n] = e
    BY SeqAppend
  <1>2. 1..Len(m) = 1..Len(l) \cup {n} /\ n \notin 1..Len(l) /\ 1..(n - 1) = 1..Len(l)
    BY <1>1
  <1> HIDE DEF m
  <1>3. ASSUME NEW i \in 1..Len(l) PROVE BelongsIn(m, b, i) <=> BelongsIn(l, b, i)
    <2>1. m[i] = l[i] /\ \A j \in 1..(i - 1) : m[j] = l[j]
      BY <1>1
    <2> QED
      BY <2>1 DEF BelongsIn
  <1>4. BelongsIn(m, b, n) <=> IsRecord(l, b, e)
    <2>1. BelongsIn(m, b, n) <=>
            \/ b[Family[e.socket]] = 0
            \/ /\ e.act > b[Family[e.socket]]
               /\ \A j \in 1..(n - 1) : Family[m[j].socket] = Family[e.socket] => m[j].act < e.act
      BY <1>1 DEF BelongsIn
    <2> QED
      BY <2>1, <1>1, <1>2 DEF IsRecord
  <1> HIDE DEF n
  <1>5. \A i \in 1..Len(m) :
          (i \in 1..Len(l) /\ m[i] = l[i] /\ (BelongsIn(m, b, i) <=> BelongsIn(l, b, i))) \/ i = n
    BY <1>1, <1>2, <1>3
  <1>6. ChosenIn(l, b) \subseteq ChosenIn(m, b)
    BY <1>1, <1>2, <1>3 DEF ChosenIn
  <1>7. ChosenIn(m, b) \subseteq ChosenIn(l, b) \cup {e}
    BY <1>1, <1>5 DEF ChosenIn
  <1>8. IsRecord(l, b, e) => e \in ChosenIn(m, b)
    BY <1>1, <1>2, <1>4 DEF ChosenIn
  <1>9. ~IsRecord(l, b, e) => ChosenIn(m, b) \subseteq ChosenIn(l, b)
    BY <1>1, <1>4, <1>5 DEF ChosenIn
  <1> QED
    BY <1>6, <1>7, <1>8, <1>9 DEF m

RecordsInv == MarkInv /\ RequestIsRecords

LEMMA RecordsInit == Init => RecordsInv
  <1> SUFFICES ASSUME Init PROVE MarkInv /\ RequestIsRecords
    BY DEF RecordsInv
  <1>1. MarkInv
    BY DEF Init, MarkInv, Families
  <1>2. RequestIsRecords
    BY DEF Init, RequestIsRecords
  <1> QED
    BY <1>1, <1>2

\* A socket that is listed and put in the request, or not, as it should be.
LEMMA RecordsPush ==
    ASSUME Typed, RequestIsRecords, NEW s \in Sockets, NEW a \in Figures,
           base' = base, listed' = Append(listed, Sample(s, a)),
           request' = IF IsRecord(listed, base, Sample(s, a)) THEN request \cup {Sample(s, a)} ELSE request
    PROVE  RequestIsRecords'
  <1>1. listed \in Seq(Samples) /\ Sample(s, a) \in Samples
    BY SampleType DEF Typed
  <1>2. request = ChosenIn(listed, base)
    BY RecordsAre
  <1>3. request' = ChosenIn(listed', base)
    BY <1>1, <1>2, ChosenAppend
  <1> QED
    BY <1>3 DEF RequestIsRecords, Belongs, ChosenIn, BelongsIn

\* The mark of a family not being dumped says nothing of the request.
LEMMA RecordsContinue ==
    ASSUME Typed, ListedOnce, RequestIsRecords, NEW f \in Families,
           NEW a \in [Families -> Figures], phase = f, Continue(f, a),
           latest' = a, UNCHANGED <<request, listed>>
    PROVE  RecordsInv'
  <1>1. CASE f = "v4" /\ Dump("v6", a)
    <2>1. \A i \in 1..Len(listed) : Family[listed[i].socket] = "v4"
      BY <1>1 DEF ListedOnce
    <2>2. base'["v4"] = base["v4"] /\ base'["v6"] = a["v6"] /\ phase' = "v6"
      BY <1>1 DEF Dump, Typed, Families
    <2>3. MarkInv'
      BY <2>1, <2>2 DEF MarkInv, Families, Figures
    <2>4. \A i \in 1..Len(listed) : BelongsIn(listed, base', i) <=> BelongsIn(listed, base, i)
      BY <2>1, <2>2 DEF BelongsIn
    <2>5. request = ChosenIn(listed, base) /\ ChosenIn(listed, base) = ChosenIn(listed, base')
      BY <2>4, RecordsAre DEF ChosenIn
    <2>6. RequestIsRecords'
      BY <2>5 DEF RequestIsRecords, Belongs, ChosenIn, BelongsIn
    <2> QED
      BY <2>3, <2>6 DEF RecordsInv
  <1>2. CASE f = "v6" /\ phase' = "asleep" /\ UNCHANGED <<todo, newest, base>>
    <2>1. MarkInv'
      BY <1>2 DEF MarkInv, Families
    <2>2. RequestIsRecords'
      BY <1>2 DEF RequestIsRecords, Belongs
    <2> QED
      BY <2>1, <2>2 DEF RecordsInv
  <1> QED
    BY <1>1, <1>2 DEF Continue

\* Steps that leave the lists and marks alone.
LEMMA RecordsStutter ==
    ASSUME RecordsInv, UNCHANGED <<latest, base, listed, request>>,
           phase' = phase \/ phase' \notin Families
    PROVE  RecordsInv'
  <1>1. MarkInv'
    BY DEF RecordsInv, MarkInv
  <1>2. RequestIsRecords'
    BY DEF RecordsInv, RequestIsRecords, Belongs
  <1> QED
    BY <1>1, <1>2 DEF RecordsInv

LEMMA RecordsExamine ==
    ASSUME Typed, RecordsInv, NEW s \in Sockets, NEW a \in Figures,
           ReportFirst(s, a) \/ ReportNewer(s, a) \/ PassOver(s, a)
    PROVE  RecordsInv'
  <1> DEFINE f == Family[s]
  <1>1. /\ phase = f /\ phase' = f /\ f \in Families
        /\ base' = base /\ base \in [Families -> Nat] /\ latest \in [Families -> Nat]
        /\ a \in Nat
        /\ listed' = Append(listed, Sample(s, a))
        /\ Sample(s, a).socket = s /\ Sample(s, a).act = a
    BY SampleType DEF Typed, Figures, ReportFirst, ReportNewer, PassOver, Push, Lists, OfFamily
  <1>2. /\ Len(listed) \in Nat /\ Len(listed') = Len(listed) + 1
        /\ \A i \in 1..Len(listed) : listed'[i] = listed[i]
        /\ listed'[Len(listed) + 1] = Sample(s, a)
    BY <1>1, SampleType, SeqAppend DEF Typed
  <1>3. \A i \in 1..Len(listed) : listed[i].act \in Nat
    BY ListedFamily DEF Samples, Figures
  <1>4. /\ base[f] = 0 => latest[f] = 0
        /\ base[f] > 0 =>
             /\ latest[f] >= base[f]
             /\ \A i \in 1..Len(listed) :
                  Family[listed[i].socket] = f => listed[i].act <= latest[f]
             /\ \/ latest[f] = base[f]
                \/ \E i \in 1..Len(listed) :
                     Family[listed[i].socket] = f /\ listed[i].act = latest[f]
    BY <1>1 DEF RecordsInv, MarkInv
  <1>5. IsRecord(listed, base, Sample(s, a)) <=>
          \/ base[f] = 0
          \/ /\ a > base[f]
             /\ \A j \in 1..Len(listed) : Family[listed[j].socket] = f => listed[j].act < a
    BY <1>1 DEF IsRecord
  <1> HIDE DEF f
  <1>6. CASE ReportFirst(s, a)
    <2>1. latest[f] = 0 /\ latest' = latest /\ request' = request \cup {Sample(s, a)}
      BY <1>6 DEF ReportFirst, First, Push, f
    <2>2. base[f] = 0
      BY <2>1, <1>1, <1>4
    <2>3. RequestIsRecords'
      BY <2>1, <2>2, <1>1, <1>5, RecordsPush DEF RecordsInv
    <2>4. MarkInv'
      BY <2>1, <2>2, <1>1 DEF MarkInv
    <2> QED
      BY <2>3, <2>4 DEF RecordsInv
  <1>7. CASE ReportNewer(s, a)
    <2>1. /\ latest[f] # 0 /\ a > latest[f] /\ latest'[f] = a
          /\ request' = request \cup {Sample(s, a)}
      BY <1>7, <1>1 DEF ReportNewer, First, Push, f
    <2>2. base[f] > 0
      BY <2>1, <1>1, <1>4
    <2>3. IsRecord(listed, base, Sample(s, a))
      BY <2>1, <2>2, <1>1, <1>3, <1>4, <1>5
    <2>4. RequestIsRecords'
      BY <2>1, <2>3, <1>1, RecordsPush DEF RecordsInv
    <2>5. \A i \in 1..Len(listed') : Family[listed'[i].socket] = f => listed'[i].act <= latest'[f]
      BY <2>1, <2>2, <1>1, <1>2, <1>3, <1>4
    <2>6. \E i \in 1..Len(listed') :
            Family[listed'[i].socket] = f /\ listed'[i].act = latest'[f]
      <3>1. /\ Len(listed) + 1 \in 1..Len(listed')
            /\ Family[listed'[Len(listed) + 1].socket] = f
            /\ listed'[Len(listed) + 1].act = latest'[f]
        BY <2>1, <1>1, <1>2 DEF f
      <3> QED
        BY <3>1
    <2>7. latest'[f] >= base[f]
      BY <2>1, <2>2, <1>1, <1>4
    <2>8. MarkInv'
      <3>1. phase' = f /\ base'[f] = base[f] /\ base[f] # 0
        BY <2>2, <1>1
      <3> QED
        BY <2>5, <2>6, <2>7, <3>1 DEF MarkInv
    <2> QED
      BY <2>4, <2>8 DEF RecordsInv
  <1>8. CASE PassOver(s, a)
    <2>1. latest[f] # 0 /\ a <= latest[f] /\ latest' = latest /\ request' = request
      BY <1>8, <1>1 DEF PassOver, First, loaderVars, f
    <2>2. base[f] > 0
      BY <2>1, <1>1, <1>4
    <2>3. ~IsRecord(listed, base, Sample(s, a))
      BY <2>1, <2>2, <1>1, <1>3, <1>4, <1>5
    <2>4. RequestIsRecords'
      BY <2>1, <2>3, <1>1, RecordsPush DEF RecordsInv
    <2>5. \A i \in 1..Len(listed') : Family[listed'[i].socket] = f => listed'[i].act <= latest[f]
      BY <2>1, <2>2, <1>1, <1>2, <1>4
    <2>6. \/ latest[f] = base[f]
          \/ \E i \in 1..Len(listed') :
               Family[listed'[i].socket] = f /\ listed'[i].act = latest[f]
      BY <2>2, <1>2, <1>4
    <2>7. MarkInv'
      BY <2>1, <2>2, <2>5, <2>6, <1>1, <1>4 DEF MarkInv
    <2> QED
      BY <2>4, <2>7 DEF RecordsInv
  <1> QED
    BY <1>6, <1>7, <1>8

LEMMA RecordsStep == TypeOK /\ RecordsInv /\ [Next]_vars => RecordsInv'
  <1> SUFFICES ASSUME Typed, ListedOnce, RecordsInv, [Next]_vars
               PROVE  RecordsInv'
    BY TypeParts
  <1>1. CASE (\E s \in Sockets : Ignore(s) \/ Omit(s)) \/ (\E a \in Addresses : AddAddress(a))
    BY <1>1, RecordsStutter DEF AddAddress, Ignore, Omit, loaderVars, histVars
  <1>2. CASE ReadAddresses \/ AddressesFail \/ CallEnds \/ DumpFails
    BY <1>2, RecordsStutter DEF ReadAddresses, AddressesFail, CallEnds, DumpFails, Families, loaderVars, histVars
  <1>3. ASSUME NEW s \in Sockets, NEW a \in Figures, ReportFirst(s, a) \/ ReportNewer(s, a) \/ PassOver(s, a)
        PROVE  RecordsInv'
    BY <1>3, RecordsExamine
  <1>4. ASSUME NEW f \in Families, Done(f) PROVE RecordsInv'
    <2>1. latest' \in [Families -> Figures]
      BY <1>4 DEF Done, Kept, Typed
    <2> QED
      BY <1>4, <2>1, RecordsContinue DEF Done, RecordsInv
  <1>5. ASSUME NEW f \in Families, SendFails(f) PROVE RecordsInv'
    <2>1. latest \in [Families -> Figures]
      BY DEF Typed
    <2> QED
      BY <1>5, <2>1, RecordsContinue DEF SendFails, Untouched, RecordsInv
  <1>6. CASE Wake
    <2>1. /\ phase' = "v4" /\ base'["v4"] = latest["v4"] /\ latest' = latest
          /\ listed' = <<>> /\ request' = {}
      BY <1>6 DEF Wake, Dump, Typed, Families
    <2>2. MarkInv'
      BY <2>1 DEF MarkInv, Families, Typed, Figures
    <2>3. RequestIsRecords'
      BY <2>1 DEF RequestIsRecords
    <2> QED
      BY <2>2, <2>3 DEF RecordsInv
  <1>7. CASE Reconnect \/ LoadPanics
    <2>1. phase' \in {"addresses", "broken"} /\ listed' = <<>> /\ request' = {}
      BY <1>7 DEF Reconnect, LoadPanics, DropLoader
    <2>2. MarkInv'
      BY <2>1 DEF MarkInv, Families
    <2>3. RequestIsRecords'
      BY <2>1 DEF RequestIsRecords
    <2> QED
      BY <2>2, <2>3 DEF RecordsInv
  <1>8. CASE UNCHANGED vars
    BY <1>8, RecordsStutter DEF vars, loaderVars, histVars
  <1> QED
    BY <1>1, <1>2, <1>3, <1>4, <1>5, <1>6, <1>7, <1>8 DEF Next, Load, Examine

\* A request holds exactly the records of its dumps, whatever the kernel does
\* while they are read: RequestIsRecords, for the mark load raises as it goes.
THEOREM RecordsCorrect == Spec => []RequestIsRecords
  <1>1. RecordsInv => RequestIsRecords
    BY DEF RecordsInv
  <1> QED
    BY <1>1, TypeCorrect, RecordsInit, RecordsStep, PTL DEF Spec

-----------------------------------------------------------------------------
(* Repeated reports.                                                        *)

(* The mark of a family, or what it will be when its first dump is over.    *)
Mark(f) == IF latest[f] = 0 /\ phase = f THEN newest ELSE latest[f]

(* Nothing was reported with a later activity than the family's mark.       *)
RepeatInv ==
    /\ \A s \in Sockets : sentAt[s] = Never \/ sentAt[s] <= Mark(Family[s])
    /\ \A f \in Families : Untouched(f) => newest = latest[f]

LEMMA RepeatInit == Init => RepeatInv
  BY DEF Init, RepeatInv, Untouched, Families

LEMMA MarkType ==
    ASSUME Typed, NEW f \in Families
    PROVE  Mark(f) \in Nat
  BY DEF Typed, Mark, Figures

\* Sockets nobody reports keep within a mark that does not fall.
LEMMA RepeatKeeps ==
    ASSUME Typed, Typed', RepeatInv, sentAt' = sentAt,
           \A f \in Families : Mark(f)' >= Mark(f)
    PROVE  \A s \in Sockets : sentAt'[s] = Never \/ sentAt'[s] <= Mark(Family[s])'
  <1> SUFFICES ASSUME NEW s \in Sockets, sentAt[s] # Never
               PROVE  sentAt[s] <= Mark(Family[s])'
    OBVIOUS
  <1>1. Family[s] \in Families
    BY SocketsAssumption
  <1>2. sentAt[s] <= Mark(Family[s]) /\ sentAt[s] \in Nat
    BY SocketsAssumption DEF RepeatInv, Typed, Never, Figures
  <1>3. Mark(Family[s]) \in Nat /\ Mark(Family[s])' \in Nat
    BY <1>1 DEF Typed, Mark, Figures
  <1>4. Mark(Family[s])' >= Mark(Family[s])
    BY <1>1
  <1> QED
    BY <1>2, <1>3, <1>4

\* Once a socket is listed the family is no longer untouched.
LEMMA ListsTouches ==
    ASSUME Typed, NEW s \in Sockets, Lists(s), phase' = phase
    PROVE  \A f \in Families : ~Untouched(f)'
  BY DEF Typed, Lists, Untouched, OfFamily

\* Both parts of RepeatInv when a family's dump is over.
LEMMA RepeatContinue ==
    ASSUME Typed, Typed', RepeatInv, NEW f \in Families, phase = f, Continue(f, latest'),
           latest' = [latest EXCEPT ![f] = Mark(f)], sentAt' = sentAt
    PROVE  RepeatInv'
  <1>1. \A g \in Families : latest'[g] = Mark(g)
    BY DEF Typed, Mark
  <1>2. CASE f = "v4" /\ Dump("v6", latest')
    <2>1. phase' = "v6" /\ newest' = latest'["v6"]
      BY <1>2 DEF Dump
    <2>2. \A g \in Families : Mark(g)' = Mark(g)
      BY <2>1, <1>1 DEF Mark
    <2>3. \A g \in Families : Mark(g)' >= Mark(g)
      BY <2>2, MarkType
    <2>4. \A g \in Families : Untouched(g)' => newest' = latest'[g]
      BY <2>1 DEF Untouched
    <2> QED
      BY <2>3, <2>4, RepeatKeeps DEF RepeatInv
  <1>3. CASE f = "v6" /\ phase' = "asleep"
    <2>1. \A g \in Families : Mark(g)' = Mark(g) /\ ~Untouched(g)'
      BY <1>3, <1>1 DEF Mark, Untouched, Families
    <2>2. \A g \in Families : Mark(g)' >= Mark(g)
      BY <2>1, MarkType
    <2> QED
      BY <2>1, <2>2, RepeatKeeps DEF RepeatInv
  <1> QED
    BY <1>2, <1>3 DEF Continue

LEMMA RepeatReport ==
    ASSUME Typed, Typed', RepeatInv, NEW s \in Sockets, NEW a \in Figures,
           ReportFirst(s, a) \/ ReportNewer(s, a)
    PROVE  RepeatInv'
  <1>1. /\ phase = Family[s] /\ phase' = phase /\ Family[s] \in Families
        /\ a \in Nat /\ newest \in Nat
        /\ \A f \in Families : latest[f] \in Nat
        /\ \A x \in Sockets : sentAt'[x] = IF x = s THEN a ELSE sentAt[x]
    <2>1. Lists(s) /\ Push(s, a) /\ phase' = phase
      BY DEF ReportFirst, ReportNewer
    <2>2. \A x \in Sockets : sentAt'[x] = IF x = s THEN a ELSE sentAt[x]
      BY <2>1 DEF Push, Typed
    <2>3. phase = Family[s]
      BY <2>1 DEF Lists, Typed, OfFamily
    <2>4. a \in Nat /\ newest \in Nat /\ \A f \in Families : latest[f] \in Nat
      BY SampleType DEF Typed, Figures
    <2> QED
      BY <2>1, <2>2, <2>3, <2>4, SampleType
  <1>2. \A f \in Families : ~Untouched(f)'
    BY ListsTouches DEF ReportFirst, ReportNewer
  <1>3. /\ \A f \in Families : Mark(f)' >= Mark(f)
        /\ Mark(Family[s])' >= a
    <2>1. CASE ReportFirst(s, a)
      <3>1. /\ latest' = latest /\ latest[Family[s]] = 0
            /\ newest' >= newest /\ newest' >= a /\ newest' \in Nat
        BY <2>1, <1>1 DEF ReportFirst, First, Greater
      <3> QED
        BY <3>1, <1>1 DEF Mark
    <2>2. CASE ReportNewer(s, a)
      <3>1. /\ newest' = newest /\ latest[Family[s]] # 0
            /\ a > latest[Family[s]] /\ latest'[Family[s]] = a
            /\ \A f \in Families : f # Family[s] => latest'[f] = latest[f]
        BY <2>2, <1>1 DEF ReportNewer, First, Typed
      <3> QED
        BY <3>1, <1>1 DEF Mark
    <2> QED
      BY <2>1, <2>2
  <1>4. ASSUME NEW x \in Sockets PROVE sentAt'[x] = Never \/ sentAt'[x] <= Mark(Family[x])'
    <2>1. CASE x = s
      BY <2>1, <1>1, <1>3
    <2>2. CASE x # s
      <3>1. sentAt'[x] = sentAt[x] /\ sentAt[x] \in Nat /\ Family[x] \in Families
        <4>1. sentAt[x] \in 0..Never
          BY DEF Typed
        <4> QED
          BY <4>1, <2>2, <1>1, SocketsAssumption DEF Never
      <3>2. Mark(Family[x]) \in Nat /\ Mark(Family[x])' \in Nat
        BY <3>1 DEF Typed, Mark, Figures
      <3>3. Mark(Family[x])' >= Mark(Family[x])
        BY <3>1, <1>3
      <3>4. sentAt[x] = Never \/ sentAt[x] <= Mark(Family[x])
        BY DEF RepeatInv
      <3> QED
        BY <3>1, <3>2, <3>3, <3>4
    <2> QED
      BY <2>1, <2>2
  <1> QED
    BY <1>2, <1>4 DEF RepeatInv

LEMMA RepeatStep == TypeOK /\ TypeOK' /\ RepeatInv /\ [Next]_vars => RepeatInv'
  <1> SUFFICES ASSUME Typed, Typed', RepeatInv, [Next]_vars
               PROVE  RepeatInv'
    BY DEF TypeOK, Typed
  <1>1. ASSUME sentAt' = sentAt, \A f \in Families : Mark(f)' = Mark(f),
               \A f \in Families : Untouched(f)' => newest' = latest'[f]
        PROVE  RepeatInv'
    <2>1. \A f \in Families : Mark(f)' >= Mark(f)
      BY <1>1, MarkType
    <2> QED
      BY <1>1, <2>1, RepeatKeeps DEF RepeatInv
  <1>2. CASE (\E a \in Addresses : AddAddress(a)) \/ UNCHANGED vars
    BY <1>2, <1>1 DEF AddAddress, vars, loaderVars, histVars, Mark, Untouched, RepeatInv
  <1>3. CASE ReadAddresses \/ AddressesFail \/ CallEnds
    BY <1>3, <1>1 DEF ReadAddresses, AddressesFail, CallEnds, loaderVars, histVars, Mark, Untouched, Families
  <1>4. ASSUME NEW s \in Sockets, Ignore(s) \/ Omit(s) \/ (\E a \in Figures : PassOver(s, a)) PROVE RepeatInv'
    <2>1. Lists(s) /\ UNCHANGED <<phase, latest, newest, sentAt>>
      BY <1>4 DEF Ignore, Omit, PassOver, loaderVars, histVars
    <2>2. \A f \in Families : ~Untouched(f)'
      BY <2>1, ListsTouches
    <2> QED
      BY <2>1, <2>2, <1>1 DEF Mark
  <1>5. ASSUME NEW s \in Sockets, NEW a \in Figures, ReportFirst(s, a) \/ ReportNewer(s, a) PROVE RepeatInv'
    BY <1>5, RepeatReport
  <1>6. ASSUME NEW f \in Families, Done(f) PROVE RepeatInv'
    BY <1>6, RepeatContinue DEF Done, Kept, Mark
  <1>7. ASSUME NEW f \in Families, SendFails(f) PROVE RepeatInv'
    <2>1. phase = f /\ newest = latest[f]
      BY <1>7 DEF SendFails, Untouched, RepeatInv
    <2>2. latest' = [latest EXCEPT ![f] = Mark(f)]
      BY <1>7, <2>1 DEF SendFails, Mark, Typed
    <2> QED
      BY <1>7, <2>1, <2>2, RepeatContinue DEF SendFails
  <1>8. CASE DumpFails
    <2>1. /\ phase' = "stuck" /\ UNCHANGED <<latest, newest, sentAt>>
          /\ phase = "addresses" \/ \E f \in Families : Untouched(f)
      BY <1>8 DEF DumpFails, loaderVars, histVars
    <2>2. \A f \in Families : phase = f => newest = latest[f]
      BY <2>1 DEF RepeatInv, Untouched, Families
    <2> QED
      BY <2>1, <2>2, <1>1 DEF Mark, Untouched, Families
  <1>9. CASE Wake
    <2>1. /\ phase = "asleep" /\ phase' = "v4" /\ newest' = latest["v4"]
          /\ UNCHANGED <<latest, sentAt>>
      BY <1>9 DEF Wake, Dump
    <2> QED
      BY <2>1, <1>1 DEF Mark, Untouched, Families
  <1>10. CASE Reconnect \/ LoadPanics
    BY <1>10 DEF Reconnect, LoadPanics, DropLoader, RepeatInv, Untouched, Families
  <1> QED
    BY <1>2, <1>3, <1>4, <1>5, <1>6, <1>7, <1>8, <1>9, <1>10 DEF Next, Load, Examine

\* Only a step that reports a socket adds to the request.
LEMMA OnlyReportsAdd ==
    ASSUME [Next]_vars, NEW x \in request' \ request
    PROVE  \E s \in Sockets, a \in Figures :
             x = Sample(s, a) /\ (ReportFirst(s, a) \/ ReportNewer(s, a))
  <1>1. CASE \E s \in Sockets, a \in Figures : ReportFirst(s, a) \/ ReportNewer(s, a)
    <2>1. PICK s \in Sockets, a \in Figures : ReportFirst(s, a) \/ ReportNewer(s, a)
      BY <1>1
    <2>2. x = Sample(s, a)
      BY <2>1 DEF ReportFirst, ReportNewer, Push
    <2> QED
      BY <2>1, <2>2
  <1>2. CASE ~ \E s \in Sockets, a \in Figures : ReportFirst(s, a) \/ ReportNewer(s, a)
    BY <1>2 DEF Next, Load, Examine, AddAddress, ReadAddresses, AddressesFail, Ignore,
       Omit, PassOver, Done, SendFails, DumpFails, Wake, Reconnect, LoadPanics, DropLoader, CallEnds, vars
  <1> QED
    BY <1>1, <1>2

\* What has been reported is reported again only with a higher figure, once
\* the family has a mark: RepeatIsHigher, for load's comparison with its mark.
THEOREM RepeatCorrect == Spec => RepeatIsHigher
  <1> DEFINE Step == \A x \in request' \ request :
                       latest[Family[x.socket]] > 0 /\ sentAt[x.socket] # Never
                         => x.act > sentAt[x.socket]
  <1>1. TypeOK /\ RepeatInv /\ [Next]_vars => [Step]_vars
    <2> SUFFICES ASSUME Typed, RepeatInv, [Next]_vars, NEW x \in request' \ request,
                        latest[Family[x.socket]] > 0, sentAt[x.socket] # Never
                 PROVE  x.act > sentAt[x.socket]
      BY TypeParts
    <2>1. PICK s \in Sockets, a \in Figures :
            x = Sample(s, a) /\ (ReportFirst(s, a) \/ ReportNewer(s, a))
      BY OnlyReportsAdd
    <2>2. x.socket = s /\ x.act = a /\ Family[s] \in Families /\ a \in Nat
      BY <2>1, SampleType
    <2>3. latest[Family[s]] \in Nat /\ sentAt[s] \in Nat
      <3>1. latest[Family[s]] \in Figures /\ sentAt[s] \in 0..Never
        BY <2>2 DEF Typed
      <3> QED
        BY <3>1, SocketsAssumption DEF Figures, Never
    <2>4. ReportNewer(s, a)
      BY <2>1, <2>2, <2>3 DEF ReportFirst, First
    <2>5. a > latest[Family[s]] /\ Mark(Family[s]) = latest[Family[s]]
      BY <2>2, <2>3, <2>4 DEF ReportNewer, Mark
    <2>6. sentAt[s] <= Mark(Family[s])
      BY <2>2 DEF RepeatInv
    <2> QED
      BY <2>2, <2>3, <2>5, <2>6
  <1> QED
    BY <1>1, TypeCorrect, RepeatInit, RepeatStep, PTL DEF Spec, RepeatIsHigher

-----------------------------------------------------------------------------
(* What a request leaves out.                                               *)

(* In every family something at least as active as any socket with new data *)
(* is in the request: what is left out was overtaken, not forgotten.        *)
NewestIsSent ==
    \A i \in 1..Len(listed) :
        listed[i].act > base[Family[listed[i].socket]] =>
            \E x \in request : /\ Family[x.socket] = Family[listed[i].socket]
                              /\ x.act >= listed[i].act

\* A socket that is listed, with something in the request to cover it.
LEMMA NewestPush ==
    ASSUME Typed, NewestIsSent, NEW s \in Sockets, NEW a \in Figures,
           base' = base, listed' = Append(listed, Sample(s, a)),
           request \subseteq request',
           a > base[Family[s]] => \E x \in request' : Family[x.socket] = Family[s] /\ x.act >= a
    PROVE  NewestIsSent'
  <1>1. /\ Len(listed) \in Nat /\ Len(listed') = Len(listed) + 1
        /\ \A i \in 1..Len(listed) : listed'[i] = listed[i]
        /\ listed'[Len(listed) + 1].socket = s /\ listed'[Len(listed) + 1].act = a
    BY SampleType, SeqAppend DEF Typed
  <1>2. ASSUME NEW i \in 1..Len(listed'), listed'[i].act > base[Family[listed'[i].socket]]
        PROVE  \E x \in request' : /\ Family[x.socket] = Family[listed'[i].socket]
                                   /\ x.act >= listed'[i].act
    <2>1. CASE i \in 1..Len(listed)
      BY <1>1, <1>2, <2>1 DEF NewestIsSent
    <2>2. CASE i = Len(listed) + 1
      BY <1>1, <1>2, <2>2
    <2> QED
      BY <1>1, <2>1, <2>2
  <1> QED
    BY <1>2 DEF NewestIsSent

LEMMA NewestExamine ==
    ASSUME Typed, MarkInv, NewestIsSent, NEW s \in Sockets, NEW a \in Figures,
           ReportFirst(s, a) \/ ReportNewer(s, a) \/ PassOver(s, a)
    PROVE  NewestIsSent'
  <1>1. /\ phase = Family[s] /\ Family[s] \in Families /\ a \in Nat
        /\ base' = base /\ base \in [Families -> Nat] /\ latest \in [Families -> Nat]
        /\ listed' = Append(listed, Sample(s, a)) /\ request \subseteq request'
        /\ Sample(s, a).socket = s /\ Sample(s, a).act = a
    BY SampleType DEF Typed, Figures, ReportFirst, ReportNewer, PassOver, Push, Lists, OfFamily
  <1>2. CASE ReportFirst(s, a) \/ ReportNewer(s, a)
    <2>1. Sample(s, a) \in request'
      BY <1>2 DEF ReportFirst, ReportNewer, Push
    <2>2. \E x \in request' : Family[x.socket] = Family[s] /\ x.act >= a
      BY <1>1, <2>1
    <2> QED
      BY <1>1, <2>2, NewestPush
  <1>3. CASE PassOver(s, a)
    <2>1. a <= latest[Family[s]] /\ latest[Family[s]] # 0 /\ request' = request
      BY <1>1, <1>3 DEF PassOver, First, loaderVars
    <2>2. ASSUME a > base[Family[s]]
          PROVE  \E x \in request' : Family[x.socket] = Family[s] /\ x.act >= a
      <3>1. base[Family[s]] > 0
        BY <1>1, <2>1 DEF MarkInv
      <3>2. latest[Family[s]] # base[Family[s]]
        BY <1>1, <2>1, <2>2
      <3>3. PICK i \in 1..Len(listed) :
              Family[listed[i].socket] = Family[s] /\ listed[i].act = latest[Family[s]]
        BY <1>1, <3>1, <3>2 DEF MarkInv
      <3>4. listed[i].act > base[Family[s]]
        BY <1>1, <2>1, <2>2, <3>3
      <3>5. PICK x \in request :
              Family[x.socket] = Family[s] /\ x.act >= latest[Family[s]]
        BY <3>3, <3>4 DEF NewestIsSent
      <3>6. x.act \in Nat
        BY DEF Typed, Samples, Figures
      <3> QED
        BY <1>1, <2>1, <3>5, <3>6
    <2> QED
      BY <1>1, <2>2, NewestPush
  <1> QED
    BY <1>2, <1>3

\* The next family's dump begins with nothing of that family listed.
LEMMA NewestContinue ==
    ASSUME Typed, ListedOnce, NewestIsSent, NEW f \in Families, NEW a, phase = f,
           Continue(f, a), UNCHANGED <<request, listed>>
    PROVE  NewestIsSent'
  <1>1. CASE f = "v4" /\ Dump("v6", a)
    <2>1. \A i \in 1..Len(listed) : Family[listed[i].socket] = "v4"
      BY <1>1 DEF ListedOnce
    <2>2. base'["v4"] = base["v4"]
      BY <1>1 DEF Dump, Typed, Families
    <2> QED
      BY <2>1, <2>2 DEF NewestIsSent
  <1>2. CASE base' = base
    BY <1>2 DEF NewestIsSent
  <1> QED
    BY <1>1, <1>2 DEF Continue

LEMMA NewestStep == TypeOK /\ RecordsInv /\ NewestIsSent /\ [Next]_vars => NewestIsSent'
  <1> SUFFICES ASSUME Typed, ListedOnce, MarkInv, NewestIsSent, [Next]_vars
               PROVE  NewestIsSent'
    BY TypeParts DEF RecordsInv
  <1>1. ASSUME UNCHANGED <<base, listed, request>> PROVE NewestIsSent'
    BY <1>1 DEF NewestIsSent
  <1>2. CASE (\E s \in Sockets : Ignore(s) \/ Omit(s)) \/ (\E a \in Addresses : AddAddress(a))
    BY <1>1, <1>2 DEF AddAddress, Ignore, Omit, histVars
  <1>3. CASE ReadAddresses \/ AddressesFail \/ CallEnds \/ DumpFails \/ UNCHANGED vars
    BY <1>1, <1>3 DEF ReadAddresses, AddressesFail, CallEnds, DumpFails, histVars, vars
  <1>4. ASSUME NEW s \in Sockets, NEW a \in Figures,
               ReportFirst(s, a) \/ ReportNewer(s, a) \/ PassOver(s, a)
        PROVE  NewestIsSent'
    BY <1>4, NewestExamine
  <1>5. ASSUME NEW f \in Families, Done(f) \/ SendFails(f) PROVE NewestIsSent'
    BY <1>5, NewestContinue DEF Done, SendFails, Untouched
  <1>6. CASE Wake \/ Reconnect \/ LoadPanics
    <2>1. listed' = <<>>
      BY <1>6 DEF Wake, Reconnect, LoadPanics, DropLoader
    <2> QED
      BY <2>1 DEF NewestIsSent
  <1> QED
    BY <1>2, <1>3, <1>4, <1>5, <1>6 DEF Next, Load, Examine

\* The mark that is raised while a dump is read leaves a socket with new data
\* out of the request only if the request tells of one at least as active.
THEOREM NewestCorrect == Spec => []NewestIsSent
  <1>1. Init => NewestIsSent
    BY DEF Init, NewestIsSent
  <1> QED
    BY <1>1, TypeCorrect, RecordsInit, RecordsStep, NewestStep, PTL DEF Spec
=============================================================================
