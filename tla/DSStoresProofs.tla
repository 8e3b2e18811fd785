--------------------------- MODULE DSStoresProofs ---------------------------
(***************************************************************************)
(* What holds of DSHelper's stores whatever DeviceSettings answers and in  *)
(* whatever order loads, reloads, resets and stored resolutions come: the  *)
(* flat list of resolutions is the load's, followed by each new name that  *)
(* was stored since, once; handles are kept only under the names of listed *)
(* ports, and the name a lookup returns leads back to the same port.       *)
(***************************************************************************)
EXTENDS DSStores, WellFoundedInduction, TLAPS

\* Device handles are there for all devices or for none; with the types, that is all the
\* handle maps need.
SInv ==
    /\ TypeOK
    /\ ResolutionsUnited
    /\ videoHandles \subseteq VideoNames(ports)
    /\ audioHandles \subseteq AudioNames(audioPorts)
    /\ Len(deviceHandles) \in {0, devices}

-----------------------------------------------------------------------------
(* Names *)

LEMMA ElementTyped ==
    ASSUME NEW S, NEW s \in Seq(S), NEW i \in 1 .. Len(s)
    PROVE  s[i] \in S
OBVIOUS

LEMMA EmptySequence == \A S : <<>> \in Seq(S) /\ Len(<<>>) = 0 /\ DOMAIN <<>> = {}
OBVIOUS

\* Ports get names.
LEMMA NamesTyped ==
    /\ \A s \in Seq([type : VideoTypes, index : Indexes]) : VideoNames(s) \subseteq Names
    /\ \A s \in Seq([type : AudioTypes, index : Indexes]) : AudioNames(s) \subseteq Names
<1>1. ASSUME NEW t \in VideoTypes, NEW i \in Indexes PROVE getVideoPortName(t, i) \in Names
  BY <1>1, StoresAssumption DEF getVideoPortName, Names, Words
<1>2. ASSUME NEW t \in AudioTypes, NEW i \in Indexes PROVE getAudioPortName(t, i) \in Names
  BY <1>2, StoresAssumption DEF getAudioPortName, Names, Words
<1>3. ASSUME NEW s \in Seq([type : VideoTypes, index : Indexes]), NEW i \in 1 .. Len(s)
      PROVE  getVideoPortName(s[i].type, s[i].index) \in Names
  <2>1. s[i] \in [type : VideoTypes, index : Indexes]
    BY <1>3, ElementTyped
  <2> QED
    BY <1>1, <2>1
<1>4. ASSUME NEW s \in Seq([type : AudioTypes, index : Indexes]), NEW i \in 1 .. Len(s)
      PROVE  getAudioPortName(s[i].type, s[i].index) \in Names
  <2>1. s[i] \in [type : AudioTypes, index : Indexes]
    BY <1>4, ElementTyped
  <2> QED
    BY <1>2, <2>1
<1>5. \A S, s : s \in Seq(S) => DOMAIN s = 1 .. Len(s)
  OBVIOUS
<1> QED
  BY <1>3, <1>4, <1>5 DEF VideoNames, AudioNames

\* No two video ports share a name, not even in different case.
LEMMA VideoNamesDiffer ==
    ASSUME NEW p \in [type : VideoTypes, index : Indexes],
           NEW q \in [type : VideoTypes, index : Indexes],
           EqualsIgnoreCase(getVideoPortName(p.type, p.index), getVideoPortName(q.type, q.index))
    PROVE  p = q
<1>1. p.index = q.index /\ VideoWord[p.type] = VideoWord[q.type]
  BY DEF EqualsIgnoreCase, getVideoPortName
<1>2. p.type \in DOMAIN VideoWord /\ q.type \in DOMAIN VideoWord
  BY StoresAssumption
<1>3. p.type = q.type
  BY <1>1, <1>2 DEF VideoWord
<1> QED
  BY <1>1, <1>3

\* Nor do two audio ports.
LEMMA AudioNamesDiffer ==
    ASSUME NEW p \in [type : AudioTypes, index : Indexes],
           NEW q \in [type : AudioTypes, index : Indexes],
           getAudioPortName(p.type, p.index) = getAudioPortName(q.type, q.index)
    PROVE  p = q
<1>1. p.index = q.index /\ AudioWord[p.type] = AudioWord[q.type]
  BY DEF getAudioPortName
<1>2. p.type \in DOMAIN AudioWord /\ q.type \in DOMAIN AudioWord
  BY StoresAssumption
<1>3. p.type = q.type
  BY <1>1, <1>2 DEF AudioWord
<1> QED
  BY <1>1, <1>3

\* The least element of a non-empty set of natural numbers is one of them.
LEMMA LeastElement ==
    ASSUME NEW I \in SUBSET Nat, I # {}
    PROVE  Min(I) \in I /\ \A j \in I : Min(I) =< j
<1> DEFINE less == {ss \in Nat \X Nat : ss[1] < ss[2]}
<1>1. IsWellFoundedOn(less, Nat)
  BY NatLessThanWellFounded DEF OpToRel
<1>2. PICK m \in I : \A y \in I : ~ (<<y, m>> \in less)
  BY <1>1, WFMin
<1>3. ASSUME NEW y \in I, ~ (m =< y) PROVE FALSE
  <2>1. m \in Nat /\ y \in Nat /\ y < m
    BY <1>3
  <2>2. <<y, m>> \in less
    BY <2>1
  <2> QED
    BY <1>2, <2>2
<1> QED
  BY <1>3 DEF Min

\* Looking up a port's name finds the port.
LEMMA NameLeadsBack ==
    ASSUME TypeOK, NEW k \in 1 .. Len(ports)
    PROVE  PortNamed(getVideoPortName(ports[k].type, ports[k].index)) = ports[k]
<1> DEFINE name == getVideoPortName(ports[k].type, ports[k].index)
           I    == {i \in 1 .. Len(ports) :
                       EqualsIgnoreCase(getVideoPortName(ports[i].type, ports[i].index), name)}
<1>1. k \in I
  BY DEF EqualsIgnoreCase
<1>2. Min(I) \in I /\ Min(I) # 0
  <2>1. I \in SUBSET Nat /\ I # {} /\ 0 \notin I
    BY <1>1
  <2> HIDE DEF I
  <2> QED
    BY <2>1, LeastElement
<1>3. PortNamed(name) = ports[Min(I)]
  BY <1>1, <1>2 DEF PortNamed, SelectInSeq
<1>4. ports[Min(I)] \in [type : VideoTypes, index : Indexes]
      /\ ports[k] \in [type : VideoTypes, index : Indexes]
  BY <1>2, ElementTyped DEF TypeOK
<1>5. ports[Min(I)] = ports[k]
  BY <1>2, <1>4, VideoNamesDiffer
<1> QED
  BY <1>3, <1>5

\* A name found is that of a port.
LEMMA ResolvedIsPort ==
    ASSUME TypeOK, NEW request, ResolveByName(request) # NoEntry
    PROVE  \E k \in 1 .. Len(ports) : ResolveByName(request) = ports[k]
<1> DEFINE I == {i \in 1 .. Len(ports) : Matches(ports[i], request)}
<1>1. I # {}
  BY DEF ResolveByName, SelectInSeq
<1>2. Min(I) \in I /\ Min(I) # 0
  BY <1>1, LeastElement
<1>3. ResolveByName(request) = ports[Min(I)]
  BY <1>1, <1>2 DEF ResolveByName, SelectInSeq
<1> QED
  BY <1>2, <1>3

-----------------------------------------------------------------------------
(* The invariant *)

\* The empty list begins every list, and every list itself.
LEMMA PrefixSelf ==
    ASSUME NEW S, NEW s \in Seq(S)
    PROVE  IsPrefix(s, s)
<1>1. SubSeq(s, 1, Len(s)) = SubSeq(s, 1, Len(s))
  OBVIOUS
<1> QED
  BY <1>1 DEF IsPrefix

\* What is appended leaves the beginning as it is.
LEMMA PrefixKept ==
    ASSUME NEW S, NEW p \in Seq(S), NEW s \in Seq(S), NEW t \in Seq(S), IsPrefix(p, s)
    PROVE  IsPrefix(p, s \o t)
<1>1. Len(p) <= Len(s) /\ Len(p) \in Nat /\ Len(s) \in Nat /\ Len(s \o t) = Len(s) + Len(t) /\ Len(t) \in Nat
  BY DEF IsPrefix
<1>2. SubSeq(s \o t, 1, Len(p)) = SubSeq(s, 1, Len(p))
  <2>1. SubSeq(s \o t, 1, Len(p)) = [i \in 1 .. Len(p) |-> (s \o t)[i]]
    BY <1>1 DEF SubSeq
  <2>2. SubSeq(s, 1, Len(p)) = [i \in 1 .. Len(p) |-> s[i]]
    BY <1>1 DEF SubSeq
  <2>3. ASSUME NEW i \in 1 .. Len(p) PROVE (s \o t)[i] = s[i]
    BY <1>1
  <2> QED
    BY <2>1, <2>2, <2>3
<1>3. SubSeq(p, 1, Len(p)) = SubSeq(s, 1, Len(p))
  BY DEF IsPrefix
<1> QED
  BY <1>1, <1>2, <1>3 DEF IsPrefix

LEMMA InitSInv == Init => SInv
<1> SUFFICES ASSUME Init PROVE SInv
  OBVIOUS
<1>1. TypeOK /\ Len(deviceHandles) = 0
  BY EmptySequence DEF Init, TypeOK, NoResolutions
<1>2. ResolutionsUnited
  BY EmptySequence, PrefixSelf DEF Init, ResolutionsUnited, NoResolutions, NamesOf
<1> QED
  BY <1>1, <1>2 DEF Init, SInv

\* The names that a stored list brings: those the flat list lacks, each once.
LEMMA Appended ==
    ASSUME NEW list \in Seq(Resolutions), NEW known \in Seq(Resolutions), NEW s \in NewIn(list, known)
    PROVE  LET tail == [k \in DOMAIN s |-> list[s[k]]]
           IN  /\ tail \in Seq(Resolutions)
               /\ NamesOf(tail) = NamesOf(list) \ NamesOf(known)
               /\ \A i, j \in DOMAIN tail : i < j => tail[i].name # tail[j].name
<1> DEFINE tail == [k \in DOMAIN s |-> list[s[k]]]
           new  == {i \in DOMAIN list : /\ list[i].name \notin NamesOf(known)
                                         /\ \A j \in 1 .. i - 1 : list[j].name # list[i].name}
<1>1. /\ s \in BoundedSeq(new, Len(list))
      /\ Range(s) = new
      /\ \A i, j \in DOMAIN s : i < j => s[i] < s[j]
  BY DEF NewIn
<1>2. DOMAIN list = 1 .. Len(list) /\ Len(list) \in Nat
  OBVIOUS
<1>3. PICK n \in 0 .. Len(list) : s \in [1 .. n -> new]
  BY <1>1 DEF BoundedSeq, SeqOf
<1>4. DOMAIN s = 1 .. n /\ n \in Nat /\ DOMAIN tail = 1 .. n
  BY <1>2, <1>3
<1>5. ASSUME NEW i \in 1 .. n PROVE s[i] \in new
  BY <1>3, <1>5
<1> HIDE DEF new
<1>6. new \subseteq 1 .. Len(list)
  BY <1>2 DEF new
<1>7. tail \in Seq(Resolutions)
  <2>1. ASSUME NEW i \in 1 .. n PROVE list[s[i]] \in Resolutions
    BY <1>5, <1>6, ElementTyped
  <2> QED
    BY <1>4, <2>1
<1>8. ASSUME NEW i \in DOMAIN tail, NEW j \in DOMAIN tail, i < j PROVE tail[i].name # tail[j].name
  <2>1. s[i] \in new /\ s[j] \in new /\ s[i] < s[j]
    BY <1>1, <1>4, <1>5, <1>8
  <2>2. s[i] \in 1 .. s[j] - 1
    <3>1. s[i] \in 1 .. Len(list) /\ s[j] \in 1 .. Len(list)
      BY <1>6, <2>1
    <3> DEFINE a == s[i]
               b == s[j]
    <3>2. a \in Nat /\ b \in Nat /\ 1 <= a /\ a < b
      BY <1>2, <2>1, <3>1
    <3> HIDE DEF a, b
    <3>3. a \in 1 .. b - 1
      BY <3>2
    <3> QED
      BY <3>3 DEF a, b
  <2>3. list[s[i]].name # list[s[j]].name
    BY <2>1, <2>2 DEF new
  <2> QED
    BY <1>4, <2>3
<1>9. NamesOf(tail) \subseteq NamesOf(list) \ NamesOf(known)
  <2>1. ASSUME NEW i \in DOMAIN tail PROVE tail[i].name \in NamesOf(list) \ NamesOf(known)
    <3>1. s[i] \in new /\ tail[i] = list[s[i]]
      BY <1>4, <1>5, <2>1
    <3>2. list[s[i]].name \notin NamesOf(known) /\ s[i] \in DOMAIN list
      BY <3>1 DEF new
    <3> QED
      BY <3>1, <3>2 DEF NamesOf
  <2> QED
    BY <2>1 DEF NamesOf
<1>10. NamesOf(list) \ NamesOf(known) \subseteq NamesOf(tail)
  <2>1. ASSUME NEW i \in DOMAIN list, list[i].name \notin NamesOf(known)
        PROVE  list[i].name \in NamesOf(tail)
    <3> DEFINE same == {j \in 1 .. Len(list) : list[j].name = list[i].name}
    <3>1. Min(same) \in same /\ \A j \in same : Min(same) =< j
      <4>1. same \in SUBSET Nat /\ same # {}
        BY <1>2, <2>1
      <4> HIDE DEF same
      <4> QED
        BY <4>1, LeastElement
    <3>2. ASSUME NEW j \in 1 .. Min(same) - 1 PROVE list[j].name # list[Min(same)].name
      BY <1>2, <3>1, <3>2
    <3>3. Min(same) \in new
      BY <1>2, <2>1, <3>1, <3>2 DEF new
    <3>4. PICK k \in DOMAIN s : s[k] = Min(same)
      BY <1>1, <3>3 DEF Range
    <3>5. tail[k].name = list[i].name /\ k \in DOMAIN tail
      BY <3>1, <3>4
    <3> QED
      BY <3>5 DEF NamesOf
  <2> QED
    BY <2>1 DEF NamesOf
<1> QED
  BY <1>7, <1>8, <1>9, <1>10

\* A list of both is a list with the names of both.
LEMMA NamesOfBoth ==
    ASSUME NEW s \in Seq(Resolutions), NEW t \in Seq(Resolutions)
    PROVE  /\ s \o t \in Seq(Resolutions)
           /\ NamesOf(s \o t) = NamesOf(s) \cup NamesOf(t)
<1>1. /\ DOMAIN s = 1 .. Len(s) /\ DOMAIN t = 1 .. Len(t) /\ DOMAIN (s \o t) = 1 .. Len(s) + Len(t)
      /\ Len(s) \in Nat /\ Len(t) \in Nat
  OBVIOUS
<1>2. ASSUME NEW i \in DOMAIN s PROVE s[i].name \in NamesOf(s \o t)
  <2>1. (s \o t)[i] = s[i] /\ i \in DOMAIN (s \o t)
    BY <1>1
  <2> QED
    BY <2>1 DEF NamesOf
<1>3. ASSUME NEW i \in DOMAIN t PROVE t[i].name \in NamesOf(s \o t)
  <2>1. (s \o t)[i + Len(s)] = t[i] /\ i + Len(s) \in DOMAIN (s \o t)
    BY <1>1
  <2> QED
    BY <2>1 DEF NamesOf
<1>4. ASSUME NEW i \in DOMAIN (s \o t) PROVE (s \o t)[i].name \in NamesOf(s) \cup NamesOf(t)
  <2>1. CASE i \in DOMAIN s
    <3>1. (s \o t)[i] = s[i]
      BY <1>1, <2>1
    <3> QED
      BY <2>1, <3>1 DEF NamesOf
  <2>2. CASE i \notin DOMAIN s
    <3>1. (s \o t)[i] = t[i - Len(s)] /\ i - Len(s) \in DOMAIN t
      BY <1>1, <2>2
    <3> QED
      BY <3>1 DEF NamesOf
  <2> QED
    BY <2>1, <2>2
<1>5. NamesOf(s) \subseteq NamesOf(s \o t)
  BY <1>2, Zenon DEF NamesOf
<1>6. NamesOf(t) \subseteq NamesOf(s \o t)
  BY <1>3, Zenon DEF NamesOf
<1>7. NamesOf(s \o t) \subseteq NamesOf(s) \cup NamesOf(t)
  <2>1. ASSUME NEW i \in DOMAIN (s \o t) PROVE (s \o t)[i].name \in NamesOf(s) \cup NamesOf(t)
    BY <1>4
  <2> DEFINE both == NamesOf(s) \cup NamesOf(t)
  <2> HIDE DEF both
  <2>2. ASSUME NEW i \in DOMAIN (s \o t) PROVE (s \o t)[i].name \in both
    BY <2>1 DEF both
  <2>3. NamesOf(s \o t) \subseteq both
    BY <2>2, Zenon DEF NamesOf
  <2> QED
    BY <2>3 DEF both
<1>8. s \o t \in Seq(Resolutions)
  OBVIOUS
<1> QED
  BY <1>5, <1>6, <1>7, <1>8

\* A list that is stored for a type adds the names it lacks to the flat list, each once.
LEMMA StoreStep ==
    ASSUME SInv, NEW t \in VideoTypes, NEW list \in TypeAnswers,
           storeVideoPortResolutionsForType(t, list)
    PROVE  SInv'
<1>1. PICK new \in NewIn(list, resolutions) :
          resolutions' = resolutions \o [k \in DOMAIN new |-> list[new[k]]]
  BY DEF storeVideoPortResolutionsForType
<1> DEFINE tail == [k \in DOMAIN new |-> list[new[k]]]
<1>2. list \in Seq(Resolutions)
  BY StoresAssumption
<1>3. resolutions \in Seq(Resolutions) /\ filed \in Seq(Resolutions)
  BY DEF SInv, TypeOK
<1>4. /\ tail \in Seq(Resolutions)
      /\ NamesOf(tail) = NamesOf(list) \ NamesOf(resolutions)
      /\ \A i, j \in DOMAIN tail : i < j => tail[i].name # tail[j].name
  BY <1>2, <1>3, Appended
<1>5. resolutions' = resolutions \o tail
  BY <1>1
<1> HIDE DEF tail
<1>6. resolutions' \in Seq(Resolutions) /\ NamesOf(resolutions') = NamesOf(resolutions) \cup NamesOf(list)
  BY <1>3, <1>4, <1>5, NamesOfBoth
<1>7. NamesOf(list) \subseteq ResolutionNames
  <2>1. ASSUME NEW i \in DOMAIN list PROVE list[i].name \in ResolutionNames
    <3>1. list[i] \in Resolutions
      BY <1>2, <2>1, ElementTyped
    <3> QED
      BY <3>1 DEF Resolutions
  <2> QED
    BY <2>1 DEF NamesOf
<1>8. TypeOK'
  <2>1. resolutionsByType' \in [VideoTypes -> Seq(Resolutions)]
    BY <1>2 DEF SInv, TypeOK, storeVideoPortResolutionsForType
  <2> QED
    BY <1>6, <1>7, <2>1 DEF SInv, TypeOK, storeVideoPortResolutionsForType
<1>9. NamesOf(resolutions') = NamesOf(filed') \cup stored'
  BY <1>6 DEF SInv, ResolutionsUnited, storeVideoPortResolutionsForType
<1>10. ASSUME NEW u \in VideoTypes PROVE NamesOf(resolutionsByType'[u]) \subseteq NamesOf(resolutions')
  <2>1. CASE u = t
    BY <1>6, <2>1 DEF storeVideoPortResolutionsForType, SInv, TypeOK
  <2>2. CASE u # t
    <3>1. resolutionsByType'[u] = resolutionsByType[u]
      BY <2>2 DEF storeVideoPortResolutionsForType, SInv, TypeOK
    <3> QED
      BY <1>6, <3>1 DEF SInv, ResolutionsUnited
  <2> QED
    BY <2>1, <2>2
<1>11. IsPrefix(filed', resolutions')
  <2>1. IsPrefix(filed, resolutions \o tail)
    BY <1>3, <1>4, PrefixKept DEF SInv, ResolutionsUnited
  <2> QED
    BY <1>5, <2>1 DEF storeVideoPortResolutionsForType
<1>12. ASSUME NEW i \in DOMAIN resolutions', NEW j \in DOMAIN resolutions', i < j,
              resolutions'[i].name = resolutions'[j].name
       PROVE  j <= Len(filed)
  <2>1. /\ DOMAIN resolutions = 1 .. Len(resolutions) /\ DOMAIN tail = 1 .. Len(tail)
        /\ DOMAIN resolutions' = 1 .. Len(resolutions) + Len(tail)
        /\ Len(resolutions) \in Nat /\ Len(tail) \in Nat
    BY <1>3, <1>4, <1>5
  <2>2. CASE j \in DOMAIN resolutions
    <3>1. i \in DOMAIN resolutions /\ resolutions'[i] = resolutions[i] /\ resolutions'[j] = resolutions[j]
      BY <1>3, <1>4, <1>5, <1>12, <2>1, <2>2
    <3> QED
      BY <1>12, <2>2, <3>1 DEF SInv, ResolutionsUnited
  <2>3. CASE j \notin DOMAIN resolutions /\ i \in DOMAIN resolutions
    <3>1. /\ resolutions'[i] = resolutions[i]
          /\ j - Len(resolutions) \in DOMAIN tail /\ resolutions'[j] = tail[j - Len(resolutions)]
      BY <1>3, <1>4, <1>5, <1>12, <2>1, <2>3
    <3>2. resolutions'[i].name \in NamesOf(resolutions) /\ resolutions'[j].name \in NamesOf(tail)
      BY <2>3, <3>1 DEF NamesOf
    <3> QED
      BY <1>4, <1>12, <3>2
  <2>4. CASE j \notin DOMAIN resolutions /\ i \notin DOMAIN resolutions
    <3> DEFINE n == Len(resolutions)
    <3>1. /\ i - n \in DOMAIN tail /\ resolutions'[i] = tail[i - n]
          /\ j - n \in DOMAIN tail /\ resolutions'[j] = tail[j - n]
      BY <1>3, <1>4, <1>5, <1>12, <2>1, <2>4
    <3>2. i \in Nat /\ j \in Nat /\ n \in Nat
      BY <1>12, <2>1
    <3>3. i - n < j - n
      <4> HIDE DEF n
      <4> QED
        BY <1>12, <3>2
    <3> QED
      BY <1>4, <1>12, <3>1, <3>3
  <2> QED
    BY <2>2, <2>3, <2>4
<1>13. ResolutionsUnited'
  <2>1. filed' = filed
    BY DEF storeVideoPortResolutionsForType
  <2> QED
    BY <1>9, <1>10, <1>11, <1>12, <2>1 DEF ResolutionsUnited
<1> QED
  BY <1>8, <1>13 DEF SInv, storeVideoPortResolutionsForType, VideoNames, AudioNames

\* A load replaces all, and files the answer's resolutions under one type.
LEMMA LoadStep ==
    ASSUME SInv, NEW c \in Configs, LoadAllConfigs(c)
    PROVE  SInv'
<1>1. /\ c.types \in Seq([typeId : VideoTypes, name : Names])
      /\ c.ports \in Seq([type : VideoTypes, index : Indexes])
      /\ c.resolutions \in Seq(Resolutions)
      /\ c.audioPorts \in Seq([type : AudioTypes, index : Indexes])
      /\ c.devices \in Nat
  BY StoresAssumption
<1> USE DEF LoadAllConfigs, BuildVideoPorts
<1>2. deviceHandles' \in Seq(BOOLEAN) /\ Len(deviceHandles') \in {0, devices'}
  <2>1. CASE deviceHandles' \in [1 .. c.devices -> BOOLEAN]
    BY <1>1, <2>1
  <2>2. CASE deviceHandles' = <<>>
    BY <2>2
  <2> QED
    BY <2>1, <2>2
<1>3. videoHandles' \subseteq VideoNames(ports') /\ videoHandles' \subseteq Names
  BY <1>1, NamesTyped
<1>4. audioHandles' \subseteq AudioNames(audioPorts') /\ audioHandles' \subseteq Names
  BY <1>1, NamesTyped
<1> DEFINE list == IF c.types = <<>> THEN <<>> ELSE c.resolutions
<1>5. list \in Seq(Resolutions)
  BY <1>1
<1>6. /\ resolutions' = list /\ filed' = list /\ stored' = {}
      /\ resolutionsByType' \in [VideoTypes -> {list, <<>>}]
  OBVIOUS
<1> HIDE DEF list
<1>7. ResolutionsUnited'
  <2>1. NamesOf(<<>>) = {}
    BY EmptySequence DEF NamesOf
  <2>2. ASSUME NEW t \in VideoTypes PROVE NamesOf(resolutionsByType'[t]) \subseteq NamesOf(resolutions')
    BY <1>6, <2>1
  <2>3. IsPrefix(filed', resolutions')
    BY <1>5, <1>6, PrefixSelf
  <2>4. ASSUME NEW i \in DOMAIN resolutions', NEW j \in DOMAIN resolutions' PROVE j <= Len(filed')
    BY <1>5, <1>6, <2>4
  <2> QED
    BY <1>6, <2>2, <2>3, <2>4 DEF ResolutionsUnited
<1>8. TypeOK'
  <2>1. resolutionsByType' \in [VideoTypes -> Seq(Resolutions)]
    BY <1>5, <1>6, EmptySequence
  <2> QED
    BY <1>1, <1>2, <1>3, <1>4, <1>5, <1>6, <2>1 DEF TypeOK
<1> QED
  BY <1>2, <1>3, <1>4, <1>7, <1>8 DEF SInv

LEMMA ReloadStep ==
    ASSUME SInv, NEW c \in Configs, ReloadAudioConfigs(c)
    PROVE  SInv'
<1>1. c.audioPorts \in Seq([type : AudioTypes, index : Indexes])
  BY StoresAssumption
<1>2. audioHandles' \subseteq AudioNames(audioPorts') /\ audioHandles' \subseteq Names
  BY <1>1, NamesTyped DEF ReloadAudioConfigs
<1> QED
  BY <1>1, <1>2 DEF SInv, TypeOK, ReloadAudioConfigs, vpVars, ResolutionsUnited, VideoNames

\* The invariant holds in every reachable state.
THEOREM Invariance == Spec => []SInv
<1>1. ASSUME SInv, [Next]_vars PROVE SInv'
  <2>1. CASE Activated
    <3>1. TypeOK' /\ Len(deviceHandles') = 0
      BY <1>1, <2>1, EmptySequence DEF Activated, SInv, TypeOK, vpVars
    <3> QED
      BY <1>1, <2>1, <3>1 DEF Activated, SInv, vpVars, ResolutionsUnited
  <2>2. CASE Deactivated
    <3>1. TypeOK' /\ Len(deviceHandles') = 0
      BY <1>1, <2>2, EmptySequence DEF Deactivated, SInv, TypeOK, NoResolutions
    <3>2. ResolutionsUnited'
      BY <2>2, EmptySequence, PrefixSelf DEF Deactivated, ResolutionsUnited, NoResolutions, NamesOf
    <3> QED
      BY <2>2, <3>1, <3>2 DEF Deactivated, SInv
  <2>3. CASE UNCHANGED vars
    BY <1>1, <2>3 DEF vars, vpVars, SInv, TypeOK, ResolutionsUnited, VideoNames, AudioNames
  <2> QED
    BY <1>1, <2>1, <2>2, <2>3, LoadStep, ReloadStep, StoreStep DEF Next
<1> QED
  BY <1>1, InitSInv, PTL DEF Spec

-----------------------------------------------------------------------------
(* Theorems *)

\* Every variable of the stores keeps its type.
THEOREM TypeCorrect == Spec => []TypeOK
BY Invariance, PTL DEF SInv

\* For any answers: the flat list is the load's list followed by what was stored for types since,
\* of which no name repeats one before it, and it has every name that some type has.
THEOREM FlatListExact == Spec => []ResolutionsUnited
BY Invariance, PTL DEF SInv

\* Handles are kept only under names of listed ports, device handles only for listed devices.
THEOREM HandlesListed == Spec => []HandlesOfPorts
<1>1. SInv => HandlesOfPorts
  BY DEF SInv, TypeOK, HandlesOfPorts, getCachedVideoDeviceHandle
<1> QED
  BY <1>1, Invariance, PTL

\* The name of a port that was resolved, however it was asked for, leads back to the port.
THEOREM Canonical == Spec => []NamesAgree
<1>1. SInv => NamesAgree
  BY ResolvedIsPort, NameLeadsBack DEF SInv, NamesAgree
<1> QED
  BY <1>1, Invariance, PTL

\* A port counts as connected only while the config lists it, and an HDMI output only while
\* the config lists the video output whose display it asks about.
THEOREM ConnectedListed == Spec => []ConnectedIsConfigured
<1>1. ASSUME SInv, NEW i \in Indexes, NEW t \in AudioTypes, getAudioPortName(t, i) \in audioHandles
      PROVE  [type |-> t, index |-> i] \in Range(audioPorts)
  <2>1. PICK k \in DOMAIN audioPorts :
            getAudioPortName(t, i) = getAudioPortName(audioPorts[k].type, audioPorts[k].index)
    BY <1>1 DEF SInv, AudioNames
  <2>2. audioPorts[k] \in [type : AudioTypes, index : Indexes]
    <3>1. audioPorts \in Seq([type : AudioTypes, index : Indexes])
      BY <1>1 DEF SInv, TypeOK
    <3>2. k \in 1 .. Len(audioPorts)
      BY <3>1
    <3> QED
      BY <3>1, <3>2, ElementTyped
  <2>3. [type |-> t, index |-> i] = audioPorts[k]
    <3> DEFINE p == [type |-> t, index |-> i]
    <3>1. p \in [type : AudioTypes, index : Indexes] /\ p.type = t /\ p.index = i
      OBVIOUS
    <3> HIDE DEF p
    <3>2. p = audioPorts[k]
      BY <2>1, <2>2, <3>1, AudioNamesDiffer
    <3> QED
      BY <3>2 DEF p
  <2> QED
    BY <2>3 DEF Range
<1>2. ASSUME SInv, NEW i \in Indexes, getAudioPortName("HDMI", i) \in videoHandles
      PROVE  [type |-> "HDMI", index |-> i] \in Range(ports)
  <2>1. PICK k \in DOMAIN ports :
            getAudioPortName("HDMI", i) = getVideoPortName(ports[k].type, ports[k].index)
    BY <1>2 DEF SInv, VideoNames
  <2>2. ports[k] \in [type : VideoTypes, index : Indexes]
    <3>1. ports \in Seq([type : VideoTypes, index : Indexes])
      BY <1>2 DEF SInv, TypeOK
    <3>2. k \in 1 .. Len(ports)
      BY <3>1
    <3> QED
      BY <3>1, <3>2, ElementTyped
  <2>3. ports[k].index = i /\ VideoWord[ports[k].type] = "HDMI"
    BY <2>1 DEF getAudioPortName, getVideoPortName, AudioWord
  <2>4. ports[k].type = "HDMI"
    BY <2>2, <2>3, StoresAssumption DEF VideoWord
  <2>5. [type |-> "HDMI", index |-> i] = ports[k]
    BY <2>2, <2>3, <2>4
  <2> QED
    BY <2>5 DEF Range
<1>3. ASSUME NEW i \in Indexes, getAudioPortName("HDMI", i).word # "HDMI" PROVE FALSE
  BY <1>3 DEF getAudioPortName, AudioWord
<1>4. SInv => ConnectedIsConfigured
  BY <1>1, <1>2, <1>3 DEF ConnectedIsConfigured, isAudioOutputPortConnected
<1> QED
  BY <1>4, Invariance, PTL

\* Looking for port 0 of a type finds one, or there is none.
LEMMA ZeroFound ==
    ASSUME TypeOK, NEW t
    PROVE  LET k == SelectInSeq(ports, LAMBDA p : p.type = t /\ p.index = 0)
           IN  \/ k \in 1 .. Len(ports) /\ ports[k].type = t /\ ports[k].index = 0
               \/ k = 0 /\ \A i \in 1 .. Len(ports) : ~ (ports[i].type = t /\ ports[i].index = 0)
<1> DEFINE I == {i \in 1 .. Len(ports) : ports[i].type = t /\ ports[i].index = 0}
           k == SelectInSeq(ports, LAMBDA p : p.type = t /\ p.index = 0)
<1>1. k = IF I = {} THEN 0 ELSE Min(I)
  BY DEF SelectInSeq
<1>2. CASE I = {}
  BY <1>1, <1>2
<1>3. CASE I # {}
  <2>1. I \in SUBSET Nat
    OBVIOUS
  <2>2. Min(I) \in I
    BY <1>3, <2>1, LeastElement
  <2> QED
    BY <1>1, <1>3, <2>2
<1> QED
  BY <1>2, <1>3

\* The default name for video is that of a listed port, of HDMI0 if that is listed.
LEMMA DefaultVideo ==
    ASSUME TypeOK, ports # <<>>
    PROVE  \E k \in 1 .. Len(ports) :
              /\ GetDefaultVideoPortName = getVideoPortName(ports[k].type, ports[k].index)
              /\ [type |-> "HDMI", index |-> 0] \in Range(ports) =>
                    ports[k].type = "HDMI" /\ ports[k].index = 0
<1> DEFINE at(t) == SelectInSeq(ports, LAMBDA p : p.type = t /\ p.index = 0)
           k     == IF at("HDMI") # 0 THEN at("HDMI") ELSE IF at("INTERNAL") # 0 THEN at("INTERNAL") ELSE 1
<1>1. \/ at("HDMI") \in 1 .. Len(ports) /\ ports[at("HDMI")].type = "HDMI" /\ ports[at("HDMI")].index = 0
      \/ /\ at("HDMI") = 0
         /\ \A i \in 1 .. Len(ports) : ~ (ports[i].type = "HDMI" /\ ports[i].index = 0)
  BY ZeroFound
<1>2. at("INTERNAL") \in 1 .. Len(ports) \/ at("INTERNAL") = 0
  <2> DEFINE i == at("INTERNAL")
  <2>1. \/ i \in 1 .. Len(ports) /\ ports[i].type = "INTERNAL" /\ ports[i].index = 0
        \/ i = 0 /\ \A j \in 1 .. Len(ports) : ~ (ports[j].type = "INTERNAL" /\ ports[j].index = 0)
    BY ZeroFound
  <2> QED
    BY <2>1
<1>3. GetDefaultVideoPortName = getVideoPortName(ports[k].type, ports[k].index)
  BY DEF GetDefaultVideoPortName
<1>4. 1 \in 1 .. Len(ports) /\ DOMAIN ports = 1 .. Len(ports)
  BY DEF TypeOK
<1> HIDE DEF at
<1>5. k \in 1 .. Len(ports)
  BY <1>1, <1>2, <1>4
<1>6. ASSUME [type |-> "HDMI", index |-> 0] \in Range(ports)
      PROVE  ports[k].type = "HDMI" /\ ports[k].index = 0
  <2>1. PICK i \in 1 .. Len(ports) : ports[i] = [type |-> "HDMI", index |-> 0]
    BY <1>4, <1>6 DEF Range
  <2>2. ports[i].type = "HDMI" /\ ports[i].index = 0
    BY <2>1
  <2>3. at("HDMI") \in 1 .. Len(ports) /\ ports[at("HDMI")].type = "HDMI" /\ ports[at("HDMI")].index = 0
    BY <1>1, <2>2
  <2> QED
    BY <2>3
<1> HIDE DEF k
<1> QED
  BY <1>3, <1>5, <1>6

\* The default name for audio is that of a listed port, of HDMI0 or the speaker if HDMI0 is.
LEMMA DefaultAudio ==
    ASSUME TypeOK, audioPorts # <<>>
    PROVE  \E k \in 1 .. Len(audioPorts) :
              /\ GetDefaultAudioPortName = getAudioPortName(audioPorts[k].type, audioPorts[k].index)
              /\ IsHDMIOutPortPresent => audioPorts[k].type \in {"HDMI", "SPEAKER"} /\ audioPorts[k].index = 0
<1> DEFINE Wanted(p) == p.type \in {"HDMI", "SPEAKER"} /\ p.index = 0
           I == {i \in 1 .. Len(audioPorts) : Wanted(audioPorts[i])}
           k == IF I = {} THEN 1 ELSE Min(I)
<1>1. I # {} => Min(I) \in I /\ Min(I) # 0
  <2>1. I \in SUBSET Nat /\ 0 \notin I
    OBVIOUS
  <2> HIDE DEF I
  <2> QED
    BY <2>1, LeastElement
<1>2. GetDefaultAudioPortName = getAudioPortName(audioPorts[k].type, audioPorts[k].index)
  BY <1>1 DEF GetDefaultAudioPortName, SelectInSeq
<1>3. 1 \in 1 .. Len(audioPorts) /\ DOMAIN audioPorts = 1 .. Len(audioPorts)
  BY DEF TypeOK
<1>4. k \in 1 .. Len(audioPorts)
  BY <1>1, <1>3
<1>5. ASSUME IsHDMIOutPortPresent PROVE Wanted(audioPorts[k])
  <2>1. PICK i \in 1 .. Len(audioPorts) :
            getAudioPortName("HDMI", 0) = getAudioPortName(audioPorts[i].type, audioPorts[i].index)
    BY <1>3, <1>5 DEF IsHDMIOutPortPresent, AudioNames
  <2>2. audioPorts[i] \in [type : AudioTypes, index : Indexes]
    BY ElementTyped DEF TypeOK
  <2>3. audioPorts[i].index = 0 /\ AudioWord[audioPorts[i].type] = "HDMI"
    BY <2>1 DEF getAudioPortName, AudioWord
  <2>4. audioPorts[i].type = "HDMI"
    BY <2>2, <2>3, StoresAssumption DEF AudioWord
  <2>5. I # {}
    BY <2>3, <2>4
  <2> QED
    BY <1>1, <2>5
<1> QED
  BY <1>2, <1>4, <1>5

\* The names that clients get as defaults are of ports in the config, and of HDMI0 (or, for
\* audio, the speaker before it) if the config has it, for any config whatever its order.
THEOREM DefaultsOfConfig == Spec => []DefaultsListed
<1>1. ASSUME SInv, ports # <<>>
      PROVE  /\ PortNamed(GetDefaultVideoPortName) # NoEntry
             /\ [type |-> "HDMI", index |-> 0] \in Range(ports) =>
                   GetDefaultVideoPortName = getVideoPortName("HDMI", 0)
  <2>1. PICK k \in 1 .. Len(ports) :
              /\ GetDefaultVideoPortName = getVideoPortName(ports[k].type, ports[k].index)
              /\ [type |-> "HDMI", index |-> 0] \in Range(ports) =>
                    ports[k].type = "HDMI" /\ ports[k].index = 0
    BY <1>1, DefaultVideo DEF SInv
  <2>2. PortNamed(GetDefaultVideoPortName) = ports[k]
    BY <1>1, <2>1, NameLeadsBack DEF SInv
  <2>3. ports[k] \in [type : VideoTypes, index : Indexes]
    BY <1>1, ElementTyped DEF SInv, TypeOK
  <2>4. ports[k] # NoEntry
    BY <2>3, StoresAssumption DEF NoEntry, NoIndex
  <2> QED
    BY <2>1, <2>2, <2>4
<1>2. ASSUME [type |-> "HDMI", index |-> 0] \in Range(ports), ports = <<>> PROVE FALSE
  BY <1>2, EmptySequence DEF Range
<1>3. ASSUME SInv, audioPorts # <<>>
      PROVE  /\ GetDefaultAudioPortName \in AudioNames(audioPorts)
             /\ IsHDMIOutPortPresent =>
                   GetDefaultAudioPortName \in {getAudioPortName("HDMI", 0), getAudioPortName("SPEAKER", 0)}
  <2>1. PICK k \in 1 .. Len(audioPorts) :
              /\ GetDefaultAudioPortName = getAudioPortName(audioPorts[k].type, audioPorts[k].index)
              /\ IsHDMIOutPortPresent => audioPorts[k].type \in {"HDMI", "SPEAKER"} /\ audioPorts[k].index = 0
    BY <1>3, DefaultAudio DEF SInv
  <2>2. DOMAIN audioPorts = 1 .. Len(audioPorts)
    BY <1>3 DEF SInv, TypeOK
  <2> QED
    BY <2>1, <2>2 DEF AudioNames
<1>4. ASSUME IsHDMIOutPortPresent, audioPorts = <<>> PROVE FALSE
  BY <1>4, EmptySequence DEF IsHDMIOutPortPresent, AudioNames
<1>5. SInv => DefaultsListed
  BY <1>1, <1>2, <1>3, <1>4 DEF DefaultsListed
<1> QED
  BY <1>5, Invariance, PTL
=============================================================================
