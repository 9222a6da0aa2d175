---------------------------- MODULE ServicesProofs ----------------------------
(***************************************************************************)
(* Proofs about the start and stop of the services, for every list of      *)
(* services the manager can make and every capacity.                       *)
(***************************************************************************)
EXTENDS Services, FiniteSetTheorems, SequenceTheorems, TLAPS

Name == {"bld", "trd", "acd", "lgd", "bud", "bls", "eps", "sti", "gps", "tfm", "ora"}

USE DEF oraVars

-----------------------------------------------------------------------------
LEMMA PushedAt ==
  ASSUME NEW S, NEW s \in Seq(S), NEW e \in S
  PROVE  /\ s \o <<e>> \in Seq(S)
         /\ Len(s \o <<e>>) = Len(s) + 1
         /\ \A i \in 1 .. Len(s) + 1 : (s \o <<e>>)[i] = IF i <= Len(s) THEN s[i] ELSE e
<1>1. Len(s) \in Nat
  BY LenProperties
<1> QED
  BY <1>1

(* The list of services: who is where in it. *)
LEMMA ListPlaces ==
  /\ ServiceList \in Seq(Name)
  /\ Len(PartList) \in Nat /\ Len(Monitors) \in Nat
  /\ Len(ServiceList) = Len(PartList) + Len(Monitors) + 5
  /\ ServiceList[1] = "bld" /\ ServiceList[2] = "trd"
  /\ \A i \in 1 .. Len(PartList) : ServiceList[i + 2] = PartList[i]
  /\ ServiceList[Len(PartList) + 3] = "bud" /\ ServiceList[Len(PartList) + 4] = "bls"
  /\ \A i \in 1 .. Len(Monitors) : ServiceList[Len(PartList) + 4 + i] = Monitors[i]
  /\ ServiceList[Len(PartList) + Len(Monitors) + 5] = "ora"
<1> DEFINE d1 == <<"bld", "trd">> \o PartList
           d2 == d1 \o <<"bud">>
           d3 == d2 \o <<"bls">>
           d4 == d3 \o Monitors
           d5 == d4 \o <<"ora">>
           p == Len(PartList)
           m == Len(Monitors)
<1>1. /\ PartList \in Seq(Name) /\ Monitors \in Seq(Name)
      /\ <<"bld", "trd">> \in Seq(Name) /\ <<"bud">> \in Seq(Name)
      /\ <<"bls">> \in Seq(Name) /\ <<"ora">> \in Seq(Name)
  BY ServicesAssumption DEF Name
<1>2. p \in Nat /\ m \in Nat
  BY <1>1, LenProperties
<1>3. /\ d1 \in Seq(Name) /\ Len(d1) = p + 2
      /\ \A i \in 1 .. p + 2 : d1[i] = IF i <= 2 THEN <<"bld", "trd">>[i] ELSE PartList[i - 2]
  BY <1>1, <1>2, ConcatProperties
<1>4. /\ d2 \in Seq(Name) /\ Len(d2) = p + 3
      /\ \A i \in 1 .. p + 3 : d2[i] = IF i <= p + 2 THEN d1[i] ELSE <<"bud">>[i - (p + 2)]
  <2> HIDE DEF d1
  <2> QED
    BY <1>1, <1>2, <1>3, ConcatProperties
<1>5. /\ d3 \in Seq(Name) /\ Len(d3) = p + 4
      /\ \A i \in 1 .. p + 4 : d3[i] = IF i <= p + 3 THEN d2[i] ELSE <<"bls">>[i - (p + 3)]
  <2> HIDE DEF d2
  <2> QED
    BY <1>1, <1>2, <1>4, ConcatProperties
<1>6. /\ d4 \in Seq(Name) /\ Len(d4) = p + m + 4
      /\ \A i \in 1 .. p + m + 4 : d4[i] = IF i <= p + 4 THEN d3[i] ELSE Monitors[i - (p + 4)]
  <2> HIDE DEF d3
  <2>1. /\ d3 \o Monitors \in Seq(Name)
        /\ Len(d3 \o Monitors) = Len(d3) + m
        /\ \A i \in 1 .. Len(d3) + m :
             (d3 \o Monitors)[i] = IF i <= Len(d3) THEN d3[i] ELSE Monitors[i - Len(d3)]
    BY <1>1, <1>5, ConcatProperties
  <2>2. Len(d3) + m = p + m + 4
    BY <1>2, <1>5
  <2> QED
    BY <1>5, <2>1, <2>2
<1>7. /\ d5 \in Seq(Name) /\ Len(d5) = p + m + 5
      /\ \A i \in 1 .. p + m + 5 :
           d5[i] = IF i <= p + m + 4 THEN d4[i] ELSE "ora"
  <2> HIDE DEF d4
  <2>1. "ora" \in Name /\ Len(d4) + 1 = p + m + 5
    BY <1>2, <1>6 DEF Name
  <2>2. /\ d4 \o <<"ora">> \in Seq(Name)
        /\ Len(d4 \o <<"ora">>) = Len(d4) + 1
        /\ \A i \in 1 .. Len(d4) + 1 :
             (d4 \o <<"ora">>)[i] = IF i <= Len(d4) THEN d4[i] ELSE "ora"
    BY <1>6, <2>1, PushedAt
  <2> QED
    BY <1>6, <2>1, <2>2
<1>8. ServiceList = d5
  BY DEF ServiceList, Downstream
<1> HIDE DEF d1, d2, d3, d4, d5
<1>9. /\ d5[1] = "bld" /\ d5[2] = "trd"
      /\ \A i \in 1 .. p : d5[i + 2] = PartList[i]
  BY <1>2, <1>3, <1>4, <1>5, <1>6, <1>7
<1>10. d5[p + 3] = "bud" /\ d5[p + 4] = "bls"
  BY <1>2, <1>4, <1>5, <1>6, <1>7
<1>11. ASSUME NEW i \in 1 .. m PROVE d5[p + 4 + i] = Monitors[i]
  <2>1. p + 4 + i \in 1 .. p + m + 4 /\ ~(p + 4 + i <= p + 4) /\ p + 4 + i - (p + 4) = i
    BY <1>2
  <2>2. d5[p + 4 + i] = d4[p + 4 + i]
    BY <1>2, <1>7, <2>1
  <2> QED
    BY <1>6, <2>1, <2>2
<1>12. d5[p + m + 5] = "ora"
  BY <1>2, <1>7
<1> QED
  BY <1>2, <1>7, <1>8, <1>9, <1>10, <1>11, <1>12

(* Each place of the list is one of these. *)
PlaceOf(i) ==
  \/ i = 1 /\ ServiceList[i] = "bld"
  \/ i = 2 /\ ServiceList[i] = "trd"
  \/ /\ i - 2 \in 1 .. Len(PartList)
     /\ ServiceList[i] = PartList[i - 2] /\ PartList[i - 2] \in {"acd", "lgd"}
  \/ i = Len(PartList) + 3 /\ ServiceList[i] = "bud"
  \/ i = Len(PartList) + 4 /\ ServiceList[i] = "bls"
  \/ /\ i - (Len(PartList) + 4) \in 1 .. Len(Monitors)
     /\ ServiceList[i] = Monitors[i - (Len(PartList) + 4)]
     /\ Monitors[i - (Len(PartList) + 4)] \in {"eps", "sti", "gps", "tfm"}
  \/ i = Len(PartList) + Len(Monitors) + 5 /\ ServiceList[i] = "ora"

LEMMA PlaceCases ==
  ASSUME NEW i \in DOMAIN ServiceList
  PROVE  i \in 1 .. Len(PartList) + Len(Monitors) + 5 /\ PlaceOf(i)
<1> DEFINE p == Len(PartList)
           m == Len(Monitors)
<1>1. i \in 1 .. p + m + 5 /\ p \in Nat /\ m \in Nat
  BY ListPlaces, LenProperties
<1>2. /\ \A k \in 1 .. p : PartList[k] \in {"acd", "lgd"}
      /\ \A k \in 1 .. m : Monitors[k] \in {"eps", "sti", "gps", "tfm"}
  BY ServicesAssumption, ElementOfSeq
<1>3. CASE i \in {1, 2, p + 3, p + 4, p + m + 5}
  <2>1. CASE i = 1 \/ i = 2
    BY <1>1, <2>1, ListPlaces DEF PlaceOf
  <2>2. CASE i = p + 3 \/ i = p + 4
    BY <1>1, <2>2, ListPlaces DEF PlaceOf
  <2>3. CASE i = p + m + 5
    BY <1>1, <2>3, ListPlaces DEF PlaceOf
  <2> QED
    BY <1>3, <2>1, <2>2, <2>3
<1>4. CASE i \in 3 .. p + 2
  <2>1. i - 2 \in 1 .. p /\ (i - 2) + 2 = i
    BY <1>1, <1>4
  <2> QED
    BY <1>1, <1>2, <2>1, ListPlaces DEF PlaceOf
<1>5. CASE i \in p + 5 .. p + m + 4
  <2>1. i - (p + 4) \in 1 .. m /\ p + 4 + (i - (p + 4)) = i
    BY <1>1, <1>5
  <2> QED
    BY <1>1, <1>2, <2>1, ListPlaces DEF PlaceOf
<1>6. i \in {1, 2, p + 3, p + 4, p + m + 5} \/ i \in 3 .. p + 2 \/ i \in p + 5 .. p + m + 4
  BY <1>1
<1> QED
  BY <1>3, <1>4, <1>5, <1>6

(* No service is in the list twice. *)
LEMMA OncePlaced ==
  ASSUME NEW i \in DOMAIN ServiceList, NEW j \in DOMAIN ServiceList,
         ServiceList[i] = ServiceList[j]
  PROVE  i = j
<1>1. \A k, l \in 1 .. Len(PartList) : PartList[k] = PartList[l] => k = l
  BY ServicesAssumption, LenProperties DEF Once
<1>2. \A k, l \in 1 .. Len(Monitors) : Monitors[k] = Monitors[l] => k = l
  BY ServicesAssumption, LenProperties DEF Once
<1>3. Len(PartList) \in Nat /\ Len(Monitors) \in Nat
  BY ListPlaces
<1>4. /\ i \in 1 .. Len(PartList) + Len(Monitors) + 5 /\ PlaceOf(i)
      /\ j \in 1 .. Len(PartList) + Len(Monitors) + 5 /\ PlaceOf(j)
  BY PlaceCases
<1>5. CASE ServiceList[i] \in {"acd", "lgd"}
  <2>1. i - 2 \in 1 .. Len(PartList) /\ ServiceList[i] = PartList[i - 2]
    BY <1>4, <1>5 DEF PlaceOf
  <2>2. j - 2 \in 1 .. Len(PartList) /\ ServiceList[j] = PartList[j - 2]
    BY <1>4, <1>5 DEF PlaceOf
  <2>3. i - 2 = j - 2
    BY <1>1, <2>1, <2>2
  <2> QED
    BY <1>4, <2>3
<1>6. CASE ServiceList[i] \in {"eps", "sti", "gps", "tfm"}
  <2> DEFINE k == i - (Len(PartList) + 4)
             l == j - (Len(PartList) + 4)
  <2>1. k \in 1 .. Len(Monitors) /\ ServiceList[i] = Monitors[k]
    BY <1>4, <1>6 DEF PlaceOf
  <2>2. l \in 1 .. Len(Monitors) /\ ServiceList[j] = Monitors[l]
    BY <1>4, <1>6 DEF PlaceOf
  <2>3. k = l
    <3> HIDE DEF k, l
    <3> QED
      BY <1>2, <2>1, <2>2
  <2> QED
    BY <1>3, <1>4, <2>3
<1>7. CASE ServiceList[i] \notin {"acd", "lgd", "eps", "sti", "gps", "tfm"}
  BY <1>4, <1>7 DEF PlaceOf
<1> QED
  BY <1>5, <1>6, <1>7

(* The services by their names. *)
LEMMA ServiceNames ==
  /\ Service \subseteq Name /\ IsFiniteSet(Service)
  /\ {"bld", "trd", "bud", "bls", "ora"} \subseteq Service
  /\ PartService \subseteq Service /\ PartService \subseteq {"acd", "lgd"}
  /\ Monitor \subseteq Service /\ Monitor \subseteq {"eps", "sti", "gps", "tfm"}
<1> DEFINE p == Len(PartList)
           m == Len(Monitors)
<1>1. DOMAIN ServiceList = 1 .. p + m + 5 /\ p \in Nat /\ m \in Nat
  BY ListPlaces, LenProperties
<1>2. Service \subseteq Name
  BY ListPlaces, ElementOfSeq, <1>1 DEF Service
<1>3. IsFiniteSet(Service)
  <2>1. IsFiniteSet(1 .. p + m + 5)
    BY <1>1, FS_Interval
  <2>2. [i \in 1 .. p + m + 5 |-> ServiceList[i]] \in Surjection(1 .. p + m + 5, Service)
    BY <1>1 DEF Surjection, Service
  <2> QED
    BY <2>1, <2>2, FS_Surjection
<1>4. {"bld", "trd", "bud", "bls", "ora"} \subseteq Service
  <2>1. /\ 1 \in DOMAIN ServiceList /\ 2 \in DOMAIN ServiceList
        /\ p + 3 \in DOMAIN ServiceList /\ p + 4 \in DOMAIN ServiceList
        /\ p + m + 5 \in DOMAIN ServiceList
    BY <1>1
  <2> QED
    BY <2>1, ListPlaces DEF Service
<1>5. PartService \subseteq Service /\ PartService \subseteq {"acd", "lgd"}
  <2> SUFFICES ASSUME NEW i \in DOMAIN PartList
               PROVE  PartList[i] \in Service /\ PartList[i] \in {"acd", "lgd"}
    BY DEF PartService
  <2>1. i \in 1 .. p /\ PartList[i] \in {"acd", "lgd"}
    BY ServicesAssumption, LenProperties, ElementOfSeq
  <2>2. i + 2 \in DOMAIN ServiceList
    BY <1>1, <2>1
  <2> QED
    BY <2>1, <2>2, ListPlaces DEF Service
<1>6. Monitor \subseteq Service /\ Monitor \subseteq {"eps", "sti", "gps", "tfm"}
  <2> SUFFICES ASSUME NEW i \in DOMAIN Monitors
               PROVE  Monitors[i] \in Service /\ Monitors[i] \in {"eps", "sti", "gps", "tfm"}
    BY DEF Monitor
  <2>1. i \in 1 .. m /\ Monitors[i] \in {"eps", "sti", "gps", "tfm"}
    BY ServicesAssumption, LenProperties, ElementOfSeq
  <2>2. p + 4 + i \in DOMAIN ServiceList
    BY <1>1, <2>1
  <2> QED
    BY <2>1, <2>2, ListPlaces DEF Service
<1> QED
  BY <1>2, <1>3, <1>4, <1>5, <1>6

-----------------------------------------------------------------------------
(* What is invariant besides the types.  The wait group counts the         *)
(* services that run.                                                      *)
Running == {s \in Service : Runs(s)}
Counted == wg = Cardinality(Running)

(* As long as the manager starts services, those to come are off. *)
Unstarted == phase = "run" => \A i \in at .. Len(ServiceList) : pc[ServiceList[i]] = "off"

(* A service that pushes has something to push. *)
InHand ==
  /\ pc["bld"] = "trxs" => trxs > 0
  /\ pc["trd"] \in {"burn", "parts"} => parts # <<>>
  /\ pc["ora"] = "push" => owed > 0

(* Signals come from the manager only. *)
SigKnown ==
  \A i \in DOMAIN ServiceList : sig[ServiceList[i]] = 1 => Signalled(i)

(* The block dispatcher ends by its signal or after the scanner, which is  *)
(* behind it in the list; scanner, monitors and orchestrator end by their  *)
(* signals.  So when one of them is gone, the manager has passed it.       *)
Leaders == {"bld", "bls", "ora"} \union Monitor
GoneKnown ==
  \A i \in DOMAIN ServiceList :
    ServiceList[i] \in Leaders /\ pc[ServiceList[i]] = "done" => Signalled(i)

ServicesInv ==
  /\ TypeOK /\ Counted /\ InHand
  /\ Unstarted /\ EndsLast
  /\ SigKnown /\ GoneKnown /\ SignalKept /\ PanicsDownstream

-----------------------------------------------------------------------------
(* The work of the services. *)

(* A step of a service at work: it moves from place to place but neither   *)
(* starts nor ends, and leaves the signals and the manager alone.          *)
Works ==
  /\ UNCHANGED <<mgrVars, sig, panicked>>
  /\ \A s \in Service : pc'[s] = pc[s] \/ (Runs(s) /\ pc'[s] \notin {"off", "done"})

QueueType == q \in [Channel -> Nat] /\ \A c \in Channel : q[c] <= Cap[c]
PlaceType == pc \in [Service -> Place]

LEMMA PutType ==
  ASSUME QueueType, NEW c \in Channel, Room(c), Put(c)
  PROVE  QueueType'
<1>1. Cap[c] \in Nat
  BY ServicesAssumption
<1>2. q' \in [Channel -> Nat]
  BY DEF QueueType, Put
<1>3. ASSUME NEW d \in Channel PROVE q'[d] <= Cap[d]
  BY <1>1, <1>3 DEF QueueType, Put, Room
<1> QED
  BY <1>2, <1>3 DEF QueueType

LEMMA GetType ==
  ASSUME QueueType, NEW c \in Channel, Get(c)
  PROVE  QueueType'
<1>1. Cap[c] \in Nat
  BY ServicesAssumption
<1>2. q' \in [Channel -> Nat]
  BY DEF QueueType, Get
<1>3. ASSUME NEW d \in Channel PROVE q'[d] <= Cap[d]
  BY <1>1, <1>3 DEF QueueType, Get
<1> QED
  BY <1>2, <1>3 DEF QueueType

LEMMA GotoType ==
  ASSUME PlaceType, NEW s \in Service, NEW p \in Place, Goto(s, p)
  PROVE  PlaceType' /\ pc'[s] = p /\ \A t \in Service \ {s} : pc'[t] = pc[t]
  BY DEF PlaceType, Goto

LEMMA GotoMoves ==
  ASSUME PlaceType, NEW s \in Service, NEW p \in Place \ {"off", "done"}, Goto(s, p), Runs(s)
  PROVE  \A t \in Service : pc'[t] = pc[t] \/ (Runs(t) /\ pc'[t] \notin {"off", "done"})
<1>1. pc'[s] = p /\ \A t \in Service \ {s} : pc'[t] = pc[t]
  BY GotoType
<1> QED
  BY <1>1

LEMMA PartsType ==
  ASSUME NEW p \in Parts
  PROVE  p \in Seq(PartService) /\ Len(p) <= Len(PartList) /\ p # <<>>
<1>1. PartList \in Seq(PartService)
  BY ServicesAssumption, LenProperties DEF PartService
<1>2. PICK n \in 1 .. Len(PartList) : p = SubSeq(PartList, 1, n)
  BY DEF Parts
<1>3. SubSeq(PartList, 1, n) \in Seq(PartService) /\ Len(SubSeq(PartList, 1, n)) = n
  BY <1>1, LenProperties, SubSeqProperties
<1> QED
  BY <1>2, <1>3, <1>1, LenProperties

LEMMA Workplaces ==
  /\ {"bld", "trd", "bud", "bls", "ora"} \subseteq Service
  /\ {"block", "state", "dispatched", "trx", "burn"} \subseteq Channel
  /\ PartService \subseteq Channel
  /\ \A s \in Service : InputOf[s] \subseteq Channel
<1>1. \A s \in Service : InputOf[s] \subseteq Channel
  BY ServiceNames DEF InputOf, Channel
<1> QED
  BY <1>1, ServiceNames DEF Channel

(* Each kind of step of a service at work. *)
LEMMA ScannerWorks ==
  ASSUME TypeOK, InHand, BlockScanner
  PROVE  Works /\ TypeOK' /\ InHand'
<1>1. QueueType /\ PlaceType
  BY DEF TypeOK, QueueType, PlaceType
<1>2. CASE ScannerDrains
  <2>1. QueueType' /\ UNCHANGED pc
    BY <1>1, <1>2, GetType, Workplaces DEF ScannerDrains
  <2> QED
    BY <1>2, <2>1 DEF ScannerDrains, Works, TypeOK, InHand, QueueType, mgrVars
<1>3. CASE ScannerTicks
  <2>1. PICK c \in {"block", "state"} : PutOrWait("bls", c)
    BY <1>3 DEF ScannerTicks
  <2>2. c \in Channel /\ c \in Place \ {"off", "done"} /\ "bls" \in Service /\ Runs("bls")
    BY <1>3, <2>1, Workplaces DEF ScannerTicks, Place, Runs
  <2>3. CASE Room(c)
    <3>1. QueueType' /\ UNCHANGED pc
      BY <1>1, <2>1, <2>2, <2>3, PutType DEF PutOrWait
    <3> QED
      BY <1>3, <3>1 DEF ScannerTicks, Works, TypeOK, InHand, QueueType, mgrVars
  <2>4. CASE ~Room(c)
    <3>1. Goto("bls", c) /\ UNCHANGED q
      BY <2>1, <2>4 DEF PutOrWait
    <3>2. PlaceType' /\ \A t \in Service \ {"bls"} : pc'[t] = pc[t]
      BY <1>1, <2>2, <3>1, GotoType
    <3>3. \A t \in Service : pc'[t] = pc[t] \/ (Runs(t) /\ pc'[t] \notin {"off", "done"})
      BY <1>1, <2>2, <3>1, GotoMoves
    <3>4. pc'["bld"] = pc["bld"] /\ pc'["trd"] = pc["trd"] /\ pc'["ora"] = pc["ora"]
      BY <3>2, Workplaces
    <3> QED
      BY <1>3, <3>1, <3>2, <3>3, <3>4 DEF ScannerTicks, Works, TypeOK, InHand, PlaceType, mgrVars
  <2> QED
    BY <2>3, <2>4
<1>4. CASE ScannerPushes
  <2>1. pc["bls"] \in Channel /\ "bls" \in Service /\ Runs("bls")
    BY <1>4, Workplaces DEF ScannerPushes, Runs
  <2>2. QueueType'
    BY <1>1, <1>4, <2>1, PutType DEF ScannerPushes
  <2>3. Goto("bls", "select") /\ "select" \in Place \ {"off", "done"}
    BY <1>4 DEF ScannerPushes, Place
  <2>4. PlaceType' /\ \A t \in Service \ {"bls"} : pc'[t] = pc[t]
    BY <1>1, <2>1, <2>3, GotoType
  <2>5. \A t \in Service : pc'[t] = pc[t] \/ (Runs(t) /\ pc'[t] \notin {"off", "done"})
    BY <1>1, <2>1, <2>3, GotoMoves
  <2>6. pc'["bld"] = pc["bld"] /\ pc'["trd"] = pc["trd"] /\ pc'["ora"] = pc["ora"]
    BY <2>4, Workplaces
  <2> QED
    BY <1>4, <2>2, <2>4, <2>5, <2>6
    DEF ScannerPushes, Works, TypeOK, InHand, PlaceType, QueueType, mgrVars
<1> QED
  BY <1>2, <1>3, <1>4 DEF BlockScanner

LEMMA BlockDispatcherWorks ==
  ASSUME TypeOK, InHand, BlockDispatcher
  PROVE  Works /\ TypeOK' /\ InHand'
<1>1. QueueType /\ PlaceType
  BY DEF TypeOK, QueueType, PlaceType
<1>2. "bld" \in Service /\ Runs("bld")
  BY Workplaces DEF BlockDispatcher, TakeBlock, Report, PushTrx, Runs
<1>3. PICK p \in {"select", "report", "trxs"} :
        /\ Goto("bld", p)
        /\ QueueType' /\ trxs' \in 0 .. MaxTrx /\ (p = "trxs" => trxs' > 0)
        /\ UNCHANGED <<mgrVars, sig, parts, oraVars, panicked>>
  <2>1. CASE TakeBlock
    <3>1. QueueType'
      BY <1>1, <2>1, GetType, Workplaces DEF TakeBlock
    <3> QED
      BY <2>1, <3>1 DEF TakeBlock
  <2>2. CASE Report
    <3>1. QueueType'
      BY <1>1, <2>2, PutType, Workplaces DEF Report
    <3>2. trxs \in 0 .. MaxTrx
      BY DEF TypeOK
    <3> QED
      BY <2>2, <3>1, <3>2, ServicesAssumption DEF Report
  <2>3. CASE PushTrx
    <3>1. QueueType'
      BY <1>1, <2>3, PutType, Workplaces DEF PushTrx
    <3>2. trxs \in 0 .. MaxTrx /\ trxs > 0 /\ trxs' = trxs - 1
      BY <2>3 DEF PushTrx, TypeOK, InHand
    <3>3. trxs' \in 0 .. MaxTrx /\ (trxs # 1 => trxs' > 0)
      BY <3>2, ServicesAssumption
    <3> QED
      BY <2>3, <3>1, <3>3 DEF PushTrx
  <2> QED
    BY <2>1, <2>2, <2>3 DEF BlockDispatcher
<1>4. p \in Place \ {"off", "done"}
  BY DEF Place
<1>5. PlaceType' /\ pc'["bld"] = p /\ \A t \in Service \ {"bld"} : pc'[t] = pc[t]
  BY <1>1, <1>2, <1>3, <1>4, GotoType
<1>6. \A t \in Service : pc'[t] = pc[t] \/ (Runs(t) /\ pc'[t] \notin {"off", "done"})
  BY <1>1, <1>2, <1>3, <1>4, GotoMoves
<1>7. pc'["trd"] = pc["trd"] /\ pc'["ora"] = pc["ora"]
  BY <1>5, Workplaces
<1>8. InHand'
  BY <1>3, <1>5, <1>7 DEF InHand
<1> QED
  BY <1>3, <1>5, <1>6, <1>8 DEF Works, TypeOK, PlaceType, QueueType, mgrVars

LEMMA TrxDispatcherWorks ==
  ASSUME TypeOK, InHand, TrxDispatcher
  PROVE  Works /\ TypeOK' /\ InHand'
<1>1. QueueType /\ PlaceType
  BY DEF TypeOK, QueueType, PlaceType
<1>2. "trd" \in Service /\ Runs("trd")
  BY Workplaces DEF TrxDispatcher, TakeTrx, PushBurn, PushPart, Runs
<1>3. PICK p \in {"select", "burn", "parts"} :
        /\ Goto("trd", p)
        /\ QueueType' /\ parts' \in Seq(PartService) /\ Len(parts') <= Len(PartList)
        /\ p \in {"burn", "parts"} => parts' # <<>>
        /\ UNCHANGED <<mgrVars, sig, trxs, oraVars, panicked>>
  <2>1. CASE TakeTrx
    <3>1. QueueType'
      BY <1>1, <2>1, GetType, Workplaces DEF TakeTrx
    <3>2. parts' \in Seq(PartService) /\ Len(parts') <= Len(PartList) /\ parts' # <<>>
      BY <2>1, PartsType DEF TakeTrx
    <3> QED
      BY <2>1, <3>1, <3>2 DEF TakeTrx
  <2>2. CASE PushBurn
    <3>1. QueueType'
      BY <1>1, <2>2, PutType, Workplaces DEF PushBurn
    <3>2. parts \in Seq(PartService) /\ Len(parts) <= Len(PartList) /\ parts # <<>>
      BY <2>2 DEF PushBurn, TypeOK, InHand
    <3> QED
      BY <2>2, <3>1, <3>2 DEF PushBurn
  <2>3. CASE PushPart
    <3>1. parts \in Seq(PartService) /\ Len(parts) <= Len(PartList) /\ parts # <<>>
      BY <2>3 DEF PushPart, TypeOK, InHand
    <3>2. /\ Head(parts) \in PartService /\ Tail(parts) \in Seq(PartService)
          /\ Len(Tail(parts)) = Len(parts) - 1
      BY <3>1, HeadTailProperties
    <3>3. QueueType'
      BY <1>1, <2>3, <3>2, PutType, Workplaces DEF PushPart
    <3>4. Len(parts) \in Nat /\ Len(PartList) \in Nat
      BY <3>1, ListPlaces, LenProperties
    <3>5. Len(parts) # 1 => Tail(parts) # <<>>
      BY <3>1, <3>2, <3>4
    <3>6. Len(Tail(parts)) <= Len(PartList)
      BY <3>1, <3>2, <3>4
    <3> QED
      BY <2>3, <3>2, <3>3, <3>5, <3>6 DEF PushPart
  <2> QED
    BY <2>1, <2>2, <2>3 DEF TrxDispatcher
<1>4. p \in Place \ {"off", "done"}
  BY DEF Place
<1>5. PlaceType' /\ pc'["trd"] = p /\ \A t \in Service \ {"trd"} : pc'[t] = pc[t]
  BY <1>1, <1>2, <1>3, <1>4, GotoType
<1>6. \A t \in Service : pc'[t] = pc[t] \/ (Runs(t) /\ pc'[t] \notin {"off", "done"})
  BY <1>1, <1>2, <1>3, <1>4, GotoMoves
<1>7. pc'["bld"] = pc["bld"] /\ pc'["ora"] = pc["ora"]
  BY <1>5, Workplaces
<1>8. InHand'
  BY <1>3, <1>5, <1>7 DEF InHand
<1> QED
  BY <1>3, <1>5, <1>6, <1>8 DEF Works, TypeOK, PlaceType, QueueType, mgrVars

(* The orchestrator, as long as the channel of its pushes is open. *)
LEMMA OrchestratorWorks ==
  ASSUME TypeOK, InHand, NewHead \/ StateSwitch \/ PushHead
  PROVE  Works /\ TypeOK' /\ InHand'
<1>1. QueueType /\ PlaceType
  BY DEF TypeOK, QueueType, PlaceType
<1>2. "ora" \in Service /\ Runs("ora")
  BY Workplaces DEF NewHead, StateSwitch, PushHead, Runs
<1>3. PICK p \in {"select", "push"} :
        /\ Goto("ora", p)
        /\ QueueType' /\ pushHeads' \in BOOLEAN
        /\ owed' \in 0 .. MaxHeads /\ (p = "push" => owed' > 0)
        /\ UNCHANGED <<mgrVars, sig, trxs, parts, panicked>>
  <2>1. CASE NewHead
    BY <1>1, <2>1, ServicesAssumption DEF NewHead, QueueType, TypeOK
  <2>2. CASE StateSwitch
    <3>1. QueueType'
      BY <1>1, <2>2, GetType, Workplaces DEF StateSwitch
    <3> QED
      BY <2>2, <3>1, ServicesAssumption DEF StateSwitch
  <2>3. CASE PushHead
    <3>1. QueueType'
      BY <1>1, <2>3, PutType, Workplaces DEF PushHead
    <3>2. owed \in 0 .. MaxHeads /\ owed > 0 /\ owed' = owed - 1
      BY <2>3 DEF PushHead, TypeOK, InHand
    <3>3. owed' \in 0 .. MaxHeads /\ (owed # 1 => owed' > 0)
      BY <3>2, ServicesAssumption
    <3> QED
      BY <2>3, <3>1, <3>3 DEF PushHead, TypeOK
  <2> QED
    BY <2>1, <2>2, <2>3
<1>4. p \in Place \ {"off", "done"}
  BY DEF Place
<1>5. PlaceType' /\ pc'["ora"] = p /\ \A t \in Service \ {"ora"} : pc'[t] = pc[t]
  BY <1>1, <1>2, <1>3, <1>4, GotoType
<1>6. \A t \in Service : pc'[t] = pc[t] \/ (Runs(t) /\ pc'[t] \notin {"off", "done"})
  BY <1>1, <1>2, <1>3, <1>4, GotoMoves
<1>7. pc'["bld"] = pc["bld"] /\ pc'["trd"] = pc["trd"]
  BY <1>5, Workplaces
<1>8. InHand'
  BY <1>3, <1>5, <1>7 DEF InHand
<1> QED
  BY <1>3, <1>5, <1>6, <1>8 DEF Works, TypeOK, PlaceType, QueueType, mgrVars

(* A push that is given up leaves the signal where it was. *)
LEMMA GiveUpWorks ==
  ASSUME TypeOK, InHand, NEW s \in Service, GiveUp(s)
  PROVE  Works /\ TypeOK' /\ InHand'
<1>1. PlaceType
  BY DEF TypeOK, PlaceType
<1>2. Runs(s) /\ Goto(s, "select") /\ "select" \in Place \ {"off", "done"}
  BY DEF GiveUp, Runs, Place
<1>3. PlaceType' /\ pc'[s] = "select" /\ \A t \in Service \ {s} : pc'[t] = pc[t]
  BY <1>1, <1>2, GotoType
<1>4. \A t \in Service : pc'[t] = pc[t] \/ (Runs(t) /\ pc'[t] \notin {"off", "done"})
  BY <1>1, <1>2, GotoMoves
<1>5. trxs' \in 0 .. MaxTrx /\ (s # "bld" => trxs' = trxs)
  BY ServicesAssumption DEF GiveUp, TypeOK
<1>6. parts' \in Seq(PartService) /\ Len(parts') <= Len(PartList) /\ (s # "trd" => parts' = parts)
  <2>1. <<>> \in Seq(PartService) /\ Len(<<>>) <= Len(PartList)
    BY ListPlaces
  <2> QED
    BY <2>1 DEF GiveUp, TypeOK
<1>7. sig' = sig /\ UNCHANGED <<mgrVars, q, oraVars, panicked>>
  BY DEF GiveUp, RePost
<1>8. InHand'
  BY <1>3, <1>5, <1>6, <1>7, Workplaces DEF InHand
<1> QED
  BY <1>3, <1>4, <1>5, <1>6, <1>7, <1>8 DEF Works, TypeOK, PlaceType, mgrVars

LEMMA WorkerWorks ==
  ASSUME TypeOK, InHand, NEW s \in Workers, WorkOff(s)
  PROVE  Works /\ TypeOK' /\ InHand'
<1>1. s \in Service
  BY ServiceNames DEF Workers
<1>2. PICK c \in InputOf[s] : Get(c)
  BY DEF WorkOff
<1>3. QueueType'
  BY <1>1, <1>2, GetType, Workplaces DEF TypeOK, QueueType
<1> QED
  BY <1>3 DEF WorkOff, Works, TypeOK, InHand, QueueType, mgrVars

-----------------------------------------------------------------------------
(* The inductive invariant. *)
LEMMA InList ==
  /\ DOMAIN ServiceList = 1 .. Len(ServiceList) /\ Len(ServiceList) \in Nat
  /\ \A i \in 1 .. Len(ServiceList) : ServiceList[i] \in Service
<1>1. DOMAIN ServiceList = 1 .. Len(ServiceList) /\ Len(ServiceList) \in Nat
  BY ListPlaces, LenProperties
<1> QED
  BY <1>1 DEF Service

LEMMA SubsetSize ==
  ASSUME NEW R \in SUBSET Service
  PROVE  IsFiniteSet(R) /\ Cardinality(R) \in 0 .. Cardinality(Service)
<1>1. IsFiniteSet(Service)
  BY ServiceNames
<1>2. IsFiniteSet(R) /\ Cardinality(R) <= Cardinality(Service)
  BY <1>1, FS_Subset
<1>3. Cardinality(R) \in Nat /\ Cardinality(Service) \in Nat
  BY <1>1, <1>2, FS_CardinalityType
<1> QED
  BY <1>2, <1>3

(* The wait group is never larger than the number of services. *)
LEMMA RunningSize ==
  /\ Cardinality(Service) \in Nat
  /\ IsFiniteSet(Running) /\ Cardinality(Running) \in 0 .. Cardinality(Service)
<1>1. IsFiniteSet(Service) /\ Running \in SUBSET Service
  BY ServiceNames DEF Running
<1> QED
  BY <1>1, FS_Subset, FS_CardinalityType

LEMMA InitServicesInv == Init => ServicesInv
<1> SUFFICES ASSUME Init PROVE ServicesInv
  OBVIOUS
<1>1. Running = {}
  BY DEF Init, Running, Runs
<1>2. Counted
  BY <1>1, FS_EmptySet DEF Init, Counted
<1>3. TypeOK
  <2>1. 1 \in 1 .. Len(ServiceList) + 1 /\ wg \in 0 .. Cardinality(Service)
    BY RunningSize, InList DEF Init
  <2>2. parts \in Seq(PartService) /\ Len(parts) <= Len(PartList)
    BY ListPlaces DEF Init
  <2>3. \A c \in Channel : q[c] \in Nat /\ q[c] <= Cap[c]
    BY ServicesAssumption DEF Init
  <2>4. pushHeads \in BOOLEAN
    BY Zenon DEF Init
  <2>5. /\ phase \in {"run", "close", "end"} /\ at \in 1 .. Len(ServiceList) + 1
        /\ pc \in [Service -> Place] /\ sig \in [Service -> 0 .. 1] /\ q \in [Channel -> Nat]
        /\ trxs \in 0 .. MaxTrx /\ owed \in 0 .. MaxHeads
        /\ panicked \in Service \union {"no", "manager"}
    BY <2>1, <2>3, ServicesAssumption DEF Init, Place
  <2> QED
    BY <2>1, <2>2, <2>3, <2>4, <2>5 DEF TypeOK
<1>4. InHand
  BY Workplaces DEF Init, InHand
<1>5. Unstarted /\ EndsLast
  BY InList DEF Init, Unstarted, EndsLast
<1>6. SigKnown /\ GoneKnown /\ SignalKept /\ PanicsDownstream
  BY InList DEF Init, SigKnown, GoneKnown, SignalKept, PanicsDownstream, Runs
<1> QED
  BY <1>2, <1>3, <1>4, <1>5, <1>6 DEF ServicesInv

LEMMA WorksInv ==
  ASSUME ServicesInv, Works, TypeOK', InHand'
  PROVE  ServicesInv'
<1>1. \A s \in Service : /\ Runs(s)' <=> Runs(s)
                         /\ pc'[s] = "done" <=> pc[s] = "done"
                         /\ pc'[s] = "off" <=> pc[s] = "off"
  BY DEF Works, Runs
<1>2. UNCHANGED <<phase, at, wg, sig, panicked>>
  BY DEF Works, mgrVars
<1>3. Running' = Running
  BY <1>1 DEF Running
<1>4. Counted'
  BY <1>2, <1>3 DEF ServicesInv, Counted
<1>5. Unstarted'
  <2> SUFFICES ASSUME phase' = "run", NEW i \in at' .. Len(ServiceList)
               PROVE  pc'[ServiceList[i]] = "off"
    BY DEF Unstarted
  <2>1. i \in at .. Len(ServiceList) /\ i \in 1 .. Len(ServiceList)
    BY <1>2, InList DEF ServicesInv, TypeOK
  <2>2. pc[ServiceList[i]] = "off"
    BY <1>2, <2>1 DEF ServicesInv, Unstarted
  <2> QED
    BY <1>1, <2>1, <2>2, InList
<1>6. EndsLast'
  BY <1>1, <1>2 DEF ServicesInv, EndsLast
<1>7. \A i : Signalled(i)' <=> Signalled(i)
  BY <1>2 DEF Signalled
<1>8. SigKnown' /\ GoneKnown' /\ SignalKept'
  BY <1>1, <1>2, <1>7, InList DEF ServicesInv, SigKnown, GoneKnown, SignalKept
<1>9. PanicsDownstream'
  BY <1>2 DEF ServicesInv, PanicsDownstream
<1> QED
  BY <1>4, <1>5, <1>6, <1>8, <1>9 DEF ServicesInv

(* A panic leaves nothing behind. *)
LEMMA DiesInv ==
  ASSUME ServicesInv, NEW who \in {"manager", "ora"}, Dies(who),
         who = "manager" => ServiceList[at] \in {"trd", "acd", "lgd", "bud"}
  PROVE  ServicesInv'
<1>1. \A s \in Service : pc'[s] = "off" /\ sig'[s] = 0 /\ ~Runs(s)'
  BY DEF Dies, Runs
<1>2. Running' = {}
  BY <1>1 DEF Running
<1>3. Counted'
  BY <1>2, FS_EmptySet DEF Dies, Counted
<1>4. TypeOK'
  <2>1. wg' \in 0 .. Cardinality(Service)
    BY RunningSize DEF Dies
  <2>2. parts' \in Seq(PartService) /\ Len(parts') <= Len(PartList)
    BY ListPlaces DEF Dies
  <2>3. q' \in [Channel -> Nat] /\ \A c \in Channel : q'[c] <= Cap[c]
    BY ServicesAssumption DEF Dies
  <2>4. pc' \in [Service -> Place] /\ sig' \in [Service -> 0 .. 1]
    BY DEF Dies, Place
  <2>5. trxs' \in 0 .. MaxTrx /\ owed' \in 0 .. MaxHeads
    BY ServicesAssumption DEF Dies
  <2>7. pushHeads' \in BOOLEAN
    BY Zenon DEF Dies
  <2>6. panicked' \in Service \union {"no", "manager"}
    BY Workplaces DEF Dies
  <2> QED
    BY <2>1, <2>2, <2>3, <2>4, <2>5, <2>6, <2>7 DEF Dies, TypeOK, ServicesInv
<1>5. InHand'
  BY <1>1, Workplaces DEF InHand
<1>6. Unstarted' /\ EndsLast'
  <2>1. \A i \in at' .. Len(ServiceList) : i \in 1 .. Len(ServiceList)
    BY InList DEF Dies, ServicesInv, TypeOK
  <2> QED
    BY <1>1, <2>1, InList DEF Unstarted, EndsLast
<1>7. SigKnown' /\ GoneKnown' /\ SignalKept'
  BY <1>1, InList DEF SigKnown, GoneKnown, SignalKept
<1>8. PanicsDownstream'
  BY DEF Dies, PanicsDownstream
<1> QED
  BY <1>3, <1>4, <1>5, <1>6, <1>7, <1>8 DEF ServicesInv

(* A service that ends is one less; if only its signal, or the end of one  *)
(* behind it in the list, can end it, the manager has passed it.           *)
LEMMA LeaveInv ==
  ASSUME ServicesInv, NEW s \in Service, pc[s] = "select", Leave(s),
         sig' = sig \/ sig' = [sig EXCEPT ![s] = 0],
         s \in Leaders => \A i \in DOMAIN ServiceList : ServiceList[i] = s => Signalled(i)
  PROVE  ServicesInv'
<1>1. PlaceType /\ "done" \in Place /\ Goto(s, "done")
  BY DEF ServicesInv, TypeOK, PlaceType, Place, Leave
<1>2. PlaceType' /\ pc'[s] = "done" /\ \A t \in Service \ {s} : pc'[t] = pc[t]
  BY <1>1, GotoType
<1>3. /\ wg' = wg - 1 /\ UNCHANGED <<phase, at, q, trxs, parts, owed, panicked>>
      /\ pushHeads' \in BOOLEAN
  BY DEF Leave, ServicesInv, TypeOK
<1>4. sig' \in [Service -> 0 .. 1] /\ \A t \in Service : sig'[t] = sig[t] \/ (t = s /\ sig'[t] = 0)
  BY DEF ServicesInv, TypeOK
<1>5. Runs(s) /\ ~Runs(s)' /\ \A t \in Service \ {s} : Runs(t)' <=> Runs(t)
  BY <1>2 DEF Runs
<1>6. Running' = Running \ {s} /\ s \in Running
  BY <1>5 DEF Running
<1>7. Counted'
  BY <1>3, <1>6, RunningSize, FS_RemoveElement DEF ServicesInv, Counted
<1>8. wg' \in 0 .. Cardinality(Service)
  <2>1. Running' \in SUBSET Service
    BY DEF Running
  <2> QED
    BY <1>7, <2>1, SubsetSize DEF Counted
<1>9. TypeOK'
  BY <1>2, <1>3, <1>4, <1>8 DEF ServicesInv, TypeOK, PlaceType
<1>10. InHand'
  BY <1>2, <1>3, Workplaces DEF ServicesInv, InHand
<1>11. Unstarted'
  <2> SUFFICES ASSUME phase' = "run", NEW i \in at' .. Len(ServiceList)
               PROVE  pc'[ServiceList[i]] = "off"
    BY DEF Unstarted
  <2>1. i \in at .. Len(ServiceList) /\ i \in 1 .. Len(ServiceList)
    BY <1>3, InList DEF ServicesInv, TypeOK
  <2>2. pc[ServiceList[i]] = "off"
    BY <1>3, <2>1 DEF ServicesInv, Unstarted
  <2> QED
    BY <1>2, <2>1, <2>2, InList
<1>12. EndsLast'
  BY <1>3, <1>5 DEF ServicesInv, EndsLast
<1>13. \A i : Signalled(i)' <=> Signalled(i)
  BY <1>3 DEF Signalled
<1>14. SigKnown'
  BY <1>4, <1>13, InList DEF ServicesInv, SigKnown
<1>15. GoneKnown'
  <2> SUFFICES ASSUME NEW i \in DOMAIN ServiceList, ServiceList[i] \in Leaders,
                      pc'[ServiceList[i]] = "done"
               PROVE  Signalled(i)
    BY <1>13 DEF GoneKnown
  <2>1. CASE ServiceList[i] = s
    BY <2>1
  <2>2. CASE ServiceList[i] # s
    BY <1>2, <2>2, InList DEF ServicesInv, GoneKnown
  <2> QED
    BY <2>1, <2>2
<1>16. SignalKept'
  BY <1>4, <1>5, <1>13, InList DEF ServicesInv, SignalKept
<1>17. PanicsDownstream'
  BY <1>3 DEF ServicesInv, PanicsDownstream
<1> QED
  BY <1>7, <1>9, <1>10, <1>11, <1>12, <1>14, <1>15, <1>16, <1>17 DEF ServicesInv

LEMMA StopInv ==
  ASSUME ServicesInv, NEW s \in Service, Stop(s)
  PROVE  ServicesInv'
<1>1. sig' = [sig EXCEPT ![s] = 0] /\ pc[s] = "select" /\ Leave(s)
  BY DEF Stop
<1>2. \A i \in DOMAIN ServiceList : ServiceList[i] = s => Signalled(i)
  BY DEF Stop, ServicesInv, SigKnown
<1> QED
  BY <1>1, <1>2, LeaveInv

LEMMA InputEndsInv ==
  ASSUME ServicesInv, NEW s \in Service, InputEnds(s)
  PROVE  ServicesInv'
<1>1. sig' = sig /\ pc[s] = "select" /\ Leave(s)
  BY DEF InputEnds
<1>2. ASSUME s \in Leaders, NEW i \in DOMAIN ServiceList, ServiceList[i] = s
      PROVE  Signalled(i)
  <2>1. PICK c \in InputOf[s] : Closed(c)
    BY DEF InputEnds
  <2>2. s = "bld"
    BY <1>2, <2>1, ServiceNames DEF Leaders, InputOf
  <2>3. pc["bls"] = "done"
    <3>1. InputOf["bld"] = {"block"}
      BY Workplaces, ServiceNames DEF InputOf
    <3>2. Owner["block"] = "bls"
      BY Workplaces DEF Owner
    <3> QED
      BY <2>1, <2>2, <3>1, <3>2 DEF Closed
  <2>4. PICK k \in DOMAIN ServiceList : ServiceList[k] = "bls"
    BY Workplaces DEF Service
  <2>5. Signalled(k)
    BY <2>3, <2>4 DEF ServicesInv, GoneKnown, Leaders
  <2>6. i = 1
    <3>1. 1 \in DOMAIN ServiceList /\ ServiceList[1] = "bld"
      BY ListPlaces, InList
    <3> QED
      BY <1>2, <2>2, <3>1, OncePlaced
  <2>7. k \in 1 .. Len(ServiceList) /\ at \in Nat /\ Len(ServiceList) \in Nat
    BY InList DEF ServicesInv, TypeOK
  <2> QED
    BY <2>5, <2>6, <2>7 DEF Signalled
<1> QED
  BY <1>1, <1>2, LeaveInv

LEMMA StartInv ==
  ASSUME ServicesInv, StartService
  PROVE  ServicesInv'
<1>1. /\ phase = "run" /\ at \in 1 .. Len(ServiceList)
      /\ wg' = wg + 1 /\ Goto(ServiceList[at], "select")
      /\ at' = at + 1 /\ UNCHANGED <<phase, sig, q, trxs, parts, oraVars, panicked>>
  BY InList DEF StartService, ServicesInv, TypeOK
<1>2. PICK s \in Service : s = ServiceList[at] /\ pc[s] = "off"
  BY <1>1, InList DEF ServicesInv, Unstarted
<1>3. PlaceType' /\ pc'[s] = "select" /\ \A t \in Service \ {s} : pc'[t] = pc[t]
  <2>1. PlaceType /\ "select" \in Place /\ Goto(s, "select")
    BY <1>1, <1>2 DEF ServicesInv, TypeOK, PlaceType, Place
  <2> QED
    BY <2>1, GotoType
<1>4. ~Runs(s) /\ Runs(s)' /\ \A t \in Service \ {s} : Runs(t)' <=> Runs(t)
  BY <1>2, <1>3 DEF Runs
<1>5. Running' = Running \union {s} /\ s \notin Running
  BY <1>2, <1>4 DEF Running
<1>6. Counted'
  BY <1>1, <1>5, RunningSize, FS_AddElement DEF ServicesInv, Counted
<1>7. wg' \in 0 .. Cardinality(Service)
  <2>1. Running' \in SUBSET Service
    BY DEF Running
  <2> QED
    BY <1>6, <2>1, SubsetSize DEF Counted
<1>8. TypeOK'
  <2>1. at' \in 1 .. Len(ServiceList) + 1
    BY <1>1, InList
  <2> QED
    BY <1>1, <1>3, <1>7, <2>1 DEF ServicesInv, TypeOK, PlaceType
<1>9. InHand'
  BY <1>1, <1>3, Workplaces DEF ServicesInv, InHand
<1>10. Unstarted'
  <2> SUFFICES ASSUME NEW i \in at' .. Len(ServiceList)
               PROVE  pc'[ServiceList[i]] = "off"
    BY DEF Unstarted
  <2>1. i \in at .. Len(ServiceList) /\ i \in 1 .. Len(ServiceList) /\ i # at
    BY <1>1, InList
  <2>2. pc[ServiceList[i]] = "off"
    BY <1>1, <2>1 DEF ServicesInv, Unstarted
  <2>3. ServiceList[i] # s
    BY <1>1, <1>2, <2>1, InList, OncePlaced
  <2> QED
    BY <1>3, <2>1, <2>2, <2>3, InList
<1>11. \A i : ~Signalled(i) /\ ~Signalled(i)'
  BY <1>1 DEF Signalled
<1>12. EndsLast' /\ SignalKept'
  BY <1>1, <1>11 DEF EndsLast, SignalKept
<1>13. SigKnown'
  BY <1>1, <1>11 DEF ServicesInv, SigKnown
<1>14. GoneKnown'
  BY <1>3, <1>11, InList DEF ServicesInv, GoneKnown
<1>15. PanicsDownstream'
  BY <1>1 DEF StartService, Alive, PanicsDownstream
<1> QED
  BY <1>6, <1>8, <1>9, <1>10, <1>12, <1>13, <1>14, <1>15 DEF ServicesInv

(* The other steps of the manager move nobody. *)
LEMMA ManagerInv ==
  ASSUME ServicesInv, Alive, UNCHANGED <<wg, pc, q, trxs, parts, oraVars, panicked>>,
         phase' \in {"run", "close", "end"}, at' \in 1 .. Len(ServiceList) + 1,
         sig' \in [Service -> 0 .. 1],
         Unstarted', EndsLast', SigKnown', SignalKept',
         \A i \in DOMAIN ServiceList : Signalled(i) => Signalled(i)'
  PROVE  ServicesInv'
<1>1. TypeOK'
  BY DEF ServicesInv, TypeOK
<1>2. InHand'
  BY DEF ServicesInv, InHand
<1>3. Running' = Running
  BY DEF Running, Runs
<1>4. Counted'
  BY <1>3 DEF ServicesInv, Counted
<1>5. GoneKnown'
  BY DEF ServicesInv, GoneKnown
<1>6. PanicsDownstream'
  BY DEF Alive, PanicsDownstream
<1> QED
  BY <1>1, <1>2, <1>4, <1>5, <1>6 DEF ServicesInv

LEMMA ManagerStepInv ==
  ASSUME ServicesInv, Manager
  PROVE  ServicesInv'
<1>1. CASE StartService
  BY <1>1, StartInv
<1>2. CASE ScannerStaysOff
  <2>1. /\ phase = "run" /\ phase' = "run" /\ at \in 1 .. Len(ServiceList) /\ at' = at + 1
        /\ Len(ServiceList) \in Nat
        /\ UNCHANGED <<wg, pc, sig, q, trxs, parts, oraVars, panicked>>
    BY <1>2, InList DEF ScannerStaysOff, ServicesInv, TypeOK
  <2>2. at' \in 1 .. Len(ServiceList) + 1 /\ \A i \in at' .. Len(ServiceList) : i \in at .. Len(ServiceList)
    BY <2>1
  <2>3. Unstarted'
    BY <2>1, <2>2 DEF ServicesInv, Unstarted
  <2>4. \A i : ~Signalled(i) /\ ~Signalled(i)'
    BY <2>1 DEF Signalled
  <2>5. EndsLast' /\ SigKnown' /\ SignalKept'
    BY <2>1, <2>4 DEF ServicesInv, EndsLast, SigKnown, SignalKept
  <2>6. sig' \in [Service -> 0 .. 1]
    BY <2>1 DEF ServicesInv, TypeOK
  <2> QED
    BY <1>2, <2>1, <2>2, <2>3, <2>4, <2>5, <2>6, ManagerInv DEF ScannerStaysOff
<1>3. CASE Close
  <2>1. /\ phase = "run" /\ phase' = "close" /\ at' = 1
        /\ UNCHANGED <<wg, pc, sig, q, trxs, parts, oraVars, panicked>>
    BY <1>3 DEF Close
  <2>2. \A i \in DOMAIN ServiceList : ~Signalled(i) /\ ~Signalled(i)'
    BY <2>1, InList DEF Signalled
  <2>3. Unstarted' /\ EndsLast' /\ SigKnown' /\ SignalKept'
    BY <2>1, <2>2 DEF ServicesInv, Unstarted, EndsLast, SigKnown, SignalKept
  <2>4. sig' \in [Service -> 0 .. 1] /\ at' \in 1 .. Len(ServiceList) + 1
    BY <2>1, InList DEF ServicesInv, TypeOK
  <2> QED
    BY <1>3, <2>1, <2>2, <2>3, <2>4, ManagerInv DEF Close
<1>4. CASE Signal
  <2>1. phase = "close" /\ at \in 1 .. Len(ServiceList) /\ Alive
    BY <1>4, InList DEF Signal, ServicesInv, TypeOK
  <2>2. PICK s \in Service : s = ServiceList[at]
    BY <2>1, InList
  <2>3. CASE pc[s] = "done" /\ Dies("manager")
    <3>1. s \notin Leaders
      <4>1. ~Signalled(at)
        BY <2>1, InList DEF Signalled
      <4> QED
        BY <2>1, <2>2, <2>3, <4>1, InList DEF ServicesInv, GoneKnown
    <3>2. s \in {"trd", "acd", "lgd", "bud"}
      <4>1. at \in DOMAIN ServiceList
        BY <2>1, InList
      <4>2. \/ s \in {"bld", "trd", "acd", "lgd", "bud", "bls", "ora"}
            \/ \E k \in 1 .. Len(Monitors) : s = Monitors[k]
        BY <2>2, <4>1, PlaceCases DEF PlaceOf
      <4>3. \A k \in 1 .. Len(Monitors) : Monitors[k] \in Monitor
        BY ServicesAssumption, LenProperties DEF Monitor
      <4> QED
        BY <3>1, <4>2, <4>3 DEF Leaders
    <3> QED
      BY <2>2, <2>3, <3>2, DiesInv
  <2>4. CASE /\ pc[s] # "done" /\ sig' = [sig EXCEPT ![s] = 1] /\ at' = at + 1
             /\ UNCHANGED <<phase, wg, pc, q, trxs, parts, oraVars, panicked>>
    <3>1. /\ sig' \in [Service -> 0 .. 1] /\ sig'[s] = 1
          /\ \A t \in Service \ {s} : sig'[t] = sig[t]
      BY <2>4 DEF ServicesInv, TypeOK
    <3>2. at' \in 1 .. Len(ServiceList) + 1 /\ Len(ServiceList) \in Nat
      BY <2>1, <2>4, InList
    <3>3. \A i \in DOMAIN ServiceList : /\ Signalled(i) <=> i < at
                                        /\ Signalled(i)' <=> (i < at \/ i = at)
      BY <2>1, <2>4, InList DEF Signalled
    <3>4. \A i \in DOMAIN ServiceList : ServiceList[i] = s <=> i = at
      BY <2>1, <2>2, InList, OncePlaced
    <3>5. SigKnown'
      BY <3>1, <3>3, <3>4, InList DEF ServicesInv, SigKnown
    <3>6. SignalKept'
      <4> SUFFICES ASSUME NEW i \in DOMAIN ServiceList, Signalled(i)', Runs(ServiceList[i])
                   PROVE  sig'[ServiceList[i]] = 1
        BY <2>4 DEF SignalKept, Runs
      <4>1. CASE i = at
        BY <2>2, <3>1, <4>1
      <4>2. CASE i # at
        BY <3>1, <3>3, <3>4, <4>2, InList DEF ServicesInv, SignalKept
      <4> QED
        BY <4>1, <4>2
    <3>7. Unstarted' /\ EndsLast'
      BY <2>1, <2>4 DEF Unstarted, EndsLast
    <3>8. phase' = "close" /\ \A i \in DOMAIN ServiceList : Signalled(i) => Signalled(i)'
      BY <2>1, <2>4, <3>3
    <3> QED
      BY <2>1, <2>4, <3>1, <3>2, <3>5, <3>6, <3>7, <3>8, ManagerInv
  <2> QED
    BY <1>4, <2>2, <2>3, <2>4 DEF Signal
<1>5. CASE Waited
  <2>1. /\ phase = "close" /\ at > Len(ServiceList) /\ phase' = "end" /\ wg = 0
        /\ UNCHANGED <<at, wg, pc, sig, q, trxs, parts, oraVars, panicked>>
    BY <1>5 DEF Waited, WaitsForAll
  <2>2. \A i \in DOMAIN ServiceList : Signalled(i) /\ Signalled(i)'
    <3>1. at \in Nat
      BY InList DEF ServicesInv, TypeOK
    <3> QED
      BY <2>1, <3>1, InList DEF Signalled
  <2>3. Running = {}
    BY <2>1, RunningSize, FS_EmptySet DEF ServicesInv, Counted
  <2>4. EndsLast'
    BY <2>1, <2>3 DEF EndsLast, Running, Runs
  <2>5. Unstarted' /\ SigKnown'
    BY <2>1, <2>2 DEF ServicesInv, Unstarted, SigKnown
  <2>6. SignalKept'
    BY <2>1, <2>2 DEF ServicesInv, SignalKept, Runs
  <2>7. sig' \in [Service -> 0 .. 1] /\ at' \in 1 .. Len(ServiceList) + 1
    BY <2>1 DEF ServicesInv, TypeOK
  <2> QED
    BY <1>5, <2>1, <2>2, <2>4, <2>5, <2>6, <2>7, ManagerInv DEF Waited
<1> QED
  BY <1>1, <1>2, <1>3, <1>4, <1>5 DEF Manager

LEMMA ServicesInvStep == ServicesInv /\ [Next]_vars => ServicesInv'
<1> SUFFICES ASSUME ServicesInv, [Next]_vars PROVE ServicesInv'
  OBVIOUS
<1>1. CASE Manager
  BY <1>1, ManagerStepInv
<1>2. CASE BlockScanner
  BY <1>2, ScannerWorks, WorksInv DEF ServicesInv
<1>3. CASE BlockDispatcher
  BY <1>3, BlockDispatcherWorks, WorksInv DEF ServicesInv
<1>4. CASE TrxDispatcher
  BY <1>4, TrxDispatcherWorks, WorksInv DEF ServicesInv
<1>5. CASE Orchestrator
  <2>1. CASE PushPanics
    BY <2>1, DiesInv DEF PushPanics
  <2>2. CASE NewHead \/ StateSwitch \/ PushHead
    BY <2>2, OrchestratorWorks, WorksInv DEF ServicesInv
  <2> QED
    BY <1>5, <2>1, <2>2 DEF Orchestrator
<1>6. ASSUME NEW s \in Service, Stop(s) PROVE ServicesInv'
  BY <1>6, StopInv
<1>7. ASSUME NEW s \in Service, GiveUp(s) PROVE ServicesInv'
  BY <1>7, GiveUpWorks, WorksInv DEF ServicesInv
<1>8. ASSUME NEW s \in Service, InputEnds(s) PROVE ServicesInv'
  BY <1>8, InputEndsInv
<1>9. ASSUME NEW s \in Workers, WorkOff(s) PROVE ServicesInv'
  BY <1>9, WorkerWorks, WorksInv DEF ServicesInv
<1>10. CASE UNCHANGED vars
  BY <1>10 DEF vars, mgrVars, ServicesInv, TypeOK, Counted, Running, InHand, Unstarted, EndsLast,
     SigKnown, GoneKnown, SignalKept, PanicsDownstream, Signalled, Runs
<1> QED
  BY <1>1, <1>2, <1>3, <1>4, <1>5, <1>6, <1>7, <1>8, <1>9, <1>10 DEF Next

LEMMA ServicesInvAlways == Spec => []ServicesInv
  BY InitServicesInv, ServicesInvStep, PTL DEF Spec

-----------------------------------------------------------------------------
(* No channel over its capacity, the wait group never below zero and at    *)
(* most one stop signal per service, for every list of services            *)
(* (manager.go:94-151, svc.go:32-36).                                      *)
THEOREM TypeCorrect == Spec => []TypeOK
  BY ServicesInvAlways, PTL DEF ServicesInv

(* A signal can meet only a service that ends with the one before it in    *)
(* the list as gone (manager.go:66-74, svc.go:34).                         *)
THEOREM OnlyDownstreamPanics == Spec => []PanicsDownstream
  BY ServicesInvAlways, PTL DEF ServicesInv

(* A service that was signalled and runs has its signal before it          *)
(* (dispatch_trx.go:200-234, dispatch_blk.go:139-141).                     *)
THEOREM SignalsAreKept == Spec => []SignalKept
  BY ServicesInvAlways, PTL DEF ServicesInv

(* The manager comes to its end after every service (manager.go:76-81).    *)
THEOREM ManagerEndsLast == Spec => []EndsLast
  BY ServicesInvAlways, PTL DEF ServicesInv

=============================================================================
