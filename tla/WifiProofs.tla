------------------------------ MODULE WifiProofs ------------------------------
(***************************************************************************)
(* Proofs about Wifi for every set of networks, every way their names are  *)
(* stored, every configuration at start, every queue size and every number *)
(* of touches, scans and mishaps: types, that wpa_supplicant has one       *)
(* network per plain name and no password typed for another, that the ids  *)
(* the panel holds are exact, and that the two queues together are a lossy *)
(* FIFO (the steps of Mailbox).                                            *)
(***************************************************************************)
EXTENDS Wifi, WellFoundedInduction, TLAPS

(* wpa_supplicant's networks: a function on a bounded set of ids.          *)
Block == [ssid : Names, psk : Names \cup {None}]
IdSets == {D \in SUBSET Nat : \E n \in Nat : \A i \in D : i <= n}
BlockMaps == UNION {[D -> Block] : D \in IdSets}
Wpas == [blocks : BlockMaps, enabled : SUBSET Nat, current : Nat \cup {NoId},
         phase : {"idle", "trying", "on"}, scan : {"none", "running", "done"}]

(* The panel's networks, and the panel.                                    *)
Lists == UNION {[S -> Nat] : S \in SUBSET Names}
Uis == [front : BOOLEAN, table : BOOLEAN, prompt : BOOLEAN, kb : BOOLEAN, forget : BOOLEAN,
        connecting : Networks \cup {None}, typed : Networks \cup {None},
        selected_network : Networks \cup {None}, cur_network : Names \cup {None},
        list_networks : Lists, wifi_name_db : SUBSET Networks, rows : SUBSET Networks]

(* Names of which there is never more than one network.                    *)
Single == Plain \ Doubled

(* The state of wpa_supplicant, with BlocksSound.                          *)
Linked(w) ==
  /\ w.current \in DOMAIN w.blocks \cup {NoId} /\ w.enabled \subseteq DOMAIN w.blocks
  /\ w.phase \in {"trying", "on"} => w.current # NoId
OneEach(w) ==
  /\ \A i, j \in DOMAIN w.blocks :
       w.blocks[i].ssid = w.blocks[j].ssid /\ w.blocks[i].ssid \in Single => i = j
  /\ \A i \in DOMAIN w.blocks :
       w.blocks[i].psk = None \/ w.blocks[i].ssid \in ListedAs(w.blocks[i].psk)
WpaSound(w) == w \in Wpas /\ Linked(w) /\ OneEach(w)

(* The panel against wpa_supplicant: IdsExact; from the first table on the *)
(* panel knows every network of a single name that wpa_supplicant has; the *)
(* keyboard is shown for a row of the table, and what is typed is for the  *)
(* row selected.                                                           *)
Exact(u, w) ==
  /\ \A n \in DOMAIN u.list_networks :
       /\ u.list_networks[n] \in DOMAIN w.blocks
       /\ w.blocks[u.list_networks[n]].ssid \in ListedAs(n)
       /\ \A m \in DOMAIN u.list_networks : u.list_networks[m] = u.list_networks[n] => m = n
  /\ u.forget /\ u.selected_network \in Plain => u.selected_network \in DOMAIN u.list_networks
Known(u, w) ==
  u.rows # {} => \A i \in DOMAIN w.blocks : w.blocks[i].ssid \in Single =>
                    w.blocks[i].ssid \in DOMAIN u.list_networks
Keyed(u) ==
  /\ u.kb => u.rows # {} /\ u.selected_network \in Networks
  /\ u.typed \in {None, u.selected_network}
PanelSound(u, w) == u \in Uis /\ Exact(u, w) /\ Known(u, w) /\ Keyed(u)

Queued ==
  /\ queue \in Seq(Events) /\ Len(queue) <= QueueMax /\ batch \in Seq(Events)
  /\ handling \in Events \cup {None}

IInv == air \in SUBSET Networks /\ Queued /\ WpaSound(wpa) /\ PanelSound(ui, wpa)

USE WifiAssumption DEF vars, thread

-----------------------------------------------------------------------------
(* Networks and ids.                                                       *)

(* A plain name is listed as it is, and as no other name's network.        *)
LEMMA PlainNames ==
  ASSUME NEW n \in Plain
  PROVE  /\ n \in Networks /\ Stored[n] = n /\ ListedAs(n) = {n}
         /\ \A m \in Networks : Stored[m] = n => m = n
  BY DEF Plain, ListedAs

(* The name a network set up for n is listed under.                        *)
LEMMA StoredName ==
  ASSUME NEW n \in Networks
  PROVE  /\ Stored[n] \in Names /\ n \in Names /\ Stored[n] \in ListedAs(n)
         /\ Stored[n] \in Plain => Stored[n] = n
  BY DEF Names, ListedAs, Plain

(* A map of networks is a function on its ids.                             *)
LEMMA MapFacts ==
  ASSUME NEW f \in BlockMaps
  PROVE  DOMAIN f \in IdSets /\ f \in [DOMAIN f -> Block] /\ DOMAIN f \subseteq Nat
  <1>1. PICK D \in IdSets : f \in [D -> Block]
    BY DEF BlockMaps
  <1> QED
    BY <1>1 DEF IdSets

(* A network is removed.                                                   *)
LEMMA WithoutMap ==
  ASSUME NEW f \in BlockMaps, NEW i
  PROVE  /\ Without(f, i) \in BlockMaps /\ DOMAIN Without(f, i) = DOMAIN f \ {i}
         /\ \A j \in DOMAIN f \ {i} : Without(f, i)[j] = f[j]
  <1>1. /\ DOMAIN Without(f, i) = DOMAIN f \ {i}
        /\ \A j \in DOMAIN f \ {i} : Without(f, i)[j] = f[j]
    BY DEF Without
  <1>2. DOMAIN f \ {i} \in IdSets
    BY MapFacts DEF IdSets
  <1>3. Without(f, i) \in [DOMAIN f \ {i} -> Block]
    BY MapFacts DEF Without
  <1> QED
    BY <1>1, <1>2, <1>3 DEF BlockMaps

(* A network is added.                                                     *)
LEMMA WithMap ==
  ASSUME NEW f \in BlockMaps, NEW i \in Nat, NEW b \in Block
  PROVE  /\ With(f, i, b) \in BlockMaps /\ DOMAIN With(f, i, b) = DOMAIN f \cup {i}
         /\ With(f, i, b)[i] = b /\ \A j \in DOMAIN f \ {i} : With(f, i, b)[j] = f[j]
  <1>1. /\ DOMAIN With(f, i, b) = DOMAIN f \cup {i} /\ With(f, i, b)[i] = b
        /\ \A j \in DOMAIN f \ {i} : With(f, i, b)[j] = f[j]
    BY DEF With
  <1>2. DOMAIN f \cup {i} \in IdSets
    <2> DEFINE D == DOMAIN f
    <2>1. D \subseteq Nat /\ \E n \in Nat : \A j \in D : j <= n
      BY MapFacts DEF IdSets
    <2> HIDE DEF D
    <2>2. PICK n \in Nat : \A j \in D : j <= n
      BY <2>1
    <2>3. \A j \in D \cup {i} : j <= n + i /\ j \in Nat
      BY <2>1, <2>2
    <2>4. n + i \in Nat
      OBVIOUS
    <2>5. D \cup {i} \in IdSets
      BY <2>3, <2>4 DEF IdSets
    <2> QED
      BY <2>5 DEF D
  <1>3. With(f, i, b) \in [DOMAIN f \cup {i} -> Block]
    BY MapFacts DEF With
  <1> QED
    BY <1>1, <1>2, <1>3 DEF BlockMaps

(* Ids in use have a highest one: the least of their upper bounds.         *)
LEMMA Highest ==
  ASSUME NEW D \in IdSets, D # {}
  PROVE  \E m \in D : \A j \in D : j <= m
  <1> DEFINE Bounds == {n \in Nat : \A i \in D : i <= n}
  <1>1. Bounds \subseteq Nat /\ Bounds # {}
    BY DEF IdSets
  <1>2. PICK u \in Bounds : \A y \in Bounds : ~(<<y, u>> \in OpToRel(<, Nat))
    BY <1>1, NatLessThanWellFounded, WFMin
  <1>3. \A y \in Bounds : ~(y < u)
    BY <1>2 DEF OpToRel
  <1>4. u \in D
    <2> SUFFICES ASSUME u \notin D PROVE FALSE
      OBVIOUS
    <2>1. \A i \in D : i <= u /\ i # u /\ i \in Nat
      BY <1>2 DEF IdSets
    <2>2. PICK d : d \in D /\ d \in Nat /\ d <= u /\ d # u /\ u \in Nat
      BY <1>2, <2>1
    <2>3. u - 1 \in Nat /\ u - 1 < u
      BY <2>2
    <2>4. \A i \in D : i <= u - 1
      BY <2>1, <2>2
    <2> QED
      BY <1>3, <2>3, <2>4
  <1> QED
    BY <1>2, <1>4

(* ADD_NETWORK takes an id that is not in use.                             *)
LEMMA NewIdFresh ==
  ASSUME NEW w \in Wpas
  PROVE  NewId(w) \in Nat /\ NewId(w) \notin DOMAIN w.blocks
  <1> DEFINE ids == DOMAIN w.blocks
             top == CHOOSE i \in ids : \A j \in ids : j <= i
  <1>1. ids \in IdSets /\ ids \subseteq Nat
    BY MapFacts DEF Wpas
  <1>2. CASE ids = {}
    BY <1>2 DEF NewId
  <1>3. CASE ids # {}
    <2>1. top \in ids /\ \A j \in ids : j <= top
      BY <1>1, <1>3, Highest
    <2>2. NewId(w) = 1 + top
      BY <1>3 DEF NewId
    <2>3. top \in Nat /\ 1 + top \notin ids
      <3> HIDE DEF top, ids
      <3> QED
        BY <1>1, <2>1
    <2> HIDE DEF top
    <2> QED
      BY <2>2, <2>3
  <1> QED
    BY <1>2, <1>3

-----------------------------------------------------------------------------
(* wpa_supplicant's commands.                                              *)

(* A search is begun.                                                      *)
LEMMA RescanSound ==
  ASSUME NEW w, WpaSound(w)
  PROVE  /\ WpaSound(Rescan(w)) /\ Rescan(w).blocks = w.blocks
         /\ Rescan(w).current = w.current
  <1> DEFINE v == Rescan(w)
             x == IF Usable(w) = {} THEN w.scan ELSE "running"
  <1>1. w \in Wpas /\ Linked(w) /\ OneEach(w)
    BY DEF WpaSound
  <1>2. x \in {"none", "running", "done"}
    BY <1>1 DEF Wpas
  <1>3. v = [w EXCEPT !.scan = x]
    BY DEF Rescan
  <1> HIDE DEF v, x
  <1>4. /\ v \in Wpas /\ v.blocks = w.blocks /\ v.current = w.current /\ v.enabled = w.enabled
        /\ v.phase = w.phase
    BY <1>1, <1>2, <1>3 DEF Wpas
  <1>5. Linked(v) /\ OneEach(v)
    BY <1>1, <1>4 DEF Linked, OneEach
  <1> QED
    BY <1>4, <1>5 DEF WpaSound, v

(* The link is dropped.                                                    *)
LEMMA DropSound ==
  ASSUME NEW w, w \in Wpas, OneEach(w), w.enabled \subseteq DOMAIN w.blocks
  PROVE  WpaSound(Drop(w)) /\ Drop(w).blocks = w.blocks
  <1> DEFINE v == [w EXCEPT !.phase = "idle", !.current = NoId]
  <1>1. /\ v \in Wpas /\ v.blocks = w.blocks /\ v.current = NoId /\ v.enabled = w.enabled
        /\ v.phase = "idle"
    BY DEF Wpas
  <1>2. Drop(w) = Rescan(v)
    BY DEF Drop
  <1> HIDE DEF v
  <1>3. Linked(v) /\ OneEach(v)
    BY <1>1 DEF Linked, OneEach
  <1>4. WpaSound(v)
    BY <1>1, <1>3 DEF WpaSound
  <1> QED
    BY <1>1, <1>2, <1>4, RescanSound

(* SELECT_NETWORK of a network that is there.                              *)
LEMMA SelectSound ==
  ASSUME NEW w, WpaSound(w), NEW i \in DOMAIN w.blocks, NEW fast \in BOOLEAN
  PROVE  /\ WpaSound(SELECT_NETWORK(w, i, fast))
         /\ SELECT_NETWORK(w, i, fast).blocks = w.blocks
         /\ SELECT_NETWORK(w, i, fast).current = i
  <1> DEFINE v == [w EXCEPT !.enabled = {i}, !.current = i]
             x == [v EXCEPT !.phase = "trying"]
             y == [v EXCEPT !.phase = "idle"]
  <1>1. w \in Wpas /\ Linked(w) /\ OneEach(w) /\ i \in Nat /\ i # NoId
    BY MapFacts DEF WpaSound, Wpas, NoId
  <1>2. v \in Wpas /\ v.blocks = w.blocks /\ v.current = i /\ v.enabled = {i}
    BY <1>1 DEF Wpas
  <1>3. SELECT_NETWORK(w, i, fast) \in {v, x, Rescan(y)}
    BY DEF SELECT_NETWORK
  <1> HIDE DEF v
  <1>4. /\ x \in Wpas /\ x.blocks = w.blocks /\ x.current = i /\ x.enabled = {i}
        /\ y \in Wpas /\ y.blocks = w.blocks /\ y.current = i /\ y.enabled = {i}
    BY <1>2 DEF Wpas
  <1> HIDE DEF x, y
  <1>5. ASSUME NEW z, z \in Wpas, z.blocks = w.blocks, z.current = i, z.enabled = {i}
        PROVE  WpaSound(z)
    BY <1>1, <1>5 DEF WpaSound, Linked, OneEach
  <1>6. WpaSound(v) /\ WpaSound(x) /\ WpaSound(y)
    BY <1>2, <1>4, <1>5
  <1>7. WpaSound(Rescan(y)) /\ Rescan(y).blocks = w.blocks /\ Rescan(y).current = i
    BY <1>4, <1>6, RescanSound
  <1> QED
    BY <1>2, <1>3, <1>4, <1>6, <1>7

(* REMOVE_NETWORK.                                                         *)
LEMMA RemoveSound ==
  ASSUME NEW w, WpaSound(w), NEW i \in DOMAIN w.blocks
  PROVE  /\ WpaSound(REMOVE_NETWORK(w, i))
         /\ DOMAIN REMOVE_NETWORK(w, i).blocks = DOMAIN w.blocks \ {i}
         /\ \A j \in DOMAIN w.blocks \ {i} : REMOVE_NETWORK(w, i).blocks[j] = w.blocks[j]
  <1> DEFINE f == Without(w.blocks, i)
             e == w.enabled \ {i}
             v == [w EXCEPT !.blocks = f, !.enabled = e]
  <1>1. w \in Wpas /\ Linked(w) /\ OneEach(w) /\ w.blocks \in BlockMaps /\ e \in SUBSET Nat
    BY DEF WpaSound, Wpas
  <1>2. f \in BlockMaps /\ DOMAIN f = DOMAIN w.blocks \ {i}
        /\ \A j \in DOMAIN w.blocks \ {i} : f[j] = w.blocks[j]
    BY <1>1, WithoutMap
  <1>3. REMOVE_NETWORK(w, i) = IF w.current = i THEN Drop(v) ELSE v
    BY DEF REMOVE_NETWORK
  <1>4. e \subseteq DOMAIN f
    BY <1>1, <1>2 DEF Linked
  <1> HIDE DEF f, e
  <1>5. /\ v \in Wpas /\ v.blocks = f /\ v.enabled = e /\ v.current = w.current
        /\ v.phase = w.phase
    BY <1>1, <1>2 DEF Wpas
  <1> HIDE DEF v
  <1>6. OneEach(v)
    BY <1>1, <1>2, <1>5 DEF OneEach
  <1>7. CASE w.current = i
    BY <1>2, <1>3, <1>4, <1>5, <1>6, <1>7, DropSound
  <1>8. CASE w.current # i
    <2>1. Linked(v)
      BY <1>1, <1>2, <1>4, <1>5, <1>8 DEF Linked
    <2> QED
      BY <1>2, <1>3, <1>5, <1>6, <1>8, <2>1 DEF WpaSound
  <1> QED
    BY <1>7, <1>8

(* ADD_NETWORK for a name n; when the name it is listed under is a single  *)
(* one, there is none of it yet.                                           *)
LEMMA AddSound ==
  ASSUME NEW w, WpaSound(w), NEW n \in Networks, NEW fits \in BOOLEAN
         , Stored[n] \in Single => \A j \in DOMAIN w.blocks : w.blocks[j].ssid # Stored[n]
  PROVE  /\ WpaSound(ADD_NETWORK(w, n, n, fits))
         /\ DOMAIN ADD_NETWORK(w, n, n, fits).blocks = DOMAIN w.blocks \cup {NewId(w)}
         /\ ADD_NETWORK(w, n, n, fits).blocks[NewId(w)].ssid = Stored[n]
         /\ \A j \in DOMAIN w.blocks : ADD_NETWORK(w, n, n, fits).blocks[j] = w.blocks[j]
  <1> DEFINE k == NewId(w)
             q == IF fits THEN n ELSE None
             b == [ssid |-> Stored[n], psk |-> q]
             v == ADD_NETWORK(w, n, n, fits)
             f == With(w.blocks, k, b)
  <1>1. w \in Wpas /\ Linked(w) /\ OneEach(w) /\ w.blocks \in BlockMaps
    BY DEF WpaSound, Wpas
  <1>2. q \in Names \cup {None} /\ (q = None \/ q = n)
    BY StoredName
  <1>3. v = [w EXCEPT !.blocks = f]
    BY DEF ADD_NETWORK
  <1> HIDE DEF q
  <1>4. /\ k \in Nat /\ k \notin DOMAIN w.blocks /\ b \in Block /\ b.ssid = Stored[n]
        /\ b.psk = None \/ b.ssid \in ListedAs(b.psk)
    BY <1>1, <1>2, NewIdFresh, StoredName DEF Block
  <1> HIDE DEF k, b
  <1>5. /\ f \in BlockMaps /\ DOMAIN f = DOMAIN w.blocks \cup {k} /\ f[k] = b
        /\ \A j \in DOMAIN w.blocks : f[j] = w.blocks[j]
    BY <1>1, <1>4, WithMap
  <1> HIDE DEF f, v
  <1>6. /\ v \in Wpas /\ v.blocks = f /\ v.enabled = w.enabled /\ v.current = w.current
        /\ v.phase = w.phase
    BY <1>1, <1>3, <1>5 DEF Wpas
  <1>7. Linked(v)
    BY <1>1, <1>5, <1>6 DEF Linked
  <1>8. OneEach(v)
    BY <1>1, <1>4, <1>5, <1>6 DEF OneEach
  <1> QED
    BY <1>4, <1>5, <1>6, <1>7, <1>8 DEF WpaSound, v, k

(* A set of ids has a lowest one.                                          *)
LEMMA Lowest ==
  ASSUME NEW D \in SUBSET Nat, D # {}
  PROVE  \E i \in D : \A j \in D : i <= j
  <1>1. PICK i \in D : \A j \in D : ~(<<j, i>> \in OpToRel(<, Nat))
    BY NatLessThanWellFounded, WFMin
  <1>2. \A j \in D : ~(j < i) /\ j \in Nat
    BY <1>1 DEF OpToRel
  <1>3. \A j \in D : i <= j
    BY <1>2
  <1> QED
    BY <1>1, <1>3

(* LIST_NETWORKS: the names there are, each with an id of its own.         *)
LEMMA ListExact ==
  ASSUME NEW w, WpaSound(w)
  PROVE  /\ LIST_NETWORKS(w) \in Lists
         /\ \A j \in DOMAIN w.blocks : w.blocks[j].ssid \in DOMAIN LIST_NETWORKS(w)
         /\ \A n \in DOMAIN LIST_NETWORKS(w) :
              /\ LIST_NETWORKS(w)[n] \in DOMAIN w.blocks
              /\ w.blocks[LIST_NETWORKS(w)[n]].ssid = n
  <1> DEFINE S == {w.blocks[i].ssid : i \in DOMAIN w.blocks}
             ids(n) == {i \in DOMAIN w.blocks : w.blocks[i].ssid = n}
             first(n) == CHOOSE i \in ids(n) : \A j \in ids(n) : i <= j
             list == LIST_NETWORKS(w)
  <1>1. w.blocks \in [DOMAIN w.blocks -> Block] /\ DOMAIN w.blocks \subseteq Nat
    BY MapFacts DEF WpaSound, Wpas
  <1>2. S \in SUBSET Names
    BY <1>1 DEF Block
  <1>3. list = [n \in S |-> first(n)]
    BY DEF LIST_NETWORKS
  <1>4. ASSUME NEW n \in S
        PROVE  first(n) \in DOMAIN w.blocks /\ w.blocks[first(n)].ssid = n /\ first(n) \in Nat
    <2>1. ids(n) \in SUBSET Nat /\ ids(n) # {}
      BY <1>1
    <2>2. \E i \in ids(n) : \A j \in ids(n) : i <= j
      <3> HIDE DEF ids
      <3> QED
        BY <2>1, Lowest
    <2>3. first(n) \in ids(n)
      BY <2>2
    <2> QED
      BY <1>1, <2>3
  <1> HIDE DEF first, list
  <1>5. list \in [S -> Nat]
    BY <1>3, <1>4
  <1>6. list \in Lists
    BY <1>2, <1>5 DEF Lists
  <1> QED
    BY <1>3, <1>4, <1>6 DEF list

(* connect(): the network the panel holds for the selected name is         *)
(* replaced, or one is added, and no other is touched.                     *)
Kept(u, w) == {j \in DOMAIN w.blocks : u.selected_network \in DOMAIN u.list_networks =>
                                          j # u.list_networks[u.selected_network]}

LEMMA ConnectSound ==
  ASSUME NEW w, NEW u, WpaSound(w), PanelSound(u, w), u.kb, u.typed # None
         , NEW fits \in BOOLEAN, NEW fast \in BOOLEAN
  PROVE  LET n == u.selected_network
             v == connect(w, u, fits, fast)
         IN  /\ WpaSound(v) /\ n \in Networks
             /\ DOMAIN v.blocks = Kept(u, w) \cup {v.current} /\ v.current \notin Kept(u, w)
             /\ v.blocks[v.current].ssid = Stored[n]
             /\ \A j \in Kept(u, w) : v.blocks[j] = w.blocks[j]
  <1> DEFINE n == u.selected_network
             v == connect(w, u, fits, fast)
             known == n \in DOMAIN u.list_networks
             K == Kept(u, w)
             w1 == IF known THEN REMOVE_NETWORK(w, u.list_networks[n]) ELSE w
             w2 == ADD_NETWORK(w1, n, u.typed, fits)
             k == NewId(w1)
  <1>1. u.typed = n /\ n \in Networks /\ u.rows # {}
    BY DEF PanelSound, Keyed
  <1>2. /\ WpaSound(w1) /\ DOMAIN w1.blocks = K
        /\ \A j \in K : w1.blocks[j] = w.blocks[j]
    <2>1. CASE known
      <3> DEFINE i == u.list_networks[n]
      <3>1. i \in DOMAIN w.blocks
        BY <2>1 DEF PanelSound, Exact
      <3>2. w1 = REMOVE_NETWORK(w, i) /\ K = DOMAIN w.blocks \ {i}
        BY <2>1 DEF Kept
      <3> HIDE DEF i, w1, n, known, K
      <3> QED
        BY <3>1, <3>2, RemoveSound
    <2>2. CASE ~known
      <3>1. w1 = w /\ K = DOMAIN w.blocks
        BY <2>2 DEF Kept
      <3> QED
        BY <3>1
    <2> QED
      BY <2>1, <2>2
  <1>3. ASSUME Stored[n] \in Single, NEW j \in K
        PROVE  w.blocks[j].ssid # Stored[n]
    <2> SUFFICES ASSUME w.blocks[j].ssid = Stored[n] PROVE FALSE
      OBVIOUS
    <2>1. Stored[n] = n /\ n \in Plain /\ n \in Single /\ j \in DOMAIN w.blocks
      BY <1>1, <1>3, StoredName DEF Single, Kept
    <2>2. n \in DOMAIN u.list_networks
      BY <1>1, <2>1 DEF PanelSound, Known
    <2>3. u.list_networks[n] \in DOMAIN w.blocks /\ w.blocks[u.list_networks[n]].ssid = n
      BY <2>1, <2>2, PlainNames DEF PanelSound, Exact
    <2>4. j = u.list_networks[n]
      BY <2>1, <2>3 DEF WpaSound, OneEach
    <2> QED
      BY <2>2, <2>4 DEF Kept
  <1>4. v = SELECT_NETWORK(w2, k, fast) /\ w2 = ADD_NETWORK(w1, n, n, fits)
    BY <1>1 DEF connect
  <1>5. Stored[n] \in Single => \A j \in DOMAIN w1.blocks : w1.blocks[j].ssid # Stored[n]
    <2> HIDE DEF w1, K, n
    <2> QED
      BY <1>2, <1>3
  <1>6. k \notin K
    <2> HIDE DEF w1, K
    <2> QED
      BY <1>2, NewIdFresh DEF WpaSound
  <1> HIDE DEF v, w1, w2, n, known, K
  <1>7. /\ WpaSound(w2) /\ DOMAIN w2.blocks = K \cup {k}
        /\ w2.blocks[k].ssid = Stored[n] /\ \A j \in K : w2.blocks[j] = w.blocks[j]
    BY <1>1, <1>2, <1>4, <1>5, AddSound
  <1>8. WpaSound(v) /\ v.blocks = w2.blocks /\ v.current = k
    BY <1>4, <1>7, SelectSound
  <1> QED
    BY <1>1, <1>6, <1>7, <1>8 DEF v, n, K

-----------------------------------------------------------------------------
(* The panel.                                                              *)

(* The panel is redrawn, and neither its networks nor its rows change.     *)
LEMMA Redrawn ==
  ASSUME NEW u, NEW w, NEW v \in Uis, NEW x, PanelSound(u, w)
         , x.blocks = w.blocks, v.list_networks = u.list_networks, v.rows = u.rows
         , v.forget => \/ u.forget /\ v.selected_network = u.selected_network
                       \/ v.selected_network \in DOMAIN v.list_networks
         , Keyed(v)
  PROVE  PanelSound(v, x)
  BY DEF PanelSound, Exact, Known

(* OK on the keyboard.                                                     *)
LEMMA ReadyPanel ==
  ASSUME WpaSound(wpa), PanelSound(ui, wpa), ready
  PROVE  WpaSound(wpa') /\ PanelSound(ui', wpa')
  <1> DEFINE n == ui.selected_network
             c == wpa'.current
             K == Kept(ui, wpa)
             list == With(ui.list_networks, n, c)
  <1>1. /\ ui.kb /\ ui.typed # None
        /\ ui' = [[ui EXCEPT !.list_networks = With(@, ui.selected_network, wpa'.current),
                             !.typed = None, !.connecting = ui.selected_network]
                  EXCEPT !.kb = FALSE]
    BY DEF ready, hide_keyboard
  <1>2. PICK fits \in BOOLEAN, fast \in BOOLEAN : wpa' = connect(wpa, ui, fits, fast)
    BY DEF ready
  <1>3. /\ WpaSound(wpa') /\ n \in Networks
        /\ DOMAIN wpa'.blocks = K \cup {c} /\ c \notin K
        /\ wpa'.blocks[c].ssid = Stored[n]
        /\ \A j \in K : wpa'.blocks[j] = wpa.blocks[j]
    BY <1>1, <1>2, ConnectSound
  <1>4. c \in Nat
    BY <1>3, MapFacts DEF WpaSound, Wpas
  <1>5. ui \in Uis /\ Exact(ui, wpa) /\ Known(ui, wpa) /\ Keyed(ui) /\ ui.rows # {}
    BY <1>1 DEF PanelSound, Keyed
  <1>6. /\ DOMAIN list = DOMAIN ui.list_networks \cup {n} /\ list[n] = c
        /\ \A m \in DOMAIN ui.list_networks \ {n} : list[m] = ui.list_networks[m]
    BY DEF With
  <1>7. list \in Lists
    <2>1. PICK S \in SUBSET Names : ui.list_networks \in [S -> Nat]
      BY <1>5 DEF Uis, Lists
    <2>2. list \in [S \cup {n} -> Nat]
      BY <1>4, <2>1 DEF With
    <2>3. S \cup {n} \in SUBSET Names
      BY <1>3, <2>1, StoredName
    <2> QED
      BY <2>2, <2>3 DEF Lists
  <1>8. \A m \in DOMAIN ui.list_networks \ {n} :
          ui.list_networks[m] \in K /\ wpa.blocks[ui.list_networks[m]].ssid \in ListedAs(m)
    BY <1>5 DEF Exact, Kept
  <1>9. \A j \in K : j \in DOMAIN wpa.blocks
    BY DEF Kept
  <1> HIDE DEF list, c, K
  <1>10. /\ ui'.list_networks = list /\ ui'.typed = None /\ ui'.kb = FALSE /\ ui'.rows = ui.rows
         /\ ui'.forget = ui.forget /\ ui'.selected_network = n
    BY <1>1, <1>5 DEF Uis, list, c
  <1>11. ui' \in Uis
    <2> DEFINE x == [ui EXCEPT !.list_networks = list, !.typed = None, !.connecting = n]
    <2>1. ui' = [x EXCEPT !.kb = FALSE]
      BY <1>1 DEF list, c
    <2>2. x \in Uis
      BY <1>3, <1>5, <1>7 DEF Uis
    <2> HIDE DEF x
    <2> QED
      BY <2>1, <2>2 DEF Uis
  <1>12. Exact(ui', wpa')
    <2>1. ASSUME NEW m \in DOMAIN list
          PROVE  list[m] \in DOMAIN wpa'.blocks /\ wpa'.blocks[list[m]].ssid \in ListedAs(m)
      <3>1. CASE m = n
        BY <1>3, <1>6, <3>1, StoredName
      <3>2. CASE m # n
        BY <1>3, <1>6, <1>8, <2>1, <3>2
      <3> QED
        BY <3>1, <3>2
    <2>2. ASSUME NEW l \in DOMAIN list, NEW m \in DOMAIN list, list[m] = list[l]
          PROVE  m = l
      <3> HIDE DEF n
      <3>1. CASE l = n \/ m = n
        BY <1>3, <1>6, <1>8, <2>2, <3>1
      <3>2. CASE l # n /\ m # n
        BY <1>5, <1>6, <2>2, <3>2 DEF Exact
      <3> QED
        BY <3>1, <3>2
    <2> QED
      BY <1>5, <1>6, <1>10, <2>1, <2>2 DEF Exact
  <1>13. Known(ui', wpa')
    <2>1. ASSUME NEW j \in DOMAIN wpa'.blocks, wpa'.blocks[j].ssid \in Single
          PROVE  wpa'.blocks[j].ssid \in DOMAIN list
      <3>1. CASE j = c
        BY <1>3, <1>6, <2>1, <3>1, StoredName DEF Single
      <3>2. CASE j # c
        <4>1. j \in K /\ wpa'.blocks[j] = wpa.blocks[j] /\ j \in DOMAIN wpa.blocks
          BY <1>3, <1>9, <2>1, <3>2
        <4> QED
          BY <1>5, <1>6, <2>1, <4>1 DEF Known
      <3> QED
        BY <3>1, <3>2
    <2> QED
      BY <1>10, <2>1 DEF Known
  <1> QED
    BY <1>3, <1>10, <1>11, <1>12, <1>13 DEF PanelSound, Keyed

(* Forget.                                                                 *)
LEMMA ForgetPanel ==
  ASSUME WpaSound(wpa), PanelSound(ui, wpa), forget_network
  PROVE  WpaSound(wpa') /\ PanelSound(ui', wpa')
  <1> DEFINE n == ui.selected_network
             i == ui.list_networks[n]
             list == Without(ui.list_networks, n)
  <1>1. ui \in Uis /\ Exact(ui, wpa) /\ Known(ui, wpa) /\ Keyed(ui)
    BY DEF PanelSound
  <1>a. CASE n \notin DOMAIN ui.list_networks
    <2>1. wpa' = wpa /\ ui' = ui
      BY <1>a DEF forget_network
    <2> QED
      BY <2>1
  <1>b. CASE n \in DOMAIN ui.list_networks
    <2>2. /\ wpa' = REMOVE_NETWORK(wpa, i)
          /\ ui' = [ui EXCEPT !.list_networks = Without(@, n),
                              !.cur_network = IF @ = n THEN None ELSE @,
                              !.forget = FALSE, !.connecting = None]
      BY <1>b DEF forget_network
    <2>3. i \in DOMAIN wpa.blocks /\ wpa.blocks[i].ssid \in ListedAs(n)
      BY <1>1, <1>b DEF Exact
    <2>4. \A m \in DOMAIN ui.list_networks : ui.list_networks[m] = i => m = n
      BY <1>1, <1>b DEF Exact
    <2> HIDE DEF i
    <2>5. /\ WpaSound(wpa') /\ DOMAIN wpa'.blocks = DOMAIN wpa.blocks \ {i}
          /\ \A j \in DOMAIN wpa.blocks \ {i} : wpa'.blocks[j] = wpa.blocks[j]
      BY <2>2, <2>3, RemoveSound
    <2>6. /\ DOMAIN list = DOMAIN ui.list_networks \ {n}
          /\ \A m \in DOMAIN list : list[m] = ui.list_networks[m]
      BY DEF Without
    <2>7. list \in Lists
      <3>1. PICK S \in SUBSET Names : ui.list_networks \in [S -> Nat]
        BY <1>1 DEF Uis, Lists
      <3>2. list \in [S \ {n} -> Nat]
        BY <3>1 DEF Without
      <3> QED
        BY <3>1, <3>2 DEF Lists
    <2> HIDE DEF list
    <2>8. /\ ui'.list_networks = list /\ ui'.typed = ui.typed /\ ui'.kb = ui.kb
          /\ ui'.rows = ui.rows /\ ui'.forget = FALSE /\ ui'.selected_network = n
      BY <1>1, <2>2 DEF Uis, list
    <2>9. ui' \in Uis
      <3> DEFINE c == IF ui.cur_network = n THEN None ELSE ui.cur_network
      <3>1. ui' = [ui EXCEPT !.list_networks = list, !.cur_network = c, !.forget = FALSE,
                             !.connecting = None]
        BY <2>2 DEF list
      <3>2. c \in Names \cup {None}
        BY <1>1 DEF Uis
      <3> HIDE DEF c
      <3> QED
        BY <1>1, <2>7, <3>1, <3>2 DEF Uis
    <2>10. Exact(ui', wpa')
      BY <1>1, <2>4, <2>5, <2>6, <2>8 DEF Exact
    <2>11. Known(ui', wpa')
      <3>1. ASSUME NEW j \in DOMAIN wpa.blocks \ {i}, wpa.blocks[j].ssid \in Single
            PROVE  wpa.blocks[j].ssid # n
        <4> SUFFICES ASSUME wpa.blocks[j].ssid = n PROVE FALSE
          OBVIOUS
        <4>1. n \in Plain
          BY <3>1 DEF Single
        <4>2. wpa.blocks[i].ssid = n
          BY <2>3, <4>1, PlainNames
        <4> QED
          BY <2>3, <3>1, <4>2 DEF WpaSound, OneEach
      <3> QED
        BY <1>1, <2>5, <2>6, <2>8, <3>1 DEF Known
    <2> QED
      BY <1>1, <2>5, <2>8, <2>9, <2>10, <2>11 DEF PanelSound, Keyed
  <1> QED
    BY <1>a, <1>b

(* find_current_network: the panel's networks are those there are.         *)
LEMMA FindPanel ==
  ASSUME WpaSound(wpa), PanelSound(ui, wpa)
  PROVE  LET u == find_current_network(ui)
         IN  /\ PanelSound(u, wpa) /\ u.rows = ui.rows /\ u.kb = ui.kb
             /\ \A i \in DOMAIN wpa.blocks : wpa.blocks[i].ssid \in DOMAIN u.list_networks
  <1> DEFINE u == find_current_network(ui)
             list == LIST_NETWORKS(wpa)
             cur == IF wpa.current = NoId THEN ui.cur_network ELSE wpa.blocks[wpa.current].ssid
  <1>1. ui \in Uis /\ Exact(ui, wpa) /\ Known(ui, wpa) /\ Keyed(ui)
    BY DEF PanelSound
  <1>2. /\ list \in Lists
        /\ \A i \in DOMAIN wpa.blocks : wpa.blocks[i].ssid \in DOMAIN list
        /\ \A n \in DOMAIN list : list[n] \in DOMAIN wpa.blocks /\ wpa.blocks[list[n]].ssid = n
    BY ListExact
  <1>3. cur \in Names \cup {None}
    <2>1. CASE wpa.current = NoId
      BY <1>1, <2>1 DEF Uis
    <2>2. CASE wpa.current # NoId
      <3>1. wpa.current \in DOMAIN wpa.blocks /\ wpa.blocks \in BlockMaps
        BY <2>2 DEF WpaSound, Linked, Wpas
      <3>2. wpa.blocks[wpa.current] \in Block
        BY <3>1, MapFacts
      <3> QED
        BY <2>2, <3>2 DEF Block
    <2> QED
      BY <2>1, <2>2
  <1>4. u = [ui EXCEPT !.list_networks = list, !.cur_network = cur]
    BY DEF find_current_network
  <1> HIDE DEF u, list, cur
  <1>5. /\ u \in Uis /\ u.list_networks = list /\ u.rows = ui.rows /\ u.kb = ui.kb
        /\ u.forget = ui.forget /\ u.selected_network = ui.selected_network /\ u.typed = ui.typed
    BY <1>1, <1>2, <1>3, <1>4 DEF Uis
  <1>6. Exact(u, wpa)
    <2>1. u.forget /\ u.selected_network \in Plain => u.selected_network \in DOMAIN list
      <3> DEFINE n == u.selected_network
      <3> SUFFICES ASSUME u.forget, n \in Plain PROVE n \in DOMAIN list
        OBVIOUS
      <3>1. n \in DOMAIN ui.list_networks
        BY <1>1, <1>5 DEF Exact
      <3>2. /\ ui.list_networks[n] \in DOMAIN wpa.blocks
            /\ wpa.blocks[ui.list_networks[n]].ssid = n
        BY <1>1, <3>1, PlainNames DEF Exact
      <3> QED
        BY <1>2, <3>2
    <2>2. \A n \in DOMAIN list : wpa.blocks[list[n]].ssid \in ListedAs(n)
      BY <1>2 DEF ListedAs
    <2>3. \A m, n \in DOMAIN list : list[m] = list[n] => m = n
      BY <1>2
    <2> QED
      BY <1>2, <1>5, <2>1, <2>2, <2>3 DEF Exact
  <1>7. Known(u, wpa) /\ Keyed(u)
    BY <1>1, <1>2, <1>5 DEF Known, Keyed
  <1> QED
    BY <1>2, <1>5, <1>6, <1>7 DEF PanelSound, u

(* The panel shows "Connected to ...".                                     *)
LEMMA ConnectedPanel ==
  ASSUME NEW u, PanelSound(u, wpa)
  PROVE  PanelSound(Connected(u), wpa)
  <1> DEFINE v == Connected(u)
  <1>1. u \in Uis /\ Keyed(u)
    BY DEF PanelSound
  <1>3. v = [u EXCEPT !.connecting = None, !.prompt = TRUE]
    BY DEF Connected
  <1> HIDE DEF v
  <1>4. /\ v \in Uis /\ v.list_networks = u.list_networks /\ v.rows = u.rows /\ v.kb = u.kb
        /\ v.forget = u.forget /\ v.selected_network = u.selected_network /\ v.typed = u.typed
    BY <1>1, <1>3 DEF Uis
  <1>5. Keyed(v)
    BY <1>1, <1>4 DEF Keyed
  <1>6. PanelSound(v, wpa)
    BY <1>4, <1>5, Redrawn
  <1> QED
    BY <1>6 DEF v

(* An event is handled: a failure, ...                                     *)
LEMMA FailedPanel ==
  ASSUME WpaSound(wpa), PanelSound(ui, wpa), wpa_event_failed
  PROVE  wpa' = wpa /\ PanelSound(ui', wpa')
  <1> DEFINE g == ui.forget \/ ui.selected_network \in DOMAIN ui.list_networks
  <1>1. ui \in Uis /\ Keyed(ui)
    BY DEF PanelSound
  <1>3. g \in BOOLEAN /\ (g => ui.forget \/ ui.selected_network \in DOMAIN ui.list_networks)
    OBVIOUS
  <1>4. ui' = [ui EXCEPT !.prompt = TRUE, !.connecting = None, !.forget = g]
        /\ wpa' = wpa
    BY DEF wpa_event_failed
  <1> HIDE DEF g
  <1>5. /\ ui' \in Uis /\ ui'.list_networks = ui.list_networks /\ ui'.rows = ui.rows
        /\ ui'.kb = ui.kb /\ ui'.forget = g /\ ui'.selected_network = ui.selected_network
        /\ ui'.typed = ui.typed
    BY <1>1, <1>3, <1>4 DEF Uis
  <1>6. Keyed(ui')
    BY <1>1, <1>5 DEF Keyed
  <1> QED
    BY <1>3, <1>4, <1>5, <1>6, Redrawn

(* ... scan results, ...                                                   *)
LEMMA ScanPanel ==
  ASSUME WpaSound(wpa), PanelSound(ui, wpa), air \in SUBSET Networks, wpa_event_scan_results
  PROVE  wpa' = wpa /\ PanelSound(ui', wpa')
  <1> DEFINE f == find_current_network(ui)
  <1>1. PICK below \in IF air = {} THEN {ui.rows} ELSE SUBSET ui.rows :
          LET u == [f EXCEPT !.wifi_name_db = air, !.table = TRUE, !.rows = air \cup below]
          IN  ui' = IF u.cur_network \in air THEN Connected(u) ELSE u
    BY DEF wpa_event_scan_results
  <1> DEFINE rows == air \cup below
             u == [f EXCEPT !.wifi_name_db = air, !.table = TRUE, !.rows = rows]
  <1>2. /\ PanelSound(f, wpa) /\ f.rows = ui.rows /\ f.kb = ui.kb
        /\ \A i \in DOMAIN wpa.blocks : wpa.blocks[i].ssid \in DOMAIN f.list_networks
    BY FindPanel
  <1>3. rows \in SUBSET Networks /\ (ui.rows # {} => rows # {})
    BY DEF PanelSound, Uis
  <1>4. ui' = u \/ ui' = Connected(u)
    BY <1>1
  <1> HIDE DEF f
  <1>5. /\ u \in Uis /\ u.list_networks = f.list_networks /\ u.rows = rows /\ u.kb = f.kb
        /\ u.forget = f.forget /\ u.selected_network = f.selected_network /\ u.typed = f.typed
    BY <1>2, <1>3 DEF PanelSound, Uis
  <1> HIDE DEF u
  <1>6. u.kb => u.rows # {}
    <2>1. u.kb => ui.rows # {}
      BY <1>2, <1>5 DEF PanelSound, Keyed
    <2> QED
      BY <1>3, <1>5, <2>1
  <1>7. PanelSound(u, wpa)
    BY <1>2, <1>5, <1>6 DEF PanelSound, Exact, Known, Keyed
  <1>8. wpa' = wpa
    BY DEF wpa_event_scan_results
  <1> QED
    BY <1>4, <1>7, <1>8, ConnectedPanel

(* ... and a connection.                                                   *)
LEMMA CompletedPanel ==
  ASSUME WpaSound(wpa), PanelSound(ui, wpa), wpa_event_connected
  PROVE  wpa' = wpa /\ PanelSound(ui', wpa')
  <1> DEFINE u == find_current_network(ui)
             v == IF u.cur_network \in u.wifi_name_db THEN Connected(u) ELSE u
             x == [v EXCEPT !.table = TRUE]
  <1>1. wpa' = wpa /\ (ui' = u \/ ui' = x)
    BY DEF wpa_event_connected
  <1>2. PanelSound(u, wpa)
    BY FindPanel
  <1> HIDE DEF u
  <1>3. PanelSound(v, wpa)
    BY <1>2, ConnectedPanel
  <1> HIDE DEF v
  <1>4. /\ x \in Uis /\ x.list_networks = v.list_networks /\ x.rows = v.rows /\ x.kb = v.kb
        /\ x.forget = v.forget /\ x.selected_network = v.selected_network /\ x.typed = v.typed
    BY <1>3 DEF PanelSound, Uis
  <1> HIDE DEF x
  <1>5. Keyed(x)
    BY <1>3, <1>4 DEF PanelSound, Keyed
  <1>6. PanelSound(x, wpa)
    BY <1>3, <1>4, <1>5, Redrawn
  <1> QED
    BY <1>1, <1>2, <1>6

(* A row is selected.                                                      *)
LEMMA SelectPanel ==
  ASSUME WpaSound(wpa), PanelSound(ui, wpa), NEW n \in ui.rows
         , select_current(n) \/ select_known(n) \/ select_new(n)
  PROVE  WpaSound(wpa') /\ PanelSound(ui', wpa')
  <1> DEFINE s == Selected(n)
             t == IF n = ui.selected_network THEN ui.typed ELSE None
             g == n \in DOMAIN ui.list_networks
  <1>1. ui \in Uis /\ Keyed(ui) /\ n \in Networks /\ ui.rows # {}
    BY DEF PanelSound, Uis
  <1>2. t \in {None, n} /\ t \in Networks \cup {None}
    BY <1>1 DEF Keyed
  <1>3. s = [ui EXCEPT !.selected_network = n, !.prompt = TRUE, !.typed = t, !.forget = g]
    BY DEF Selected
  <1>4. g \in BOOLEAN /\ (g => n \in DOMAIN ui.list_networks)
    OBVIOUS
  <1> HIDE DEF t, g, s
  <1>5. /\ s \in Uis /\ s.list_networks = ui.list_networks /\ s.rows = ui.rows /\ s.forget = g
        /\ s.selected_network = n /\ s.typed = t
    BY <1>1, <1>2, <1>3, <1>4 DEF Uis
  <1>6. ASSUME NEW c \in Networks \cup {None}, NEW b \in BOOLEAN
               , ui' = [[s EXCEPT !.connecting = c] EXCEPT !.kb = b]
               , wpa'.blocks = wpa.blocks
        PROVE  PanelSound(ui', wpa')
    <2> DEFINE x == [s EXCEPT !.connecting = c]
    <2>2. /\ x \in Uis /\ x.list_networks = ui.list_networks /\ x.rows = ui.rows
          /\ x.forget = g /\ x.selected_network = n /\ x.typed = t
      BY <1>5 DEF Uis
    <2>3. ui' = [x EXCEPT !.kb = b]
      BY <1>6
    <2> HIDE DEF x
    <2>4. /\ ui' \in Uis /\ ui'.list_networks = ui.list_networks /\ ui'.rows = ui.rows
          /\ ui'.forget = g /\ ui'.selected_network = n /\ ui'.typed = t
      BY <2>2, <2>3 DEF Uis
    <2>5. Keyed(ui')
      BY <1>1, <1>2, <2>4 DEF Keyed
    <2> QED
      BY <1>4, <1>6, <2>4, <2>5, Redrawn
  <1>7. CASE select_current(n)
    <2>1. ui' = [[s EXCEPT !.connecting = None] EXCEPT !.kb = FALSE] /\ wpa' = wpa
      BY <1>7 DEF select_current, hide_keyboard, s
    <2> QED
      BY <1>6, <2>1
  <1>8. CASE select_known(n)
    <2>1. /\ ui' = [[s EXCEPT !.connecting = n] EXCEPT !.kb = FALSE]
          /\ n \in DOMAIN ui.list_networks
          /\ \E fast \in BOOLEAN : wpa' = SELECT_NETWORK(wpa, ui.list_networks[n], fast)
      BY <1>8 DEF select_known, hide_keyboard, s
    <2>2. ui.list_networks[n] \in DOMAIN wpa.blocks
      BY <2>1 DEF PanelSound, Exact
    <2>3. WpaSound(wpa') /\ wpa'.blocks = wpa.blocks
      BY <2>1, <2>2, SelectSound
    <2> QED
      BY <1>1, <1>6, <2>1, <2>3
  <1>9. CASE select_new(n)
    <2>1. ui' = [s EXCEPT !.connecting = None, !.kb = TRUE] /\ wpa' = wpa
      BY <1>9 DEF select_new, s
    <2>2. ui' = [[s EXCEPT !.connecting = None] EXCEPT !.kb = TRUE]
      BY <2>1
    <2> QED
      BY <1>6, <2>1, <2>2
  <1> QED
    BY <1>7, <1>8, <1>9

(* The panel opens, closes, and its keyboard is used or left.              *)
LEMMA OtherPanel ==
  ASSUME WpaSound(wpa), PanelSound(ui, wpa), foreground \/ handle_back_btn \/ defocused \/ type
  PROVE  WpaSound(wpa') /\ PanelSound(ui', wpa')
  <1>1. ui \in Uis /\ Keyed(ui) /\ wpa \in Wpas
    BY DEF PanelSound, WpaSound
  <1>2. CASE foreground
    <2>1. ui' = [ui EXCEPT !.front = TRUE] /\ wpa' = [wpa EXCEPT !.scan = "running"]
      BY <1>2 DEF foreground
    <2>2. /\ wpa' \in Wpas /\ wpa'.blocks = wpa.blocks /\ wpa'.current = wpa.current
          /\ wpa'.enabled = wpa.enabled /\ wpa'.phase = wpa.phase
      BY <1>1, <2>1 DEF Wpas
    <2>3. WpaSound(wpa')
      BY <2>2 DEF WpaSound, Linked, OneEach
    <2>4. /\ ui' \in Uis /\ ui'.list_networks = ui.list_networks /\ ui'.rows = ui.rows
          /\ ui'.forget = ui.forget /\ ui'.selected_network = ui.selected_network
          /\ ui'.typed = ui.typed /\ ui'.kb = ui.kb
      BY <1>1, <2>1 DEF Uis
    <2>5. Keyed(ui')
      BY <1>1, <2>4 DEF Keyed
    <2> QED
      BY <2>2, <2>3, <2>4, <2>5, Redrawn
  <1>3. CASE handle_back_btn
    <2>1. ui' = [ui EXCEPT !.front = FALSE, !.table = FALSE, !.prompt = FALSE] /\ wpa' = wpa
      BY <1>3 DEF handle_back_btn
    <2>2. /\ ui' \in Uis /\ ui'.list_networks = ui.list_networks /\ ui'.rows = ui.rows
          /\ ui'.forget = ui.forget /\ ui'.selected_network = ui.selected_network
          /\ ui'.typed = ui.typed /\ ui'.kb = ui.kb
      BY <1>1, <2>1 DEF Uis
    <2>3. Keyed(ui')
      BY <1>1, <2>2 DEF Keyed
    <2> QED
      BY <2>1, <2>2, <2>3, Redrawn
  <1>4. CASE defocused
    <2> DEFINE x == [ui EXCEPT !.kb = FALSE]
    <2>1. ui' = [x EXCEPT !.connecting = None] /\ wpa' = wpa
      BY <1>4 DEF defocused, hide_keyboard
    <2>2. /\ x \in Uis /\ x.list_networks = ui.list_networks /\ x.rows = ui.rows
          /\ x.forget = ui.forget /\ x.selected_network = ui.selected_network
          /\ x.typed = ui.typed /\ ~x.kb
      BY <1>1 DEF Uis
    <2> HIDE DEF x
    <2>3. /\ ui' \in Uis /\ ui'.list_networks = ui.list_networks /\ ui'.rows = ui.rows
          /\ ui'.forget = ui.forget /\ ui'.selected_network = ui.selected_network
          /\ ui'.typed = ui.typed /\ ui'.kb = x.kb
      BY <2>1, <2>2 DEF Uis
    <2>4. Keyed(ui')
      BY <1>1, <2>2, <2>3 DEF Keyed
    <2> QED
      BY <2>1, <2>3, <2>4, Redrawn
  <1>5. CASE type
    <2> DEFINE t == IF ui.typed \in {None, ui.selected_network} THEN ui.selected_network ELSE "mixed"
    <2>1. ui' = [ui EXCEPT !.typed = t] /\ wpa' = wpa /\ ui.kb
      BY <1>5 DEF type
    <2>2. t = ui.selected_network /\ t \in Networks
      BY <1>1, <2>1 DEF Keyed
    <2> HIDE DEF t
    <2>3. /\ ui' \in Uis /\ ui'.list_networks = ui.list_networks /\ ui'.rows = ui.rows
          /\ ui'.forget = ui.forget /\ ui'.selected_network = ui.selected_network
          /\ ui'.typed = t /\ ui'.kb = ui.kb
      BY <1>1, <2>1, <2>2 DEF Uis
    <2>4. Keyed(ui')
      BY <1>1, <2>2, <2>3 DEF Keyed
    <2> QED
      BY <2>1, <2>3, <2>4, Redrawn
  <1> QED
    BY <1>2, <1>3, <1>4, <1>5

-----------------------------------------------------------------------------
(* wpa_supplicant of its own accord, and the two queues.                   *)

(* Scans, attempts and links leave the networks alone.                     *)
LEMMA WpaSteps ==
  ASSUME WpaSound(wpa), Supplicant \/ World
  PROVE  WpaSound(wpa') /\ wpa'.blocks = wpa.blocks /\ ui' = ui
  <1>1. wpa \in Wpas /\ Linked(wpa) /\ OneEach(wpa) /\ DOMAIN wpa.blocks \subseteq Nat
    BY MapFacts DEF WpaSound, Wpas
  <1>2. CASE ScanDone
    <2> DEFINE x == IF wpa.phase = "idle" THEN "done" ELSE "none"
    <2>1. wpa' = [wpa EXCEPT !.scan = x] /\ ui' = ui /\ x \in {"none", "running", "done"}
      BY <1>2 DEF ScanDone
    <2> HIDE DEF x
    <2>2. /\ wpa' \in Wpas /\ wpa'.blocks = wpa.blocks /\ wpa'.current = wpa.current
          /\ wpa'.enabled = wpa.enabled /\ wpa'.phase = wpa.phase
      BY <1>1, <2>1 DEF Wpas
    <2> QED
      BY <1>1, <2>1, <2>2 DEF WpaSound, Linked, OneEach
  <1>3. CASE Associated
    <2>1. wpa' = [wpa EXCEPT !.phase = "on"] /\ wpa.phase = "trying" /\ ui' = ui
      BY <1>3 DEF Associated
    <2>2. /\ wpa' \in Wpas /\ wpa'.blocks = wpa.blocks /\ wpa'.current = wpa.current
          /\ wpa'.enabled = wpa.enabled
      BY <1>1, <2>1 DEF Wpas
    <2> QED
      BY <1>1, <2>1, <2>2 DEF WpaSound, Linked, OneEach
  <1>4. ASSUME NEW i \in wpa.enabled, Tries(i)
        PROVE  WpaSound(wpa') /\ wpa'.blocks = wpa.blocks /\ ui' = ui
    <2>1. wpa' = [wpa EXCEPT !.phase = "trying", !.current = i, !.scan = "none"] /\ ui' = ui
      BY <1>4 DEF Tries
    <2>2. i \in DOMAIN wpa.blocks /\ i \in Nat /\ i # NoId
      BY <1>1 DEF Linked, NoId
    <2>3. /\ wpa' \in Wpas /\ wpa'.blocks = wpa.blocks /\ wpa'.current = i
          /\ wpa'.enabled = wpa.enabled
      BY <1>1, <2>1, <2>2 DEF Wpas
    <2> QED
      BY <1>1, <2>1, <2>2, <2>3 DEF WpaSound, Linked, OneEach
  <1>5. CASE NotFound
    <2> DEFINE v == [wpa EXCEPT !.scan = "none"]
    <2>1. wpa' = Rescan(v) /\ ui' = ui
      BY <1>5 DEF NotFound
    <2>2. /\ v \in Wpas /\ v.blocks = wpa.blocks /\ v.current = wpa.current
          /\ v.enabled = wpa.enabled /\ v.phase = wpa.phase
      BY <1>1 DEF Wpas
    <2> HIDE DEF v
    <2>3. WpaSound(v)
      BY <1>1, <2>2 DEF WpaSound, Linked, OneEach
    <2> QED
      BY <2>1, <2>2, <2>3, RescanSound
  <1>6. CASE Refused \/ TimedOut \/ LinkLost
    <2>1. wpa' = Drop(wpa) /\ ui' = ui
      BY <1>6 DEF Refused, TimedOut, LinkLost
    <2>2. wpa.enabled \subseteq DOMAIN wpa.blocks
      BY <1>1 DEF Linked
    <2> QED
      BY <1>1, <2>1, <2>2, DropSound
  <1>7. CASE \E n \in Networks : Moves(n)
    BY <1>7 DEF Moves
  <1> QED
    BY <1>2, <1>3, <1>4, <1>5, <1>6, <1>7 DEF Supplicant, Selects, Attempt, World

(* The event thread appends, dropping the oldest event from a full queue.  *)
LEMMA QueueSteps ==
  ASSUME Queued, NEW ev \in Events, handle_wpa_events(ev)
  PROVE  Queued'
  <1> DEFINE q == IF Len(queue) >= QueueMax THEN Tail(queue) ELSE queue
  <1>1. queue \in Seq(Events) /\ Len(queue) \in Nat /\ Len(queue) <= QueueMax /\ QueueMax \in Nat \ {0}
    BY DEF Queued
  <1>2. q \in Seq(Events) /\ Len(q) < QueueMax
    <2>1. CASE Len(queue) >= QueueMax
      <3>1. queue # <<>>
        BY <1>1, <2>1
      <3>2. Tail(queue) \in Seq(Events) /\ Len(Tail(queue)) = Len(queue) - 1
        BY <1>1, <3>1
      <3> QED
        BY <1>1, <2>1, <3>2
    <2>2. CASE ~(Len(queue) >= QueueMax)
      BY <1>1, <2>2
    <2> QED
      BY <2>1, <2>2
  <1>3. queue' = Append(q, ev) /\ UNCHANGED <<batch, handling>>
    BY DEF handle_wpa_events
  <1> HIDE DEF q
  <1>4. queue' \in Seq(Events) /\ Len(queue') <= QueueMax
    BY <1>1, <1>2, <1>3
  <1> QED
    BY <1>3, <1>4 DEF Queued

-----------------------------------------------------------------------------
(* All steps.                                                              *)

(* wpa_supplicant starts with the networks of its configuration, and the   *)
(* panel knows of none.                                                    *)
LEMMA Initial == Init => IInv
  <1> SUFFICES ASSUME Init PROVE IInv
    OBVIOUS
  <1>1. air \in SUBSET Networks /\ Queued
    BY DEF Init, Queued
  <1>2. PICK k \in Configured : \E ids \in [0..(k - 1) -> Saved] :
          /\ \A i, j \in DOMAIN ids : ids[i] = ids[j] => i = j \/ ids[i] \in Doubled
          /\ wpa = [blocks |-> [i \in DOMAIN ids |-> [ssid |-> ids[i], psk |-> ids[i]]],
                    enabled |-> DOMAIN ids, current |-> NoId, phase |-> "idle",
                    scan |-> IF k = 0 THEN "none" ELSE "running"]
    BY DEF Init
  <1>3. PICK ids \in [0..(k - 1) -> Saved] :
          /\ \A i, j \in DOMAIN ids : ids[i] = ids[j] => i = j \/ ids[i] \in Doubled
          /\ wpa = [blocks |-> [i \in DOMAIN ids |-> [ssid |-> ids[i], psk |-> ids[i]]],
                    enabled |-> DOMAIN ids, current |-> NoId, phase |-> "idle",
                    scan |-> IF k = 0 THEN "none" ELSE "running"]
    BY <1>2
  <1> DEFINE D == DOMAIN ids
             f == [i \in D |-> [ssid |-> ids[i], psk |-> ids[i]]]
             x == IF k = 0 THEN "none" ELSE "running"
  <1>5. D \subseteq Nat /\ D \in IdSets
    <2>1. D = 0..(k - 1) /\ k \in Nat
      BY <1>2
    <2> HIDE DEF D
    <2>2. D \subseteq Nat /\ \A i \in D : i <= k
      BY <2>1
    <2> QED
      BY <2>1, <2>2 DEF IdSets
  <1>6. /\ wpa = [blocks |-> f, enabled |-> D, current |-> NoId, phase |-> "idle", scan |-> x]
        /\ x \in {"none", "running", "done"}
    BY <1>3
  <1>8. \A i \in D : ids[i] \in Names
    BY <1>3
  <1>9. /\ DOMAIN f = D /\ \A i \in D : f[i].ssid = ids[i] /\ f[i].psk = ids[i] /\ f[i] \in Block
    BY <1>8 DEF Block
  <1>10. f \in BlockMaps
    <2>1. f \in [D -> Block]
      BY <1>9
    <2> QED
      BY <1>5, <2>1 DEF BlockMaps
  <1>7. \A i, j \in D : ids[i] = ids[j] => i = j \/ ids[i] \in Doubled
    BY <1>3
  <1> HIDE DEF f, D, x
  <1>11. /\ wpa \in Wpas /\ wpa.blocks = f /\ wpa.enabled = D /\ wpa.current = NoId
         /\ wpa.phase = "idle"
    BY <1>5, <1>6, <1>10 DEF Wpas
  <1>12. WpaSound(wpa)
    <2>1. OneEach(wpa)
      BY <1>7, <1>9, <1>11 DEF OneEach, Single, ListedAs
    <2> QED
      BY <1>9, <1>11, <2>1 DEF WpaSound, Linked
  <1> DEFINE list == [n \in {} |-> NoId]
  <1>13. ui = [front |-> FALSE, table |-> FALSE, prompt |-> FALSE, kb |-> FALSE,
               forget |-> FALSE, connecting |-> None, typed |-> None,
               selected_network |-> None, cur_network |-> None,
               list_networks |-> list, wifi_name_db |-> {}, rows |-> {}]
    BY DEF Init
  <1>14. list \in Lists /\ DOMAIN list = {}
    <2>1. list \in [{} -> Nat] /\ DOMAIN list = {}
      OBVIOUS
    <2> QED
      BY <2>1 DEF Lists
  <1> HIDE DEF list
  <1>15. ui \in Uis /\ DOMAIN ui.list_networks = {} /\ ~ui.forget /\ ~ui.kb /\ ui.rows = {}
         /\ ui.typed = None
    BY <1>13, <1>14 DEF Uis
  <1>16. PanelSound(ui, wpa)
    BY <1>15 DEF PanelSound, Exact, Known, Keyed
  <1> QED
    BY <1>1, <1>12, <1>16 DEF IInv

(* The timer and the user, for the queues: events are taken in order.      *)
LEMMA UiQueues ==
  ASSUME Queued, Timer \/ User
  PROVE  Queued' /\ air' = air
  <1>1. CASE drain
    <2>1. batch' = queue /\ queue' = <<>> /\ UNCHANGED <<air, handling>>
      BY <1>1 DEF drain
    <2>2. queue' \in Seq(Events) /\ Len(queue') = 0 /\ 0 <= QueueMax
      BY <2>1
    <2> QED
      BY <2>1, <2>2 DEF Queued
  <1>2. CASE Take
    <2>1. batch # <<>> /\ handling' = Head(batch) /\ batch' = Tail(batch) /\ UNCHANGED <<air, queue>>
      BY <1>2 DEF Take
    <2>2. Head(batch) \in Events /\ Tail(batch) \in Seq(Events)
      BY <2>1 DEF Queued
    <2> QED
      BY <2>1, <2>2 DEF Queued
  <1>3. CASE wpa_event_failed \/ wpa_event_scan_results \/ wpa_event_connected
    <2>1. handling' = None /\ UNCHANGED <<air, queue, batch>>
      BY <1>3 DEF wpa_event_failed, wpa_event_scan_results, wpa_event_connected, Handled
    <2> QED
      BY <2>1 DEF Queued
  <1>4. CASE User
    <2>1. UNCHANGED <<air, queue, batch, handling>>
      BY <1>4 DEF User, foreground, handle_back_btn, defocused, type, ready, forget_network,
                  select_current, select_known, select_new
    <2> QED
      BY <2>1 DEF Queued
  <1> QED
    BY <1>1, <1>2, <1>3, <1>4 DEF Timer

(* Every step keeps the invariant.                                         *)
LEMMA Inductive == IInv /\ [Next]_vars => IInv'
  <1> SUFFICES ASSUME IInv, [Next]_vars PROVE IInv'
    OBVIOUS
  <1>1. air \in SUBSET Networks /\ Queued /\ WpaSound(wpa) /\ PanelSound(ui, wpa)
    BY DEF IInv
  <1>2. CASE Supplicant \/ World
    <2>1. WpaSound(wpa') /\ wpa'.blocks = wpa.blocks /\ ui' = ui
      BY <1>1, <1>2, WpaSteps
    <2>2. PanelSound(ui', wpa')
      BY <1>1, <2>1 DEF PanelSound, Exact, Known
    <2>3. Queued'
      <3>1. CASE \E ev \in Events : handle_wpa_events(ev)
        BY <1>1, <3>1, QueueSteps
      <3>2. CASE UNCHANGED <<queue, batch, handling>>
        BY <1>1, <3>2 DEF Queued
      <3> QED
        BY <1>2, <3>1, <3>2 DEF Supplicant, World, Selects, Attempt, ScanDone, Tries, NotFound, Associated, Refused,
                  TimedOut, LinkLost, Moves, Events
    <2>4. air' \in SUBSET Networks
      BY <1>1, <1>2 DEF Supplicant, World, Selects, Attempt, ScanDone, Tries, NotFound, Associated, Refused,
                  TimedOut, LinkLost, Moves
    <2> QED
      BY <2>1, <2>2, <2>3, <2>4 DEF IInv
  <1>3. CASE Timer \/ User
    <2>1. Queued' /\ air' = air
      BY <1>1, <1>3, UiQueues
    <2>2. CASE drain \/ Take
      <3>1. UNCHANGED <<wpa, ui>>
        BY <2>2 DEF drain, Take
      <3> QED
        BY <1>1, <2>1, <3>1 DEF IInv
    <2>3. WpaSound(wpa') /\ PanelSound(ui', wpa') => IInv'
      BY <1>1, <2>1 DEF IInv
    <2>4. CASE wpa_event_failed \/ wpa_event_scan_results \/ wpa_event_connected
      BY <1>1, <2>3, <2>4, FailedPanel, ScanPanel, CompletedPanel
    <2>5. CASE User
      <3>1. CASE foreground \/ handle_back_btn \/ defocused \/ type
        BY <1>1, <2>3, <3>1, OtherPanel
      <3>2. CASE ready \/ forget_network
        BY <1>1, <2>3, <3>2, ReadyPanel, ForgetPanel
      <3>3. ASSUME NEW n \in ui.rows, select_current(n) \/ select_known(n) \/ select_new(n)
            PROVE  IInv'
        BY <1>1, <2>3, <3>3, SelectPanel
      <3> QED
        BY <2>5, <3>1, <3>2, <3>3 DEF User
    <2> QED
      BY <1>3, <2>2, <2>4, <2>5 DEF Timer
  <1>4. CASE UNCHANGED vars
    BY <1>1, <1>4 DEF IInv, Queued
  <1> QED
    BY <1>2, <1>3, <1>4 DEF Next

(* The inductive invariant holds throughout.                               *)
THEOREM Invariant == Spec => []IInv
  BY Initial, Inductive, PTL DEF Spec

(* Types of the panel's and of wpa_supplicant's state (WifiPanel,          *)
(* WpaEvent).                                                              *)
THEOREM TypeCorrect == Spec => []TypeOK
  <1>1. IInv => TypeOK
    <2> SUFFICES ASSUME IInv PROVE TypeOK
      OBVIOUS
    <2>1. /\ ui.selected_network \in Networks \cup {None} /\ ui.cur_network \in Names \cup {None}
          /\ ui.rows \subseteq Networks /\ ui.wifi_name_db \subseteq Networks
          /\ ui.typed \in Networks \cup {None} /\ ui.list_networks \in Lists
      BY DEF IInv, PanelSound, Uis
    <2>2. DOMAIN ui.list_networks \subseteq Names
      BY <2>1 DEF Lists
    <2> QED
      BY <2>1, <2>2 DEF IInv, TypeOK, Queued, WpaSound, Linked
  <1> QED
    BY Invariant, <1>1, PTL

(* wpa_supplicant has at most one network of a plain name that it did not  *)
(* start with several of, and no network, whatever its name, with a        *)
(* password typed for another (connect, handle_callback).                  *)
THEOREM Sound == Spec => []BlocksSound
  <1>1. IInv => BlocksSound
    BY DEF IInv, WpaSound, OneEach, BlocksSound, Single
  <1> QED
    BY Invariant, <1>1, PTL

(* The id the panel holds for a name is that of the network listed under   *)
(* it or set up for it, though ids are used again (find_current_network,   *)
(* connect, forget_network).                                               *)
THEOREM ExactIds == Spec => []IdsExact
  <1>1. IInv => IdsExact
    BY DEF IInv, PanelSound, Exact, IdsExact
  <1> QED
    BY Invariant, <1>1, PTL

-----------------------------------------------------------------------------
(* The batch and the queue are one lossy FIFO: the steps of Mailbox.       *)

(* Sequences of events are equal when their elements are.                  *)
LEMMA SameElements ==
  ASSUME NEW s \in Seq(Events), NEW t \in Seq(Events), Len(s) = Len(t)
         , \A i \in 1..Len(s) : s[i] = t[i]
  PROVE  s = t
  <1>1. s \in [1..Len(s) -> Events] /\ t \in [1..Len(s) -> Events]
    OBVIOUS
  <1> QED
    BY <1>1

(* An event is put at the end; a full queue loses its oldest one.          *)
LEMMA PutStep ==
  ASSUME Queued, NEW ev \in Events, handle_wpa_events(ev)
  PROVE  Box!Put(ev) \/ Box!PutLossy(ev)
  <1> DEFINE box == batch \o queue
             m == Len(batch)
             k == Len(queue)
  <1>1. /\ queue \in Seq(Events) /\ batch \in Seq(Events) /\ m \in Nat /\ k \in Nat
        /\ batch' = batch /\ handling' = handling
    BY DEF Queued, handle_wpa_events
  <1>2. /\ box \in Seq(Events) /\ Len(box) = m + k
        /\ \A i \in 1..m : box[i] = batch[i]
        /\ \A i \in 1..k : box[m + i] = queue[i]
    BY <1>1
  <1>3. CASE ~(k >= QueueMax)
    <2>1. queue' = Append(queue, ev)
      BY <1>3 DEF handle_wpa_events
    <2>2. batch \o Append(queue, ev) = Append(batch \o queue, ev)
      <3> DEFINE s == batch \o Append(queue, ev)
                 t == Append(box, ev)
      <3>1. /\ s \in Seq(Events) /\ t \in Seq(Events) /\ Len(s) = m + k + 1 /\ Len(t) = m + k + 1
        BY <1>1, <1>2
      <3>2. \A i \in 1..(m + k + 1) : s[i] = t[i]
        BY <1>1, <1>2
      <3> HIDE DEF s, t
      <3>3. s = t
        BY <3>1, <3>2, SameElements
      <3> QED
        BY <3>3 DEF s, t
    <2> QED
      BY <1>1, <2>1, <2>2 DEF Box!Put
  <1>4. CASE k >= QueueMax
    <2>1. queue' = Append(Tail(queue), ev) /\ queue # <<>>
      BY <1>1, <1>4 DEF handle_wpa_events
    <2>2. Len(box) >= QueueMax /\ m + 1 \in 1..Len(box)
      BY <1>1, <1>2, <1>4
    <2> DEFINE w == Box!Without(m + 1)
               s == batch \o Append(Tail(queue), ev)
               t == Append(w, ev)
    <2>3. w = [j \in 1..(Len(box) - 1) |-> IF j < m + 1 THEN box[j] ELSE box[j + 1]]
      BY DEF Box!Without
    <2> HIDE DEF w
    <2>4. w \in Seq(Events) /\ Len(w) = m + k - 1
      <3>1. \A j \in 1..(m + k - 1) : j \in 1..(m + k) /\ j + 1 \in 1..(m + k)
        BY <1>1
      <3>2. w \in [1..(m + k - 1) -> Events]
        BY <1>2, <2>3, <3>1
      <3>3. m + k - 1 \in Nat
        BY <1>1, <1>4
      <3> QED
        BY <3>2, <3>3
    <2>5. /\ s \in Seq(Events) /\ t \in Seq(Events) /\ Len(s) = m + k /\ Len(t) = m + k
      BY <1>1, <2>1, <2>4
    <2>6. ASSUME NEW i \in 1..(m + k)
          PROVE  s[i] = t[i]
      <3>1. CASE i <= m
        <4>1. s[i] = batch[i] /\ t[i] = w[i] /\ i \in 1..(m + k - 1)
          BY <1>1, <1>4, <2>1, <2>4, <3>1
        <4> QED
          BY <1>1, <1>2, <2>3, <3>1, <4>1
      <3>2. CASE i > m /\ i < m + k
        <4>1. /\ i - m \in 1..(k - 1) /\ i \in 1..(m + k - 1) /\ i - m + 1 \in 1..k
              /\ m + (i - m + 1) = i + 1
          BY <1>1, <3>2
        <4>2. Tail(queue) \in Seq(Events) /\ Len(Tail(queue)) = k - 1
              /\ Tail(queue)[i - m] = queue[i - m + 1]
          BY <1>1, <2>1, <4>1
        <4>3. Append(Tail(queue), ev)[i - m] = Tail(queue)[i - m]
          BY <1>1, <4>1, <4>2
        <4>4. s[i] = Append(Tail(queue), ev)[i - m]
          BY <1>1, <3>2, <4>1, <4>2
        <4>5. t[i] = w[i] /\ w[i] = box[i + 1]
          BY <1>1, <1>2, <2>3, <2>4, <3>2, <4>1
        <4>6. box[i + 1] = queue[i - m + 1]
          BY <1>2, <4>1
        <4> QED
          BY <4>2, <4>3, <4>4, <4>5, <4>6
      <3>3. CASE i = m + k
        <4>1. Tail(queue) \in Seq(Events) /\ Len(Tail(queue)) = k - 1
          BY <1>1, <2>1
        <4>2. s[i] = ev
          BY <1>1, <1>4, <3>3, <4>1
        <4>3. t[i] = ev
          BY <1>1, <1>4, <2>4, <3>3
        <4> QED
          BY <4>2, <4>3
      <3>4. i <= m \/ (i > m /\ i < m + k) \/ i = m + k
        <4> HIDE DEF m, k
        <4> QED
          BY <1>1
      <3> QED
        BY <3>1, <3>2, <3>3, <3>4
    <2> HIDE DEF s, t
    <2>7. s = t
      BY <2>5, <2>6, SameElements
    <2>8. (batch \o queue)' = Append(w, ev)
      BY <1>1, <2>1, <2>7 DEF s, t
    <2> QED
      BY <1>1, <2>2, <2>8 DEF Box!PutLossy, w
  <1> QED
    BY <1>3, <1>4

(* The LVGL thread takes the oldest event, and drain() moves the queue to  *)
(* the batch without anyone noticing.                                      *)
LEMMA TakeStep ==
  ASSUME Queued, drain \/ Take
  PROVE  Box!Get \/ UNCHANGED Box!vars
  <1>1. queue \in Seq(Events) /\ batch \in Seq(Events)
    BY DEF Queued
  <1>2. CASE drain
    <2>1. batch = <<>> /\ batch' = queue /\ queue' = <<>> /\ handling' = handling
      BY <1>2 DEF drain, InUi
    <2>2. queue \o <<>> = <<>> \o queue
      <3>1. /\ queue \o <<>> \in Seq(Events) /\ <<>> \o queue \in Seq(Events)
            /\ Len(queue \o <<>>) = Len(<<>> \o queue)
            /\ \A i \in 1..Len(queue \o <<>>) : (queue \o <<>>)[i] = (<<>> \o queue)[i]
        BY <1>1
      <3> QED
        BY <3>1, SameElements
    <2>3. (batch \o queue)' = batch \o queue
      BY <2>1, <2>2
    <2> QED
      BY <2>1, <2>3 DEF Box!vars
  <1>3. CASE Take
    <2>1. /\ handling = None /\ batch # <<>> /\ handling' = Head(batch) /\ batch' = Tail(batch)
          /\ queue' = queue
      BY <1>3 DEF Take
    <2>2. /\ batch \o queue # <<>> /\ Head(batch \o queue) = Head(batch)
          /\ batch \o queue \in Seq(Events) /\ Tail(batch) \in Seq(Events)
      BY <1>1, <2>1
    <2>3. Tail(batch) \o queue = Tail(batch \o queue)
      <3> DEFINE s == Tail(batch) \o queue
                 t == Tail(batch \o queue)
      <3>1. /\ s \in Seq(Events) /\ t \in Seq(Events)
            /\ Len(s) = Len(batch) + Len(queue) - 1 /\ Len(t) = Len(batch) + Len(queue) - 1
        BY <1>1, <2>1, <2>2
      <3>2. \A i \in 1..(Len(batch) + Len(queue) - 1) : s[i] = t[i]
        BY <1>1, <2>1, <2>2
      <3> HIDE DEF s, t
      <3>3. s = t
        BY <3>1, <3>2, SameElements
      <3> QED
        BY <3>3 DEF s, t
    <2> QED
      BY <2>1, <2>2, <2>3 DEF Box!Get
  <1> QED
    BY <1>2, <1>3

(* The event thread's queue and drain()'s batch implement the abstract     *)
(* mailbox as far as its steps go: events are handled in the order they    *)
(* came, one at a time, and one is lost only to a full queue               *)
(* (handle_wpa_events, drain).                                             *)
THEOREM QueueIsMailbox == Spec => Box!Init /\ [][Box!Next]_(Box!vars)
  <1>1. Init => Box!Init
    <2> SUFFICES ASSUME Init PROVE Box!Init
      OBVIOUS
    <2>1. queue = <<>> /\ batch = <<>> /\ handling = None
      BY DEF Init
    <2>2. batch \o queue = <<>>
      BY <2>1
    <2> QED
      BY <2>1, <2>2 DEF Box!Init
  <1>2. IInv /\ [Next]_vars => [Box!Next]_(Box!vars)
    <2> SUFFICES ASSUME IInv, [Next]_vars PROVE Box!Next \/ UNCHANGED Box!vars
      OBVIOUS
    <2>1. Queued
      BY DEF IInv
    <2>2. CASE \E ev \in Events : handle_wpa_events(ev)
      BY <2>1, <2>2, PutStep DEF Box!Next
    <2>3. CASE UNCHANGED <<queue, batch, handling>>
      BY <2>3 DEF Box!vars
    <2>4. CASE drain \/ Take
      BY <2>1, <2>4, TakeStep DEF Box!Next
    <2>5. CASE wpa_event_failed \/ wpa_event_scan_results \/ wpa_event_connected
      <3>1. handling # None /\ handling' = None /\ UNCHANGED <<queue, batch>>
        BY <2>5 DEF wpa_event_failed, wpa_event_scan_results, wpa_event_connected, Handled, None
      <3> QED
        BY <3>1 DEF Box!Next, Box!Done
    <2>6. CASE User
      <3>1. UNCHANGED <<queue, batch, handling>>
        BY <2>6 DEF User, foreground, handle_back_btn, defocused, type, ready, forget_network,
                    select_current, select_known, select_new
      <3> QED
        BY <2>3, <3>1
    <2>7. CASE Supplicant \/ World
      <3>1. (\E ev \in Events : handle_wpa_events(ev)) \/ UNCHANGED <<queue, batch, handling>>
        BY <2>7 DEF Supplicant, World, Selects, Attempt, ScanDone, Tries, NotFound, Associated, Refused,
                  TimedOut, LinkLost, Moves, Events
      <3> QED
        BY <2>2, <2>3, <3>1
    <2> QED
      BY <2>3, <2>4, <2>5, <2>6, <2>7 DEF Next, Timer
  <1> QED
    BY Invariant, <1>1, <1>2, PTL DEF Spec
===============================================================================
