--------------------------- MODULE PrintPanelProofs ---------------------------
(***************************************************************************)
(* Proofs about PrintPanel for every set of files and any number of        *)
(* connections, touches and announcements: types, that Print is held while *)
(* the latest scan of the selected file is outstanding, and that cached    *)
(* metadata is never older than the listed file.                           *)
(***************************************************************************)
EXTENDS PrintPanel, TLAPS

(* What is on the wire.                                                    *)
Reqs == [kind : {"list"}, path : {None}, asked_on : {0}]
        \cup [kind : {"metadata", "metascan"}, path : Files, asked_on : Nat]
Jobs == [path : Files, asked_on : Nat, conn : Nat]
Replies == [kind : {"metadata", "metascan"}, path : Files, asked_on : Nat, found : Nat]
Notices == [kind : {"connected", "ready", "changed"}, path : {None}, asked_on : {0}, found : {0}]
Listings == [kind : {"list"}, path : {None}, asked_on : {0}, found : [Files -> Nat]]
Events == Replies \cup Notices \cup Listings
Wire == srv \in Seq(Reqs) /\ jobs \in Seq(Jobs) /\ inbox \in Seq(Events)

(* The version of f an event reports, 0 for none.                          *)
Reads(e, f) ==
  IF e.kind = "list" THEN e.found[f]
  ELSE IF e.kind \in {"metadata", "metascan"} /\ e.path = f THEN e.found ELSE 0

(* Versions only grow: events report them in order, and none older than    *)
(* the listed one.                                                         *)
OnDisk ==
  \A f \in Files :
    /\ disk[f] <= notes + 1 /\ stored[f] \in {0, disk[f]} /\ tree[f].mod <= notes + 1
    /\ disk[f] > 0 => tree[f].mod <= disk[f]
OnTheWay ==
  \A f \in Files : \A i \in DOMAIN inbox :
    /\ Reads(inbox[i], f) <= notes + 1
    /\ disk[f] > 0 => Reads(inbox[i], f) <= disk[f]
    /\ Reads(inbox[i], f) > 0 =>
         /\ tree[f].mod <= Reads(inbox[i], f)
         /\ \A j \in DOMAIN inbox : j < i => Reads(inbox[j], f) <= Reads(inbox[i], f)
Fresh == OnDisk /\ OnTheWay /\ CacheNotStale

(* Where scans of p asked for under connection count o are: requests and   *)
(* replies in q, running or waiting ones in q.                             *)
Asks(q, p, o) == {i \in DOMAIN q : q[i].kind = "metascan" /\ q[i].path = p /\ q[i].asked_on = o}
Runs(q, p, o) == {i \in DOMAIN q : q[i].path = p /\ q[i].asked_on = o}

(* Of the scans of a file asked for under the present count at most one is *)
(* outstanding, and the panel has it noted.                                *)
OneOf(A, B, C, noted, o) ==
  /\ \A i, k \in A : i = k
  /\ \A i, k \in B : i = k
  /\ \A i, k \in C : i = k
  /\ A # {} => B = {} /\ C = {} /\ noted = o
  /\ B # {} => C = {} /\ noted = o
  /\ C # {} => noted = o
One(q, js, b, s, o) ==
  \A p \in Files : OneOf(Asks(q, p, o), Runs(js, p, o), Asks(b, p, o), s[p], o)

(* Nothing was asked for under a count still to come, and before the first *)
(* connection is noted nothing is known.                                   *)
PastIn(q, o) == \A i \in DOMAIN q : q[i].asked_on <= o
Past == PastIn(srv, opened) /\ PastIn(jobs, opened) /\ PastIn(inbox, opened)
Early ==
  opened = 0 =>
    /\ cur_file = None /\ \A f \in Files : tree[f].mod = 0
    /\ jobs = <<>> /\ \A i \in DOMAIN srv : srv[i].kind = "list"
    /\ inbox # <<>> => inbox[1].kind = "connected"
    /\ inbox = <<>> => ~up
Button == print_btn <=> (cur_file = None \/ scans[cur_file] = 0)
Held == One(srv, jobs, inbox, scans, opened) /\ Past /\ Early /\ Button /\ (~up => srv = <<>>)

IInv == TypeOK /\ Wire /\ Fresh /\ Held

USE PrintAssumption DEF vars, moonraker, panel

-----------------------------------------------------------------------------
(* Sequences.                                                              *)

(* An element is appended, ...                                             *)
LEMMA Appended ==
  ASSUME NEW S, NEW q \in Seq(S), NEW e \in S
  PROVE  /\ Append(q, e) \in Seq(S) /\ Len(q) + 1 \notin DOMAIN q
         /\ DOMAIN Append(q, e) = DOMAIN q \cup {Len(q) + 1} /\ DOMAIN q \subseteq Nat
         /\ \A i \in DOMAIN q : Append(q, e)[i] = q[i] /\ i < Len(q) + 1
         /\ Append(q, e)[Len(q) + 1] = e /\ Len(q) + 1 \in Nat
  OBVIOUS

(* ... or the first one taken.                                             *)
LEMMA Taken ==
  ASSUME NEW S, NEW q \in Seq(S), q # <<>>
  PROVE  /\ Tail(q) \in Seq(S) /\ 1 \in DOMAIN q /\ Head(q) = q[1] /\ q[1] \in S
         /\ DOMAIN Tail(q) \subseteq Nat \ {0}
         /\ \A i \in DOMAIN Tail(q) : i + 1 \in DOMAIN q /\ Tail(q)[i] = q[i + 1]
  OBVIOUS

(* What an event reports is a version.                                     *)
LEMMA ReadsVersion ==
  ASSUME NEW e \in Events, NEW f \in Files
  PROVE  Reads(e, f) \in Nat
  BY DEF Events, Replies, Notices, Listings, Reads

-----------------------------------------------------------------------------
(* Freshness.                                                              *)

(* Moonraker appends an event that reports files as they are.              *)
LEMMA FreshAppend ==
  ASSUME TypeOK, Wire, Fresh, NEW e \in Events, inbox' = Append(inbox, e)
         , UNCHANGED <<disk, tree, notes>>, \A f \in Files : stored'[f] \in {0, disk[f]}
         , \A f \in Files : Reads(e, f) \in {0, disk[f]}
  PROVE  Fresh'
  <1>1. /\ DOMAIN inbox' = DOMAIN inbox \cup {Len(inbox) + 1} /\ Len(inbox) + 1 \notin DOMAIN inbox
        /\ \A i \in DOMAIN inbox : inbox'[i] = inbox[i] /\ i < Len(inbox) + 1 /\ inbox[i] \in Events
        /\ inbox'[Len(inbox) + 1] = e /\ DOMAIN inbox \subseteq Nat /\ Len(inbox) + 1 \in Nat
    BY Appended DEF Wire
  <1> DEFINE n == Len(inbox) + 1
  <1> HIDE DEF n
  <1>2. OnDisk' /\ CacheNotStale'
    BY DEF Fresh, OnDisk, CacheNotStale
  <1>3. ASSUME NEW f \in Files, NEW i \in DOMAIN inbox'
        PROVE  /\ Reads(inbox'[i], f) <= notes + 1
               /\ disk[f] > 0 => Reads(inbox'[i], f) <= disk[f]
               /\ Reads(inbox'[i], f) > 0 =>
                    /\ tree[f].mod <= Reads(inbox'[i], f)
                    /\ \A j \in DOMAIN inbox' : j < i => Reads(inbox'[j], f) <= Reads(inbox'[i], f)
    <2>0. /\ disk[f] \in Nat /\ tree[f].mod \in Nat /\ notes \in Nat /\ disk[f] <= notes + 1
          /\ disk[f] > 0 => tree[f].mod <= disk[f]
      BY DEF TypeOK, Fresh, OnDisk
    <2>1. CASE i \in DOMAIN inbox
      <3>1. \A j \in DOMAIN inbox' : j < i => j \in DOMAIN inbox /\ inbox'[j] = inbox[j]
        BY <1>1, <2>1
      <3> QED
        BY <1>1, <2>1, <3>1 DEF Fresh, OnTheWay
    <2>2. CASE i = n
      <3>1. inbox'[i] = e /\ Reads(e, f) \in {0, disk[f]}
        BY <1>1, <2>2 DEF n
      <3>2. ASSUME NEW j \in DOMAIN inbox', j < i, Reads(e, f) > 0
            PROVE  Reads(inbox'[j], f) <= Reads(e, f)
        <4>1. j \in DOMAIN inbox /\ inbox'[j] = inbox[j]
          BY <1>1, <2>2, <3>2 DEF n
        <4>2. disk[f] > 0 => Reads(inbox[j], f) <= disk[f]
          BY <4>1 DEF Fresh, OnTheWay
        <4> QED
          BY <2>0, <3>1, <3>2, <4>1, <4>2
      <3> QED
        BY <2>0, <3>1, <3>2
    <2> QED
      BY <1>1, <2>1, <2>2 DEF n
  <1>4. OnTheWay'
    BY <1>3 DEF OnTheWay
  <1> QED
    BY <1>2, <1>4 DEF Fresh

(* The panel takes an event; a listing sets the listed versions.           *)
LEMMA FreshTake ==
  ASSUME TypeOK, Wire, Fresh, inbox # <<>>, inbox' = Tail(inbox)
         , UNCHANGED <<disk, stored, notes>>, CacheNotStale'
         , \A f \in Files : tree'[f].mod \in {tree[f].mod, Reads(inbox[1], f)}
  PROVE  Fresh'
  <1>1. /\ 1 \in DOMAIN inbox /\ inbox[1] \in Events /\ DOMAIN inbox' \subseteq Nat \ {0}
        /\ \A i \in DOMAIN inbox' : i + 1 \in DOMAIN inbox /\ inbox'[i] = inbox[i + 1]
        /\ \A i \in DOMAIN inbox : inbox[i] \in Events
    BY Taken DEF Wire
  <1>2. ASSUME NEW f \in Files
        PROVE  /\ tree'[f].mod \in Nat /\ tree'[f].mod <= notes + 1
               /\ disk[f] > 0 => tree'[f].mod <= disk[f]
    <2>1. /\ tree[f].mod \in Nat /\ Reads(inbox[1], f) \in Nat
          /\ tree[f].mod <= notes + 1 /\ Reads(inbox[1], f) <= notes + 1
          /\ disk[f] > 0 => tree[f].mod <= disk[f] /\ Reads(inbox[1], f) <= disk[f]
      BY <1>1, ReadsVersion DEF TypeOK, Fresh, OnDisk, OnTheWay
    <2> QED
      BY <2>1
  <1>3. OnDisk'
    BY <1>2 DEF Fresh, OnDisk
  <1>4. ASSUME NEW f \in Files, NEW i \in DOMAIN inbox'
        PROVE  /\ Reads(inbox'[i], f) <= notes + 1
               /\ disk[f] > 0 => Reads(inbox'[i], f) <= disk[f]
               /\ Reads(inbox'[i], f) > 0 =>
                    /\ tree'[f].mod <= Reads(inbox'[i], f)
                    /\ \A j \in DOMAIN inbox' : j < i => Reads(inbox'[j], f) <= Reads(inbox'[i], f)
    <2>1. i + 1 \in DOMAIN inbox /\ inbox'[i] = inbox[i + 1] /\ i \in Nat \ {0} /\ 1 < i + 1
      BY <1>1
    <2>2. \A j \in DOMAIN inbox' : j < i => j + 1 \in DOMAIN inbox /\ inbox'[j] = inbox[j + 1] /\ j + 1 < i + 1
      BY <1>1, <2>1
    <2>3. Reads(inbox[i + 1], f) > 0 =>
            tree[f].mod <= Reads(inbox[i + 1], f) /\ Reads(inbox[1], f) <= Reads(inbox[i + 1], f)
      BY <1>1, <2>1 DEF Fresh, OnTheWay
    <2>4. /\ Reads(inbox[i + 1], f) <= notes + 1
          /\ disk[f] > 0 => Reads(inbox[i + 1], f) <= disk[f]
          /\ Reads(inbox[i + 1], f) > 0 =>
               \A j \in DOMAIN inbox : j < i + 1 => Reads(inbox[j], f) <= Reads(inbox[i + 1], f)
      BY <2>1 DEF Fresh, OnTheWay
    <2> QED
      BY <2>1, <2>2, <2>3, <2>4
  <1>5. OnTheWay'
    BY <1>4 DEF OnTheWay
  <1> QED
    BY <1>3, <1>5 DEF Fresh

(* Time passes, a file may change, and an announcement that reports no     *)
(* version may follow.                                                     *)
LEMMA FreshNote ==
  ASSUME TypeOK, Wire, Fresh, notes' = notes + 1, UNCHANGED tree, NEW e \in Events
         , inbox' = inbox \/ inbox' = Append(inbox, e), \A f \in Files : Reads(e, f) = 0
         , \A f \in Files : disk'[f] \in {disk[f], 0, notes' + 1} /\ stored'[f] \in {0, disk'[f]}
  PROVE  Fresh'
  <1>1. /\ \A i \in DOMAIN inbox' \ DOMAIN inbox : inbox'[i] = e
        /\ \A i \in DOMAIN inbox : inbox'[i] = inbox[i] /\ inbox[i] \in Events
        /\ \A i \in DOMAIN inbox : \A j \in DOMAIN inbox' \ DOMAIN inbox : i < j
        /\ DOMAIN inbox' \subseteq Nat
    <2>1. CASE inbox' = inbox
      BY <2>1 DEF Wire
    <2>2. CASE inbox' = Append(inbox, e)
      BY <2>2, Appended DEF Wire
    <2> QED
      BY <2>1, <2>2
  <1>2. ASSUME NEW f \in Files
        PROVE  /\ disk[f] \in Nat /\ tree[f].mod \in Nat /\ notes \in Nat /\ disk'[f] \in Nat
               /\ disk'[f] <= notes' + 1 /\ tree[f].mod <= notes' + 1
               /\ disk'[f] > 0 => tree[f].mod <= disk'[f]
    <2>1. /\ disk[f] \in Nat /\ tree[f].mod \in Nat /\ notes \in Nat /\ disk[f] <= notes + 1
          /\ tree[f].mod <= notes + 1 /\ (disk[f] > 0 => tree[f].mod <= disk[f])
      BY DEF TypeOK, Fresh, OnDisk
    <2>2. disk'[f] \in {disk[f], 0, notes + 2} /\ notes' + 1 = notes + 2
      BY <2>1
    <2>3. /\ disk'[f] \in Nat /\ disk'[f] <= notes + 2 /\ tree[f].mod <= notes + 2
          /\ disk'[f] > 0 => tree[f].mod <= disk'[f]
      BY <2>1, <2>2
    <2> QED
      BY <2>1, <2>2, <2>3
  <1>3. OnDisk' /\ CacheNotStale'
    BY <1>2 DEF Fresh, OnDisk, CacheNotStale
  <1>4. ASSUME NEW f \in Files, NEW i \in DOMAIN inbox'
        PROVE  /\ Reads(inbox'[i], f) <= notes' + 1
               /\ disk'[f] > 0 => Reads(inbox'[i], f) <= disk'[f]
               /\ Reads(inbox'[i], f) > 0 =>
                    /\ tree[f].mod <= Reads(inbox'[i], f)
                    /\ \A j \in DOMAIN inbox' : j < i => Reads(inbox'[j], f) <= Reads(inbox'[i], f)
    <2>1. CASE i \in DOMAIN inbox
      <3>1. \A j \in DOMAIN inbox' : j < i => j \in DOMAIN inbox /\ inbox'[j] = inbox[j]
        BY <1>1, <2>1
      <3>2. /\ Reads(inbox[i], f) \in Nat /\ Reads(inbox[i], f) <= notes + 1 /\ notes \in Nat
            /\ disk[f] > 0 => Reads(inbox[i], f) <= disk[f]
            /\ Reads(inbox[i], f) > 0 =>
                 /\ tree[f].mod <= Reads(inbox[i], f)
                 /\ \A j \in DOMAIN inbox : j < i => Reads(inbox[j], f) <= Reads(inbox[i], f)
        BY <1>1, <2>1, ReadsVersion DEF TypeOK, Fresh, OnTheWay
      <3>3. inbox'[i] = inbox[i] /\ disk'[f] \in {disk[f], 0, notes + 2} /\ disk[f] \in Nat
        BY <1>1, <1>2, <2>1
      <3>4. /\ Reads(inbox[i], f) <= notes' + 1
            /\ disk'[f] > 0 => Reads(inbox[i], f) <= disk'[f]
        BY <3>2, <3>3
      <3> QED
        BY <3>1, <3>2, <3>3, <3>4
    <2>2. CASE i \notin DOMAIN inbox
      <3>1. Reads(inbox'[i], f) = 0
        BY <1>1, <2>2
      <3> QED
        BY <1>2, <3>1
    <2> QED
      BY <2>1, <2>2
  <1>5. OnTheWay'
    BY <1>4 DEF OnTheWay
  <1> QED
    BY <1>3, <1>5 DEF Fresh

(* The notices are events, and report nothing.                             *)
LEMMA NoticeFacts ==
  ASSUME NEW e \in {Connected, Ready, Changed}
  PROVE  /\ e \in Events /\ e.kind \in {"connected", "ready", "changed"} /\ e.asked_on = 0
         /\ \A f \in Files : Reads(e, f) = 0
  BY DEF Connected, Ready, Changed, Ev, Events, Notices, Reads

(* A file changes, or Klipper restarts.                                    *)
LEMMA NoteFresh ==
  ASSUME TypeOK, Wire, Fresh
         , \/ KlippyReady
           \/ \E f \in Files, v \in 0..(MaxNotes + 1), scanned \in BOOLEAN : Change(f, v, scanned)
  PROVE  Fresh'
  <1>1. CASE KlippyReady
    <2>1. notes' = notes + 1 /\ inbox' = Append(inbox, Ready) /\ UNCHANGED <<tree, disk, stored>>
      BY <1>1 DEF KlippyReady
    <2>2. \A f \in Files : disk'[f] \in {disk[f], 0, notes' + 1} /\ stored'[f] \in {0, disk'[f]}
      BY <2>1 DEF Fresh, OnDisk
    <2> QED
      BY <2>1, <2>2, NoticeFacts, FreshNote
  <1>2. ASSUME NEW f \in Files, NEW v \in 0..(MaxNotes + 1), NEW scanned \in BOOLEAN
               , Change(f, v, scanned)
        PROVE  Fresh'
    <2>1. /\ notes' = notes + 1 /\ v \in {0, 1 + notes'} /\ disk' = [disk EXCEPT ![f] = v]
          /\ stored' = [stored EXCEPT ![f] = IF scanned THEN v ELSE 0]
          /\ inbox' = inbox \/ inbox' = Append(inbox, Changed)
          /\ UNCHANGED tree
      BY <1>2 DEF Change
    <2>2. notes' + 1 = 1 + notes' /\ notes \in Nat
      BY <2>1 DEF TypeOK
    <2>3. ASSUME NEW g \in Files
          PROVE  disk'[g] \in {disk[g], 0, notes' + 1} /\ stored'[g] \in {0, disk'[g]}
      <3>1. CASE g = f
        BY <2>1, <2>2, <3>1 DEF TypeOK
      <3>2. CASE g # f
        <4>1. disk'[g] = disk[g] /\ stored'[g] = stored[g]
          BY <2>1, <3>2 DEF TypeOK
        <4> QED
          BY <4>1 DEF Fresh, OnDisk
      <3> QED
        BY <3>1, <3>2
    <2> QED
      BY <2>1, <2>3, NoticeFacts, FreshNote
  <1> QED
    BY <1>1, <1>2

(* Moonraker lists, answers, and ends a scan.                              *)
LEMMA MoonrakerFresh ==
  ASSUME TypeOK, Wire, Fresh, Open \/ Serve \/ Scan
  PROVE  Fresh'
  <1>1. \A f \in Files : stored[f] \in {0, disk[f]}
    BY DEF Fresh, OnDisk
  <1>2. CASE Open
    BY <1>1, <1>2, NoticeFacts, FreshAppend DEF Open
  <1>3. CASE Serve
    <2> DEFINE r == srv[1]
    <2>1. /\ r \in Reqs /\ UNCHANGED <<disk, stored, tree, notes>>
          /\ r.kind = "list" =>
               \E l \in {disk, Nothing} : inbox' = Append(inbox, Ev("list", None, 0, l))
          /\ r.kind = "metadata" =>
               inbox' = Append(inbox, Ev("metadata", r.path, r.asked_on, stored[r.path]))
          /\ r.kind = "metascan" => inbox' = inbox
      <3>1. Head(srv) = r /\ r \in Reqs
        BY <1>3, Taken DEF Serve, Wire
      <3> QED
        BY <1>3, <3>1 DEF Serve
    <2> HIDE DEF r
    <2>2. CASE r.kind = "list"
      <3>0. PICK l \in {disk, Nothing} : inbox' = Append(inbox, Ev("list", None, 0, l))
        BY <2>1, <2>2
      <3> DEFINE e == Ev("list", None, 0, l)
      <3>1. l \in [Files -> Nat] /\ \A f \in Files : l[f] \in {0, disk[f]}
        BY DEF TypeOK, Nothing
      <3>2. e \in Events /\ \A f \in Files : Reads(e, f) \in {0, disk[f]}
        BY <3>1 DEF Ev, Events, Listings, Reads
      <3> HIDE DEF e
      <3> QED
        BY <1>1, <2>1, <2>2, <3>0, <3>2, FreshAppend DEF e
    <2>3. CASE r.kind = "metadata"
      <3> DEFINE e == Ev("metadata", r.path, r.asked_on, stored[r.path])
      <3>1. r.path \in Files /\ r.asked_on \in Nat /\ stored[r.path] \in Nat
        BY <2>1, <2>3 DEF Reqs, TypeOK
      <3>2. /\ e \in Events
            /\ \A f \in Files : Reads(e, f) = IF f = r.path THEN stored[r.path] ELSE 0
        BY <3>1 DEF Ev, Events, Replies, Reads
      <3>3. \A f \in Files : Reads(e, f) \in {0, disk[f]}
        BY <1>1, <3>1, <3>2
      <3> HIDE DEF e
      <3> QED
        BY <1>1, <2>1, <2>3, <3>2, <3>3, FreshAppend DEF e
    <2>4. CASE r.kind = "metascan"
      BY <2>1, <2>4 DEF Fresh, OnDisk, OnTheWay, CacheNotStale
    <2> QED
      BY <2>1, <2>2, <2>3, <2>4 DEF Reqs
  <1>4. ASSUME NEW ok \in BOOLEAN, ScanEnds(ok)
        PROVE  Fresh'
    <2> DEFINE j == jobs[1]
               found == IF ok THEN disk[j.path] ELSE 0
               e == Ev("metascan", j.path, j.asked_on, found)
    <2>1. /\ j \in Jobs /\ UNCHANGED <<disk, tree, notes>>
          /\ stored' = IF found > 0 THEN [stored EXCEPT ![j.path] = found] ELSE stored
          /\ inbox' = inbox \/ inbox' = Append(inbox, e)
      <3>1. Head(jobs) = j /\ j \in Jobs
        BY <1>4, Taken DEF ScanEnds, Wire
      <3> QED
        BY <1>4, <3>1 DEF ScanEnds
    <2>2. j.path \in Files /\ j.asked_on \in Nat /\ found \in {0, disk[j.path]} /\ found \in Nat
      BY <2>1 DEF Jobs, TypeOK
    <2> HIDE DEF found, j
    <2>3. \A f \in Files : stored'[f] \in {0, disk[f]}
      BY <1>1, <2>1, <2>2 DEF TypeOK
    <2>4. /\ e \in Events
          /\ \A f \in Files : Reads(e, f) = IF f = j.path THEN found ELSE 0
      BY <2>2 DEF Ev, Events, Replies, Reads
    <2>5. \A f \in Files : Reads(e, f) \in {0, disk[f]}
      BY <2>2, <2>4
    <2> HIDE DEF e
    <2>6. CASE inbox' = inbox
      BY <2>1, <2>3, <2>6 DEF Fresh, OnDisk, OnTheWay, CacheNotStale
    <2>7. CASE inbox' = Append(inbox, e)
      BY <2>1, <2>3, <2>4, <2>5, <2>7, FreshAppend
    <2> QED
      BY <2>1, <2>6, <2>7
  <1> QED
    BY <1>2, <1>3, <1>4 DEF Scan

(* The panel keeps metadata only with its version, and takes no older one  *)
(* than the listed version.                                                *)
LEMMA DispatchFresh ==
  ASSUME TypeOK, Wire, Fresh, Dispatch
  PROVE  Fresh'
  <1>1. inbox # <<>> /\ inbox' = Tail(inbox) /\ UNCHANGED <<disk, stored, notes>>
    BY DEF Dispatch, Next1, connected, klippy_ready, handle_filelist_changed, handle_list,
           handle_metadata_aside, handle_metadata_found, handle_metadata_missed
  <1>2. Head(inbox) = inbox[1] /\ inbox[1] \in Events /\ 1 \in DOMAIN inbox
    BY <1>1, Taken DEF Wire
  <1>3. CASE tree' = tree
    <2>1. CacheNotStale'
      BY <1>3 DEF Fresh, CacheNotStale
    <2> QED
      BY <1>1, <1>3, <2>1, FreshTake
  <1>4. CASE handle_list
    <2> DEFINE l == inbox[1].found
    <2>1. tree' = Rebuild(l) /\ inbox[1].kind = "list"
      BY <1>2, <1>4 DEF handle_list, Next1
    <2>2. l \in [Files -> Nat] /\ \A f \in Files : Reads(inbox[1], f) = l[f]
      BY <1>2, <2>1 DEF Events, Replies, Notices, Listings, Reads
    <2> HIDE DEF l
    <2>3. ASSUME NEW f \in Files
          PROVE  /\ tree'[f].mod = l[f]
                 /\ tree'[f].meta \in {0, tree[f].meta}
                 /\ tree'[f].meta # 0 => l[f] = tree[f].mod
      BY <2>1 DEF Rebuild
    <2>4. ASSUME NEW f \in Files, tree'[f].meta > 0
          PROVE  tree'[f].meta >= tree'[f].mod
      <3>1. tree[f].meta \in Nat /\ tree[f].mod \in Nat
        BY DEF TypeOK
      <3>2. tree[f].meta > 0 => tree[f].meta >= tree[f].mod
        BY DEF Fresh, CacheNotStale
      <3> QED
        BY <2>3, <2>4, <3>1, <3>2
    <2>5. CacheNotStale'
      BY <2>4 DEF CacheNotStale
    <2> QED
      BY <1>1, <2>2, <2>3, <2>5, FreshTake
  <1>5. CASE handle_metadata_found
    <2> DEFINE e == inbox[1]
    <2>1. /\ e.kind \in {"metadata", "metascan"} /\ e.path = cur_file /\ e.found > 0
          /\ tree' = [tree EXCEPT ![e.path].meta = e.found]
      BY <1>2, <1>5 DEF handle_metadata_found
    <2>2. e.path \in Files /\ e.found \in Nat /\ Reads(e, e.path) = e.found
      BY <1>2, <2>1 DEF Events, Replies, Notices, Listings, Reads
    <2>3. tree[e.path].mod <= e.found
      BY <1>2, <2>1, <2>2 DEF Fresh, OnTheWay
    <2> HIDE DEF e
    <2>4. ASSUME NEW f \in Files
          PROVE  /\ tree'[f].mod = tree[f].mod
                 /\ tree'[f].meta = IF f = e.path THEN e.found ELSE tree[f].meta
      BY <2>1, <2>2 DEF TypeOK
    <2>5. CacheNotStale'
      <3>1. ASSUME NEW f \in Files, tree'[f].meta > 0
            PROVE  tree'[f].meta >= tree'[f].mod
        <4>1. tree[f].mod \in Nat /\ tree[f].meta \in Nat
              /\ (tree[f].meta > 0 => tree[f].meta >= tree[f].mod)
          BY DEF TypeOK, Fresh, CacheNotStale
        <4> QED
          BY <2>2, <2>3, <2>4, <3>1, <4>1
      <3> QED
        BY <3>1 DEF CacheNotStale
    <2> QED
      BY <1>1, <2>4, <2>5, FreshTake
  <1>6. tree' = tree \/ handle_list \/ handle_metadata_found
    BY DEF Dispatch, connected, klippy_ready, handle_filelist_changed, handle_metadata_aside,
           handle_metadata_missed
  <1> QED
    BY <1>3, <1>4, <1>5, <1>6

-----------------------------------------------------------------------------
(* Types, and what is on the wire.                                         *)

(* Requests, as they are built.                                            *)
LEMMA ReqFacts ==
  ASSUME TypeOK
  PROVE  /\ Req("list", None, 0) \in Reqs /\ Req("list", None, 0).kind = "list"
         /\ Req("list", None, 0).asked_on = 0
         /\ \A f \in Files, k \in {"metadata", "metascan"} :
              /\ Req(k, f, opened) \in Reqs /\ Req(k, f, opened).kind = k
              /\ Req(k, f, opened).path = f /\ Req(k, f, opened).asked_on = opened
  BY DEF TypeOK, Req, Reqs

(* The panel sends nothing or one request.                                 *)
Sends(r) == srv' = srv \/ (srv' = Append(srv, r) /\ up)

(* What is asked for when a file is shown is no scan.                      *)
LEMMA ShowFacts ==
  ASSUME TypeOK, NEW f \in Files, NEW t \in [Files -> [mod : Nat, meta : Nat]]
         , show_file_detail(f, t)
  PROVE  Sends(Req("metadata", f, opened)) /\ view' \in Files \cup {None}
  BY DEF TypeOK, show_file_detail, request_metadata, Send, Sends

(* The panel after a list reply, a selection, another directory: the       *)
(* button follows the selection, and its details may be asked for.         *)
LEMMA ListFacts ==
  ASSUME TypeOK, Wire, handle_list
  PROVE  /\ tree' = Rebuild(inbox[1].found) /\ inbox[1].kind = "list"
         /\ tree' \in [Files -> [mod : Nat, meta : Nat]]
         /\ cur_file' \in Files \cup {None} /\ view' \in Files \cup {None}
         /\ print_btn' \in BOOLEAN
         /\ print_btn' <=> (cur_file' = None \/ scans[cur_file'] = 0)
         /\ srv' = srv \/ \E f \in Files : Sends(Req("metadata", f, opened))
         /\ inbox # <<>> /\ inbox' = Tail(inbox)
         /\ UNCHANGED <<up, sock, disk, stored, jobs, opened, scans, unscannable,
                        refresh_pending, taps, notes>>
  <1>1. inbox # <<>> /\ Head(inbox) = inbox[1] /\ inbox[1].kind = "list" /\ inbox[1] \in Events
    BY Taken DEF handle_list, Next1, Wire
  <1> DEFINE t == Rebuild(inbox[1].found)
             kept == cur_file # None /\ t[cur_file].mod > 0
  <1>2. t \in [Files -> [mod : Nat, meta : Nat]]
    <2>1. inbox[1].found \in [Files -> Nat]
      BY <1>1 DEF Events, Replies, Notices, Listings
    <2> QED
      BY <2>1 DEF Rebuild, TypeOK
  <1>3. PICK f \in {g \in Files : t[g].mod > 0} \cup {None} :
          /\ cur_file' = f
          /\ IF f # None /\ (~kept \/ ~contains_metadata(t, f) \/ scan_lost(f))
             THEN show_file_detail(f, t)
             ELSE UNCHANGED <<view, srv>>
          /\ update_print_btn(f, scans)
    BY <1>1 DEF handle_list
  <1>4. tree' = t
    BY <1>1 DEF handle_list
  <1> HIDE DEF t, kept
  <1>5. /\ view' \in Files \cup {None}
        /\ srv' = srv \/ \E g \in Files : Sends(Req("metadata", g, opened))
    <2>1. CASE UNCHANGED <<view, srv>>
      BY <2>1 DEF TypeOK
    <2>2. CASE f \in Files /\ show_file_detail(f, t)
      BY <1>2, <2>2, ShowFacts
    <2> QED
      BY <1>3, <2>1, <2>2
  <1>6. print_btn' = (f = None \/ scans[f] = 0)
    BY <1>3 DEF update_print_btn
  <1>7. print_btn' \in BOOLEAN
    BY <1>6
  <1>8. print_btn' <=> (f = None \/ scans[f] = 0)
    BY <1>6, Zenon
  <1>9. /\ inbox' = Tail(inbox)
        /\ UNCHANGED <<up, sock, disk, stored, jobs, opened, scans, unscannable,
                       refresh_pending, taps, notes>>
    BY DEF handle_list, Next1
  <1> QED
    BY <1>1, <1>2, <1>3, <1>4, <1>5, <1>7, <1>8, <1>9 DEF t


-----------------------------------------------------------------------------
(* One scan at a time.                                                     *)

(* The places of A are places of B, or the ones before them.               *)
Shifted(A, B) == \E a \in {0, 1} : \A i \in A : i \in Nat /\ i + a \in B

(* What only moves up or leaves stays unique.                              *)
LEMMA OneShifted ==
  ASSUME NEW A, NEW B, NEW C, NEW A2, NEW B2, NEW C2, NEW m, NEW m2, NEW o
         , OneOf(A, B, C, m, o), Shifted(A2, A), Shifted(B2, B), Shifted(C2, C)
         , m2 = m \/ (A2 = {} /\ B2 = {} /\ C2 = {})
  PROVE  OneOf(A2, B2, C2, m2, o)
  <1>1. ASSUME NEW X, NEW Y, Shifted(Y, X), \A i, k \in X : i = k
        PROVE  (\A i, k \in Y : i = k) /\ (Y # {} => X # {})
    <2>1. PICK a \in {0, 1} : \A i \in Y : i \in Nat /\ i + a \in X
      BY <1>1 DEF Shifted
    <2>2. ASSUME NEW i \in Y, NEW k \in Y PROVE i = k
      <3>1. i \in Nat /\ k \in Nat /\ i + a = k + a
        BY <1>1, <2>1
      <3> QED
        BY <3>1
    <2> QED
      BY <2>1, <2>2
  <1>2. (\A i, k \in A : i = k) /\ (\A i, k \in B : i = k) /\ (\A i, k \in C : i = k)
    BY DEF OneOf
  <1>3. /\ (\A i, k \in A2 : i = k) /\ (\A i, k \in B2 : i = k) /\ (\A i, k \in C2 : i = k)
        /\ (A2 # {} => A # {}) /\ (B2 # {} => B # {}) /\ (C2 # {} => C # {})
    BY <1>1, <1>2
  <1> QED
    BY <1>3 DEF OneOf

(* How the places of scans move with a sequence.                           *)
LEMMA Stays ==
  ASSUME NEW S, NEW q \in Seq(S), NEW p, NEW o
  PROVE  Shifted(Asks(q, p, o), Asks(q, p, o)) /\ Shifted(Runs(q, p, o), Runs(q, p, o))
  <1>1. \A i \in DOMAIN q : i \in Nat /\ i + 0 = i
    OBVIOUS
  <1> QED
    BY <1>1 DEF Shifted, Asks, Runs

(* An element that is no such scan is appended: no new place.              *)
LEMMA AppendsOther ==
  ASSUME NEW S, NEW q \in Seq(S), NEW e \in S, NEW p, NEW o
  PROVE  /\ (e.kind # "metascan" \/ e.path # p \/ e.asked_on # o)
              => Shifted(Asks(Append(q, e), p, o), Asks(q, p, o))
         /\ (e.path # p \/ e.asked_on # o)
              => Shifted(Runs(Append(q, e), p, o), Runs(q, p, o))
  <1> DEFINE q2 == Append(q, e)
             n == Len(q) + 1
  <1>1. /\ DOMAIN q2 = DOMAIN q \cup {n} /\ DOMAIN q \subseteq Nat
        /\ (\A i \in DOMAIN q : q2[i] = q[i]) /\ q2[n] = e
    BY Appended
  <1> HIDE DEF q2, n
  <1>2. \A i \in DOMAIN q : i \in Nat /\ i + 0 = i
    BY <1>1
  <1>3. ASSUME e.kind # "metascan" \/ e.path # p \/ e.asked_on # o
        PROVE  \A i \in Asks(q2, p, o) : i \in Asks(q, p, o)
    BY <1>1, <1>3 DEF Asks
  <1>4. ASSUME e.path # p \/ e.asked_on # o
        PROVE  \A i \in Runs(q2, p, o) : i \in Runs(q, p, o)
    BY <1>1, <1>4 DEF Runs
  <1>5. \A i \in Asks(q, p, o) \cup Runs(q, p, o) : i \in DOMAIN q
    BY DEF Asks, Runs
  <1> QED
    BY <1>2, <1>3, <1>4, <1>5 DEF Shifted, q2

(* An element is appended: at most one new place.                          *)
LEMMA AppendsOne ==
  ASSUME NEW S, NEW q \in Seq(S), NEW e \in S, NEW p, NEW o
  PROVE  /\ Asks(q, p, o) = {} => \A i, k \in Asks(Append(q, e), p, o) : i = k
         /\ Runs(q, p, o) = {} => \A i, k \in Runs(Append(q, e), p, o) : i = k
  <1> DEFINE q2 == Append(q, e)
             n == Len(q) + 1
  <1>1. /\ DOMAIN q2 = DOMAIN q \cup {n}
        /\ (\A i \in DOMAIN q : q2[i] = q[i]) /\ q2[n] = e
    BY Appended
  <1> HIDE DEF q2, n
  <1>2. Asks(q, p, o) = {} => \A i, k \in Asks(q2, p, o) : i = k
    BY <1>1 DEF Asks
  <1>3. Runs(q, p, o) = {} => \A i, k \in Runs(q2, p, o) : i = k
    BY <1>1 DEF Runs
  <1> QED
    BY <1>2, <1>3 DEF q2, n

(* The first element is taken: the others move up, and if it was the only  *)
(* such scan none is left.                                                 *)
LEMMA TakesFirst ==
  ASSUME NEW S, NEW q \in Seq(S), q # <<>>, NEW p, NEW o
  PROVE  /\ Shifted(Asks(Tail(q), p, o), Asks(q, p, o)) /\ Shifted(Runs(Tail(q), p, o), Runs(q, p, o))
         /\ 1 \in Asks(q, p, o) /\ (\A i, k \in Asks(q, p, o) : i = k) => Asks(Tail(q), p, o) = {}
         /\ 1 \in Runs(q, p, o) /\ (\A i, k \in Runs(q, p, o) : i = k) => Runs(Tail(q), p, o) = {}
  <1> DEFINE q2 == Tail(q)
  <1>1. /\ DOMAIN q2 \subseteq Nat \ {0}
        /\ \A i \in DOMAIN q2 : i + 1 \in DOMAIN q /\ q2[i] = q[i + 1]
    BY Taken
  <1> HIDE DEF q2
  <1>2. \A i \in Asks(q2, p, o) : i \in Nat \ {0} /\ i + 1 \in Asks(q, p, o)
    BY <1>1 DEF Asks
  <1>3. \A i \in Runs(q2, p, o) : i \in Nat \ {0} /\ i + 1 \in Runs(q, p, o)
    BY <1>1 DEF Runs
  <1>4. \A i \in Nat \ {0} : i + 1 # 1 /\ i \in Nat
    OBVIOUS
  <1> QED
    BY <1>2, <1>3, <1>4 DEF Shifted, q2


(* Nothing of the future is in a sequence that loses its first element or  *)
(* gains one of the past; the first one stays first when one is appended.  *)
LEMMA PastKept ==
  ASSUME NEW S, NEW q \in Seq(S), NEW e \in S, NEW o
  PROVE  /\ PastIn(q, o) /\ q # <<>> => PastIn(Tail(q), o) /\ q[1].asked_on <= o
         /\ PastIn(q, o) /\ e.asked_on <= o => PastIn(Append(q, e), o)
         /\ Append(q, e) # <<>> /\ Append(q, e)[1] = IF q = <<>> THEN e ELSE q[1]
         /\ PastIn(<<>>, o)
  <1>1. PastIn(q, o) /\ q # <<>> => PastIn(Tail(q), o) /\ q[1].asked_on <= o
    BY Taken DEF PastIn
  <1>2. PastIn(q, o) /\ e.asked_on <= o => PastIn(Append(q, e), o)
    BY Appended DEF PastIn
  <1>3. Append(q, e) # <<>> /\ Append(q, e)[1] = IF q = <<>> THEN e ELSE q[1]
    <2>1. CASE q = <<>>
      <3>1. Append(q, e) = <<e>>
        BY <2>1
      <3> QED
        BY <2>1, <3>1
    <2>2. CASE q # <<>>
      <3>1. 1 \in DOMAIN q
        BY <2>2, Taken
      <3>2. 1 \in DOMAIN Append(q, e) /\ Append(q, e)[1] = q[1]
        BY <3>1, Appended
      <3>3. 1 \notin DOMAIN <<>>
        OBVIOUS
      <3> QED
        BY <2>2, <3>2, <3>3
    <2> QED
      BY <2>1, <2>2
  <1>4. PastIn(<<>>, o)
    BY DEF PastIn
  <1> QED
    BY <1>1, <1>2, <1>3, <1>4

-----------------------------------------------------------------------------
(* The socket and Moonraker.                                               *)

(* An event that is no scan's reply comes in.                              *)
LEMMA InboxGains ==
  ASSUME TypeOK, Wire, Held, NEW e \in Events, e.kind # "metascan", e.asked_on <= opened
         , inbox' = Append(inbox, e), UNCHANGED <<jobs, panel>>
         , srv' = srv \/ (srv # <<>> /\ srv' = Tail(srv))
         , opened = 0 /\ inbox = <<>> => e.kind = "connected"
         , ~up' => srv = <<>>
  PROVE  Wire' /\ Held'
  <1>1. /\ Wire' /\ PastIn(srv', opened) /\ PastIn(inbox', opened)
        /\ inbox' # <<>> /\ inbox'[1] = IF inbox = <<>> THEN e ELSE inbox[1]
    <2>1. /\ inbox \in Seq(Events) /\ srv \in Seq(Reqs) /\ jobs \in Seq(Jobs) /\ jobs' = jobs
          /\ PastIn(srv, opened) /\ PastIn(inbox, opened)
      BY DEF Wire, Held, Past
    <2>2. /\ inbox' \in Seq(Events) /\ PastIn(inbox', opened) /\ inbox' # <<>>
          /\ inbox'[1] = IF inbox = <<>> THEN e ELSE inbox[1]
      BY <2>1, Appended, PastKept
    <2>3. srv' \in Seq(Reqs) /\ PastIn(srv', opened)
      <3>1. CASE srv' = srv
        BY <2>1, <3>1
      <3>2. CASE srv # <<>> /\ srv' = Tail(srv)
        <4>1. srv[1] \in Reqs
          BY <2>1, <3>2, Taken
        <4> QED
          BY <2>1, <3>2, <4>1, Taken, PastKept
      <3> QED
        BY <3>1, <3>2
    <2> QED
      BY <2>1, <2>2, <2>3 DEF Wire
  <1>2. ASSUME NEW p \in Files
        PROVE  OneOf(Asks(srv', p, opened), Runs(jobs, p, opened), Asks(inbox', p, opened), scans[p], opened)
    <2>1. Shifted(Asks(srv', p, opened), Asks(srv, p, opened))
      BY Stays, TakesFirst DEF Wire
    <2>2. Shifted(Runs(jobs, p, opened), Runs(jobs, p, opened))
      BY Stays DEF Wire
    <2>3. Shifted(Asks(inbox', p, opened), Asks(inbox, p, opened))
      BY AppendsOther DEF Wire
    <2>4. OneOf(Asks(srv, p, opened), Runs(jobs, p, opened), Asks(inbox, p, opened), scans[p], opened)
      BY DEF Held, One
    <2> QED
      BY <2>1, <2>2, <2>3, <2>4, OneShifted
  <1>3. One(srv', jobs', inbox', scans', opened')
    BY <1>2 DEF One
  <1>4. Early'
    <2>1. (\A i \in DOMAIN srv : srv[i].kind = "list") => \A i \in DOMAIN srv' : srv'[i].kind = "list"
      <3>1. CASE srv' = srv
        BY <3>1
      <3>2. CASE srv # <<>> /\ srv' = Tail(srv)
        <4>1. \A i \in DOMAIN srv' : i + 1 \in DOMAIN srv /\ srv'[i] = srv[i + 1]
          BY <3>2, Taken DEF Wire
        <4> QED
          BY <4>1
      <3> QED
        BY <3>1, <3>2
    <2> QED
      BY <1>1, <2>1 DEF Held, Early
  <1>5. ~up' => srv' = <<>>
    OBVIOUS
  <1>6. Button' /\ Past'
    BY <1>1 DEF Held, Button, Past
  <1> QED
    BY <1>1, <1>3, <1>4, <1>5, <1>6 DEF Held

(* The socket opens, a file changes, Klipper restarts, the socket closes.  *)
LEMMA NoticesHeld ==
  ASSUME TypeOK, Wire, Held
         , \/ Open \/ KlippyReady
           \/ \E f \in Files, v \in 0..(MaxNotes + 1), scanned \in BOOLEAN : Change(f, v, scanned)
           \/ \E restart \in BOOLEAN : Close(restart)
  PROVE  TypeOK' /\ Wire' /\ Held'
  <1>0. opened \in Nat
    BY DEF TypeOK
  <1>1. CASE Open
    <2>1. /\ TypeOK' /\ inbox' = Append(inbox, Connected) /\ UNCHANGED <<jobs, panel, srv>> /\ up'
          /\ Connected.kind = "connected"
      BY <1>1 DEF Open, TypeOK, Connected, Ev
    <2>2. Connected \in Events /\ Connected.kind # "metascan" /\ Connected.asked_on <= opened
      BY <1>0, NoticeFacts
    <2> QED
      BY <2>1, <2>2, InboxGains
  <1>2. CASE KlippyReady
    <2>1. /\ TypeOK' /\ inbox' = Append(inbox, Ready) /\ UNCHANGED <<jobs, panel, srv>> /\ up /\ up'
      BY <1>2 DEF KlippyReady, TypeOK
    <2>2. Ready \in Events /\ Ready.kind # "metascan" /\ Ready.asked_on <= opened
      BY <1>0, NoticeFacts
    <2>3. ~(opened = 0 /\ inbox = <<>>)
      BY <2>1 DEF Held, Early
    <2> QED
      BY <2>1, <2>2, <2>3, InboxGains
  <1>3. ASSUME NEW f \in Files, NEW v \in 0..(MaxNotes + 1), NEW scanned \in BOOLEAN
               , Change(f, v, scanned)
        PROVE  TypeOK' /\ Wire' /\ Held'
    <2>1. /\ UNCHANGED <<jobs, panel, srv, up>>
          /\ inbox' = IF up THEN Append(inbox, Changed) ELSE inbox
      BY <1>3 DEF Change
    <2>2. TypeOK'
      <3> DEFINE w == IF scanned THEN v ELSE 0
      <3>1. v \in Nat /\ w \in Nat
        BY <1>3
      <3>2. /\ disk' = [disk EXCEPT ![f] = v] /\ stored' = [stored EXCEPT ![f] = w]
            /\ notes' = notes + 1
        BY <1>3 DEF Change
      <3> HIDE DEF w
      <3>3. disk' \in [Files -> Nat] /\ stored' \in [Files -> Nat]
        BY <3>1, <3>2 DEF TypeOK
      <3>4. notes' \in Nat
        BY <3>2 DEF TypeOK
      <3> QED
        BY <1>3, <3>3, <3>4 DEF Change, TypeOK
    <2>3. CASE up
      <3>1. Changed \in Events /\ Changed.kind # "metascan" /\ Changed.asked_on <= opened
        BY <1>0, NoticeFacts
      <3>2. ~(opened = 0 /\ inbox = <<>>)
        BY <2>3 DEF Held, Early
      <3> QED
        BY <2>1, <2>2, <2>3, <3>1, <3>2, InboxGains
    <2>4. CASE ~up
      BY <2>1, <2>2, <2>4 DEF Wire, Held, Past, Early, Button
    <2> QED
      BY <2>3, <2>4
  <1>4. ASSUME NEW restart \in BOOLEAN, Close(restart)
        PROVE  TypeOK' /\ Wire' /\ Held'
    <2>1. TypeOK' /\ UNCHANGED <<panel, inbox>> /\ ~up' /\ srv' = <<>> /\ jobs' \in {jobs, <<>>}
      BY <1>4 DEF Close, TypeOK
    <2>2. Wire'
      <3>1. <<>> \in Seq(Reqs) /\ <<>> \in Seq(Jobs)
        OBVIOUS
      <3> QED
        BY <2>1, <3>1 DEF Wire
    <2>3. ASSUME NEW p \in Files
          PROVE  OneOf(Asks(srv', p, opened), Runs(jobs', p, opened), Asks(inbox', p, opened), scans[p], opened)
      <3>1. Asks(srv', p, opened) = {}
        BY <2>1 DEF Asks
      <3>2. Runs(jobs', p, opened) \in {{}, Runs(jobs, p, opened)}
        BY <2>1 DEF Runs
      <3>3. OneOf(Asks(srv, p, opened), Runs(jobs, p, opened), Asks(inbox, p, opened), scans[p], opened)
        BY DEF Held, One
      <3> QED
        BY <2>1, <3>1, <3>2, <3>3 DEF OneOf
    <2>4. One(srv', jobs', inbox', scans', opened')
      BY <2>1, <2>3 DEF One
    <2>5. Past' /\ Early' /\ Button'
      BY <2>1 DEF Held, Past, PastIn, Early, Button
    <2> QED
      BY <2>1, <2>2, <2>4, <2>5 DEF Held
  <1> QED
    BY <1>1, <1>2, <1>3, <1>4


(* Moonraker takes a request; a scan moves from the requests to the jobs.  *)
LEMMA ServeHeld ==
  ASSUME TypeOK, Wire, Held, Serve
  PROVE  TypeOK' /\ Wire' /\ Held'
  <1> DEFINE r == srv[1]
  <1>1. /\ Head(srv) = r /\ r \in Reqs /\ srv # <<>> /\ 1 \in DOMAIN srv
        /\ srv \in Seq(Reqs) /\ jobs \in Seq(Jobs) /\ inbox \in Seq(Events)
    BY Taken DEF Serve, Wire
  <1>2. /\ srv' = Tail(srv) /\ UNCHANGED <<up, panel>>
        /\ r.kind = "list" =>
             \E l \in {disk, Nothing} :
               inbox' = Append(inbox, Ev("list", None, 0, l)) /\ jobs' = jobs
        /\ r.kind = "metadata" =>
             inbox' = Append(inbox, Ev("metadata", r.path, r.asked_on, stored[r.path])) /\ jobs' = jobs
        /\ r.kind = "metascan" =>
             /\ jobs' = Append(jobs, [path |-> r.path, asked_on |-> r.asked_on, conn |-> sock])
             /\ inbox' = inbox
    BY <1>1 DEF Serve
  <1>3. TypeOK'
    BY DEF Serve, TypeOK
  <1>4. /\ up /\ ~(opened = 0 /\ inbox = <<>>) /\ opened \in Nat
        /\ PastIn(srv, opened) /\ PastIn(jobs, opened) /\ PastIn(inbox, opened)
        /\ opened = 0 => r.kind = "list"
    BY <1>1 DEF Held, Early, Past, TypeOK
  <1>5. srv' \in Seq(Reqs) /\ PastIn(srv', opened) /\ r.asked_on <= opened
    BY <1>1, <1>2, <1>4, Taken, PastKept
  <1> HIDE DEF r
  <1>6. CASE r.kind = "list"
    <2>0. PICK l \in {disk, Nothing} :
            inbox' = Append(inbox, Ev("list", None, 0, l)) /\ jobs' = jobs
      BY <1>2, <1>6
    <2> DEFINE e == Ev("list", None, 0, l)
    <2>1. e \in Events /\ e.kind # "metascan" /\ e.asked_on = 0
      BY DEF TypeOK, Nothing, Ev, Events, Listings
    <2> HIDE DEF e
    <2>2. inbox' = Append(inbox, e) /\ jobs' = jobs /\ e.asked_on <= opened
      BY <1>4, <2>0, <2>1 DEF e
    <2> QED
      BY <1>1, <1>2, <1>3, <1>4, <2>1, <2>2, InboxGains
  <1>7. CASE r.kind = "metadata"
    <2> DEFINE e == Ev("metadata", r.path, r.asked_on, stored[r.path])
    <2>1. r.path \in Files /\ r.asked_on \in Nat /\ stored[r.path] \in Nat
      BY <1>1, <1>7 DEF Reqs, TypeOK
    <2>2. e \in Events /\ e.kind # "metascan" /\ e.asked_on = r.asked_on
      BY <2>1 DEF Ev, Events, Replies
    <2> HIDE DEF e
    <2>3. inbox' = Append(inbox, e) /\ jobs' = jobs /\ e.asked_on <= opened
      BY <1>2, <1>5, <1>7, <2>2 DEF e
    <2> QED
      BY <1>1, <1>2, <1>3, <1>4, <2>2, <2>3, InboxGains
  <1>8. CASE r.kind = "metascan"
    <2> DEFINE j == [path |-> r.path, asked_on |-> r.asked_on, conn |-> sock]
    <2>1. j \in Jobs /\ j.path = r.path /\ j.asked_on = r.asked_on
      BY <1>1, <1>8 DEF Reqs, Jobs, TypeOK
    <2> HIDE DEF j
    <2>2. jobs' = Append(jobs, j) /\ inbox' = inbox
      BY <1>2, <1>8 DEF j
    <2>3. Wire' /\ PastIn(jobs', opened)
      BY <1>1, <1>4, <1>5, <2>1, <2>2, Appended, PastKept DEF Wire
    <2>4. ASSUME NEW p \in Files
          PROVE  OneOf(Asks(srv', p, opened), Runs(jobs', p, opened), Asks(inbox', p, opened), scans[p], opened)
      <3>1. OneOf(Asks(srv, p, opened), Runs(jobs, p, opened), Asks(inbox, p, opened), scans[p], opened)
        BY DEF Held, One
      <3>2. CASE r.path = p /\ r.asked_on = opened
        <4>1. 1 \in Asks(srv, p, opened)
          BY <1>1, <1>8, <3>2 DEF Asks, r
        <4>2. /\ Runs(jobs, p, opened) = {} /\ Asks(inbox, p, opened) = {} /\ scans[p] = opened
              /\ \A i, k \in Asks(srv, p, opened) : i = k
          BY <3>1, <4>1 DEF OneOf
        <4>3. Asks(srv', p, opened) = {}
          BY <1>1, <1>2, <4>1, <4>2, TakesFirst
        <4>4. \A i, k \in Runs(jobs', p, opened) : i = k
          <5>1. /\ jobs \in Seq(Jobs) /\ j \in Jobs /\ j.path = p /\ j.asked_on = opened
                /\ Runs(jobs, p, opened) = {}
            BY <1>1, <2>1, <3>2, <4>2
          <5>2. \A i, k \in Runs(Append(jobs, j), p, opened) : i = k
            BY <5>1, AppendsOne
          <5> QED
            BY <2>2, <5>2
        <4> QED
          BY <2>2, <4>2, <4>3, <4>4 DEF OneOf
      <3>3. CASE ~(r.path = p /\ r.asked_on = opened)
        <4>1. Shifted(Asks(srv', p, opened), Asks(srv, p, opened))
          BY <1>1, <1>2, TakesFirst
        <4>2. Shifted(Runs(jobs', p, opened), Runs(jobs, p, opened))
          BY <1>1, <2>1, <2>2, <3>3, AppendsOther
        <4>3. Shifted(Asks(inbox', p, opened), Asks(inbox, p, opened))
          BY <1>1, <2>2, Stays
        <4> QED
          BY <3>1, <4>1, <4>2, <4>3, OneShifted
      <3> QED
        BY <3>2, <3>3
    <2>5. One(srv', jobs', inbox', scans', opened')
      BY <1>2, <2>4 DEF One
    <2>6. opened # 0
      BY <1>4, <1>8
    <2>7. Past' /\ Early' /\ Button' /\ up'
      BY <1>2, <1>4, <1>5, <2>2, <2>3, <2>6 DEF Held, Past, Early, Button
    <2> QED
      BY <1>3, <2>3, <2>5, <2>7 DEF Held
  <1> QED
    BY <1>1, <1>6, <1>7, <1>8 DEF Reqs

(* A scan ends; answered, it moves from the jobs to the replies.           *)
LEMMA ScanHeld ==
  ASSUME TypeOK, Wire, Held, Scan
  PROVE  TypeOK' /\ Wire' /\ Held'
  <1> SUFFICES ASSUME NEW ok \in BOOLEAN, ScanEnds(ok)
               PROVE  TypeOK' /\ Wire' /\ Held'
    BY DEF Scan
  <1> DEFINE j == jobs[1]
             found == IF ok THEN disk[j.path] ELSE 0
             e == Ev("metascan", j.path, j.asked_on, found)
  <1>1. /\ Head(jobs) = j /\ j \in Jobs /\ jobs # <<>> /\ 1 \in DOMAIN jobs
        /\ srv \in Seq(Reqs) /\ jobs \in Seq(Jobs) /\ inbox \in Seq(Events)
    BY Taken DEF ScanEnds, Wire
  <1>2. /\ jobs' = Tail(jobs) /\ UNCHANGED <<up, sock, disk, srv, panel, taps, notes>>
        /\ inbox' = inbox \/ inbox' = Append(inbox, e)
        /\ stored' = IF found > 0 THEN [stored EXCEPT ![j.path] = found] ELSE stored
    BY <1>1 DEF ScanEnds
  <1>3. j.path \in Files /\ j.asked_on \in Nat /\ found \in Nat
    BY <1>1 DEF Jobs, TypeOK
  <1> HIDE DEF found
  <1>4. TypeOK'
    <2>1. stored' \in [Files -> Nat]
      BY <1>2, <1>3 DEF TypeOK
    <2> QED
      BY <1>2, <2>1 DEF TypeOK
  <1>5. e \in Events /\ e.kind = "metascan" /\ e.path = j.path /\ e.asked_on = j.asked_on
    BY <1>3 DEF Ev, Events, Replies
  <1>6. /\ opened # 0 /\ opened \in Nat
        /\ PastIn(srv, opened) /\ PastIn(jobs, opened) /\ PastIn(inbox, opened)
    BY <1>1 DEF Held, Early, Past, TypeOK
  <1>7. jobs' \in Seq(Jobs) /\ PastIn(jobs', opened) /\ j.asked_on <= opened
    BY <1>1, <1>2, <1>6, Taken, PastKept
  <1> HIDE DEF j, e
  <1>8. inbox' \in Seq(Events) /\ PastIn(inbox', opened)
    <2>1. inbox \in Seq(Events) /\ PastIn(inbox, opened) /\ e \in Events /\ e.asked_on <= opened
      BY <1>1, <1>5, <1>6, <1>7
    <2>2. Append(inbox, e) \in Seq(Events) /\ PastIn(Append(inbox, e), opened)
      BY <2>1, Appended, PastKept
    <2> QED
      BY <1>2, <2>1, <2>2
  <1>9. ASSUME NEW p \in Files
        PROVE  OneOf(Asks(srv', p, opened), Runs(jobs', p, opened), Asks(inbox', p, opened), scans[p], opened)
    <2>1. OneOf(Asks(srv, p, opened), Runs(jobs, p, opened), Asks(inbox, p, opened), scans[p], opened)
      BY DEF Held, One
    <2>2. CASE j.path = p /\ j.asked_on = opened /\ inbox' = Append(inbox, e)
      <3>1. 1 \in Runs(jobs, p, opened)
        BY <1>1, <2>2 DEF Runs, j
      <3>2. /\ Asks(srv, p, opened) = {} /\ Asks(inbox, p, opened) = {} /\ scans[p] = opened
            /\ \A i, k \in Runs(jobs, p, opened) : i = k
        BY <2>1, <3>1 DEF OneOf
      <3>3. Runs(jobs', p, opened) = {}
        BY <1>1, <1>2, <3>1, <3>2, TakesFirst
      <3>4. \A i, k \in Asks(inbox', p, opened) : i = k
        <4>1. /\ inbox \in Seq(Events) /\ e \in Events /\ e.path = p /\ e.asked_on = opened
              /\ e.kind = "metascan" /\ Asks(inbox, p, opened) = {}
          BY <1>1, <1>5, <2>2, <3>2
        <4>2. \A i, k \in Asks(Append(inbox, e), p, opened) : i = k
          BY <4>1, AppendsOne
        <4> QED
          BY <2>2, <4>2
      <3> QED
        BY <1>2, <3>2, <3>3, <3>4 DEF OneOf
    <2>3. CASE ~(j.path = p /\ j.asked_on = opened) \/ inbox' = inbox
      <3>1. Shifted(Asks(srv', p, opened), Asks(srv, p, opened))
        BY <1>1, <1>2, Stays
      <3>2. Shifted(Runs(jobs', p, opened), Runs(jobs, p, opened))
        BY <1>1, <1>2, TakesFirst
      <3>3. Shifted(Asks(inbox', p, opened), Asks(inbox, p, opened))
        BY <1>1, <1>2, <1>5, <2>3, AppendsOther, Stays
      <3> QED
        BY <2>1, <3>1, <3>2, <3>3, OneShifted
    <2> QED
      BY <1>2, <2>2, <2>3
  <1>10. One(srv', jobs', inbox', scans', opened')
    BY <1>2, <1>9 DEF One
  <1>11. Past' /\ Early' /\ Button' /\ (~up' => srv' = <<>>)
    BY <1>2, <1>6, <1>7, <1>8 DEF Held, Past, Early, Button
  <1>12. Wire'
    BY <1>1, <1>2, <1>7, <1>8 DEF Wire
  <1> QED
    BY <1>4, <1>10, <1>11, <1>12 DEF Held


-----------------------------------------------------------------------------
(* The panel.                                                              *)

(* The requests after the panel may have sent one.                         *)
LEMMA Sent ==
  ASSUME Wire, Held, NEW r \in Reqs, Sends(r), up' = up
  PROVE  /\ srv' \in Seq(Reqs) /\ (~up' => srv' = <<>>)
         /\ \A o : PastIn(srv, o) /\ r.asked_on <= o => PastIn(srv', o)
         /\ \A p, o : r.kind # "metascan" \/ r.path # p \/ r.asked_on # o
                        => Shifted(Asks(srv', p, o), Asks(srv, p, o))
         /\ \A p, o : Asks(srv, p, o) = {} => \A i, k \in Asks(srv', p, o) : i = k
         /\ r.kind = "list" /\ (\A i \in DOMAIN srv : srv[i].kind = "list")
              => \A i \in DOMAIN srv' : srv'[i].kind = "list"
  <1>1. srv \in Seq(Reqs) /\ (~up => srv = <<>>)
    BY DEF Wire, Held
  <1>2. CASE srv' = srv
    <2>1. \A p, o : Shifted(Asks(srv, p, o), Asks(srv, p, o))
      BY <1>1, Stays
    <2> QED
      BY <1>1, <1>2, <2>1
  <1>3. CASE srv' = Append(srv, r) /\ up
    <2>1. srv' \in Seq(Reqs) /\ up'
      BY <1>1, <1>3, Appended
    <2>2. \A o : PastIn(srv, o) /\ r.asked_on <= o => PastIn(srv', o)
      BY <1>1, <1>3, PastKept
    <2>3. \A p, o : r.kind # "metascan" \/ r.path # p \/ r.asked_on # o
                      => Shifted(Asks(srv', p, o), Asks(srv, p, o))
      BY <1>1, <1>3, AppendsOther
    <2>4. \A p, o : Asks(srv, p, o) = {} => \A i, k \in Asks(srv', p, o) : i = k
      BY <1>1, <1>3, AppendsOne
    <2>5. r.kind = "list" /\ (\A i \in DOMAIN srv : srv[i].kind = "list")
            => \A i \in DOMAIN srv' : srv'[i].kind = "list"
      BY <1>1, <1>3, Appended
    <2> QED
      BY <2>1, <2>2, <2>3, <2>4, <2>5
  <1> QED
    BY <1>2, <1>3 DEF Sends

(* A step of the panel that leaves its scans alone.                        *)
LEMMA QuietHeld ==
  ASSUME TypeOK, Wire, Held, NEW r \in Reqs, Sends(r), r.kind # "metascan", r.asked_on <= opened
         , inbox' = inbox \/ (inbox # <<>> /\ inbox' = Tail(inbox))
         , UNCHANGED <<up, jobs, scans, opened>>, Button'
         , opened = 0 => inbox' = inbox /\ r.kind = "list" /\ cur_file' = None /\ tree' = tree
  PROVE  Wire' /\ Held'
  <1>1. /\ srv' \in Seq(Reqs) /\ PastIn(srv', opened) /\ (~up' => srv' = <<>>)
        /\ \A p : Shifted(Asks(srv', p, opened), Asks(srv, p, opened))
    BY Sent DEF Held, Past
  <1>2. /\ inbox' \in Seq(Events) /\ PastIn(inbox', opened)
        /\ \A p : Shifted(Asks(inbox', p, opened), Asks(inbox, p, opened))
    <2>1. inbox \in Seq(Events) /\ PastIn(inbox, opened)
      BY DEF Wire, Held, Past
    <2>2. CASE inbox' = inbox
      BY <2>1, <2>2, Stays
    <2>3. CASE inbox # <<>> /\ inbox' = Tail(inbox)
      <3>1. inbox[1] \in Events
        BY <2>1, <2>3, Taken
      <3> QED
        BY <2>1, <2>3, <3>1, Taken, PastKept, TakesFirst
    <2> QED
      BY <2>2, <2>3
  <1>3. Wire'
    BY <1>1, <1>2 DEF Wire
  <1>4. ASSUME NEW p \in Files
        PROVE  OneOf(Asks(srv', p, opened), Runs(jobs', p, opened), Asks(inbox', p, opened), scans[p], opened)
    <2>1. OneOf(Asks(srv, p, opened), Runs(jobs, p, opened), Asks(inbox, p, opened), scans[p], opened)
      BY DEF Held, One
    <2>2. Shifted(Runs(jobs', p, opened), Runs(jobs, p, opened))
      BY Stays DEF Wire
    <2> QED
      BY <1>1, <1>2, <2>1, <2>2, OneShifted
  <1>5. One(srv', jobs', inbox', scans', opened')
    BY <1>4 DEF One
  <1>6. Past'
    BY <1>1, <1>2 DEF Held, Past
  <1>7. Early'
    <2>1. opened = 0 => \A i \in DOMAIN srv' : srv'[i].kind = "list"
      BY Sent DEF Held, Early
    <2> QED
      BY <2>1 DEF Held, Early
  <1> QED
    BY <1>1, <1>3, <1>5, <1>6, <1>7 DEF Held

(* The list is asked for.                                                  *)
LEMMA AsksList ==
  ASSUME TypeOK, Send(Req("list", None, 0))
  PROVE  Sends(Req("list", None, 0))
  BY DEF TypeOK, Send, Sends

(* The announcements, a list reply and the refresh timer.                  *)
LEMMA NewsHeld ==
  ASSUME TypeOK, Wire, Held, klippy_ready \/ handle_filelist_changed \/ handle_list \/ handle_refresh_timer
  PROVE  TypeOK' /\ Wire' /\ Held'
  <1> DEFINE r == Req("list", None, 0)
  <1>0. opened \in Nat /\ r \in Reqs /\ r.kind = "list" /\ r.asked_on <= opened
    BY ReqFacts DEF TypeOK
  <1> HIDE DEF r
  <1>1. CASE klippy_ready
    <2>1. TypeOK' /\ UNCHANGED <<up, jobs, panel>> /\ inbox # <<>> /\ inbox' = Tail(inbox) /\ Sends(r)
      BY <1>1, AsksList DEF klippy_ready, Next1, TypeOK, r
    <2>2. opened # 0
      <3>1. inbox[1].kind = "ready"
        BY <1>1, Taken DEF klippy_ready, Next1, Wire
      <3> QED
        BY <2>1, <3>1 DEF Held, Early
    <2>3. Button'
      BY <2>1 DEF Held, Button
    <2> QED
      BY <1>0, <2>1, <2>2, <2>3, QuietHeld
  <1>2. CASE handle_filelist_changed
    <2>1. /\ TypeOK' /\ UNCHANGED <<up, jobs, scans, opened, srv, cur_file, print_btn>>
          /\ inbox # <<>> /\ inbox' = Tail(inbox)
      BY <1>2 DEF handle_filelist_changed, Next1, TypeOK
    <2>2. opened # 0
      <3>1. inbox[1].kind = "changed"
        BY <1>2, Taken DEF handle_filelist_changed, Next1, Wire
      <3> QED
        BY <2>1, <3>1 DEF Held, Early
    <2>3. Button' /\ Sends(r)
      BY <2>1 DEF Held, Button, Sends
    <2> QED
      BY <1>0, <2>1, <2>2, <2>3, QuietHeld
  <1>3. CASE handle_list
    <2>1. /\ tree' \in [Files -> [mod : Nat, meta : Nat]]
          /\ cur_file' \in Files \cup {None} /\ view' \in Files \cup {None} /\ print_btn' \in BOOLEAN
          /\ inbox[1].kind = "list" /\ inbox # <<>> /\ inbox' = Tail(inbox)
          /\ UNCHANGED <<up, sock, disk, stored, jobs, opened, scans, unscannable,
                         refresh_pending, taps, notes>>
          /\ srv' = srv \/ \E f \in Files : Sends(Req("metadata", f, opened))
      BY <1>3, ListFacts
    <2>2. Button'
      <3>1. print_btn' <=> (cur_file' = None \/ scans[cur_file'] = 0)
        BY <1>3, ListFacts
      <3> QED
        BY <2>1, <3>1 DEF Button
    <2>3. TypeOK'
      BY <2>1 DEF TypeOK
    <2>4. opened # 0
      BY <2>1 DEF Held, Early
    <2>5. CASE srv' = srv
      <3>1. Sends(r)
        BY <2>5 DEF Sends
      <3> QED
        BY <1>0, <2>1, <2>2, <2>3, <2>4, <3>1, QuietHeld
    <2>6. ASSUME NEW f \in Files, Sends(Req("metadata", f, opened))
          PROVE  Wire' /\ Held'
      <3>1. /\ Req("metadata", f, opened) \in Reqs /\ Req("metadata", f, opened).kind # "metascan"
            /\ Req("metadata", f, opened).asked_on <= opened
        BY <1>0, ReqFacts
      <3> QED
        BY <2>1, <2>2, <2>4, <2>6, <3>1, QuietHeld
    <2> QED
      BY <2>1, <2>3, <2>5, <2>6
  <1>4. CASE handle_refresh_timer
    <2>1. /\ TypeOK' /\ UNCHANGED <<up, jobs, scans, opened, inbox, tree, cur_file, print_btn>>
          /\ Sends(r)
      BY <1>4, AsksList DEF handle_refresh_timer, TypeOK, r
    <2>2. Button' /\ (opened = 0 => cur_file = None)
      BY <2>1 DEF Held, Button, Early
    <2> QED
      BY <1>0, <2>1, <2>2, QuietHeld
  <1> QED
    BY <1>1, <1>2, <1>3, <1>4


(* What the user does.                                                     *)
LEMMA UserHeld ==
  ASSUME TypeOK, Wire, Held, User
  PROVE  TypeOK' /\ Wire' /\ Held'
  <1> DEFINE r == Req("list", None, 0)
  <1>0. opened \in Nat /\ r \in Reqs /\ r.kind = "list" /\ r.asked_on <= opened
    BY ReqFacts DEF TypeOK
  <1> HIDE DEF r
  <1>1. CASE handle_btns_refresh
    <2>1. TypeOK' /\ UNCHANGED <<up, jobs, panel, inbox>> /\ Sends(r)
      BY <1>1, AsksList DEF handle_btns_refresh, Tap, TypeOK, r
    <2>2. Button' /\ (opened = 0 => cur_file = None)
      BY <2>1 DEF Held, Button, Early
    <2> QED
      BY <1>0, <2>1, <2>2, QuietHeld
  <1>2. ASSUME NEW f \in Files \cup {None}
               , \/ f \in Files /\ tree[f].mod > 0 /\ show_file_detail(f, tree)
                 \/ f = None /\ UNCHANGED <<view, srv>>
               , cur_file' = f, update_print_btn(f, scans), Tap
               , UNCHANGED <<up, sock, moonraker, inbox, opened, tree, scans, unscannable,
                             refresh_pending, notes>>
        PROVE  TypeOK' /\ Wire' /\ Held'
    <2>1. print_btn' = (f = None \/ scans[f] = 0)
      BY <1>2 DEF update_print_btn
    <2>2. print_btn' \in BOOLEAN
      BY <2>1
    <2>3. print_btn' <=> (f = None \/ scans[f] = 0)
      BY <2>1, Zenon
    <2>4. Button'
      BY <1>2, <2>3 DEF Button
    <2>5. CASE f = None /\ UNCHANGED <<view, srv>>
      <3>1. TypeOK' /\ Sends(r)
        BY <1>2, <2>2, <2>5 DEF TypeOK, Tap, Sends
      <3> QED
        BY <1>0, <1>2, <2>4, <2>5, <3>1, QuietHeld
    <2>6. CASE f \in Files /\ tree[f].mod > 0 /\ show_file_detail(f, tree)
      <3> DEFINE m == Req("metadata", f, opened)
      <3>1. f \in Files /\ tree \in [Files -> [mod : Nat, meta : Nat]]
        BY <2>6 DEF TypeOK
      <3>2. Sends(m) /\ view' \in Files \cup {None}
        BY <2>6, <3>1, ShowFacts
      <3>3. m \in Reqs /\ m.kind # "metascan" /\ m.asked_on <= opened
        BY <1>0, <3>1, ReqFacts
      <3> HIDE DEF m
      <3>4. TypeOK'
        BY <1>2, <2>2, <3>2 DEF TypeOK, Tap
      <3>5. opened # 0
        <4>1. tree[f].mod # 0
          BY <2>6, <3>1
        <4> QED
          BY <3>1, <4>1 DEF Held, Early
      <3> QED
        BY <1>2, <2>4, <3>2, <3>3, <3>4, <3>5, QuietHeld
    <2> QED
      BY <1>2, <2>5, <2>6
  <1>3. ASSUME NEW f \in Files, handle_callback(f)
        PROVE  TypeOK' /\ Wire' /\ Held'
    BY <1>2, <1>3 DEF handle_callback
  <1>4. ASSUME NEW f \in Files \cup {None}, show_dir(f)
        PROVE  TypeOK' /\ Wire' /\ Held'
    BY <1>2, <1>4 DEF show_dir
  <1> QED
    BY <1>1, <1>3, <1>4 DEF User

(* A new connection: no scan has been asked for under its count yet.       *)
LEMMA ConnectedHeld ==
  ASSUME TypeOK, Wire, Held, connected
  PROVE  TypeOK' /\ Wire' /\ Held'
  <1> DEFINE r == Req("list", None, 0)
             o == opened + 1
  <1>0. opened \in Nat /\ r \in Reqs /\ r.kind = "list" /\ r.asked_on = 0
    BY ReqFacts DEF TypeOK
  <1>1. /\ TypeOK' /\ UNCHANGED <<up, jobs, scans, cur_file, print_btn>> /\ opened' = o
        /\ inbox # <<>> /\ inbox' = Tail(inbox) /\ Sends(r)
    BY AsksList DEF connected, Next1, TypeOK
  <1> HIDE DEF r
  <1>2. /\ srv \in Seq(Reqs) /\ jobs \in Seq(Jobs) /\ inbox \in Seq(Events) /\ inbox[1] \in Events
        /\ PastIn(srv, opened) /\ PastIn(jobs, opened) /\ PastIn(inbox, opened)
    BY <1>1, Taken DEF Wire, Held, Past
  <1>3. /\ srv' \in Seq(Reqs) /\ PastIn(srv', opened) /\ (~up' => srv' = <<>>)
    BY <1>0, <1>1, <1>2, Sent
  <1>4. inbox' \in Seq(Events) /\ PastIn(inbox', opened)
    BY <1>1, <1>2, Taken, PastKept
  <1>5. ASSUME NEW q, PastIn(q, opened), q \in Seq(Reqs) \/ q \in Seq(Jobs) \/ q \in Seq(Events)
        PROVE  /\ PastIn(q, o)
               /\ \A p : Asks(q, p, o) = {} /\ Runs(q, p, o) = {}
    <2>1. ASSUME NEW i \in DOMAIN q
          PROVE  q[i].asked_on <= opened /\ q[i].asked_on \in Nat
      <3>1. q[i] \in Reqs \cup Jobs \cup Events
        BY <1>5
      <3>2. q[i].asked_on \in Nat
        BY <3>1 DEF Reqs, Jobs, Events, Replies, Notices, Listings
      <3> QED
        BY <1>5, <3>2 DEF PastIn
    <2>2. \A i \in DOMAIN q : q[i].asked_on <= o /\ q[i].asked_on # o
      BY <1>0, <2>1
    <2> HIDE DEF o
    <2> QED
      BY <2>2 DEF PastIn, Asks, Runs
  <1>6. Past' /\ One(srv', jobs', inbox', scans', opened')
    <2>1. \A p : Asks(srv', p, o) = {} /\ Runs(jobs', p, o) = {} /\ Asks(inbox', p, o) = {}
      BY <1>1, <1>2, <1>3, <1>4, <1>5
    <2>2. PastIn(srv', o) /\ PastIn(jobs', o) /\ PastIn(inbox', o)
      BY <1>1, <1>2, <1>3, <1>4, <1>5
    <2> HIDE DEF o
    <2> QED
      BY <1>1, <2>1, <2>2 DEF Past, One, OneOf
  <1>7. Early'
    BY <1>0, <1>1 DEF Early
  <1>8. Button' /\ Wire'
    BY <1>1, <1>2, <1>3, <1>4 DEF Held, Button, Wire
  <1> QED
    BY <1>1, <1>3, <1>6, <1>7, <1>8 DEF Held


(* A reply is taken: the scans left are noted as before, and a scan ends   *)
(* only when none asked for under the present count is left.               *)
LEMMA ReplyTaken ==
  ASSUME TypeOK, Wire, Held, inbox # <<>>, inbox' = Tail(inbox)
         , inbox[1].kind \in {"metadata", "metascan"}
         , NEW s, s = scans \/ (~superseded(inbox[1]) /\ s = scans_after(inbox[1]))
  PROVE  /\ s \in [Files -> Nat] /\ inbox[1] \in Replies /\ opened # 0 /\ opened \in Nat
         /\ \A p \in Files : p # inbox[1].path => s[p] = scans[p]
         /\ \A p \in Files : OneOf(Asks(srv, p, opened), Runs(jobs, p, opened),
                                   Asks(inbox', p, opened), s[p], opened)
         /\ inbox' \in Seq(Events) /\ PastIn(inbox', opened)
  <1> DEFINE e == inbox[1]
             x == e.path
  <1>1. /\ inbox \in Seq(Events) /\ srv \in Seq(Reqs) /\ jobs \in Seq(Jobs) /\ 1 \in DOMAIN inbox
        /\ e \in Events /\ scans \in [Files -> Nat] /\ opened \in Nat
        /\ PastIn(inbox, opened)
    BY Taken DEF Wire, TypeOK, Held, Past
  <1>2. e \in Replies /\ x \in Files /\ opened # 0
    <2>1. e.kind # "connected"
      OBVIOUS
    <2> QED
      BY <1>1, <2>1 DEF Events, Replies, Notices, Listings, Held, Early
  <1>3. inbox' \in Seq(Events) /\ PastIn(inbox', opened)
    BY <1>1, Taken, PastKept
  <1>4. s = scans \/ s = [scans EXCEPT ![x] = 0]
    BY DEF scans_after
  <1>5. s \in [Files -> Nat] /\ \A p \in Files : p # x => s[p] = scans[p]
    BY <1>1, <1>2, <1>4
  <1>6. ASSUME NEW p \in Files
        PROVE  OneOf(Asks(srv, p, opened), Runs(jobs, p, opened), Asks(inbox', p, opened), s[p], opened)
    <2>1. OneOf(Asks(srv, p, opened), Runs(jobs, p, opened), Asks(inbox, p, opened), scans[p], opened)
      BY DEF Held, One
    <2>2. /\ Shifted(Asks(srv, p, opened), Asks(srv, p, opened))
          /\ Shifted(Runs(jobs, p, opened), Runs(jobs, p, opened))
          /\ Shifted(Asks(inbox', p, opened), Asks(inbox, p, opened))
      BY <1>1, Stays, TakesFirst
    <2>3. CASE s[p] = scans[p]
      BY <2>1, <2>2, <2>3, OneShifted
    <2>4. CASE s[p] # scans[p]
      <3>1. /\ p = x /\ s # scans /\ ~superseded(e) /\ scans[p] > 0
            /\ e.kind = "metascan" \/ scans[p] # opened
        BY <1>5, <2>4 DEF scans_after
      <3>2. CASE scans[p] # opened
        <4>1. Asks(srv, p, opened) = {} /\ Runs(jobs, p, opened) = {} /\ Asks(inbox, p, opened) = {}
          BY <2>1, <3>2 DEF OneOf
        <4>2. Asks(inbox', p, opened) = {}
          BY <2>2, <4>1 DEF Shifted
        <4> QED
          BY <4>1, <4>2 DEF OneOf
      <3>3. CASE scans[p] = opened
        <4>1. e.kind = "metascan" /\ e.path = p /\ e.asked_on = opened
          BY <3>1, <3>3 DEF superseded
        <4>2. 1 \in Asks(inbox, p, opened)
          BY <1>1, <4>1 DEF Asks
        <4>3. /\ Asks(srv, p, opened) = {} /\ Runs(jobs, p, opened) = {}
              /\ \A i, k \in Asks(inbox, p, opened) : i = k
          BY <2>1, <4>2 DEF OneOf
        <4>4. Asks(inbox', p, opened) = {}
          BY <1>1, <4>2, <4>3, TakesFirst
        <4> QED
          BY <4>3, <4>4 DEF OneOf
      <3> QED
        BY <3>2, <3>3
    <2> QED
      BY <2>3, <2>4
  <1> QED
    BY <1>1, <1>2, <1>3, <1>5, <1>6

(* Replies for another file, or superseded.                                *)
LEMMA AsideHeld ==
  ASSUME TypeOK, Wire, Held, handle_metadata_aside
  PROVE  TypeOK' /\ Wire' /\ Held'
  <1> DEFINE e == inbox[1]
  <1>1. /\ inbox # <<>> /\ inbox' = Tail(inbox) /\ e = Head(inbox)
        /\ UNCHANGED <<up, sock, moonraker, srv, opened, tree, cur_file, unscannable,
                       refresh_pending, print_btn, view, taps, notes>>
    BY Taken DEF handle_metadata_aside, Wire
  <1>2. /\ e.kind \in {"metadata", "metascan"}
        /\ scans' = scans \/ (~superseded(e) /\ scans' = scans_after(e))
        /\ scans' = scans \/ e.path # cur_file
    BY <1>1 DEF handle_metadata_aside
  <1>3. /\ scans' \in [Files -> Nat] /\ opened # 0
        /\ \A p \in Files : p # e.path => scans'[p] = scans[p]
        /\ \A p \in Files : OneOf(Asks(srv, p, opened), Runs(jobs, p, opened),
                                  Asks(inbox', p, opened), scans'[p], opened)
        /\ inbox' \in Seq(Events) /\ PastIn(inbox', opened)
    BY <1>1, <1>2, ReplyTaken
  <1> HIDE DEF e
  <1>4. TypeOK' /\ Wire'
    BY <1>1, <1>3 DEF TypeOK, Wire
  <1>5. One(srv', jobs', inbox', scans', opened')
    BY <1>1, <1>3 DEF One
  <1>6. Button'
    <2>1. cur_file = None \/ scans'[cur_file] = scans[cur_file]
      BY <1>2, <1>3 DEF TypeOK
    <2> QED
      BY <1>1, <2>1 DEF Held, Button
  <1>7. Past' /\ Early' /\ (~up' => srv' = <<>>)
    BY <1>1, <1>3 DEF Held, Past, Early
  <1> QED
    BY <1>4, <1>5, <1>6, <1>7 DEF Held

(* Metadata for the selected file.                                         *)
LEMMA FoundHeld ==
  ASSUME TypeOK, Wire, Held, handle_metadata_found
  PROVE  TypeOK' /\ Wire' /\ Held'
  <1> DEFINE e == inbox[1]
  <1>1. /\ inbox # <<>> /\ inbox' = Tail(inbox) /\ e = Head(inbox)
        /\ UNCHANGED <<up, sock, moonraker, srv, opened, cur_file, unscannable,
                       refresh_pending, taps, notes>>
    BY Taken DEF handle_metadata_found, Wire
  <1>2. /\ e.kind \in {"metadata", "metascan"} /\ ~superseded(e) /\ scans' = scans_after(e)
        /\ tree' = [tree EXCEPT ![e.path].meta = e.found] /\ view' = e.path
        /\ print_btn' = (cur_file = None \/ scans'[cur_file] = 0)
    BY <1>1 DEF handle_metadata_found, update_print_btn
  <1>3. /\ scans' \in [Files -> Nat] /\ opened # 0 /\ e \in Replies
        /\ \A p \in Files : OneOf(Asks(srv, p, opened), Runs(jobs, p, opened),
                                  Asks(inbox', p, opened), scans'[p], opened)
        /\ inbox' \in Seq(Events) /\ PastIn(inbox', opened)
    BY <1>1, <1>2, ReplyTaken
  <1> HIDE DEF e
  <1>4. print_btn' \in BOOLEAN
    BY <1>2
  <1>5. print_btn' <=> (cur_file = None \/ scans'[cur_file] = 0)
    BY <1>2, Zenon
  <1>6. e.path \in Files /\ e.found \in Nat
    BY <1>3 DEF Replies
  <1>7. tree' \in [Files -> [mod : Nat, meta : Nat]]
    BY <1>2, <1>6 DEF TypeOK
  <1>8. TypeOK' /\ Wire'
    BY <1>1, <1>2, <1>3, <1>4, <1>6, <1>7 DEF TypeOK, Wire
  <1>9. One(srv', jobs', inbox', scans', opened')
    BY <1>1, <1>3 DEF One
  <1>10. Button'
    BY <1>1, <1>5 DEF Button
  <1>11. Past' /\ Early' /\ (~up' => srv' = <<>>)
    BY <1>1, <1>3 DEF Held, Past, Early
  <1> QED
    BY <1>8, <1>9, <1>10, <1>11 DEF Held

(* A miss for the selected file: a scan is asked for only when none asked  *)
(* for under the present count is left.                                    *)
LEMMA MissedHeld ==
  ASSUME TypeOK, Wire, Held, handle_metadata_missed
  PROVE  TypeOK' /\ Wire' /\ Held'
  <1> DEFINE e == inbox[1]
             x == e.path
             s == scans_after(e)
             u == IF e.kind = "metascan" THEN [unscannable EXCEPT ![e.path] = e.asked_on]
                  ELSE unscannable
             r == Req("metascan", x, opened)
  <1>1. /\ inbox # <<>> /\ inbox' = Tail(inbox) /\ e = Head(inbox)
        /\ UNCHANGED <<up, sock, moonraker, opened, tree, cur_file, refresh_pending,
                       taps, notes>>
    BY Taken DEF handle_metadata_missed, Wire
  <1>2. /\ e.kind \in {"metadata", "metascan"} /\ ~superseded(e)
        /\ unscannable' = u /\ view' = x
        /\ \/ scans' = s /\ srv' = srv
           \/ s[x] # opened /\ scans' = [s EXCEPT ![x] = opened] /\ Send(r)
        /\ print_btn' = (cur_file = None \/ scans'[cur_file] = 0)
    BY <1>1 DEF handle_metadata_missed, update_print_btn, request_metadata
  <1>3. /\ s \in [Files -> Nat] /\ opened # 0 /\ opened \in Nat /\ e \in Replies
        /\ \A p \in Files : OneOf(Asks(srv, p, opened), Runs(jobs, p, opened),
                                  Asks(inbox', p, opened), s[p], opened)
        /\ inbox' \in Seq(Events) /\ PastIn(inbox', opened)
    BY <1>1, <1>2, ReplyTaken
  <1>4. x \in Files /\ e.asked_on \in Nat
    BY <1>3 DEF Replies
  <1>5. u \in [Files -> Nat]
    BY <1>4 DEF TypeOK
  <1>6. r \in Reqs /\ r.kind = "metascan" /\ r.path = x /\ r.asked_on = opened
    BY <1>4, ReqFacts
  <1> HIDE DEF e, s, u, r, x
  <1>7. print_btn' \in BOOLEAN
    BY <1>2
  <1>8. print_btn' <=> (cur_file = None \/ scans'[cur_file] = 0)
    BY <1>2, Zenon
  <1>9. Sends(r)
    BY <1>2 DEF Send, Sends
  <1>10. /\ srv' \in Seq(Reqs) /\ (~up' => srv' = <<>>) /\ PastIn(srv', opened)
    <2>1. PastIn(srv, opened) /\ r.asked_on <= opened
      BY <1>3, <1>6 DEF Held, Past
    <2> QED
      BY <1>1, <1>6, <1>9, <2>1, Sent
  <1>11. scans' \in [Files -> Nat]
    BY <1>2, <1>3
  <1>12. TypeOK' /\ Wire'
    BY <1>1, <1>2, <1>3, <1>4, <1>5, <1>7, <1>10, <1>11 DEF TypeOK, Wire
  <1>13. ASSUME NEW p \in Files
         PROVE  OneOf(Asks(srv', p, opened), Runs(jobs, p, opened), Asks(inbox', p, opened),
                      scans'[p], opened)
    <2>1. OneOf(Asks(srv, p, opened), Runs(jobs, p, opened), Asks(inbox', p, opened), s[p], opened)
      BY <1>3
    <2>2. CASE scans' = s /\ srv' = srv
      BY <2>1, <2>2
    <2>3. CASE scans' = [s EXCEPT ![x] = opened] /\ p # x
      <3>1. /\ Shifted(Asks(srv', p, opened), Asks(srv, p, opened))
            /\ Shifted(Runs(jobs, p, opened), Runs(jobs, p, opened))
            /\ Shifted(Asks(inbox', p, opened), Asks(inbox', p, opened))
        BY <1>1, <1>3, <1>6, <1>9, <2>3, Sent, Stays DEF Wire
      <3>2. scans'[p] = s[p]
        BY <1>3, <2>3
      <3> QED
        BY <2>1, <3>1, <3>2, OneShifted
    <2>4. CASE s[x] # opened /\ scans' = [s EXCEPT ![x] = opened] /\ p = x
      <3>1. Asks(srv, p, opened) = {} /\ Runs(jobs, p, opened) = {} /\ Asks(inbox', p, opened) = {}
        BY <2>1, <2>4 DEF OneOf
      <3>2. \A i, k \in Asks(srv', p, opened) : i = k
        BY <1>1, <1>6, <1>9, <3>1, Sent
      <3>3. scans'[p] = opened
        BY <1>3, <1>4, <2>4
      <3> QED
        BY <3>1, <3>2, <3>3 DEF OneOf
    <2> QED
      BY <1>2, <2>2, <2>3, <2>4
  <1>14. One(srv', jobs', inbox', scans', opened')
    BY <1>1, <1>13 DEF One
  <1>15. Button' /\ Past' /\ Early'
    BY <1>1, <1>3, <1>8, <1>10 DEF Held, Button, Past, Early
  <1> QED
    BY <1>10, <1>12, <1>14, <1>15 DEF Held

-----------------------------------------------------------------------------
(* The invariant.                                                          *)

(* It holds at start.                                                      *)
LEMMA Initial == Init => IInv
  <1> SUFFICES ASSUME Init
               PROVE  IInv
    OBVIOUS
  <1>1. TypeOK /\ Wire
    <2>1. Wire
      BY DEF Init, Wire
    <2>2. stored \in [Files -> Nat]
      BY DEF Init
    <2>3. Absent \in [mod : Nat, meta : Nat]
      BY DEF Absent
    <2>4. tree \in [Files -> [mod : Nat, meta : Nat]]
      BY <2>3 DEF Init
    <2>5. disk \in [Files -> Nat] /\ scans \in [Files -> Nat] /\ unscannable \in [Files -> Nat]
      BY DEF Init
    <2> QED
      BY <2>1, <2>2, <2>4, <2>5 DEF Init, TypeOK
  <1>2. Fresh
    BY DEF Init, Fresh, OnDisk, OnTheWay, CacheNotStale, Absent
  <1>3. One(srv, jobs, inbox, scans, opened)
    BY DEF Init, One, OneOf, Asks, Runs
  <1>4. Past /\ Early /\ Button
    BY DEF Init, Past, PastIn, Early, Button, Absent
  <1> QED
    BY <1>1, <1>2, <1>3, <1>4 DEF IInv, Held, Init

(* Every step keeps it.                                                    *)
LEMMA Inductive == IInv /\ [Next]_vars => IInv'
  <1> SUFFICES ASSUME IInv, [Next]_vars
               PROVE  IInv'
    OBVIOUS
  <1>0. TypeOK /\ Wire /\ Fresh /\ Held
    BY DEF IInv
  <1>1. CASE UNCHANGED vars
    <2>1. TypeOK' /\ Wire' /\ Fresh'
      BY <1>0, <1>1 DEF TypeOK, Wire, Fresh, OnDisk, OnTheWay, CacheNotStale
    <2>2. Held'
      BY <1>0, <1>1 DEF Held, Past, Early, Button
    <2> QED
      BY <2>1, <2>2 DEF IInv
  <1>2. CASE Open \/ Serve \/ Scan
    BY <1>0, <1>2, MoonrakerFresh, NoticesHeld, ServeHeld, ScanHeld DEF IInv
  <1>3. CASE KlippyReady \/ \E f \in Files, v \in 0..(MaxNotes + 1), scanned \in BOOLEAN : Change(f, v, scanned)
    BY <1>0, <1>3, NoteFresh, NoticesHeld DEF IInv
  <1>4. CASE \E restart \in BOOLEAN : Close(restart)
    <2>1. UNCHANGED <<inbox, disk, stored, tree, notes>>
      BY <1>4 DEF Close
    <2>2. Fresh'
      BY <1>0, <2>1 DEF Fresh, OnDisk, OnTheWay, CacheNotStale
    <2> QED
      BY <1>0, <1>4, <2>2, NoticesHeld DEF IInv
  <1>5. CASE Dispatch
    <2>1. Fresh'
      BY <1>0, <1>5, DispatchFresh
    <2>2. TypeOK' /\ Wire' /\ Held'
      BY <1>0, <1>5, ConnectedHeld, NewsHeld, AsideHeld, FoundHeld, MissedHeld DEF Dispatch
    <2> QED
      BY <2>1, <2>2 DEF IInv
  <1>6. CASE handle_refresh_timer \/ User
    <2>1. UNCHANGED <<inbox, disk, stored, tree, notes>>
      BY <1>6 DEF handle_refresh_timer, User, handle_callback, show_dir, handle_btns_refresh
    <2>2. Fresh'
      BY <1>0, <2>1 DEF Fresh, OnDisk, OnTheWay, CacheNotStale
    <2> QED
      BY <1>0, <1>6, <2>2, NewsHeld, UserHeld DEF IInv
  <1> QED
    BY <1>1, <1>2, <1>3, <1>4, <1>5, <1>6 DEF Next

(* The inductive invariant of the file browser holds in every reachable    *)
(* state, for every set of files and any number of connections, touches    *)
(* and announcements.                                                      *)
THEOREM Invariant == Spec => []IInv
  BY Initial, Inductive, PTL DEF Spec

(* The panel's and Moonraker's state keep their types.                     *)
THEOREM TypeCorrect == Spec => []TypeOK
  <1>1. IInv => TypeOK
    BY DEF IInv
  <1> QED
    BY <1>1, Invariant, PTL

(* Cached metadata is never older than the listed file, whatever order     *)
(* uploads, lists, scans and reconnects come in.                           *)
THEOREM CacheFresh == Spec => []CacheNotStale
  <1>1. IInv => CacheNotStale
    BY DEF IInv, Fresh
  <1> QED
    BY <1>1, Invariant, PTL

(* Print is held, in the handler and on the button, as long as a scan of   *)
(* the selected file asked for under the present connection count is in    *)
(* line or running at Moonraker.                                           *)
THEOREM ScanHoldsPrint == Spec => []LatestScanHoldsPrint
  <1>1. ASSUME IInv
        PROVE  LatestScanHoldsPrint
    <2> SUFFICES ASSUME cur_file # None, print_btn \/ PrintAllowed
                 PROVE  /\ \A i \in DOMAIN jobs : jobs[i].path = cur_file => jobs[i].asked_on # opened
                        /\ \A i \in DOMAIN srv :
                             srv[i].kind = "metascan" /\ srv[i].path = cur_file => srv[i].asked_on # opened
      BY DEF LatestScanHoldsPrint
    <2>1. cur_file \in Files /\ scans[cur_file] = 0 /\ opened # 0
      BY <1>1 DEF IInv, TypeOK, Held, Button, Early, PrintAllowed
    <2>2. OneOf(Asks(srv, cur_file, opened), Runs(jobs, cur_file, opened),
                Asks(inbox, cur_file, opened), scans[cur_file], opened)
      BY <1>1, <2>1 DEF IInv, Held, One
    <2>3. Asks(srv, cur_file, opened) = {} /\ Runs(jobs, cur_file, opened) = {}
      BY <2>1, <2>2 DEF OneOf
    <2> QED
      BY <2>3 DEF Asks, Runs
  <1> QED
    BY <1>1, Invariant, PTL
===============================================================================
