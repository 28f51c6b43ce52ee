-------------------------- MODULE PcapFilesProofs ---------------------------
(***************************************************************************)
(* Proofs about PcapFiles for any sessions, writers and links.             *)
(*                                                                         *)
(* No file that was opened leaves the directory, the registry names only   *)
(* writers of the session it is asked for, and names carry the time of     *)
(* their opening; so the newest name of a session is the file that was     *)
(* opened last, and only an opening within its second empties a file.      *)
(***************************************************************************)
EXTENDS PcapFiles, TLAPS, WellFoundedInduction

\* The file of a writer is on disk; the registry files it under its session.
WriterAt(w) ==
    /\ path[w] # None => disk[path[w]] # None
    /\ w \in open => path[w] # None

RegistryAt(s) ==
    registry[s] # None =>
        path[registry[s]] # None /\ path[registry[s]][2] = s

\* Names are stamped with the past, and the stamp of a session's last opening
\* is its newest.
StampAt(p) == disk[p] # None => p[1] <= now

LastAt(s) ==
    last[s] # None =>
        /\ path[last[s]] # None /\ path[last[s]][2] = s
        /\ \A t \in 0..MaxNow : disk[<<t, s>>] # None => t <= path[last[s]][1]

\* A file that one capture has to itself holds what that wrote.
DataAt(w) ==
    path[w] # None =>
        disk[path[w]] = wrote[w] \/ \E v \in Writer \ {w} : path[v] = path[w]

\* A call that was asked has a file to name, and past its token check the
\* writer it looked up has had its file opened.
LinkAt(l) ==
    /\ state[l] \in {"checking", "hashing"} => target[l] # None /\ disk[target[l]] # None
    /\ entry[l] # None => path[entry[l]] # None
    /\ shown[l] = "ended" => entry[l] # None /\ entry[l] \notin open
    /\ shown[l] # "none" => state[l] \in {"answered", "over"}
    /\ served[l] # {} => state[l] \notin {"idle", "checking"} /\ expires[l] = None
    /\ expires[l] # None => state[l] \in {"hashing", "hashed", "answered"}

Filed == /\ \A w \in Writer : WriterAt(w)
         /\ \A s \in Session : RegistryAt(s)
         /\ \A l \in Link : LinkAt(l)

Stamped == /\ \A p \in Path : StampAt(p)
           /\ \A s \in Session : LastAt(s)
           /\ \A w \in Writer : DataAt(w)

IInv == TypeOK /\ Filed /\ Stamped

-----------------------------------------------------------------------------
(* Resolving a session id.                                                 *)

\* A non-empty set of times has a latest one.
LEMMA LatestExists ==
    ASSUME NEW times, times \subseteq 0..MaxNow, times # {}
    PROVE  \E t \in times : \A u \in times : u <= t
  <1> DEFINE R == OpToRel(<, Nat)
             T == {MaxNow - t : t \in times}
  <1>1. MaxNow \in Nat
    BY FilesAssumption
  <1>2. IsWellFoundedOn(R, Nat)
    BY NatLessThanWellFounded
  <1>3. T \subseteq Nat /\ T # {}
    <2>1. \A t \in times : MaxNow - t \in Nat
      BY <1>1
    <2>2. T \subseteq Nat
      BY <2>1
    <2>3. T # {}
      OBVIOUS
    <2> QED
      BY <2>2, <2>3
  <1>4. \A x, y \in Nat : <<y, x>> \in R <=> y < x
    BY DEF OpToRel
  <1> HIDE DEF R, T
  <1>5. PICK x \in T : \A y \in T : ~(<<y, x>> \in R)
    BY <1>2, <1>3, WFMin
  <1>6. PICK t \in times : x = MaxNow - t
    BY <1>5 DEF T
  <1>7. ASSUME NEW u \in times PROVE u <= t
    <2>1. MaxNow - u \in T
      BY <1>7 DEF T
    <2>2. ~(MaxNow - u < MaxNow - t)
      BY <1>3, <1>4, <1>5, <1>6, <2>1
    <2> QED
      BY <1>1, <1>6, <2>2
  <1> QED
    BY <1>6, <1>7

\* latest_path finds a file of the session, whenever there is one.
LEMMA LatestFound ==
    ASSUME NEW s \in Session
    PROVE  /\ Latest(s) \in Path \cup {None}
           /\ Latest(s) # None => disk[Latest(s)] # None
           /\ \A t \in 0..MaxNow : disk[<<t, s>>] # None =>
                Latest(s) # None /\ Latest(s)[2] = s /\ t <= Latest(s)[1]
  <1> DEFINE times == {t \in 0..MaxNow : disk[<<t, s>>] # None}
  <1>1. CASE times = {}
    BY <1>1 DEF Latest
  <1>2. CASE times # {}
    <2> DEFINE x == CHOOSE t \in times : \A u \in times : u <= t
    <2>1. Latest(s) = <<x, s>>
      BY <1>2 DEF Latest
    <2>2. \E t \in times : \A u \in times : u <= t
      BY <1>2, LatestExists
    <2>3. x \in times /\ \A u \in times : u <= x
      BY <2>2
    <2> HIDE DEF x
    <2> QED
      BY <2>1, <2>3, FilesAssumption DEF Path
  <1> QED
    BY <1>1, <1>2

\* _resolve_session_path names a file, and of the capture the id stands for.
LEMMA ResolveFound ==
    ASSUME IInv, NEW s \in Session
    PROVE  /\ Resolve(s) \in Path \cup {None}
           /\ \A w \in Writer : path[w] # None /\ path[w][2] = s /\ Named(w) =>
                Resolve(s) = path[w]
  <1>0. TypeOK /\ RegistryAt(s) /\ LastAt(s)
    BY DEF IInv, Filed, Stamped
  <1>1. CASE registry[s] # None
    <2>1. registry[s] \in Writer
      BY <1>0, <1>1, FilesAssumption DEF TypeOK
    <2>2. Resolve(s) = path[registry[s]]
      BY <1>1 DEF Resolve
    <2>3. ASSUME NEW w \in Writer, path[w][2] = s, Named(w) PROVE registry[s] = w
      BY <1>1, <2>3 DEF Named
    <2> QED
      BY <1>0, <2>1, <2>2, <2>3 DEF TypeOK
  <1>2. CASE registry[s] = None
    <2>1. Resolve(s) = Latest(s)
      BY <1>2 DEF Resolve
    <2>2. ASSUME NEW w \in Writer, path[w] # None, path[w][2] = s, Named(w)
          PROVE  Latest(s) = path[w]
      <3>1. last[s] = w
        BY <1>2, <2>2 DEF Named
      <3>2. path[w] \in Path /\ disk[path[w]] # None
        BY <2>2 DEF IInv, TypeOK, Filed, WriterAt
      <3>3. path[w] = <<path[w][1], s>> /\ path[w][1] \in 0..MaxNow
        BY <2>2, <3>2 DEF Path
      <3>4. Latest(s) # None /\ Latest(s)[2] = s /\ path[w][1] <= Latest(s)[1]
        BY <3>2, <3>3, LatestFound
      <3>5. Latest(s) \in Path /\ disk[Latest(s)] # None
        BY <3>4, LatestFound
      <3>6. Latest(s) = <<Latest(s)[1], s>> /\ Latest(s)[1] \in 0..MaxNow
        BY <3>4, <3>5 DEF Path
      <3>7. Latest(s)[1] <= path[w][1]
        <4>1. w # None
          BY FilesAssumption
        <4>2. \A t \in 0..MaxNow : disk[<<t, s>>] # None => t <= path[w][1]
          BY <1>0, <3>1, <4>1 DEF LastAt
        <4> QED
          BY <3>5, <3>6, <4>2
      <3>8. Latest(s)[1] = path[w][1]
        BY <3>3, <3>4, <3>6, <3>7, FilesAssumption
      <3> QED
        BY <3>3, <3>6, <3>8
    <2> QED
      BY <2>1, <2>2, LatestFound
  <1> QED
    BY <1>1, <1>2

-----------------------------------------------------------------------------
(* Type correctness.                                                       *)

LEMMA PrunedType ==
    ASSUME TypeOK
    PROVE  /\ Pruned \in [Link -> 0..(MaxNow + TTL) \cup {None}]
           /\ \A l \in Link : Pruned[l] \in {expires[l], None}
  BY DEF TypeOK, Pruned

LEMMA EntryType ==
    ASSUME TypeOK, NEW p \in Path
    PROVE  /\ EntryFor(p) \in Registered \cup {None}
           /\ EntryFor(p) # None => path[EntryFor(p)] = p
  <1> DEFINE known == {w \in Registered : \E s \in Session : registry[s] = w /\ path[w] = p}
  <1>1. CASE known = {}
    BY <1>1 DEF EntryFor
  <1>2. CASE known # {}
    <2> DEFINE x == CHOOSE w \in known : TRUE
    <2>1. EntryFor(p) = x
      BY <1>2 DEF EntryFor
    <2>2. x \in known
      BY <1>2
    <2> HIDE DEF x
    <2> QED
      BY <2>1, <2>2
  <1> QED
    BY <1>1, <1>2

LEMMA TypeInit == Init => TypeOK
  BY FilesAssumption DEF Init, TypeOK

LEMMA TypeStep == IInv /\ [Next]_vars => TypeOK'
  <1> SUFFICES ASSUME IInv, [Next]_vars PROVE TypeOK'
    OBVIOUS
  <1>0. TypeOK
    BY DEF IInv
  <1> USE FilesAssumption, <1>0 DEF TypeOK, fileVars, linkVars
  <1>1. ASSUME NEW w \in Writer, NEW s \in Session, Open(w, s) PROVE TypeOK'
    <2>1. <<now, s>> \in Path
      BY DEF Path
    <2> QED
      BY <1>1, <2>1 DEF Open
  <1>2. ASSUME NEW w \in Writer, Write(w) PROVE TypeOK'
    <2>1. path[w] \in Path /\ disk[path[w]] # None
      BY <1>2 DEF Write, IInv, Filed, WriterAt
    <2>2. disk[path[w]] + 1 \in 0..MaxChunks
      BY <1>2, <2>1 DEF Write
    <2> QED
      BY <1>2, <2>1, <2>2 DEF Write
  <1>3. ASSUME NEW w \in Writer, Close(w) PROVE TypeOK'
    BY <1>3 DEF Close
  <1>4. ASSUME NEW l \in Link, NEW p \in Path \cup {None}, Ask(l, p) PROVE TypeOK'
    BY <1>4 DEF Ask
  <1>5. ASSUME NEW l \in Link, Refuse(l) PROVE TypeOK'
    BY <1>5 DEF Refuse
  <1>6. ASSUME NEW l \in Link, Mint(l) PROVE TypeOK'
    <2>1. target[l] \in Path
      BY <1>6 DEF Mint, IInv, Filed, LinkAt
    <2>2. now + TTL \in 0..(MaxNow + TTL)
      OBVIOUS
    <2>3. expires' \in [Link -> 0..(MaxNow + TTL) \cup {None}]
      BY <1>6, <2>2, PrunedType DEF Mint
    <2> QED
      BY <1>6, <2>1, <2>3, EntryType DEF Mint
  <1>7. ASSUME NEW l \in Link, Hash(l) PROVE TypeOK'
    <2>1. target[l] \in Path /\ disk[target[l]] # None
      BY <1>7 DEF Hash, IInv, Filed, LinkAt
    <2> QED
      BY <1>7, <2>1 DEF Hash
  <1>8. ASSUME NEW l \in Link, Answer(l) PROVE TypeOK'
    BY <1>8 DEF Answer, Status
  <1>9. ASSUME NEW l \in Link, Download(l) PROVE TypeOK'
    <2>1. expires' \in [Link -> 0..(MaxNow + TTL) \cup {None}]
      BY <1>9, PrunedType DEF Download
    <2> QED
      BY <1>9, <2>1 DEF Download
  <1>10. ASSUME Tick PROVE TypeOK'
    BY <1>10 DEF Tick
  <1>11. ASSUME Restart PROVE TypeOK'
    BY <1>11 DEF Restart
  <1>12. ASSUME UNCHANGED vars PROVE TypeOK'
    BY <1>12 DEF vars
  <1> HIDE DEF TypeOK
  <1> QED
    BY <1>1, <1>2, <1>3, <1>4, <1>5, <1>6, <1>7, <1>8, <1>9, <1>10, <1>11, <1>12,
       ResolveFound
    DEF Next, WriterNext, LinkNext

-----------------------------------------------------------------------------
(* The invariant.                                                          *)

\* A file that is in the directory stays there, and a writer's file is its
\* file for ever.
LEMMA FilesStay ==
    ASSUME IInv, [Next]_vars
    PROVE  /\ \A p \in Path : disk[p] # None => disk'[p] # None
           /\ \A w \in Writer : path[w] # None => path'[w] = path[w]
  <1> USE FilesAssumption DEF IInv, TypeOK, fileVars, linkVars
  <1>1. ASSUME NEW w \in Writer, NEW s \in Session, Open(w, s)
        PROVE  /\ \A p \in Path : disk[p] # None => disk'[p] # None
               /\ \A v \in Writer : path[v] # None => path'[v] = path[v]
    BY <1>1 DEF Open
  <1>2. ASSUME NEW w \in Writer, Write(w)
        PROVE  /\ \A p \in Path : disk[p] # None => disk'[p] # None
               /\ \A v \in Writer : path[v] # None => path'[v] = path[v]
    <2>1. path[w] \in Path /\ disk[path[w]] \in Nat
      BY <1>2 DEF Write, Filed, WriterAt
    <2>2. disk[path[w]] + 1 # None
      BY <2>1
    <2> QED
      BY <1>2, <2>1, <2>2 DEF Write
  <1> QED
    BY <1>1, <1>2
    DEF Next, WriterNext, LinkNext, Close, Tick, Restart, Ask, Refuse, Mint, Hash,
        Answer, Download, vars

LEMMA WriterStep ==
    ASSUME IInv, [Next]_vars, NEW v \in Writer
    PROVE  WriterAt(v)'
  <1>0. WriterAt(v) /\ TypeOK
    BY DEF IInv, Filed
  <1>1. ASSUME NEW w \in Writer, NEW s \in Session, Open(w, s) PROVE WriterAt(v)'
    <2>1. <<now, s>> \in Path /\ <<now, s>> # None
      BY <1>0, FilesAssumption DEF TypeOK, Path
    <2>2. CASE v = w
      <3>1. path'[v] = <<now, s>> /\ disk'[<<now, s>>] = 0
        BY <1>0, <1>1, <2>1, <2>2 DEF Open, TypeOK
      <3> QED
        BY <2>1, <3>1, FilesAssumption DEF WriterAt
    <2>3. CASE v # w
      <3>1. path'[v] = path[v] /\ (v \in open' <=> v \in open)
        BY <1>0, <1>1, <2>3 DEF Open, TypeOK
      <3> QED
        BY <1>0, <3>1, FilesStay DEF WriterAt, TypeOK
    <2> QED
      BY <2>2, <2>3
  <1>2. ASSUME path' = path, open' \subseteq open PROVE WriterAt(v)'
    BY <1>0, <1>2, FilesStay DEF WriterAt, TypeOK
  <1> QED
    BY <1>1, <1>2
    DEF Next, WriterNext, LinkNext, Write, Close, Tick, Restart, Ask, Refuse, Mint, Hash,
        Answer, Download, fileVars, vars

LEMMA RegistryStep ==
    ASSUME IInv, [Next]_vars, NEW s \in Session
    PROVE  RegistryAt(s)'
  <1>0. RegistryAt(s) /\ TypeOK
    BY DEF IInv, Filed
  <1>1. ASSUME NEW w \in Writer, NEW r \in Session, Open(w, r) PROVE RegistryAt(s)'
    <2>1. <<now, r>> # None /\ <<now, r>>[2] = r
      BY <1>0, FilesAssumption DEF TypeOK
    <2>2. CASE w \in Registered /\ r = s
      BY <1>0, <1>1, <2>1, <2>2 DEF Open, TypeOK, RegistryAt
    <2>3. CASE ~(w \in Registered /\ r = s)
      <3>1. registry'[s] = registry[s]
        BY <1>0, <1>1, <2>3 DEF Open, TypeOK
      <3> QED
        BY <1>0, <3>1, FilesStay, FilesAssumption DEF RegistryAt, TypeOK
    <2> QED
      BY <2>2, <2>3
  <1>2. ASSUME registry' = registry PROVE RegistryAt(s)'
    BY <1>0, <1>2, FilesStay, FilesAssumption DEF RegistryAt, TypeOK
  <1>3. ASSUME Restart PROVE RegistryAt(s)'
    BY <1>3 DEF Restart, RegistryAt
  <1> QED
    BY <1>1, <1>2, <1>3
    DEF Next, WriterNext, LinkNext, Write, Close, Tick, Ask, Refuse, Mint, Hash,
        Answer, Download, fileVars, vars

\* A step of the writers leaves a call's clauses standing.
LEMMA LinkKept ==
    ASSUME IInv, [Next]_vars, NEW l \in Link,
           UNCHANGED <<state[l], target[l], entry[l], shown[l], expires[l], served[l]>>,
           \A w \in open' : w \in open \/ path[w] = None
    PROVE  LinkAt(l)'
  <1>1. LinkAt(l) /\ TypeOK
    BY DEF IInv, Filed
  <1>2. entry[l] # None => entry[l] \in Writer
    BY <1>1, FilesAssumption DEF TypeOK
  <1>3. target[l] # None => target[l] \in Path
    BY <1>1 DEF TypeOK
  <1> QED
    BY <1>1, <1>2, <1>3, FilesStay DEF LinkAt

LEMMA LinkStep ==
    ASSUME IInv, [Next]_vars, NEW l \in Link
    PROVE  LinkAt(l)'
  <1>0. LinkAt(l) /\ TypeOK
    BY DEF IInv, Filed
  <1>1. ASSUME NEW w \in Writer, WriterNext(w) PROVE LinkAt(l)'
    BY <1>1, LinkKept DEF WriterNext, Open, Write, Close, linkVars
  <1>2. ASSUME Tick PROVE LinkAt(l)'
    BY <1>2, LinkKept DEF Tick, linkVars, fileVars
  <1>3. ASSUME Restart PROVE LinkAt(l)'
    <2>1. /\ state'[l] \in {"idle", "over"} /\ (state'[l] = "idle" => state[l] = "idle")
          /\ expires'[l] = None /\ open' = {}
          /\ UNCHANGED <<disk, path, target, entry, hash, shown, served>>
      BY <1>3 DEF Restart
    <2> QED
      BY <1>0, <2>1 DEF LinkAt
  <1>4. ASSUME NEW m \in Link, NEW p \in Path \cup {None}, Ask(m, p) PROVE LinkAt(l)'
    <2>1. CASE l = m
      BY <1>0, <1>4, <2>1 DEF Ask, TypeOK, LinkAt, fileVars
    <2>2. CASE l # m
      <3>1. UNCHANGED <<state[l], target[l], entry[l], shown[l], expires[l], served[l]>>
        BY <1>0, <1>4, <2>2 DEF Ask, TypeOK, linkVars
      <3> QED
        BY <1>4, <3>1, LinkKept DEF Ask, fileVars
    <2> QED
      BY <2>1, <2>2
  <1>5. ASSUME NEW m \in Link, Refuse(m) PROVE LinkAt(l)'
    <2>1. CASE l = m
      BY <1>0, <1>5, <2>1 DEF Refuse, TypeOK, LinkAt, fileVars
    <2>2. CASE l # m
      <3>1. UNCHANGED <<state[l], target[l], entry[l], shown[l], expires[l], served[l]>>
        BY <1>0, <1>5, <2>2 DEF Refuse, TypeOK, linkVars
      <3> QED
        BY <1>5, <3>1, LinkKept DEF Refuse, fileVars
    <2> QED
      BY <2>1, <2>2
  <1>6. ASSUME NEW m \in Link, Mint(m) PROVE LinkAt(l)'
    <2>1. CASE l = m
      <3>1. target[l] \in Path
        BY <1>0, <1>6, <2>1 DEF Mint, TypeOK, LinkAt
      <3>2. /\ state[l] = "checking" /\ state'[l] = "hashing"
            /\ entry'[l] = EntryFor(target[l])
            /\ UNCHANGED <<fileVars, target, shown, served>>
        BY <1>0, <1>6, <2>1 DEF Mint, TypeOK
      <3>3. entry'[l] # None => path[entry'[l]] # None
        BY <1>0, <3>1, <3>2, EntryType, FilesAssumption DEF Path
      <3> QED
        BY <1>0, <3>2, <3>3 DEF LinkAt, fileVars
    <2>2. CASE l # m
      <3>1. /\ UNCHANGED <<state[l], target[l], entry[l], shown[l], served[l], fileVars>>
            /\ expires'[l] \in {expires[l], None}
        BY <1>0, <1>6, <2>2, PrunedType DEF Mint, TypeOK
      <3> QED
        BY <1>0, <3>1 DEF LinkAt, fileVars
    <2> QED
      BY <2>1, <2>2
  <1>7. ASSUME NEW m \in Link, Hash(m) PROVE LinkAt(l)'
    <2>1. CASE l = m
      BY <1>0, <1>7, <2>1 DEF Hash, TypeOK, LinkAt, fileVars
    <2>2. CASE l # m
      <3>1. UNCHANGED <<state[l], target[l], entry[l], shown[l], expires[l], served[l]>>
        BY <1>0, <1>7, <2>2 DEF Hash, TypeOK, linkVars
      <3> QED
        BY <1>7, <3>1, LinkKept DEF Hash, fileVars
    <2> QED
      BY <2>1, <2>2
  <1>8. ASSUME NEW m \in Link, Answer(m) PROVE LinkAt(l)'
    <2>1. CASE l = m
      BY <1>0, <1>8, <2>1 DEF Answer, Status, TypeOK, LinkAt, fileVars
    <2>2. CASE l # m
      <3>1. UNCHANGED <<state[l], target[l], entry[l], shown[l], expires[l], served[l]>>
        BY <1>0, <1>8, <2>2 DEF Answer, TypeOK, linkVars
      <3> QED
        BY <1>8, <3>1, LinkKept DEF Answer, fileVars
    <2> QED
      BY <2>1, <2>2
  <1>9. ASSUME NEW m \in Link, Download(m) PROVE LinkAt(l)'
    <2>0. UNCHANGED <<fileVars, linkVars>>
      BY <1>9 DEF Download
    <2>1. CASE l = m
      <3>1. expires'[l] = None /\ expires[l] # None
        BY <1>0, <1>9, <2>1, PrunedType DEF Download
      <3> QED
        BY <1>0, <2>0, <3>1 DEF LinkAt, fileVars, linkVars
    <2>2. CASE l # m
      <3>1. served'[l] = served[l] /\ expires'[l] \in {expires[l], None}
        BY <1>0, <1>9, <2>2, PrunedType DEF Download, TypeOK
      <3> QED
        BY <1>0, <2>0, <3>1 DEF LinkAt, fileVars, linkVars
    <2> QED
      BY <2>1, <2>2
  <1>10. ASSUME UNCHANGED vars PROVE LinkAt(l)'
    BY <1>10, LinkKept DEF vars, fileVars, linkVars
  <1> QED
    BY <1>1, <1>2, <1>3, <1>4, <1>5, <1>6, <1>7, <1>8, <1>9, <1>10, ResolveFound
    DEF Next, LinkNext

\* Only an opening stamps a name, and the clock does not go back.
LEMMA StampStep ==
    ASSUME IInv, [Next]_vars, NEW p \in Path
    PROVE  StampAt(p)'
  <1>0. TypeOK /\ StampAt(p) /\ p[1] \in 0..MaxNow
    BY DEF IInv, Stamped, Path
  <1>1. now \in Nat /\ p[1] \in Nat
    BY <1>0, FilesAssumption DEF TypeOK
  <1>2. ASSUME NEW w \in Writer, NEW s \in Session, Open(w, s) PROVE StampAt(p)'
    <2>1. CASE p = <<now, s>>
      BY <1>1, <1>2, <2>1 DEF Open, StampAt
    <2>2. CASE p # <<now, s>>
      BY <1>0, <1>2, <2>2 DEF Open, StampAt, TypeOK
    <2> QED
      BY <2>1, <2>2
  <1>3. ASSUME NEW w \in Writer, Write(w) PROVE StampAt(p)'
    <2>1. path[w] \in Path /\ disk[path[w]] # None
      BY <1>3 DEF Write, IInv, TypeOK, Filed, WriterAt
    <2>2. disk'[p] # None => disk[p] # None
      BY <1>0, <1>3, <2>1 DEF Write, TypeOK
    <2> QED
      BY <1>0, <1>3, <2>2 DEF Write, StampAt
  <1>4. ASSUME Tick PROVE StampAt(p)'
    BY <1>0, <1>1, <1>4 DEF Tick, fileVars, StampAt
  <1>5. ASSUME UNCHANGED <<now, disk>> PROVE StampAt(p)'
    BY <1>0, <1>5 DEF StampAt
  <1> QED
    BY <1>2, <1>3, <1>4, <1>5
    DEF Next, WriterNext, LinkNext, Close, Restart, Ask, Refuse, Mint, Hash,
        Answer, Download, fileVars, vars

\* A new name is stamped with the present, so none of its session is newer.
LEMMA LastStep ==
    ASSUME IInv, [Next]_vars, NEW s \in Session
    PROVE  LastAt(s)'
  <1>0. TypeOK /\ LastAt(s) /\ \A p \in Path : StampAt(p)
    BY DEF IInv, Stamped
  <1>1. ASSUME UNCHANGED last[s],
               \A t \in 0..MaxNow : disk'[<<t, s>>] # None => disk[<<t, s>>] # None
        PROVE  LastAt(s)'
    <2>1. last[s] # None => last[s] \in Writer
      BY <1>0 DEF TypeOK
    <2>2. last[s] # None /\ path[last[s]] # None => path'[last[s]] = path[last[s]]
      BY <2>1, FilesStay
    <2> QED
      BY <1>0, <1>1, <2>2 DEF LastAt
  <1>2. ASSUME NEW w \in Writer, NEW r \in Session, Open(w, r) PROVE LastAt(s)'
    <2>1. CASE r = s
      <3>1. last'[s] = w /\ path'[w] = <<now, s>> /\ <<now, s>> # None
        BY <1>0, <1>2, <2>1, FilesAssumption DEF Open, TypeOK
      <3>2. ASSUME NEW t \in 0..MaxNow, disk'[<<t, s>>] # None PROVE t <= now
        <4>1. CASE t = now
          BY <1>0, <4>1, FilesAssumption DEF TypeOK
        <4>2. CASE t # now
          <5>1. <<t, s>> \in Path /\ <<t, s>> # <<now, s>>
            BY <4>2 DEF Path
          <5>2. disk[<<t, s>>] # None
            BY <1>0, <1>2, <2>1, <3>2, <5>1 DEF Open, TypeOK
          <5> QED
            BY <1>0, <5>1, <5>2 DEF StampAt
        <4> QED
          BY <4>1, <4>2
      <3> QED
        BY <3>1, <3>2 DEF LastAt
    <2>2. CASE r # s
      <3>1. last'[s] = last[s]
        BY <1>0, <1>2, <2>2 DEF Open, TypeOK
      <3>2. ASSUME NEW t \in 0..MaxNow, disk'[<<t, s>>] # None PROVE disk[<<t, s>>] # None
        <4>1. <<t, s>> \in Path /\ <<t, s>> # <<now, r>>
          BY <2>2 DEF Path
        <4> QED
          BY <1>0, <1>2, <3>2, <4>1 DEF Open, TypeOK
      <3> QED
        BY <1>1, <3>1, <3>2
    <2> QED
      BY <2>1, <2>2
  <1>3. ASSUME NEW w \in Writer, Write(w) PROVE LastAt(s)'
    <2>1. path[w] \in Path /\ disk[path[w]] # None
      BY <1>3 DEF Write, IInv, TypeOK, Filed, WriterAt
    <2>2. ASSUME NEW t \in 0..MaxNow, disk'[<<t, s>>] # None PROVE disk[<<t, s>>] # None
      <3>1. <<t, s>> \in Path
        BY DEF Path
      <3> QED
        BY <1>0, <1>3, <2>1, <2>2, <3>1 DEF Write, TypeOK
    <2> QED
      BY <1>1, <1>3, <2>2 DEF Write
  <1>4. ASSUME UNCHANGED <<last, disk>> PROVE LastAt(s)'
    BY <1>1, <1>4
  <1> QED
    BY <1>2, <1>3, <1>4
    DEF Next, WriterNext, LinkNext, Close, Tick, Restart, Ask, Refuse, Mint, Hash,
        Answer, Download, fileVars, vars

\* A write adds to the file and to what was written; an opening empties only
\* a file of its own name, which is then no longer its writer's alone.
LEMMA DataStep ==
    ASSUME IInv, [Next]_vars, NEW v \in Writer
    PROVE  DataAt(v)'
  <1>0. TypeOK /\ DataAt(v) /\ WriterAt(v)
    BY DEF IInv, Filed, Stamped
  <1>1. ASSUME path[v] # None, disk'[path[v]] = disk[path[v]], wrote'[v] = wrote[v]
        PROVE  DataAt(v)'
    BY <1>0, <1>1, FilesStay DEF DataAt
  <1>2. ASSUME NEW w \in Writer \ {v}, path[v] # None, path'[w] = path[v] PROVE DataAt(v)'
    BY <1>2, FilesStay DEF DataAt
  <1>3. ASSUME NEW w \in Writer, NEW s \in Session, Open(w, s) PROVE DataAt(v)'
    <2>0. <<now, s>> \in Path
      BY <1>0, <1>3 DEF TypeOK, Path
    <2>1. CASE v = w
      <3>1. path'[v] = <<now, s>> /\ disk'[<<now, s>>] = 0 /\ wrote'[v] = 0
        BY <1>0, <1>3, <2>0, <2>1 DEF Open, TypeOK
      <3> QED
        BY <3>1 DEF DataAt
    <2>2. CASE v # w /\ path[v] = None
      <3>1. path'[v] = None
        BY <1>0, <1>3, <2>2 DEF Open, TypeOK
      <3> QED
        BY <3>1 DEF DataAt
    <2>3. CASE v # w /\ path[v] = <<now, s>>
      <3>1. path'[w] = <<now, s>> /\ path[v] # None
        BY <1>0, <1>3, <2>3, FilesAssumption DEF Open, TypeOK
      <3> QED
        BY <1>2, <2>3, <3>1
    <2>4. CASE v # w /\ path[v] # None /\ path[v] # <<now, s>>
      <3>1. path[v] \in Path
        BY <1>0, <2>4 DEF TypeOK
      <3>2. disk'[path[v]] = disk[path[v]] /\ wrote'[v] = wrote[v]
        BY <1>0, <1>3, <2>4, <3>1 DEF Open, TypeOK
      <3> QED
        BY <1>1, <2>4, <3>2
    <2> QED
      BY <2>1, <2>2, <2>3, <2>4
  <1>4. ASSUME NEW w \in Writer, Write(w) PROVE DataAt(v)'
    <2>0. path[w] \in Path /\ disk[path[w]] # None /\ path' = path
      BY <1>4 DEF Write, IInv, TypeOK, Filed, WriterAt
    <2>1. CASE v = w
      <3>1. disk'[path[v]] = disk[path[v]] + 1 /\ wrote'[v] = wrote[v] + 1
        BY <1>0, <1>4, <2>0, <2>1 DEF Write, TypeOK
      <3> QED
        BY <1>0, <2>0, <3>1 DEF DataAt
    <2>2. CASE v # w /\ path[v] = path[w]
      BY <1>2, <2>0, <2>2, FilesAssumption DEF Path
    <2>3. CASE path[v] = None
      BY <2>0, <2>3 DEF DataAt
    <2>4. CASE v # w /\ path[v] # None /\ path[v] # path[w]
      <3>1. path[v] \in Path
        BY <1>0, <2>4 DEF TypeOK
      <3>2. disk'[path[v]] = disk[path[v]] /\ wrote'[v] = wrote[v]
        BY <1>0, <1>4, <2>0, <2>4, <3>1 DEF Write, TypeOK
      <3> QED
        BY <1>1, <2>4, <3>2
    <2> QED
      BY <2>1, <2>2, <2>3, <2>4
  <1>5. ASSUME UNCHANGED <<disk, path, wrote>> PROVE DataAt(v)'
    BY <1>0, <1>5 DEF DataAt
  <1> QED
    BY <1>3, <1>4, <1>5
    DEF Next, WriterNext, LinkNext, Close, Tick, Restart, Ask, Refuse, Mint, Hash,
        Answer, Download, fileVars, vars

\* The inductive invariant holds in every reachable state.
THEOREM Invariance == Spec => []IInv
  <1>1. Init => IInv
    <2>1. ASSUME Init, NEW w \in Writer PROVE WriterAt(w)
      BY <2>1 DEF Init, WriterAt
    <2>2. ASSUME Init, NEW s \in Session PROVE RegistryAt(s)
      BY <2>2 DEF Init, RegistryAt
    <2>3. ASSUME Init, NEW l \in Link PROVE LinkAt(l)
      BY <2>3 DEF Init, LinkAt
    <2>4. ASSUME Init PROVE Stamped
      BY <2>4 DEF Init, Stamped, StampAt, LastAt, DataAt
    <2> QED
      BY <2>1, <2>2, <2>3, <2>4, TypeInit DEF IInv, Filed
  <1>2. IInv /\ [Next]_vars => IInv'
    <2>1. IInv /\ [Next]_vars => Filed'
      BY WriterStep, RegistryStep, LinkStep DEF Filed
    <2>2. IInv /\ [Next]_vars => Stamped'
      BY StampStep, LastStep, DataStep DEF Stamped, Path
    <2> QED
      BY <2>1, <2>2, TypeStep DEF IInv
  <1> QED
    BY <1>1, <1>2, PTL DEF Spec

-----------------------------------------------------------------------------
(* What it is for.                                                         *)

\* Every state of the files, captures and links is well typed.
THEOREM TypeCorrect == Spec => []TypeOK
  BY Invariance, PTL DEF IInv

\* A capture's file keeps what it wrote but for an opening in its second, and
\* an id resolves to the file of the capture it stands for.
THEOREM FoundCorrect == Spec => []CaptureKeepsItsFile
  <1>1. IInv => CaptureKeepsItsFile
    <2>1. ASSUME IInv, NEW w \in Writer, path[w] # None
          PROVE  /\ disk[path[w]] = wrote[w] \/ \E v \in Writer \ {w} : path[v] = path[w]
                 /\ Named(w) => Resolve(path[w][2]) = path[w]
      <3>1. path[w][2] \in Session
        BY <2>1 DEF IInv, TypeOK, Path
      <3>2. DataAt(w)
        BY <2>1 DEF IInv, Stamped
      <3> QED
        BY <2>1, <3>1, <3>2, ResolveFound DEF DataAt
    <2> QED
      BY <2>1 DEF CaptureKeepsItsFile
  <1> QED
    BY <1>1, Invariance, PTL

\* A link without the "capture still running" warning names a file whose
\* capture has ended, for ever.
THEOREM WarningCorrect == Spec => []NoWarningMeansDone
  <1>1. IInv => NoWarningMeansDone
    BY DEF IInv, Filed, LinkAt, NoWarningMeansDone
  <1> QED
    BY <1>1, Invariance, PTL

\* No schedule of downloads, prunes and restarts honours a ticket twice, or
\* from its expiry on.
THEOREM TicketCorrect == Spec => TicketWorksOnce
  <1>1. ASSUME IInv, [Next]_vars, NEW l \in Link, served[l] # {}
        PROVE  served'[l] = served[l] /\ expires'[l] = None
    <2>0. TypeOK /\ expires[l] = None /\ state[l] \notin {"idle", "checking"}
      BY <1>1 DEF IInv, Filed, LinkAt
    <2>1. ASSUME NEW m \in Link, Mint(m) PROVE served'[l] = served[l] /\ expires'[l] = None
      <3>1. m # l /\ served' = served
        BY <2>0, <2>1 DEF Mint
      <3> QED
        BY <2>0, <2>1, <3>1, PrunedType DEF Mint, TypeOK
    <2>2. ASSUME NEW m \in Link, Download(m) PROVE served'[l] = served[l] /\ expires'[l] = None
      <3>1. m # l
        BY <2>0, <2>2 DEF Download
      <3> QED
        BY <2>0, <2>2, <3>1, PrunedType DEF Download, TypeOK
    <2>3. ASSUME Restart PROVE served'[l] = served[l] /\ expires'[l] = None
      BY <2>3 DEF Restart
    <2>4. ASSUME UNCHANGED <<expires, served>>
          PROVE  served'[l] = served[l] /\ expires'[l] = None
      BY <2>0, <2>4
    <2> QED
      BY <1>1, <2>1, <2>2, <2>3, <2>4
      DEF Next, WriterNext, LinkNext, Open, Write, Close, Tick, Ask, Refuse, Hash, Answer,
          linkVars, vars
  <1>2. ASSUME IInv, [Next]_vars, NEW l \in Link, served'[l] # served[l]
        PROVE  now < expires[l]
    <2>0. TypeOK
      BY <1>2 DEF IInv
    <2>1. ASSUME NEW m \in Link, Download(m) PROVE now < expires[l]
      <3>1. m = l /\ Pruned[l] # None
        BY <1>2, <2>0, <2>1 DEF Download, TypeOK
      <3>2. expires[l] # None /\ ~(expires[l] <= now)
        BY <3>1 DEF Pruned
      <3>3. expires[l] \in 0..(MaxNow + TTL) /\ now \in 0..MaxNow
        BY <2>0, <3>2 DEF TypeOK
      <3> QED
        BY <3>2, <3>3, FilesAssumption
    <2> QED
      BY <1>2, <2>1
      DEF Next, WriterNext, LinkNext, Open, Write, Close, Restart, Tick, Ask, Refuse,
          Mint, Hash, Answer, linkVars, vars
  <1>3. IInv /\ [Next]_vars =>
          [\A l \in Link :
             /\ served[l] # {} => served'[l] = served[l] /\ expires'[l] = None
             /\ served'[l] # served[l] => now < expires[l]]_vars
    BY <1>1, <1>2
  <1> QED
    BY <1>3, Invariance, PTL DEF TicketWorksOnce, Spec

=============================================================================
