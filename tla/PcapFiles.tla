----------------------------- MODULE PcapFiles -----------------------------
(***************************************************************************)
(* The managed capture directory (wlanpi_mcp/capture/storage.py), the      *)
(* registry of file captures, and the tools that find, list and hand out   *)
(* their files (wlanpi_mcp/tools/capture_file.py), while captures write.   *)
(*                                                                         *)
(* A writer is a capture with a file: start_pcap_file registers its own    *)
(* (FileCapture.tla), capture_scan and capture_observe only tee theirs     *)
(* (StreamCapture.tla).  A file is named after the second it was opened in *)
(* and the core session it records; its content is the number of chunks it *)
(* holds.                                                                  *)
(***************************************************************************)
EXTENDS Integers, FiniteSets

CONSTANTS
    Session,    \* core session ids
    Writer,     \* captures that write a file
    Registered, \* writers started by start_pcap_file
    Link,       \* get_pcap_download_url calls, each with its own ticket
    None,       \* no path, no entry
    TTL,        \* DOWNLOAD_TTL_S, in ticks
    MaxNow,     \* bound of the clock
    MaxChunks   \* bound on the chunks one file holds

ASSUME FilesAssumption ==
    /\ Registered \subseteq Writer
    /\ TTL \in Nat \ {0} /\ MaxNow \in Nat /\ MaxChunks \in Nat
    /\ None \notin Writer \cup (0..MaxNow) \X Session /\ None \notin Nat

Path == (0..MaxNow) \X Session

VARIABLES
    now,      \* the clock, in seconds
    disk,     \* chunks of each file in the directory, None where there is none
    path,     \* the file of each writer
    open,     \* writers that still write
    registry, \* _CAPTURES: the writer registered for each session
    wrote,    \* history: chunks each writer has written
    last,     \* history: the writer that opened last for each session
    state,    \* where each link call is
    target,   \* the path it resolved
    entry,    \* the registry entry it found for that path
    hash,     \* chunks its sha256 covers
    shown,    \* the status its answer shows
    expires,  \* _TICKETS: expiry of each ticket, None if not in the store
    served    \* history: times at which each ticket was honoured

fileVars == <<disk, path, open, registry, wrote, last>>
linkVars == <<state, target, entry, hash, shown>>
vars     == <<now, fileVars, linkVars, expires, served>>

Init ==
    /\ now = 0
    /\ disk = [p \in Path |-> None]
    /\ path = [w \in Writer |-> None]
    /\ open = {}
    /\ registry = [s \in Session |-> None]
    /\ wrote = [w \in Writer |-> 0]
    /\ last = [s \in Session |-> None]
    /\ state = [l \in Link |-> "idle"]
    /\ target = [l \in Link |-> None]
    /\ entry = [l \in Link |-> None]
    /\ hash = [l \in Link |-> 0]
    /\ shown = [l \in Link |-> "none"]
    /\ expires = [l \in Link |-> None]
    /\ served = [l \in Link |-> {}]

-----------------------------------------------------------------------------
(* Finding files.                                                          *)

\* Mutant: the first file of a session is taken.
LatestOldest(s) ==
    LET times == {t \in 0..MaxNow : disk[<<t, s>>] # None}
    IN  IF times = {} THEN None
        ELSE <<CHOOSE t \in times : \A u \in times : t <= u, s>>

\* latest_path: the newest file written for a session; names sort by time.
Latest(s) ==
    LET times == {t \in 0..MaxNow : disk[<<t, s>>] # None}
    IN  IF times = {} THEN None
        ELSE <<CHOOSE t \in times : \A u \in times : u <= t, s>>

\* _resolve_session_path: the registry first, then the directory.
Resolve(s) ==
    IF registry[s] # None THEN path[registry[s]] ELSE Latest(s)

\* _capture_for_path: the registry entry writing a file, if any.
EntryFor(p) ==
    LET known == {w \in Registered : \E s \in Session : registry[s] = w /\ path[w] = p}
    IN  IF known = {} THEN None ELSE CHOOSE w \in known : TRUE

\* The status a file is shown with, by its registry entry.
Status(w) ==
    IF w = None THEN "on_disk" ELSE IF w \in open THEN "running" ELSE "ended"

-----------------------------------------------------------------------------
(* Writers.                                                                *)

\* open_capture_file: the name is taken from the clock, and "wb" empties a
\* file that is already there.  A session has one owner to register.
Open(w, s) ==
    /\ path[w] = None
    /\ w \in Registered => registry[s] = None /\ \A v \in Registered :
           path[v] # None => path[v][2] # s
    /\ path' = [path EXCEPT ![w] = <<now, s>>]
    /\ disk' = [disk EXCEPT ![<<now, s>>] = 0]
    /\ open' = open \cup {w}
    /\ registry' = IF w \in Registered THEN [registry EXCEPT ![s] = w] ELSE registry
    /\ wrote' = [wrote EXCEPT ![w] = 0]
    /\ last' = [last EXCEPT ![s] = w]
    /\ UNCHANGED <<now, linkVars, expires, served>>

Write(w) ==
    /\ w \in open
    /\ disk[path[w]] < MaxChunks
    /\ disk' = [disk EXCEPT ![path[w]] = @ + 1]
    /\ wrote' = [wrote EXCEPT ![w] = @ + 1]
    /\ UNCHANGED <<now, path, open, registry, last, linkVars, expires, served>>

\* The capture ends: its file is closed and its status set in one step.
Close(w) ==
    /\ w \in open
    /\ open' = open \ {w}
    /\ UNCHANGED <<now, disk, path, registry, wrote, last, linkVars, expires, served>>

\* The daemon restarts: registry, tickets and running calls are gone, the
\* files stay.
Restart ==
    /\ registry' = [s \in Session |-> None]
    /\ open' = {}
    /\ expires' = [l \in Link |-> None]
    /\ state' = [l \in Link |-> IF state[l] = "idle" THEN "idle" ELSE "over"]
    /\ UNCHANGED <<now, disk, path, wrote, last, target, entry, hash, shown, served>>

-----------------------------------------------------------------------------
(* One-time links.                                                         *)

\* _prune_tickets: the tickets that survive.
Pruned == [l \in Link |->
    IF expires[l] # None /\ expires[l] <= now THEN None ELSE expires[l]]

\* get_pcap_download_url up to its token check: p is what a capture_id
\* resolves to, or the path argument, and an existing file.
Ask(l, p) ==
    /\ state[l] = "idle"
    /\ p # None
    /\ disk[p] # None
    /\ state' = [state EXCEPT ![l] = "checking"]
    /\ target' = [target EXCEPT ![l] = p]
    /\ UNCHANGED <<now, fileVars, entry, hash, shown, expires, served>>

\* Core refuses the caller's token.
Refuse(l) ==
    /\ state[l] = "checking"
    /\ state' = [state EXCEPT ![l] = "over"]
    /\ UNCHANGED <<now, fileVars, target, entry, hash, shown, expires, served>>

\* Mutant: the expiry is off by one.
MintLonger(l) ==
    /\ state[l] = "checking"
    /\ state' = [state EXCEPT ![l] = "hashing"]
    /\ expires' = [Pruned EXCEPT ![l] = now + TTL + 1]
    /\ entry' = [entry EXCEPT ![l] = EntryFor(target[l])]
    /\ UNCHANGED <<now, fileVars, target, hash, shown, served>>

\* The ticket is stored, then the file is hashed in a thread.
Mint(l) ==
    /\ state[l] = "checking"
    /\ state' = [state EXCEPT ![l] = "hashing"]
    /\ expires' = [Pruned EXCEPT ![l] = now + TTL]
    /\ entry' = [entry EXCEPT ![l] = EntryFor(target[l])]
    /\ UNCHANGED <<now, fileVars, target, hash, shown, served>>

\* The thread reads the last chunk that is there.
Hash(l) ==
    /\ state[l] = "hashing"
    /\ state' = [state EXCEPT ![l] = "hashed"]
    /\ hash' = [hash EXCEPT ![l] = disk[target[l]]]
    /\ UNCHANGED <<now, fileVars, target, entry, shown, expires, served>>

\* Mutant: a registered capture is taken to have ended.
AnswerComplete(l) ==
    /\ state[l] = "hashed"
    /\ state' = [state EXCEPT ![l] = "answered"]
    /\ shown' = [shown EXCEPT ![l] = IF entry[l] = None THEN "on_disk" ELSE "ended"]
    /\ UNCHANGED <<now, fileVars, target, entry, hash, expires, served>>

\* The answer: the status is read after the hash.
Answer(l) ==
    /\ state[l] = "hashed"
    /\ state' = [state EXCEPT ![l] = "answered"]
    /\ shown' = [shown EXCEPT ![l] = Status(entry[l])]
    /\ UNCHANGED <<now, fileVars, target, entry, hash, expires, served>>

\* Mutant: the ticket stays in the store.
DownloadKeeps(l) ==
    /\ expires[l] # None
    /\ expires' = Pruned
    /\ served' = [served EXCEPT ![l] =
           IF Pruned[l] # None THEN @ \cup {now} ELSE @]
    /\ UNCHANGED <<now, fileVars, linkVars>>

\* download_pcap: prune, then take the ticket out of the store.
Download(l) ==
    /\ expires[l] # None
    /\ expires' = [Pruned EXCEPT ![l] = None]
    /\ served' = [served EXCEPT ![l] =
           IF Pruned[l] # None THEN @ \cup {now} ELSE @]
    /\ UNCHANGED <<now, fileVars, linkVars>>

Tick == now < MaxNow /\ now' = now + 1 /\ UNCHANGED <<fileVars, linkVars, expires, served>>

-----------------------------------------------------------------------------

WriterNext(w) ==
    \/ \E s \in Session : Open(w, s)
    \/ Write(w)
    \/ Close(w)

LinkNext(l) ==
    \/ \E s \in Session : Ask(l, Resolve(s))
    \/ \E p \in Path : Ask(l, p)
    \/ Refuse(l)
    \/ Mint(l)
    \/ Hash(l)
    \/ Answer(l)
    \/ Download(l)

Next ==
    \/ Tick
    \/ Restart
    \/ \E w \in Writer : WriterNext(w)
    \/ \E l \in Link : LinkNext(l)

Spec == Init /\ [][Next]_vars

-----------------------------------------------------------------------------
(* Properties.                                                             *)

TypeOK ==
    /\ now \in 0..MaxNow
    /\ disk \in [Path -> 0..MaxChunks \cup {None}]
    /\ path \in [Writer -> Path \cup {None}]
    /\ open \subseteq Writer
    /\ registry \in [Session -> Registered \cup {None}]
    /\ wrote \in [Writer -> Nat]
    /\ last \in [Session -> Writer \cup {None}]
    /\ state \in [Link -> {"idle", "checking", "hashing", "hashed",
                           "answered", "over"}]
    /\ target \in [Link -> Path \cup {None}]
    /\ entry \in [Link -> Registered \cup {None}]
    /\ hash \in [Link -> 0..MaxChunks]
    /\ shown \in [Link -> {"none", "on_disk", "running", "ended"}]
    /\ expires \in [Link -> 0..(MaxNow + TTL) \cup {None}]
    /\ served \in [Link -> SUBSET (0..MaxNow)]

\* The capture an id stands for: the one registered under it, and once the
\* daemon has forgotten that, or for tees alone, the one that opened last.
Named(w) ==
    LET s == path[w][2]
    IN  IF registry[s] # None THEN registry[s] = w ELSE last[s] = w

\* A capture's file keeps all it wrote, whatever is captured, listed or
\* restarted later, unless another of its id was opened in the same second
\* and emptied it; and the id resolves to the file of the capture it stands
\* for (an older one of the same id is reached by its path only).
CaptureKeepsItsFile ==
    \A w \in Writer : path[w] # None =>
        /\ disk[path[w]] = wrote[w] \/ \E v \in Writer \ {w} : path[v] = path[w]
        /\ Named(w) => Resolve(path[w][2]) = path[w]

\* A link works once, and only before it expires: no schedule of downloads,
\* prunes and restarts honours a ticket twice, or at its expiry or later.
TicketWorksOnce ==
    [][\A l \in Link :
          /\ served[l] # {} => served'[l] = served[l] /\ expires'[l] = None
          /\ served'[l] # served[l] => now < expires[l]]_vars

\* A link handed out without the "capture still running" warning stays
\* right: no registered capture writes the file it names, then or later.
NoWarningMeansDone ==
    \A l \in Link : shown[l] = "ended" => entry[l] \notin open

\* Claimed by get_pcap_download_url (the sha256 "only matches a capture that
\* had already stopped"): it matches the file of an ended capture.
HashMatchesEnded ==
    \A l \in Link : state[l] = "answered" /\ shown[l] = "ended" =>
        hash[l] = disk[target[l]]

=============================================================================
