-------------------------- MODULE ProfilerReports ---------------------------
(***************************************************************************)
(* get_profiler_reports (wlanpi_mcp/tools/profiler_reports.py): a call     *)
(* lists core's manifest, downloads the files it wants a few at a time and *)
(* answers with their profiles, with one link per file or with one link to *)
(* a zip.  Meanwhile the profiler writes files, purge_profiler_data        *)
(* deletes them and other calls come and go.                               *)
(*                                                                         *)
(* The content of a file is its size: two versions that differ in size are *)
(* two contents.  Core refuses a purge while the profiler runs; here files *)
(* vanish at any time, which is no less.                                   *)
(***************************************************************************)
EXTENDS Integers, FiniteSets, FiniteSetsExt

CONSTANTS
    File,        \* paths under the profiler's directory
    Report,      \* those of the session CSVs
    Call,        \* calls of get_profiler_reports
    Zip,         \* the key of a zip among a call's tickets
    None,        \* no file, no ticket
    Concurrency, \* _FETCH_CONCURRENCY
    Limit,       \* MAX_DOWNLOAD_BYTES
    TTL,         \* DOWNLOAD_TTL_S, in ticks
    MaxNow,      \* bound of the clock
    MaxSize      \* bound on a file's size

ASSUME ReportsAssumption ==
    /\ Report \subseteq File /\ Zip \notin File
    /\ Concurrency \in Nat \ {0} /\ TTL \in Nat \ {0}
    /\ Limit \in Nat /\ MaxNow \in Nat /\ MaxSize \in Nat \ {0}

Size   == 1..MaxSize
Kind   == {"json", "links", "zip"}
Key    == Call \X (File \cup {Zip})
Waits  == {"none", "todo", "flying", "gone", "failed"}

VARIABLES
    now,      \* the clock
    disk,     \* size of each file core serves, 0 where there is none
    state,    \* where each call is
    kind,     \* its output argument
    got,      \* each file's download: not wanted, a wait, or 0 .. its size
    standing, \* history: wanted files on disk ever since the listing
    stamp,    \* `now` of the call when it had its files
    answer,   \* files and sizes its answer names
    tickets,  \* _TICKETS: snapshot and expiry behind each ticket
    handed    \* history: what a download of each ticket delivered

callVars == <<state, kind, got, standing, stamp, answer>>
vars     == <<now, disk, callVars, tickets, handed>>

NoFile == [f \in File |-> [is |-> "none", size |-> 0]]

Init ==
    /\ now = 0
    /\ disk \in [File -> {0, 1}]
    /\ state = [c \in Call |-> "idle"]
    /\ kind = [c \in Call |-> "json"]
    /\ got = [c \in Call |-> NoFile]
    /\ standing = [c \in Call |-> {}]
    /\ stamp = [c \in Call |-> 0]
    /\ answer = [c \in Call |-> {}]
    /\ tickets = [k \in Key |-> None]
    /\ handed = [k \in Key |-> None]

-----------------------------------------------------------------------------
(* The files, as core serves them.                                         *)

\* The profiler writes a profile or a report.
Store(f, n) ==
    /\ disk[f] # n
    /\ disk' = [disk EXCEPT ![f] = n]
    /\ UNCHANGED <<now, callVars, tickets, handed>>

\* A purge, or the profiler about to write a new version, deletes a file.
Remove(f) ==
    /\ disk[f] # 0
    /\ disk' = [disk EXCEPT ![f] = 0]
    /\ standing' = [c \in Call |-> standing[c] \ {f}]
    /\ UNCHANGED <<now, state, kind, got, stamp, answer, tickets, handed>>

-----------------------------------------------------------------------------
(* Listing and downloading.                                                *)

Total(files) == MapThenSumSet(LAMBDA f : disk[f], files)

\* The manifest, the filters (mac, max_clients, include_session_csv: the
\* files wanted), and the limit on what links and zips may hold.
List(c, k, want) ==
    LET files == {f \in want : disk[f] # 0 /\ (k = "json" => f \notin Report)}
        over  == k # "json" /\ Total(files) > Limit
    IN  /\ state[c] = "idle"
        /\ kind' = [kind EXCEPT ![c] = k]
        /\ state' = [state EXCEPT ![c] = IF over THEN "refused" ELSE "fetching"]
        /\ standing' = [standing EXCEPT ![c] = IF over THEN {} ELSE files]
        /\ got' = [got EXCEPT ![c] = [f \in File |->
               [is |-> IF f \in files /\ ~over THEN "todo" ELSE "none", size |-> 0]]]
        /\ UNCHANGED <<now, disk, stamp, answer, tickets, handed>>

\* The manifest cannot be read: no such endpoint, or another core error.
ListFails(c) ==
    /\ state[c] = "idle"
    /\ state' = [state EXCEPT ![c] = "over"]
    /\ UNCHANGED <<now, disk, kind, got, standing, stamp, answer, tickets, handed>>

Flying(c) == {f \in File : got[c][f].is = "flying"}

FetchBegins(c, f) ==
    /\ got[c][f].is = "todo"
    /\ Cardinality(Flying(c)) < Concurrency
    /\ got' = [got EXCEPT ![c][f].is = "flying"]
    /\ UNCHANGED <<now, disk, state, kind, standing, stamp, answer, tickets, handed>>

\* Mutant: a file that is gone never gives its slot back.
FetchEndsHeld(c, f) ==
    /\ got[c][f].is = "flying"
    /\ disk[f] # 0
    /\ got' = [got EXCEPT ![c][f] = [is |-> "got", size |-> disk[f]]]
    /\ UNCHANGED <<now, disk, state, kind, standing, stamp, answer, tickets, handed>>

\* Mutant: a 404 is taken for an empty file.
FetchEndsBlind(c, f) ==
    /\ got[c][f].is = "flying"
    /\ got' = [got EXCEPT ![c][f] = [is |-> "got", size |-> disk[f]]]
    /\ UNCHANGED <<now, disk, state, kind, standing, stamp, answer, tickets, handed>>

\* Core's answer: the bytes of that moment, or a 404.
FetchEnds(c, f) ==
    /\ got[c][f].is = "flying"
    /\ got' = [got EXCEPT ![c][f] =
           [is |-> IF disk[f] = 0 THEN "gone" ELSE "got", size |-> disk[f]]]
    /\ UNCHANGED <<now, disk, state, kind, standing, stamp, answer, tickets, handed>>

\* Mutant: any core error counts as a file that is gone.
FetchFailsGone(c, f) ==
    /\ got[c][f].is = "flying"
    /\ got' = [got EXCEPT ![c][f].is = "gone"]
    /\ UNCHANGED <<now, disk, state, kind, standing, stamp, answer, tickets, handed>>

\* Any other core error ends the call; gather lets the rest of its
\* downloads run on.
FetchFails(c, f) ==
    /\ got[c][f].is = "flying"
    /\ got' = [got EXCEPT ![c][f].is = "failed"]
    /\ state' = [state EXCEPT ![c] = IF @ = "fetching" THEN "over" ELSE @]
    /\ UNCHANGED <<now, disk, kind, standing, stamp, answer, tickets, handed>>

\* The request is cancelled, and its downloads with it.
Cancel(c) ==
    /\ state[c] \in {"fetching", "zipping"}
    /\ state' = [state EXCEPT ![c] = "over"]
    /\ got' = [got EXCEPT ![c] = NoFile]
    /\ UNCHANGED <<now, disk, kind, standing, stamp, answer, tickets, handed>>

-----------------------------------------------------------------------------
(* Answering.                                                              *)

Fetched(c) ==
    /\ state[c] = "fetching"
    /\ \A f \in File : got[c][f].is \notin {"todo", "flying"}

\* The blobs: what was downloaded, without the files that were gone.
Blobs(c) == {<<f, got[c][f].size>> : f \in {g \in File : got[c][g].is = "got"}}

\* _prune_tickets.
Pruned == [k \in Key |->
    IF tickets[k] # None /\ tickets[k].expires <= now THEN None ELSE tickets[k]]

\* output='json': the profiles, with "unreadable" for a file that is gone.
AnswerJson(c) ==
    /\ kind[c] = "json" /\ Fetched(c)
    /\ state' = [state EXCEPT ![c] = "answered"]
    /\ answer' = [answer EXCEPT ![c] = Blobs(c)]
    /\ got' = [got EXCEPT ![c] = NoFile]
    /\ UNCHANGED <<now, disk, kind, standing, stamp, tickets, handed>>

\* output='links': a ticket per file, in one step with the answer.
AnswerLinks(c) ==
    /\ kind[c] = "links" /\ Fetched(c)
    /\ state' = [state EXCEPT ![c] = "answered"]
    /\ answer' = [answer EXCEPT ![c] = Blobs(c)]
    /\ tickets' = [k \in Key |->
           IF k[1] = c /\ k[2] \in File /\ got[c][k[2]].is = "got"
           THEN [data |-> {<<k[2], got[c][k[2]].size>>}, expires |-> now + TTL]
           ELSE Pruned[k]]
    /\ got' = [got EXCEPT ![c] = NoFile]
    /\ UNCHANGED <<now, disk, kind, standing, stamp, handed>>

\* output='zip': the clock of the link is read, then a thread zips.
ZipBegins(c) ==
    /\ kind[c] = "zip" /\ Fetched(c)
    /\ state' = [state EXCEPT ![c] = "zipping"]
    /\ stamp' = [stamp EXCEPT ![c] = now]
    /\ tickets' = Pruned
    /\ UNCHANGED <<now, disk, kind, got, standing, answer, handed>>

ZipEnds(c) ==
    /\ state[c] = "zipping"
    /\ state' = [state EXCEPT ![c] = "answered"]
    /\ answer' = [answer EXCEPT ![c] = Blobs(c)]
    /\ tickets' = [tickets EXCEPT ![<<c, Zip>>] =
           [data |-> Blobs(c), expires |-> stamp[c] + TTL]]
    /\ got' = [got EXCEPT ![c] = NoFile]
    /\ UNCHANGED <<now, disk, kind, standing, stamp, handed>>

\* Mutant: the ticket stays in the store.
DownloadKeeps(k) ==
    /\ tickets[k] # None
    /\ tickets' = Pruned
    /\ handed' = [handed EXCEPT ![k] =
           IF Pruned[k] # None THEN Pruned[k].data ELSE @]
    /\ UNCHANGED <<now, disk, callVars>>

\* download_profiler_report: prune, then take the ticket out of the store.
Download(k) ==
    /\ tickets[k] # None
    /\ tickets' = [Pruned EXCEPT ![k] = None]
    /\ handed' = [handed EXCEPT ![k] =
           IF Pruned[k] # None THEN Pruned[k].data ELSE @]
    /\ UNCHANGED <<now, disk, callVars>>

\* The daemon restarts: tickets and running calls are gone.
Restart ==
    /\ tickets' = [k \in Key |-> None]
    /\ state' = [c \in Call |->
           IF state[c] \in {"fetching", "zipping"} THEN "over" ELSE state[c]]
    /\ got' = [c \in Call |-> NoFile]
    /\ UNCHANGED <<now, disk, kind, standing, stamp, answer, handed>>

Tick ==
    /\ now < MaxNow /\ now' = now + 1
    /\ UNCHANGED <<disk, callVars, tickets, handed>>

-----------------------------------------------------------------------------

CallNext(c) ==
    \/ \E k \in Kind, want \in SUBSET File : List(c, k, want)
    \/ ListFails(c)
    \/ \E f \in File : FetchBegins(c, f) \/ FetchEnds(c, f) \/ FetchFails(c, f)
    \/ Cancel(c)
    \/ AnswerJson(c)
    \/ AnswerLinks(c)
    \/ ZipBegins(c)
    \/ ZipEnds(c)

Next ==
    \/ Tick
    \/ Restart
    \/ \E f \in File : (\E n \in Size : Store(f, n)) \/ Remove(f)
    \/ \E c \in Call : CallNext(c)
    \/ \E k \in Key : Download(k)

Spec == Init /\ [][Next]_vars

\* Core answers every download, with an error if need be (the HTTP client has
\* a timeout), a free slot is taken, and zipping ends.
Fairness ==
    \A c \in Call :
        /\ \A f \in File : WF_vars(FetchBegins(c, f)) /\ WF_vars(FetchEnds(c, f))
        /\ WF_vars(AnswerJson(c)) /\ WF_vars(AnswerLinks(c))
        /\ WF_vars(ZipBegins(c)) /\ WF_vars(ZipEnds(c))

FairSpec == Spec /\ Fairness

-----------------------------------------------------------------------------
(* Properties.                                                             *)

Snapshot == SUBSET (File \X Size)

TypeOK ==
    /\ now \in 0..MaxNow
    /\ disk \in [File -> 0..MaxSize]
    /\ state \in [Call -> {"idle", "fetching", "zipping", "answered",
                           "refused", "over"}]
    /\ kind \in [Call -> Kind]
    /\ got \in [Call -> [File -> [is : Waits \cup {"got"}, size : 0..MaxSize]]]
    /\ \A c \in Call, f \in File : got[c][f].size # 0 <=> got[c][f].is = "got"
    /\ standing \in [Call -> SUBSET File]
    /\ stamp \in [Call -> 0..MaxNow]
    /\ answer \in [Call -> Snapshot]
    /\ tickets \in [Key -> [data : Snapshot, expires : 0..(MaxNow + TTL)] \cup {None}]
    /\ handed \in [Key -> Snapshot \cup {None}]

\* What an answer leaves out was gone: a file that was there from the listing
\* to the answer is in it, whatever purges, rewrites and core errors did to
\* the downloads.
NothingStandingLeftOut ==
    \A c \in Call : state[c] = "answered" =>
        \A f \in standing[c] : \E n \in Size : <<f, n>> \in answer[c]

\* What the answer of a call promised behind a ticket.
Promised(k) ==
    IF k[2] = Zip THEN answer[k[1]] ELSE {p \in answer[k[1]] : p[1] = k[2]}

\* A link delivers the very bytes its answer gave the size of, though the
\* file was since purged or rewritten, and delivers them once.
LinkDeliversAnswer ==
    \A k \in Key : handed[k] # None =>
        handed[k] = Promised(k) /\ tickets[k] = None

\* A call is answered or fails: no mix of missing files and errors leaves it
\* waiting for a download slot.
CallEnds ==
    \A c \in Call : state[c] = "fetching" ~> state[c] \in {"answered", "over"}

=============================================================================
