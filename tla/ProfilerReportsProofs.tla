----------------------- MODULE ProfilerReportsProofs ------------------------
(***************************************************************************)
(* Proofs about ProfilerReports for any files, calls and limits.           *)
(*                                                                         *)
(* A file that stands is never lost on the way from the listing to the     *)
(* answer, and a ticket in the store holds what the answer of its call     *)
(* promised.                                                               *)
(***************************************************************************)
EXTENDS ProfilerReports, TLAPS

Listed == {"fetching", "zipping", "answered"}

\* Standing files are on disk, and on their way into the answer.
StandingAt(c) ==
    /\ state[c] \notin Listed \cup {"over"} => standing[c] = {}
    /\ \A f \in standing[c] :
         /\ state[c] \in {"fetching", "zipping"} => disk[f] # 0
         /\ state[c] = "fetching" => got[c][f].is \in {"todo", "flying", "got"}
         /\ state[c] = "zipping" => got[c][f].is = "got"
         /\ state[c] = "answered" => \E n \in Size : <<f, n>> \in answer[c]

\* A ticket belongs to an answer and delivers it; it was not redeemed.
TicketAt(k) ==
    /\ tickets[k] # None =>
         /\ state[k[1]] = "answered"
         /\ tickets[k].data = Promised(k)
         /\ handed[k] = None
    /\ handed[k] # None => state[k[1]] = "answered" /\ handed[k] = Promised(k)

Accounted == (\A c \in Call : StandingAt(c)) /\ \A k \in Key : TicketAt(k)

IInv == TypeOK /\ Accounted

-----------------------------------------------------------------------------
(* Type correctness.                                                       *)

GotType == [Call -> [File -> [is : Waits \cup {"got"}, size : 0..MaxSize]]]

\* What the answer to a call, or to one of its downloads, does to them all.
LEMMA CallChanges ==
    ASSUME TypeOK, NEW c \in Call,
           NEW v \in [File -> [is : Waits \cup {"got"}, size : 0..MaxSize]],
           got' = [got EXCEPT ![c] = v]
    PROVE  /\ got' \in GotType
           /\ got'[c] = v
           /\ \A d \in Call \ {c} : got'[d] = got[d]
  BY DEF TypeOK, GotType

LEMMA NoFileType ==
    /\ NoFile \in [File -> [is : Waits \cup {"got"}, size : 0..MaxSize]]
    /\ \A f \in File : NoFile[f].is = "none" /\ NoFile[f].size = 0
  BY ReportsAssumption DEF NoFile, Waits

Ticket == [data : Snapshot, expires : 0..(MaxNow + TTL)]

LEMMA BlobsType ==
    ASSUME TypeOK, NEW c \in Call
    PROVE  Blobs(c) \in Snapshot
  <1>1. ASSUME NEW f \in File, got[c][f].is = "got" PROVE got[c][f].size \in Size
    <2>1. got[c][f].size \in 0..MaxSize /\ got[c][f].size # 0
      BY <1>1 DEF TypeOK
    <2> QED
      BY <2>1, ReportsAssumption DEF Size
  <1> QED
    BY <1>1 DEF Blobs, Snapshot

LEMMA PrunedType ==
    ASSUME TypeOK
    PROVE  /\ Pruned \in [Key -> Ticket \cup {None}]
           /\ \A k \in Key : Pruned[k] \in {tickets[k], None}
  BY DEF TypeOK, Pruned, Ticket

LEMMA ExpiryType ==
    ASSUME NEW t \in 0..MaxNow
    PROVE  t + TTL \in 0..(MaxNow + TTL)
  BY ReportsAssumption

LEMMA TypeInit == Init => TypeOK
  BY ReportsAssumption, NoFileType DEF Init, TypeOK, Kind, Snapshot

\* The wait of each file, apart from the rest of the state.
Waiting == /\ got \in GotType
           /\ \A c \in Call, f \in File : got[c][f].size # 0 <=> got[c][f].is = "got"

LEMMA WaitingStep == TypeOK /\ [Next]_vars => Waiting'
  <1> SUFFICES ASSUME TypeOK, [Next]_vars PROVE Waiting'
    OBVIOUS
  <1>0. Waiting
    BY DEF TypeOK, Waiting, GotType
  <1>1. ASSUME UNCHANGED got PROVE Waiting'
    BY <1>0, <1>1 DEF Waiting, GotType
  <1>2. ASSUME NEW c \in Call, got' = [got EXCEPT ![c] = NoFile] PROVE Waiting'
    <2>1. got' \in GotType /\ \A d \in Call \ {c} : got'[d] = got[d]
      BY <1>2, CallChanges, NoFileType
    <2>2. got'[c] = NoFile
      BY <1>2, CallChanges, NoFileType
    <2>3. ASSUME NEW d \in Call, NEW f \in File
          PROVE  got'[d][f].size # 0 <=> got'[d][f].is = "got"
      <3>1. CASE d = c
        BY <2>2, <3>1, NoFileType
      <3>2. CASE d # c
        BY <1>0, <2>1, <3>2 DEF Waiting
      <3> QED
        BY <3>1, <3>2
    <2> QED
      BY <2>1, <2>3 DEF Waiting
  <1>3. ASSUME NEW c \in Call, NEW k \in Kind, NEW want \in SUBSET File,
               List(c, k, want)
        PROVE  Waiting'
    <2> DEFINE v == [f \in File |->
                  [is |-> IF f \in {g \in want : disk[g] # 0 /\ (k = "json" => g \notin Report)}
                             /\ ~(k # "json" /\ Total({g \in want : disk[g] # 0 /\
                                       (k = "json" => g \notin Report)}) > Limit)
                          THEN "todo" ELSE "none", size |-> 0]]
    <2>1. got' = [got EXCEPT ![c] = v]
      BY <1>3 DEF List
    <2>2. ASSUME NEW f \in File
          PROVE  v[f] \in {[is |-> "todo", size |-> 0], [is |-> "none", size |-> 0]}
      OBVIOUS
    <2>3. v \in [File -> [is : Waits \cup {"got"}, size : 0..MaxSize]]
      <3>1. {[is |-> "todo", size |-> 0], [is |-> "none", size |-> 0]} \subseteq
              [is : Waits \cup {"got"}, size : 0..MaxSize]
        BY ReportsAssumption DEF Waits
      <3>2. v = [f \in File |-> v[f]]
        OBVIOUS
      <3> HIDE DEF v
      <3> QED
        BY <2>2, <3>1, <3>2
    <2> HIDE DEF v
    <2>4. got' \in GotType /\ got'[c] = v /\ \A d \in Call \ {c} : got'[d] = got[d]
      BY <2>1, <2>3, CallChanges
    <2>5. ASSUME NEW d \in Call, NEW f \in File
          PROVE  got'[d][f].size # 0 <=> got'[d][f].is = "got"
      <3>1. CASE d = c
        BY <2>2, <2>4, <3>1
      <3>2. CASE d # c
        BY <1>0, <2>4, <3>2 DEF Waiting
      <3> QED
        BY <3>1, <3>2
    <2> QED
      BY <2>4, <2>5 DEF Waiting
  <1>4. ASSUME NEW c \in Call, NEW f \in File, FetchBegins(c, f) PROVE Waiting'
    <2>1. /\ got' \in GotType /\ got'[c][f] = [is |-> "flying", size |-> got[c][f].size]
          /\ \A d \in Call, g \in File : <<d, g>> # <<c, f>> => got'[d][g] = got[d][g]
      BY <1>4 DEF FetchBegins, TypeOK, GotType, Waits
    <2>2. ASSUME NEW d \in Call, NEW g \in File
          PROVE  got'[d][g].size # 0 <=> got'[d][g].is = "got"
      <3>1. CASE <<d, g>> = <<c, f>>
        <4>1. got[c][f].size = 0
          BY <1>4 DEF FetchBegins, TypeOK
        <4> QED
          BY <2>1, <3>1, <4>1
      <3>2. CASE <<d, g>> # <<c, f>>
        BY <1>0, <2>1, <3>2 DEF Waiting
      <3> QED
        BY <3>1, <3>2
    <2> QED
      BY <2>1, <2>2 DEF Waiting
  <1>5. ASSUME NEW c \in Call, NEW f \in File, FetchEnds(c, f) PROVE Waiting'
    <2> DEFINE v == [is |-> IF disk[f] = 0 THEN "gone" ELSE "got", size |-> disk[f]]
    <2>1. /\ v \in [is : Waits \cup {"got"}, size : 0..MaxSize]
          /\ v.size # 0 <=> v.is = "got"
      <3>1. disk[f] \in 0..MaxSize
        BY DEF TypeOK
      <3>2. v.is \in Waits \cup {"got"} /\ v.size = disk[f]
        BY DEF Waits
      <3>3. v.size # 0 <=> v.is = "got"
        OBVIOUS
      <3> QED
        BY <3>1, <3>2, <3>3
    <2>2. got' = [got EXCEPT ![c][f] = v]
      BY <1>5 DEF FetchEnds
    <2> HIDE DEF v
    <2>3. /\ got' \in GotType /\ got'[c][f] = v
          /\ \A d \in Call, g \in File : <<d, g>> # <<c, f>> => got'[d][g] = got[d][g]
      BY <2>1, <2>2 DEF TypeOK, GotType
    <2>4. ASSUME NEW d \in Call, NEW g \in File
          PROVE  got'[d][g].size # 0 <=> got'[d][g].is = "got"
      <3>1. CASE <<d, g>> = <<c, f>>
        BY <2>1, <2>3, <3>1
      <3>2. CASE <<d, g>> # <<c, f>>
        BY <1>0, <2>3, <3>2 DEF Waiting
      <3> QED
        BY <3>1, <3>2
    <2> QED
      BY <2>3, <2>4 DEF Waiting
  <1>6. ASSUME NEW c \in Call, NEW f \in File, FetchFails(c, f) PROVE Waiting'
    <2>1. /\ got' \in GotType /\ got'[c][f] = [is |-> "failed", size |-> got[c][f].size]
          /\ \A d \in Call, g \in File : <<d, g>> # <<c, f>> => got'[d][g] = got[d][g]
      BY <1>6 DEF FetchFails, TypeOK, GotType, Waits
    <2>2. ASSUME NEW d \in Call, NEW g \in File
          PROVE  got'[d][g].size # 0 <=> got'[d][g].is = "got"
      <3>1. CASE <<d, g>> = <<c, f>>
        <4>1. got[c][f].size = 0
          BY <1>6 DEF FetchFails, TypeOK
        <4> QED
          BY <2>1, <3>1, <4>1
      <3>2. CASE <<d, g>> # <<c, f>>
        BY <1>0, <2>1, <3>2 DEF Waiting
      <3> QED
        BY <3>1, <3>2
    <2> QED
      BY <2>1, <2>2 DEF Waiting
  <1>7. ASSUME Restart PROVE Waiting'
    <2>1. got' \in GotType /\ \A c \in Call : got'[c] = NoFile
      BY <1>7, NoFileType DEF Restart, GotType
    <2> QED
      BY <2>1, NoFileType DEF Waiting
  <1> QED
    BY <1>1, <1>2, <1>3, <1>4, <1>5, <1>6, <1>7
    DEF Next, CallNext, Tick, Store, Remove, ListFails, Cancel, AnswerJson, AnswerLinks,
        ZipBegins, ZipEnds, Download, callVars, vars

LEMMA TypeStep == TypeOK /\ [Next]_vars => TypeOK'
  <1> SUFFICES ASSUME TypeOK, [Next]_vars PROVE TypeOK'
    OBVIOUS
  <1>0. Waiting'
    BY WaitingStep
  <1> USE ReportsAssumption, <1>0
      DEF TypeOK, Waiting, GotType, Kind, callVars
  <1>1. ASSUME Tick PROVE TypeOK'
    BY <1>1 DEF Tick
  <1>2. ASSUME Restart PROVE TypeOK'
    BY <1>2 DEF Restart
  <1>3. ASSUME NEW f \in File, NEW n \in Size, Store(f, n) PROVE TypeOK'
    BY <1>3 DEF Store, Size
  <1>4. ASSUME NEW f \in File, Remove(f) PROVE TypeOK'
    BY <1>4 DEF Remove
  <1>5. ASSUME NEW c \in Call, NEW k \in Kind, NEW want \in SUBSET File,
               List(c, k, want)
        PROVE  TypeOK'
    BY <1>5 DEF List
  <1>6. ASSUME NEW c \in Call, ListFails(c) PROVE TypeOK'
    BY <1>6 DEF ListFails
  <1>7. ASSUME NEW c \in Call, NEW f \in File, FetchBegins(c, f) PROVE TypeOK'
    BY <1>7 DEF FetchBegins
  <1>8. ASSUME NEW c \in Call, NEW f \in File, FetchEnds(c, f) PROVE TypeOK'
    BY <1>8 DEF FetchEnds
  <1>9. ASSUME NEW c \in Call, NEW f \in File, FetchFails(c, f) PROVE TypeOK'
    BY <1>9 DEF FetchFails
  <1>10. ASSUME NEW c \in Call, Cancel(c) PROVE TypeOK'
    BY <1>10 DEF Cancel
  <1>11. ASSUME NEW c \in Call, AnswerJson(c) PROVE TypeOK'
    BY <1>11, BlobsType DEF AnswerJson
  <1>12. ASSUME NEW c \in Call, AnswerLinks(c) PROVE TypeOK'
    <2>1. tickets' \in [Key -> Ticket \cup {None}]
      <3>1. ASSUME NEW k \in Key, k[1] = c, k[2] \in File, got[c][k[2]].is = "got"
            PROVE  [data |-> {<<k[2], got[c][k[2]].size>>}, expires |-> now + TTL] \in Ticket
        <4>1. {<<k[2], got[c][k[2]].size>>} \subseteq Blobs(c)
          BY <3>1 DEF Blobs
        <4>2. {<<k[2], got[c][k[2]].size>>} \in Snapshot
          BY <4>1, BlobsType DEF Snapshot
        <4> QED
          BY <4>2, ExpiryType DEF Ticket
      <3> QED
        BY <1>12, <3>1, PrunedType DEF AnswerLinks
    <2> QED
      BY <1>12, <2>1, BlobsType DEF AnswerLinks, Ticket
  <1>13. ASSUME NEW c \in Call, ZipBegins(c) PROVE TypeOK'
    BY <1>13, PrunedType DEF ZipBegins, Ticket
  <1>14. ASSUME NEW c \in Call, ZipEnds(c) PROVE TypeOK'
    <2>1. [data |-> Blobs(c), expires |-> stamp[c] + TTL] \in Ticket
      BY BlobsType, ExpiryType DEF Ticket
    <2>2. tickets' \in [Key -> Ticket \cup {None}]
      BY <1>14, <2>1 DEF ZipEnds, Ticket
    <2> QED
      BY <1>14, <2>2, BlobsType DEF ZipEnds, Ticket
  <1>15. ASSUME NEW k \in Key, Download(k) PROVE TypeOK'
    <2>1. tickets' \in [Key -> Ticket \cup {None}]
      BY <1>15, PrunedType DEF Download
    <2>2. handed' \in [Key -> Snapshot \cup {None}]
      BY <1>15, PrunedType DEF Download, Ticket
    <2> QED
      BY <1>15, <2>1, <2>2 DEF Download, Ticket
  <1>16. ASSUME UNCHANGED vars PROVE TypeOK'
    BY <1>16 DEF vars
  <1> HIDE DEF TypeOK
  <1> QED
    BY <1>1, <1>2, <1>3, <1>4, <1>5, <1>6, <1>7, <1>8, <1>9, <1>10, <1>11, <1>12,
       <1>13, <1>14, <1>15, <1>16
    DEF Next, CallNext

-----------------------------------------------------------------------------
(* The invariant.                                                          *)

\* Blobs holds a file that was got, with its size.
LEMMA BlobsHold ==
    ASSUME TypeOK, NEW c \in Call, NEW f \in File, got[c][f].is = "got"
    PROVE  \E n \in Size : <<f, n>> \in Blobs(c)
  <1>1. got[c][f].size \in Size
    <2>1. got[c][f].size \in 0..MaxSize /\ got[c][f].size # 0
      BY DEF TypeOK
    <2> QED
      BY <2>1, ReportsAssumption DEF Size
  <1>2. <<f, got[c][f].size>> \in Blobs(c)
    BY DEF Blobs
  <1> QED
    BY <1>1, <1>2

LEMMA StandingStep ==
    ASSUME IInv, [Next]_vars, NEW d \in Call
    PROVE  StandingAt(d)'
  <1>0. StandingAt(d)
    BY DEF IInv, Accounted
  <1> USE ReportsAssumption, <1>0 DEF IInv, TypeOK, StandingAt, Listed
  <1>1. ASSUME UNCHANGED <<disk, state, got, standing, answer>> PROVE StandingAt(d)'
    BY <1>1
  <1>2. ASSUME NEW f \in File, NEW n \in Size, Store(f, n) PROVE StandingAt(d)'
    BY <1>2 DEF Store, callVars, Size
  <1>3. ASSUME NEW f \in File, Remove(f) PROVE StandingAt(d)'
    BY <1>3 DEF Remove
  <1>4. ASSUME NEW c \in Call, NEW k \in Kind, NEW want \in SUBSET File,
               List(c, k, want)
        PROVE  StandingAt(d)'
    BY <1>4 DEF List
  <1>5. ASSUME NEW c \in Call, NEW f \in File, FetchBegins(c, f) PROVE StandingAt(d)'
    BY <1>5 DEF FetchBegins
  <1>6. ASSUME NEW c \in Call, NEW f \in File, FetchEnds(c, f) PROVE StandingAt(d)'
    BY <1>6 DEF FetchEnds
  <1>7. ASSUME NEW c \in Call, NEW f \in File, FetchFails(c, f) PROVE StandingAt(d)'
    BY <1>7 DEF FetchFails
  <1>8. ASSUME NEW c \in Call, ListFails(c) \/ Cancel(c) PROVE StandingAt(d)'
    BY <1>8 DEF ListFails, Cancel
  <1>9. ASSUME NEW c \in Call, AnswerJson(c) \/ AnswerLinks(c) \/ ZipEnds(c)
        PROVE  StandingAt(d)'
    <2>1. /\ state[c] \in {"fetching", "zipping"} /\ state' = [state EXCEPT ![c] = "answered"]
          /\ answer' = [answer EXCEPT ![c] = Blobs(c)]
          /\ got' = [got EXCEPT ![c] = NoFile]
          /\ UNCHANGED <<disk, standing>>
      BY <1>9 DEF AnswerJson, AnswerLinks, ZipEnds, Fetched
    <2>2. CASE d # c
      BY <2>1, <2>2
    <2>3. CASE d = c
      <3>1. \A f \in standing[c] : f \in File /\ got[c][f].is = "got"
        BY <1>9, <2>3 DEF AnswerJson, AnswerLinks, ZipEnds, Fetched
      <3>2. \A f \in standing[c] : \E n \in Size : <<f, n>> \in Blobs(c)
        BY <3>1, BlobsHold
      <3> QED
        BY <2>1, <2>3, <3>2
    <2> QED
      BY <2>2, <2>3
  <1>10. ASSUME NEW c \in Call, ZipBegins(c) PROVE StandingAt(d)'
    <2>1. CASE d = c
      <3>1. \A f \in standing[c] : f \in File /\ got[c][f].is = "got"
        BY <1>10, <2>1 DEF ZipBegins, Fetched
      <3>2. /\ state[c] = "fetching" /\ state' = [state EXCEPT ![c] = "zipping"]
            /\ UNCHANGED <<disk, got, standing, answer>>
        BY <1>10 DEF ZipBegins, Fetched
      <3> QED
        BY <2>1, <3>1, <3>2
    <2>2. CASE d # c
      BY <1>10, <2>2 DEF ZipBegins
    <2> QED
      BY <2>1, <2>2
  <1>11. ASSUME Restart PROVE StandingAt(d)'
    BY <1>11 DEF Restart
  <1> HIDE DEF IInv, StandingAt
  <1> QED
    BY <1>1, <1>2, <1>3, <1>4, <1>5, <1>6, <1>7, <1>8, <1>9, <1>10, <1>11
    DEF Next, CallNext, Tick, Download, callVars, vars

\* A step that leaves the ticket, or prunes it, and its call's answer alone.
LEMMA TicketKept ==
    ASSUME IInv, NEW k \in Key, handed'[k] = handed[k], tickets'[k] \in {tickets[k], None},
           state'[k[1]] = state[k[1]], answer'[k[1]] = answer[k[1]]
    PROVE  TicketAt(k)'
  BY DEF IInv, Accounted, TicketAt, Promised

LEMMA TicketStep ==
    ASSUME IInv, [Next]_vars, NEW k \in Key
    PROVE  TicketAt(k)'
  <1>0. TicketAt(k) /\ TypeOK /\ k[1] \in Call /\ k[2] \in File \cup {Zip}
    BY DEF IInv, Accounted, Key
  <1>1. ASSUME UNCHANGED <<state, answer, tickets, handed>> PROVE TicketAt(k)'
    BY <1>1, TicketKept
  <1>2. ASSUME NEW c \in Call, state[c] # "answered", UNCHANGED <<answer, tickets, handed>>,
               NEW s, state' = [state EXCEPT ![c] = s]
        PROVE  TicketAt(k)'
    <2>1. CASE k[1] = c
      BY <1>0, <1>2, <2>1 DEF TicketAt
    <2>2. CASE k[1] # c
      <3>1. state'[k[1]] = state[k[1]]
        BY <1>0, <1>2, <2>2 DEF TypeOK
      <3> QED
        BY <1>2, <3>1, TicketKept
    <2> QED
      BY <2>1, <2>2
  <1>3. ASSUME NEW c \in Call, NEW f \in File, FetchFails(c, f) PROVE TicketAt(k)'
    <2>1. CASE state[c] = "fetching"
      BY <1>2, <1>3, <2>1 DEF FetchFails
    <2>2. CASE state[c] # "fetching"
      <3>1. state' = state
        BY <1>0, <1>3, <2>2 DEF FetchFails, TypeOK
      <3> QED
        BY <1>1, <1>3, <3>1 DEF FetchFails
    <2> QED
      BY <2>1, <2>2
  <1>4. ASSUME NEW c \in Call, NEW g \in Kind, NEW want \in SUBSET File, List(c, g, want)
        PROVE  TicketAt(k)'
    BY <1>2, <1>4 DEF List
  <1>5. ASSUME NEW c \in Call, ListFails(c) \/ Cancel(c) PROVE TicketAt(k)'
    BY <1>2, <1>5 DEF ListFails, Cancel
  <1>6. ASSUME NEW c \in Call, AnswerJson(c) PROVE TicketAt(k)'
    <2>1. CASE k[1] = c
      BY <1>0, <1>6, <2>1 DEF AnswerJson, Fetched, TicketAt
    <2>2. CASE k[1] # c
      <3>1. state'[k[1]] = state[k[1]] /\ answer'[k[1]] = answer[k[1]]
        BY <1>0, <1>6, <2>2 DEF AnswerJson, TypeOK
      <3> QED
        BY <1>6, <3>1, TicketKept DEF AnswerJson
    <2> QED
      BY <2>1, <2>2
  <1>7. ASSUME NEW c \in Call, AnswerLinks(c) PROVE TicketAt(k)'
    <2>0. /\ handed' = handed
          /\ tickets'[k] = IF k[1] = c /\ k[2] \in File /\ got[c][k[2]].is = "got"
                           THEN [data |-> {<<k[2], got[c][k[2]].size>>}, expires |-> now + TTL]
                           ELSE Pruned[k]
      BY <1>7 DEF AnswerLinks
    <2>1. CASE k[1] = c
      <3>1. tickets[k] = None /\ handed[k] = None
        BY <1>0, <1>7, <2>1 DEF TicketAt, AnswerLinks, Fetched
      <3>2. state'[c] = "answered" /\ answer'[c] = Blobs(c)
        BY <1>0, <1>7 DEF AnswerLinks, TypeOK
      <3>3. CASE k[2] \in File /\ got[c][k[2]].is = "got"
        <4>1. {p \in Blobs(c) : p[1] = k[2]} = {<<k[2], got[c][k[2]].size>>}
          BY <3>3 DEF Blobs
        <4>2. Promised(k)' = {<<k[2], got[c][k[2]].size>>}
          BY <2>1, <3>2, <3>3, <4>1, ReportsAssumption DEF Promised
        <4> QED
          BY <2>0, <2>1, <3>1, <3>2, <3>3, <4>2 DEF TicketAt
      <3>4. CASE ~(k[2] \in File /\ got[c][k[2]].is = "got")
        BY <1>0, <2>0, <3>1, <3>4, PrunedType DEF TicketAt
      <3> QED
        BY <3>3, <3>4
    <2>2. CASE k[1] # c
      <3>1. state'[k[1]] = state[k[1]] /\ answer'[k[1]] = answer[k[1]]
        BY <1>0, <1>7, <2>2 DEF AnswerLinks, TypeOK
      <3> QED
        BY <1>0, <2>0, <2>2, <3>1, TicketKept, PrunedType
    <2> QED
      BY <2>1, <2>2
  <1>8. ASSUME NEW c \in Call, ZipBegins(c) PROVE TicketAt(k)'
    <2>1. CASE k[1] = c
      <3>1. tickets[k] = None /\ handed[k] = None
        BY <1>0, <1>8, <2>1 DEF TicketAt, ZipBegins, Fetched
      <3> QED
        BY <1>0, <1>8, <3>1, PrunedType DEF ZipBegins, TicketAt
    <2>2. CASE k[1] # c
      <3>1. state'[k[1]] = state[k[1]]
        BY <1>0, <1>8, <2>2 DEF ZipBegins, TypeOK
      <3> QED
        BY <1>0, <1>8, <3>1, TicketKept, PrunedType DEF ZipBegins
    <2> QED
      BY <2>1, <2>2
  <1>9. ASSUME NEW c \in Call, ZipEnds(c) PROVE TicketAt(k)'
    <2>1. CASE k[1] = c
      <3>1. tickets[k] = None /\ handed[k] = None /\ handed' = handed
        BY <1>0, <1>9, <2>1 DEF TicketAt, ZipEnds
      <3>2. state'[c] = "answered" /\ answer'[c] = Blobs(c)
        BY <1>0, <1>9 DEF ZipEnds, TypeOK
      <3>3. CASE k = <<c, Zip>>
        <4>1. tickets'[k].data = Blobs(c)
          BY <1>0, <1>9, <3>3 DEF ZipEnds, TypeOK
        <4> QED
          BY <3>1, <3>2, <3>3, <4>1 DEF TicketAt, Promised
      <3>4. CASE k # <<c, Zip>>
        <4>1. tickets'[k] = None
          BY <1>0, <1>9, <3>1, <3>4 DEF ZipEnds, TypeOK
        <4> QED
          BY <3>1, <4>1 DEF TicketAt
      <3> QED
        BY <3>3, <3>4
    <2>2. CASE k[1] # c
      <3>1. state'[k[1]] = state[k[1]] /\ answer'[k[1]] = answer[k[1]]
        BY <1>0, <1>9, <2>2 DEF ZipEnds, TypeOK
      <3>2. tickets'[k] = tickets[k] /\ handed' = handed
        BY <1>0, <1>9, <2>2 DEF ZipEnds, TypeOK
      <3> QED
        BY <3>1, <3>2, TicketKept
    <2> QED
      BY <2>1, <2>2
  <1>10. ASSUME NEW j \in Key, Download(j) PROVE TicketAt(k)'
    <2>0. UNCHANGED <<state, answer>>
      BY <1>10 DEF Download, callVars
    <2>1. CASE j = k
      <3>1. tickets'[k] = None
        BY <1>10, <2>1, PrunedType, <1>0 DEF Download
      <3>2. handed'[k] = IF Pruned[k] # None THEN Pruned[k].data ELSE handed[k]
        BY <1>0, <1>10, <2>1 DEF Download, TypeOK
      <3>3. CASE Pruned[k] # None
        <4>1. Pruned[k] = tickets[k]
          BY <1>0, <3>3, PrunedType
        <4> QED
          BY <1>0, <2>0, <3>1, <3>2, <3>3, <4>1 DEF TicketAt, Promised
      <3>4. CASE Pruned[k] = None
        BY <1>0, <2>0, <3>1, <3>2, <3>4 DEF TicketAt, Promised
      <3> QED
        BY <3>3, <3>4
    <2>2. CASE j # k
      <3>1. handed'[k] = handed[k]
        BY <1>0, <1>10, <2>2 DEF Download, TypeOK
      <3>2. tickets'[k] \in {tickets[k], None}
        BY <1>0, <1>10, <2>2, PrunedType DEF Download
      <3> QED
        BY <2>0, <3>1, <3>2, TicketKept
    <2> QED
      BY <2>1, <2>2
  <1>11. ASSUME Restart PROVE TicketAt(k)'
    <2>1. state[k[1]] = "answered" => state'[k[1]] = "answered"
      BY <1>0, <1>11 DEF Restart
    <2> QED
      BY <1>0, <1>11, <2>1 DEF Restart, TicketAt, Promised
  <1> QED
    BY <1>1, <1>3, <1>4, <1>5, <1>6, <1>7, <1>8, <1>9, <1>10, <1>11
    DEF Next, CallNext, Tick, Store, Remove, FetchBegins, FetchEnds, callVars, vars

\* The inductive invariant holds in every reachable state.
THEOREM Invariance == Spec => []IInv
  <1>1. Init => IInv
    <2>1. ASSUME Init, NEW c \in Call PROVE StandingAt(c)
      BY <2>1 DEF Init, StandingAt, Listed
    <2>2. ASSUME Init, NEW k \in Key PROVE TicketAt(k)
      BY <2>2 DEF Init, TicketAt
    <2> QED
      BY <2>1, <2>2, TypeInit DEF IInv, Accounted
  <1>2. IInv /\ [Next]_vars => IInv'
    <2>1. IInv /\ [Next]_vars => TypeOK'
      BY TypeStep DEF IInv
    <2>2. IInv /\ [Next]_vars => Accounted'
      BY StandingStep, TicketStep DEF Accounted, Key
    <2> QED
      BY <2>1, <2>2 DEF IInv
  <1> QED
    BY <1>1, <1>2, PTL DEF Spec

-----------------------------------------------------------------------------
(* What it is for.                                                         *)

\* Every state of the files, calls and tickets is well typed.
THEOREM TypeCorrect == Spec => []TypeOK
  BY Invariance, PTL DEF IInv

\* An answer leaves out no file that stood from the listing on.
THEOREM StandingCorrect == Spec => []NothingStandingLeftOut
  <1>1. IInv => NothingStandingLeftOut
    BY DEF IInv, Accounted, StandingAt, NothingStandingLeftOut
  <1> QED
    BY <1>1, Invariance, PTL

\* A link delivers what its answer promised, once.
THEOREM LinkCorrect == Spec => []LinkDeliversAnswer
  <1>1. IInv => LinkDeliversAnswer
    BY DEF IInv, Accounted, TicketAt, LinkDeliversAnswer
  <1> QED
    BY <1>1, Invariance, PTL

=============================================================================
