------------------------------- MODULE Dot11 -------------------------------
(***************************************************************************)
(* The summary of a capture, wlanpi_mcp/capture/dot11.py: the dissection   *)
(* of one frame, and the two accumulators it feeds, FrameLog (every frame) *)
(* and ScanTable (access points merged by BSSID).                          *)
(*                                                                         *)
(* A packet is what the dissection tells apart: its radiotap header, how   *)
(* much of the 802.11 frame was captured, its kind and the information     *)
(* elements it carries.  Of a row's many "last value seen" fields the      *)
(* channel stands for all; AKM suites stand for the RSN element's detail.  *)
(***************************************************************************)
EXTENDS Integers, Sequences, FiniteSets, SequencesExt

CONSTANTS
    Unset,      \* a field that is None, "" or not there
    Hidden,     \* HIDDEN_SSID
    MaxFrames   \* max_frames of the log: negative keeps every record

ASSUME Dot11Assumption == Hidden # Unset /\ MaxFrames \in Int

\* The dictionary d after d[k] = v.
Put(d, k, v) == [x \in DOMAIN d \cup {k} |-> IF x = k THEN v ELSE d[x]]

-----------------------------------------------------------------------------
(* Radiotap.                                                               *)

\* _RT_FIELDS, alignment and size by bit, from 0 (TSFT) to 27 (L-SIG).
RtAlign == <<8, 1, 1, 2, 2, 1, 1, 2, 2, 2, 1, 1, 1, 1, 2, 2, 1, 1, 4, 1, 4, 2, 8,
             2, 2, 2, 1, 2>>
RtSize  == <<8, 1, 1, 4, 2, 1, 1, 2, 2, 2, 1, 1, 1, 1, 2, 2, 1, 1, 8, 3, 8, 12, 12,
             12, 12, 6, 1, 4>>

\* parse_radiotap_full: the fields of the first present word that are decoded.
\* The walk ends at the first one that would leave the header.
RtDecoded(rt) ==
    LET step(acc, b) ==
            LET at  == ((acc.pos + RtAlign[b] - 1) \div RtAlign[b]) * RtAlign[b]
                end == at + RtSize[b]
            IN  IF acc.stop \/ b - 1 \notin rt.present THEN acc
                ELSE IF end > rt.len THEN [acc EXCEPT !.stop = TRUE]
                ELSE [acc EXCEPT !.pos = end, !.got = @ \cup {b - 1}]
    IN  FoldLeft(step, [pos |-> 4 + 4 * rt.words, got |-> {}, stop |-> FALSE],
                 [b \in 1..28 |-> b]).got

\* The header's length, 0 if it is malformed.
RtLength(p) == IF p.rt.len < 8 \/ p.rt.len > p.size THEN 0 ELSE p.rt.len

-----------------------------------------------------------------------------
(* Frames.                                                                 *)

ApKinds == {"mgmt/beacon", "mgmt/probe-resp"}

\* _iter_ies: the elements up to the first one cut off by the capture.
Elements(p) ==
    LET cut == {i \in DOMAIN p.ies : p.ies[i].cut}
    IN  IF cut = {} THEN p.ies
        ELSE SubSeq(p.ies, 1, (CHOOSE i \in cut : \A j \in cut : i <= j) - 1)

\* _rsn_security: the label of an RSN element's AKM suites.
RsnSecurity(akm) ==
    CASE {"sae", "psk"} \subseteq akm -> "WPA2/3"
      [] "sae" \in akm /\ "psk" \notin akm -> "WPA3"
      [] "sae" \notin akm /\ "owe" \in akm -> "OWE"
      [] akm \cap {"sae", "owe"} = {} /\ "ent" \in akm -> "WPA2-Ent"
      [] akm \cap {"sae", "owe", "ent"} = {} /\ "psk" \in akm -> "WPA2-PSK"
      [] OTHER -> "WPA2"

\* parse_beacon's loop over the elements: of two of a kind the last one counts.
WithElement(shown, ie) ==
    CASE ie.tag = "ssid" -> [shown EXCEPT !.ssid = IF ie.val = Unset THEN Hidden ELSE ie.val]
      [] ie.tag = "ds"   -> [shown EXCEPT !.channel = ie.val]
      [] ie.tag = "rsn"  -> [shown EXCEPT !.rsn = ie.val]
      [] ie.tag = "wpa"  -> [shown EXCEPT !.wpa = ie.val]
      [] ie.tag = "phy"  -> [shown EXCEPT !.phy = @ \cup {ie.val}]
      [] OTHER -> shown

\* Whether parse_beacon takes the frame for an access point's.
IsAp(p) == RtLength(p) # 0 /\ p.size >= p.rt.len + 24 /\ p.kind \in ApKinds

\* parse_beacon: the access point a beacon or probe response shows.
ParseBeacon(p) ==
    LET bare == [ssid |-> Unset, channel |-> IF 3 \in RtDecoded(p.rt) THEN p.tuned ELSE Unset,
                 rsn |-> Unset, wpa |-> Unset, phy |-> {}]
        shown == FoldLeft(WithElement, bare, Elements(p))
    IN  [bssid    |-> p.bssid,
         ssid     |-> shown.ssid,
         channel  |-> shown.channel,
         security |-> CASE shown.rsn # Unset -> RsnSecurity(shown.rsn)
                        [] shown.rsn = Unset /\ shown.wpa # Unset -> "WPA"
                        [] OTHER -> IF p.privacy THEN "WEP" ELSE "Open",
         rsn      |-> shown.rsn,
         wpa      |-> shown.wpa,
         phy      |-> shown.phy,
         count    |-> 1]

\* Whether parse_frame can read the frame control.
IsFrame(p) == RtLength(p) # 0 /\ p.size >= p.rt.len + 2

-----------------------------------------------------------------------------
(* FrameLog.                                                               *)

NewLog == [total |-> 0, counts |-> <<>>, frames |-> <<>>, truncated |-> FALSE,
           t0 |-> -1]

\* Mutant: one record too many.
FullLate(log) == MaxFrames >= 0 /\ Len(log.frames) > MaxFrames

Full(log) == MaxFrames >= 0 /\ Len(log.frames) >= MaxFrames

\* FrameLog.add: counts every frame, keeps the first max_frames records, with
\* times relative to the first one that has a time.
Add(log, p, ts) ==
    LET seen == IF p.kind \in DOMAIN log.counts THEN log.counts[p.kind] ELSE 0
        t0   == IF Full(log) \/ log.t0 # -1 THEN log.t0 ELSE ts
        rec  == [kind |-> p.kind, n |-> log.total + 1,
                 t |-> IF ts = -1 THEN Unset ELSE ts - t0]
    IN  [total     |-> log.total + 1,
         counts    |-> Put(log.counts, p.kind, seen + 1),
         frames    |-> IF Full(log) THEN log.frames ELSE Append(log.frames, rec),
         truncated |-> log.truncated \/ Full(log),
         t0        |-> t0]

-----------------------------------------------------------------------------
(* ScanTable.                                                              *)

NewTable == [aps |-> <<>>, other |-> 0]

\* What a later frame of the same access point changes in its row.
Merge(row, ap) ==
    [bssid    |-> row.bssid,
     ssid     |-> IF ap.ssid \notin {Unset, Hidden} THEN ap.ssid ELSE row.ssid,
     channel  |-> IF ap.channel # Unset THEN ap.channel ELSE row.channel,
     security |-> IF ap.security # "Open" THEN ap.security ELSE row.security,
     rsn      |-> IF ap.rsn # Unset THEN ap.rsn ELSE row.rsn,
     wpa      |-> IF ap.wpa # Unset THEN ap.wpa ELSE row.wpa,
     phy      |-> row.phy \cup ap.phy,
     count    |-> row.count + 1]

\* ScanTable.update.
Updated(table, ap) ==
    LET row == IF ap.bssid \in DOMAIN table.aps
               THEN Merge(table.aps[ap.bssid], ap) ELSE ap
    IN  [aps |-> Put(table.aps, ap.bssid, row), other |-> table.other]

-----------------------------------------------------------------------------
(* Reference: what a log and a table are to say of a sequence of packets   *)
(* with their times, said without the order they were added in.            *)

Frames(ps) ==
    LET upTo[i \in 0..Len(ps)] ==
            IF i = 0 THEN <<>>
            ELSE IF IsFrame(ps[i].pkt) THEN Append(upTo[i - 1], ps[i]) ELSE upTo[i - 1]
    IN  upTo[Len(ps)]

\* Every frame is counted, whatever the limit; the first ones are recorded,
\* with their number and their time since the first one that has a time.
LogOf(ps) ==
    LET seen  == Frames(ps)
        kept  == IF MaxFrames < 0 \/ MaxFrames > Len(seen) THEN Len(seen) ELSE MaxFrames
        timed == {i \in 1..kept : seen[i].ts # -1}
        t0    == IF timed = {} THEN -1
                 ELSE seen[CHOOSE i \in timed : \A j \in timed : i <= j].ts
    IN  [total     |-> Len(seen),
         counts    |-> [k \in {seen[i].pkt.kind : i \in DOMAIN seen} |->
                          Cardinality({i \in DOMAIN seen : seen[i].pkt.kind = k})],
         frames    |-> [i \in 1..kept |->
                          [kind |-> seen[i].pkt.kind, n |-> i,
                           t |-> IF i \in timed THEN seen[i].ts - t0 ELSE Unset]],
         truncated |-> kept < Len(seen),
         t0        |-> t0]

\* The last of the values that is not a blank one, else the first.
LastOr(vals, blank) ==
    LET with == {i \in DOMAIN vals : vals[i] \notin blank}
    IN  vals[IF with = {} THEN Min(DOMAIN vals) ELSE Max(with)]

\* The packets of an access point.
OfAp(ps, b) == {i \in DOMAIN ps : IsAp(ps[i].pkt) /\ ps[i].pkt.bssid = b}

\* Its row: the last name, channel and security it showed and every amendment.
RowOf(ps, b) ==
    LET of    == OfAp(ps, b)
        ap(i) == ParseBeacon(ps[i].pkt)
    IN  [bssid    |-> b,
         ssid     |-> LastOr([i \in of |-> ap(i).ssid], {Unset, Hidden}),
         channel  |-> LastOr([i \in of |-> ap(i).channel], {Unset}),
         security |-> LastOr([i \in of |-> ap(i).security], {"Open"}),
         rsn      |-> LastOr([i \in of |-> ap(i).rsn], {Unset}),
         wpa      |-> LastOr([i \in of |-> ap(i).wpa], {Unset}),
         phy      |-> UNION {ap(i).phy : i \in of},
         count    |-> Cardinality(of)]

\* One row per access point; all else is counted.
TableOf(ps) ==
    LET aps == {i \in DOMAIN ps : IsAp(ps[i].pkt)}
    IN  [aps   |-> [b \in {ps[i].pkt.bssid : i \in aps} |-> RowOf(ps, b)],
         other |-> Cardinality(DOMAIN ps \ aps)]

=============================================================================
