-------------------------- MODULE MCCaptureSocket --------------------------
(* Small instances of CaptureSocket for TLC: streams of two sections, in   *)
(* both byte orders, joined in the middle of a block, with an interface    *)
(* nobody described and a block too short for a packet.                    *)
EXTENDS CaptureSocket

CONSTANTS a1, a2, lab, ch1, ch6

Radiotap == [present |-> {0, 1, 2, 3, 5}, words |-> 1, len |-> 32]
\* Two present words push the channel out of this header.
Narrow   == [present |-> {0, 1, 2, 3}, words |-> 2, len |-> 27]

Ie(tag, val) == [tag |-> tag, val |-> val, cut |-> FALSE]

Frame(kind, bssid, rt, ies) ==
    [rt |-> rt, size |-> 80, kind |-> kind, bssid |-> bssid, tuned |-> ch6,
     privacy |-> TRUE, ies |-> ies]

Named  == Frame("mgmt/probe-resp", a1, Radiotap,
                <<Ie("ssid", lab), Ie("rsn", {"psk", "sae"}), Ie("phy", "ax")>>)
Silent == Frame("mgmt/beacon", a1, Narrow,
                <<Ie("ssid", Unset), Ie("wpa", {"psk"}), Ie("phy", "n"),
                  [tag |-> "ds", val |-> ch1, cut |-> TRUE]>>)
Other  == Frame("mgmt/beacon", a2, Radiotap, <<Ie("ds", ch1)>>)
Data   == Frame("data/qos-data", a1, Radiotap, <<>>)
Broken == [Data EXCEPT !.rt.len = 90]

MCPackets == {Named, Silent, Other, Data, Broken}

B(type, order, num, iface, pkt) == BlockOf(type, order, num, iface, pkt)
SHB(order)                 == B("SHB", order, 0, 0, NoPacket)
IDB(order, resol)          == B("IDB", order, resol, 0, NoPacket)
EPB(order, ts, iface, pkt) == B("EPB", order, ts, iface, pkt)
Junk                       == B("junk", "<", 0, 0, NoPacket)

MCStreams == {
    << SHB("<"), IDB("<", 1), EPB("<", 3, 0, Named), EPB("<", 4, 1, Data),
       EPB("<", 5, 0, Silent) >>,
    << SHB("<"), IDB("<", 1), EPB("<", 2, 0, Silent), SHB(">"), IDB(">", 2),
       EPB(">", 2, 0, Named) >>,
    << Junk, Junk, SHB(">"), IDB(">", 1), IDB(">", 3), EPB(">", 2, 1, Other),
       B("cut", ">", 1, 0, Broken), EPB(">", 3, 0, Broken) >>,
    << EPB("<", 2, 0, Data), Junk, SHB("<"), IDB("<", 2), EPB("<", 4, 0, Other) >> }

=============================================================================
