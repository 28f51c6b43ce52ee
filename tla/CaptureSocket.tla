--------------------------- MODULE CaptureSocket ---------------------------
(***************************************************************************)
(* CaptureSocket of wlanpi_mcp/capture/ws_client.py from its last command  *)
(* (start or subscribe) to the end of the window of _run_window in         *)
(* wlanpi_mcp/tools/capture.py: one socket, whose messages arrive in order *)
(* while nobody reads them, whose chunks of the pcapng stream start before *)
(* the answer to the command does, and whose frames go through the reader  *)
(* of Pcapng into the table and the log of Dot11 and into a tee file.      *)
(*                                                                         *)
(* Core is external: it may refuse the command, never answer it, end the   *)
(* capture or close the socket at any time; its end event follows the      *)
(* capture's last bytes.  A stop only asks for an end that may come anyhow.*)
(***************************************************************************)
EXTENDS Pcapng, Dot11

CONSTANTS
    Streams,      \* what may be captured: sequences of blocks
    ChunkSizes,   \* the cells of a message
    MaxChatter    \* bound of the model: informational events core sends

ASSUME SocketAssumption ==
    /\ \A blocks \in Streams : WellFormed(blocks)
    /\ ChunkSizes \subseteq Nat \ {0}
    /\ MaxChatter \in Nat

VARIABLES
    script,    \* the capture's blocks
    core,      \* what core is doing for this socket
    answered,  \* it answered the command
    sent,      \* the cells of the stream it sent
    chatter,   \* the informational events it sent
    link,      \* its messages the socket has not read
    phase,     \* where the call is
    owner,     \* it started the capture, rather than joined it
    tees,      \* a tee file could be opened
    pending,   \* _pending_binary: the chunks that came before the window
    ended,     \* _ended
    tee,       \* the cells in the tee file
    absorbed,  \* history: the cells handed to the reader
    reader, table, log

coreVars    == <<script, core, answered, sent, chatter>>
summaryVars == <<tee, absorbed, reader, table, log>>
vars == <<coreVars, link, phase, owner, tees, pending, ended, summaryVars>>

Stream == Cells(script)

Chunk(cells) == [type |-> "chunk", cells |-> cells]
Event(code)  == [type |-> code, cells |-> <<>>]

Init ==
    /\ script \in Streams
    /\ core = "idle"
    /\ answered = FALSE
    /\ sent = 0
    /\ chatter = 0
    /\ link = <<>>
    /\ phase = "awaiting"
    /\ owner \in BOOLEAN
    /\ tees \in BOOLEAN
    /\ pending = <<>>
    /\ ended = FALSE
    /\ tee = <<>>
    /\ absorbed = <<>>
    /\ reader = NewReader
    /\ table = NewTable
    /\ log = NewLog

-----------------------------------------------------------------------------
(* Core (external).                                                        *)

Says(m) ==
    /\ link' = Append(link, m)
    /\ UNCHANGED <<script, phase, owner, tees, pending, ended, summaryVars>>

\* It starts the capture, or attaches the socket to one.
CoreHandles ==
    /\ core = "idle"
    /\ core' = "capturing"
    /\ UNCHANGED <<script, answered, sent, chatter, link, phase, owner, tees,
                   pending, ended, summaryVars>>

CoreAnswers ==
    /\ core \in {"capturing", "over"}
    /\ ~answered
    /\ answered' = TRUE
    /\ Says(Event("answer"))
    /\ UNCHANGED <<core, sent, chatter>>

\* A fatal error event.
CoreRefuses ==
    /\ core = "idle"
    /\ core' = "refused"
    /\ Says(Event("error"))
    /\ UNCHANGED <<answered, sent, chatter>>

CoreSends ==
    /\ core = "capturing"
    /\ \E n \in ChunkSizes :
         LET upto == IF sent + n > Len(Stream) THEN Len(Stream) ELSE sent + n
         IN  /\ upto > sent
             /\ sent' = upto
             /\ Says(Chunk(SubSeq(Stream, sent + 1, upto)))
    /\ UNCHANGED <<core, answered, chatter>>

\* A channel hop, a channel that could not be set, a text of another kind.
CoreChats ==
    /\ core # "closed"
    /\ chatter < MaxChatter
    /\ chatter' = chatter + 1
    /\ Says(Event("info"))
    /\ UNCHANGED <<core, answered, sent>>

\* CAPTURE_ENDED or CAPTURE_STOPPED.
CoreEnds ==
    /\ core = "capturing"
    /\ core' = "over"
    /\ Says(Event("end"))
    /\ UNCHANGED <<answered, sent, chatter>>

\* The connection breaks: every receive after what was sent fails.
CoreCloses ==
    /\ core # "closed"
    /\ core' = "closed"
    /\ Says(Event("closed"))
    /\ UNCHANGED <<answered, sent, chatter>>

\* What core does until the call closes its socket.
CoreNext ==
    /\ phase \in {"awaiting", "ready", "window", "drain"}
    /\ \/ CoreHandles
       \/ CoreAnswers
       \/ CoreRefuses
       \/ CoreSends
       \/ CoreChats
       \/ CoreEnds
       \/ CoreCloses

-----------------------------------------------------------------------------
(* Waiting for the answer: _await_code over _next_event.                   *)

\* Chunks are kept for the window, events are recorded and skipped, a fatal
\* error and a broken connection fail the call.
AwaitReads ==
    /\ phase = "awaiting"
    /\ link # <<>>
    /\ LET m == Head(link)
       IN  /\ phase' = CASE m.type = "answer" -> "ready"
                         [] m.type \in {"error", "closed"} -> "failed"
                         [] OTHER -> "awaiting"
           /\ pending' = IF m.type = "chunk" THEN Append(pending, m.cells) ELSE pending
           /\ ended' = (ended \/ m.type = "end")
    /\ link' = Tail(link)
    /\ UNCHANGED <<coreVars, owner, tees, summaryVars>>

\* Mutant: a command waits for its answer without a limit.
NoTimeout == FALSE /\ UNCHANGED vars

\* COMMAND_TIMEOUT has passed without any message.
CommandTimeout ==
    /\ phase = "awaiting"
    /\ link = <<>>
    /\ phase' = "failed"
    /\ UNCHANGED <<coreVars, link, owner, tees, pending, ended, summaryVars>>

-----------------------------------------------------------------------------
(* The window: consume.                                                    *)

\* A packet goes to the table and, if it is a frame, to the log.
Dissected(acc, x) ==
    [reader |-> acc.reader,
     table  |-> IF IsAp(x.pkt) THEN Updated(acc.table, ParseBeacon(x.pkt))
                ELSE [aps |-> acc.table.aps, other |-> acc.table.other + 1],
     log    |-> IF IsFrame(x.pkt) THEN Add(acc.log, x.pkt, x.ts) ELSE acc.log]

\* The packets of a chunk, one after the other.
DissectedAll(acc, ps) ==
    LET upTo[i \in 0..Len(ps)] == IF i = 0 THEN acc ELSE Dissected(upTo[i - 1], ps[i])
    IN  upTo[Len(ps)]

\* _absorb: a chunk goes through the reader to the table and the log.
Absorb(acc, chunk) ==
    LET fed == Feed(acc.reader, chunk)
    IN  DissectedAll([reader |-> fed.reader, table |-> acc.table, log |-> acc.log], fed.out)

AbsorbAll(acc, chunks) ==
    LET upTo[i \in 0..Len(chunks)] == IF i = 0 THEN acc ELSE Absorb(upTo[i - 1], chunks[i])
    IN  upTo[Len(chunks)]

\* Each of the chunks goes to the tee and is then dissected.
Takes(chunks) ==
    \E got \in {AbsorbAll([reader |-> reader, table |-> table, log |-> log], chunks)} :
        /\ tee' = IF tees THEN tee \o FlattenSeq(chunks) ELSE tee
        /\ absorbed' = absorbed \o FlattenSeq(chunks)
        /\ reader' = got.reader
        /\ table' = got.table
        /\ log' = got.log

\* Mutant: the window starts with what comes next.
ReplaysNothing ==
    /\ phase = "ready"
    /\ phase' = "window"
    /\ pending' = <<>>
    /\ UNCHANGED <<coreVars, link, owner, tees, ended, summaryVars>>

\* consume first replays what came before the window.
Replays ==
    /\ phase = "ready"
    /\ phase' = "window"
    /\ Takes(pending)
    /\ pending' = <<>>
    /\ UNCHANGED <<coreVars, link, owner, tees, ended>>

\* The tee's write fails at one of the replayed chunks: the call ends.
ReplayFails ==
    /\ phase = "ready"
    /\ tees
    /\ \E i \in DOMAIN pending : Takes(SubSeq(pending, 1, i - 1))
    /\ phase' = "failed"
    /\ UNCHANGED <<coreVars, link, owner, tees, pending, ended>>

Reading == phase \in {"window", "drain"} /\ ~ended /\ link # <<>>

\* A message is read: a chunk is taken, an event recorded.
Reads ==
    /\ Reading
    /\ Head(link).type # "closed"
    /\ link' = Tail(link)
    /\ ended' = (Head(link).type = "end")
    /\ IF Head(link).type = "chunk"
       THEN Takes(<<Head(link).cells>>)
       ELSE UNCHANGED summaryVars
    /\ UNCHANGED <<coreVars, phase, owner, tees, pending>>

\* The tee's write of a chunk fails: the chunk is dissected no more.
WriteFails ==
    /\ Reading
    /\ tees
    /\ Head(link).type = "chunk"
    /\ link' = Tail(link)
    /\ phase' = "failed"
    /\ UNCHANGED <<coreVars, owner, tees, pending, ended, summaryVars>>

\* The capture ended, the connection broke or the time is up: an owner whose
\* capture has not ended sends stop and drains the rest through the same reader.
Leaves ==
    /\ phase \in {"window", "drain"}
    /\ phase' = IF phase = "window" /\ owner /\ ~ended THEN "drain" ELSE "over"
    /\ UNCHANGED <<coreVars, link, owner, tees, pending, ended, summaryVars>>

\* The call is cancelled; what it has so far is its partial result.
Cancelled ==
    /\ phase \in {"awaiting", "ready", "window", "drain"}
    /\ phase' = "cut"
    /\ UNCHANGED <<coreVars, link, owner, tees, pending, ended, summaryVars>>

CallNext ==
    \/ AwaitReads
    \/ CommandTimeout
    \/ Replays
    \/ ReplayFails
    \/ Reads
    \/ WriteFails
    \/ Leaves
    \/ Cancelled

Next == CoreNext \/ CallNext

Spec == Init /\ [][Next]_vars

\* The loop runs what is ready, and receives and windows have their limits:
\* the call moves on, by Replays and by Leaves at the latest.
Moves == /\ phase \in {"ready", "window", "drain"}
         /\ phase' \in {"window", "drain", "over", "failed", "cut"}

Fairness ==
    /\ WF_vars(AwaitReads)
    /\ WF_vars(CommandTimeout)
    /\ WF_phase(Moves)

FairSpec == Spec /\ Fairness

-----------------------------------------------------------------------------
(* Properties.                                                             *)

TypeOK ==
    /\ script \in Streams
    /\ core \in {"idle", "refused", "capturing", "over", "closed"}
    /\ sent \in 0..Len(Stream)
    /\ chatter \in 0..MaxChatter
    /\ \A i \in DOMAIN link :
          link[i].type \in {"chunk", "answer", "error", "info", "end", "closed"}
    /\ phase \in {"awaiting", "ready", "window", "drain", "over", "failed", "cut"}
    /\ {answered, owner, tees, ended} \subseteq BOOLEAN
    /\ table.other \in Nat
    /\ MaxFrames >= 0 => Len(log.frames) <= MaxFrames

\* What a call reports, complete, partial or cut, is what its tee file holds:
\* table and log tell of the blocks that are whole in the file, with
\* the time of their own section, wherever the chunks were cut.
SummaryMatchesFile ==
    LET ps == PacketsWithin(script, Len(absorbed))
    IN  /\ tees => tee = absorbed
        /\ table = TableOf(ps)
        /\ log = LogOf(ps)

\* Nothing core sent is dropped, doubled or reordered while the call waits
\* for its answer, replays, reads or drains; and a call that heard the
\* capture end has all of it.
NothingLost ==
    LET inLink == FlattenSeq([i \in DOMAIN link |-> link[i].cells])
        first  == SubSeq(Stream, 1, sent)
    IN  /\ phase # "failed" => absorbed \o FlattenSeq(pending) \o inLink = first
        /\ phase = "over" /\ ended => absorbed = first

\* Whatever core does, also nothing at all, the call comes to an end.
FlowEnds == <>(phase \in {"over", "failed", "cut"})

=============================================================================
