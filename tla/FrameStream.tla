---------------------------- MODULE FrameStream ------------------------------
(***************************************************************************)
(* How a device finds the messages in a TCP stream (frame.c, handle_rx of  *)
(* device_app.c).  A frame is two bytes of length and a JSON text.  The    *)
(* one buffer and the one count of malformed frames serve the provisioning *)
(* connection and, later, the session.                                     *)
(*                                                                         *)
(* A byte is known by its frame and its place in it.  Texts are short: a   *)
(* frame of 256 bytes and more, whose first length byte is not zero, is    *)
(* "long".  handle_rx is one call, but the peer sends meanwhile.           *)
(***************************************************************************)
EXTENDS Naturals, Sequences, FiniteSets, SequencesExt

CONSTANTS
    LongText,     \* the bytes of a long text
    BufferSize,   \* sizeof rx_buf
    RecvMax,      \* sizeof buf
    MaxMalformed, \* malformed_max_per_conn
    MaxFrames,    \* bound: frames sent
    MaxConns      \* bound: connections

ASSUME FrameAssumption ==
    /\ {LongText, RecvMax, MaxMalformed} \subseteq Nat \ {0}
    /\ {BufferSize, MaxFrames, MaxConns} \subseteq Nat

\* Messages with a cmd; a text that is none; a length of zero, or too large,
\* and nothing else.
Legal == {"short", "long"}
Kinds == Legal \cup {"noise", "empty", "large"}

VARIABLES
    conn,       \* none, ap: app->ap_conn, session: app->sess_sock
    sent,       \* the kinds of all frames sent, over all connections
    firstFrame, \* the first frame of this connection
    wire,       \* the bytes on their way
    rx,         \* rx_buf, up to rx_len
    parsing,    \* inside the loop of handle_rx
    malformed,  \* app->malformed_count
    heard,      \* history: the messages handed to the handlers since the
                \* connection was made
    counted,    \* history: how often malformed was raised since then
    conns,      \* history: the number of connections
    fate        \* history: what made the device lose its place in the stream,
                \* and whether it closed the connection for malformed frames

frameVars == <<conn, sent, firstFrame, wire, rx, parsing, malformed, heard, counted,
               conns, fate>>

Byte(f, p) == [frame |-> f, place |-> p]
Nul == Byte(0, 0)
TextSize(k) == CASE k = "long" -> LongText [] k \in {"empty", "large"} -> 0 [] OTHER -> 1
Bytes(f, k) == [p \in 1..TextSize(k) + 2 |-> Byte(f, p)]

FrameInit ==
    /\ conn = "none" /\ sent = <<>> /\ firstFrame = 1 /\ wire = <<>> /\ rx = <<>>
    /\ parsing = FALSE /\ malformed = 0
    /\ heard = <<>> /\ counted = 0 /\ conns = 0 /\ fate = {}

-----------------------------------------------------------------------------
(* Connections *)

NewConnection ==
    /\ ~parsing /\ conns < MaxConns /\ conns' = conns + 1
    /\ firstFrame' = Len(sent) + 1 /\ wire' = <<>>
    /\ heard' = <<>> /\ counted' = 0 /\ fate' = {}
    /\ UNCHANGED <<sent, parsing>>

\* prov_server_poll: a client on the hotspot, which replaces the one before.
\* malformed_count is kept.
Accept ==
    /\ conn \in {"none", "ap"}
    /\ NewConnection
    /\ conn' = "ap" /\ rx' = <<>>
    /\ UNCHANGED malformed

\* Mutant: what the last connection has left is not dropped.
Connect_KeepsBytes ==
    /\ conn = "none"
    /\ NewConnection
    /\ conn' \in {"session", "none"} /\ malformed' = 0
    /\ UNCHANGED rx

\* session_connect; the connection is closed if the hello cannot be sent.
Connect ==
    /\ conn = "none"
    /\ NewConnection
    /\ conn' \in {"session", "none"} /\ malformed' = 0 /\ rx' = <<>>

\* recv fails: the peer is gone, and what was on its way may be lost.
PeerCloses ==
    /\ conn # "none" /\ ~parsing
    /\ conn' = "none" /\ wire' = <<>> /\ rx' = <<>>
    /\ UNCHANGED <<sent, firstFrame, parsing, malformed, heard, counted,
                   conns, fate>>

\* A time-out, session_disconnect, prov_server_stop: the buffer is left alone.
DeviceCloses ==
    /\ conn # "none" /\ ~parsing
    /\ conn' = "none" /\ wire' = <<>>
    /\ UNCHANGED <<sent, firstFrame, rx, parsing, malformed, heard, counted,
                   conns, fate>>

PeerSends(k) ==
    /\ conn # "none" /\ Len(sent) < MaxFrames
    /\ sent' = Append(sent, k)
    /\ wire' = wire \o Bytes(Len(sent'), k)
    /\ UNCHANGED <<conn, firstFrame, rx, parsing, malformed, heard, counted,
                   conns, fate>>

-----------------------------------------------------------------------------
(* handle_rx *)

\* One malformed frame more.
Counts == malformed' = malformed + 1 /\ counted' = counted + 1
TooMany == malformed + 1 >= MaxMalformed

\* The connection is closed for its malformed frames.
ClosedAsMalformed ==
    /\ conn' = "none" /\ rx' = <<>> /\ parsing' = FALSE
    /\ fate' = fate \cup {"closed"}

\* recv of up to RecvMax bytes.  If they do not fit, what is in the buffer is
\* dropped and they are kept.
Receive(n) ==
    /\ conn # "none" /\ ~parsing /\ n <= Len(wire)
    /\ wire' = SubSeq(wire, n + 1, Len(wire))
    /\ IF Len(rx) + n <= BufferSize
       THEN /\ rx' = rx \o SubSeq(wire, 1, n) /\ parsing' = TRUE
            /\ UNCHANGED <<conn, malformed, counted, fate>>
       ELSE /\ Counts
            /\ IF TooMany THEN ClosedAsMalformed
               ELSE /\ rx' = SubSeq(wire, 1, n) /\ parsing' = TRUE
                    /\ fate' = fate \cup {"overflow"} /\ UNCHANGED conn
    /\ UNCHANGED <<sent, firstFrame, heard, conns>>

\* The lengths the first two bytes can stand for, 0 for one that is not
\* allowed.  Away from the beginning of a frame they are any.
Lengths ==
    LET hi == rx[1]  lo == rx[2] IN
    IF lo.place # 2 THEN 0..LongText
    ELSE IF hi = Nul THEN 0..LongText - 1
    ELSE {TextSize(sent[lo.frame])}

\* The loop waits for more bytes.
WaitsForMore ==
    /\ parsing
    /\ Len(rx) >= 2 => \E len \in Lengths : len > 0 /\ Len(rx) < len + 2
    /\ parsing' = FALSE
    /\ UNCHANGED <<conn, sent, firstFrame, wire, rx, malformed, heard, counted,
                   conns, fate>>

\* Two bytes that are no length are skipped.
BadPrefix ==
    /\ parsing /\ Len(rx) >= 2 /\ 0 \in Lengths
    /\ Counts
    /\ IF TooMany THEN ClosedAsMalformed
       ELSE rx' = SubSeq(rx, 3, Len(rx)) /\ UNCHANGED <<conn, parsing, fate>>
    /\ UNCHANGED <<sent, firstFrame, wire, heard, conns>>

\* The text of a message, from its first byte to its last.
IsMessage(len) ==
    LET f == rx[1].frame IN
    f # 0 /\ sent[f] \in Legal /\ SubSeq(rx, 1, len + 2) = Bytes(f, sent[f])

\* The byte behind the frame is overwritten to end its text.  The first byte
\* of a frame is zero anyway, unless its length is 256 or more.
Spoils(len) ==
    /\ Len(rx) > len + 2
    /\ LET next == rx[len + 3] IN
       next.place = 1 => sent[next.frame] \in {"long", "large"}

\* What is left once a frame is consumed.
Rest(len) ==
    LET rest == SubSeq(rx, len + 3, Len(rx)) IN
    IF Spoils(len) THEN [rest EXCEPT ![1] = Nul] ELSE rest

\* A complete frame.  The handler of a message may close the connection; the
\* loop goes on all the same.  A text that is no message is counted, but the
\* count is not looked at.
Frame(len) ==
    /\ parsing /\ len > 0 /\ Len(rx) >= len + 2 /\ len \in Lengths
    /\ rx' = Rest(len)
    /\ fate' = IF Spoils(len) THEN fate \cup {"nul"} ELSE fate
    /\ IF IsMessage(len)
       THEN /\ heard' = Append(heard, rx[1].frame)
            /\ conn' \in {conn, "none"}
            /\ UNCHANGED <<malformed, counted>>
       ELSE Counts /\ UNCHANGED <<heard, conn>>
    /\ UNCHANGED <<sent, firstFrame, wire, parsing, conns>>

-----------------------------------------------------------------------------
FrameNext ==
    \/ Accept \/ Connect \/ PeerCloses \/ DeviceCloses
    \/ \E k \in Kinds : PeerSends(k)
    \/ \E n \in 1..RecvMax : Receive(n)
    \/ WaitsForMore \/ BadPrefix \/ \E len \in 1..LongText : Frame(len)

FrameSpec == FrameInit /\ [][FrameNext]_frameVars

-----------------------------------------------------------------------------
\* The frames of this connection of which no byte waits any more.
Consumed ==
    {f \in firstFrame..Len(sent) : \A i \in DOMAIN (rx \o wire) : (rx \o wire)[i].frame # f}

\* In whatever pieces a stream arrives, the handlers get messages of this
\* connection only, in the order they were sent, each at most once; and while
\* the buffer did not overflow and no length byte was overwritten, none is
\* lost and every malformed frame is counted once, whatever an earlier
\* connection has left in the buffer (frame_parse, handle_rx; device_session.c:
\* 跨连接残留会错乱解析).
FramesInOrder ==
    /\ \A i \in DOMAIN heard : heard[i] >= firstFrame /\ sent[heard[i]] \in Legal
    /\ \A i \in DOMAIN heard : i > 1 => heard[i - 1] < heard[i]
    /\ conn # "none" /\ fate = {} =>
        LET legal == {f \in Consumed : sent[f] \in Legal} IN
        /\ ToSet(heard) = legal
        /\ counted = Cardinality(Consumed \ legal)

\* A peer that sends messages only never has one counted as malformed (验收文档
\* D9: 合法帧正确处理).  The code overwrites the first length byte of a frame
\* that is buffered behind another.
LegalIsHeard ==
    (\A f \in firstFrame..Len(sent) : sent[f] \in Legal) => counted = 0
=============================================================================
