------------------------------ MODULE BgpWire ------------------------------
(***************************************************************************)
(* BGP on the wire: the encoders and parsers of lb-bgp/messages.rs and the *)
(* two places in speaker.rs that read the peer's byte stream.  connect     *)
(* takes one read for the peer's OPEN and throws the rest of it away;      *)
(* drive collects bytes and pops whole messages with take_message.  TCP    *)
(* cuts the stream anywhere.                                               *)
(*                                                                         *)
(* Bytes are numbers; time is left out, so the hold timer may expire       *)
(* whenever the peer has not sent everything.                              *)
(***************************************************************************)
EXTENDS Integers, Sequences, SequencesExt

CONSTANTS
    Transcripts,     \* what the peer may send: sequences of byte strings,
                     \* each a message or something that is none
    Asn, HoldTime, RouterId,   \* of the local speaker
    WireVips         \* the VIPs it may announce or withdraw, as four bytes

\* The values of a u16.
U16 == 0 .. 65535

ASSUME WireAssumption ==
    /\ Transcripts \subseteq Seq(Seq(0 .. 255))
    /\ Asn \in U16 /\ HoldTime \in U16
    /\ WireVips \cup {RouterId} \subseteq [1 .. 4 -> 0 .. 255]

VARIABLES
    transcript,  \* what this peer sends
    phase,       \* opening, driving, parsing, failed, closed, panicked
    hold,        \* the negotiated hold time
    received,    \* how many bytes have been read
    incoming,    \* drive's accumulator
    taken,       \* history: the messages take_message has returned
    start,       \* history: how many bytes connect has read
    wrote        \* history: what was written last, and why

wireVars == <<transcript, phase, hold, received, incoming, taken, start, wrote>>

-----------------------------------------------------------------------------
(***************************************************************************)
(* messages.rs: encoding.                                                  *)
(***************************************************************************)
MARKER == [i \in 1 .. 16 |-> 255]
u16(n) == <<n \div 256, n % 256>>

\* The length is that of the whole message, header included.
Framed(type, body) == MARKER \o u16(19 + Len(body)) \o <<type>> \o body

encode_open(asn, hold_time, router_id) ==
    Framed(1, <<4>> \o u16(asn) \o u16(hold_time) \o router_id \o <<0>>)
encode_keepalive == Framed(4, <<>>)
encode_notification(code, subcode) == Framed(3, <<code, subcode>>)

\* prefix_len is 32 in every call.
Nlri(prefix) == <<32>> \o prefix

ORIGIN         == <<64, 1, 1, 0>>
AS_PATH        == <<64, 2, 4, 2, 1>> \o u16(Asn)
NEXT_HOP(addr) == <<64, 3, 4>> \o addr

\* Mutant of encode_update_announce: the attribute length counts itself.
encode_announce_long(prefix) ==
    LET attributes == ORIGIN \o AS_PATH \o NEXT_HOP(RouterId)
    IN  Framed(2, u16(0) \o u16(Len(attributes) + 2) \o attributes \o Nlri(prefix))

encode_update_announce(prefix) ==
    LET attributes == ORIGIN \o AS_PATH \o NEXT_HOP(RouterId)
    IN  Framed(2, u16(0) \o u16(Len(attributes)) \o attributes \o Nlri(prefix))

encode_update_withdraw(prefix) ==
    Framed(2, u16(Len(Nlri(prefix))) \o Nlri(prefix) \o u16(0))

(***************************************************************************)
(* messages.rs: parsing.  Offsets are those of the code plus one.          *)
(***************************************************************************)
be16(data, i) == data[i] * 256 + data[i + 1]
IsType(data, type) == Len(data) >= 19 /\ data[19] = type

parse_notification(data) == Len(data) >= 21 /\ IsType(data, 3)
parse_open_hold_time(data) == be16(data, 23)

(***************************************************************************)
(* take_message: the popped message, if any, and what stays in the buffer. *)
(***************************************************************************)
Nothing(rest) == [msg |-> <<>>, rest |-> rest]

\* Mutant of take_message: lengths up to the header's own are refused.
take_message_strict(buf) ==
    IF Len(buf) < 19 THEN Nothing(buf)
    ELSE IF SubSeq(buf, 1, 16) # MARKER \/ be16(buf, 17) \notin 20 .. 4096
    THEN Nothing(Tail(buf))
    ELSE IF Len(buf) < be16(buf, 17) THEN Nothing(buf)
    ELSE [msg  |-> SubSeq(buf, 1, be16(buf, 17)),
          rest |-> SubSeq(buf, be16(buf, 17) + 1, Len(buf))]

\* A marker and a length that a message may have.
MessageLengths == 19 .. 4096
IsHeader(buf)  == SubSeq(buf, 1, 16) = MARKER /\ be16(buf, 17) \in MessageLengths

take_message(buf) ==
    IF Len(buf) < 19 THEN Nothing(buf)
    ELSE IF ~IsHeader(buf) THEN Nothing(Tail(buf))
    ELSE IF Len(buf) < be16(buf, 17) THEN Nothing(buf)
    ELSE [msg  |-> SubSeq(buf, 1, be16(buf, 17)),
          rest |-> SubSeq(buf, be16(buf, 17) + 1, Len(buf))]

-----------------------------------------------------------------------------
Stream == FlattenSeq(transcript)

\* The next n bytes of the stream.
Chunk(n) == SubSeq(Stream, received + 1, received + n)
Unread   == Len(Stream) - received

\* connect: the first read must hold an OPEN up to its hold time; the marker
\* and the length are not looked at.  With a hold time of zero drive's first
\* act is to add u64::MAX / 2 seconds to the present, which overflows.
connect ==
    /\ phase = "opening"
    /\ \E n \in 1 .. Unread :
          LET buf == Chunk(n) IN
          /\ received' = n /\ start' = n
          /\ IF IsType(buf, 1) /\ n >= 24
             THEN /\ hold' = IF parse_open_hold_time(buf) < HoldTime
                             THEN parse_open_hold_time(buf) ELSE HoldTime
                  /\ phase' = IF hold' = 0 THEN "panicked" ELSE "driving"
                  /\ wrote' = [why |-> <<"keepalive">>, bytes |-> encode_keepalive]
             ELSE phase' = "failed" /\ UNCHANGED <<hold, wrote>>
    /\ UNCHANGED <<transcript, incoming, taken>>

\* drive: a read, then messages are popped until there is none.
ReadBytes ==
    /\ phase = "driving"
    /\ \E n \in 1 .. Unread :
          /\ received' = received + n
          /\ incoming' = incoming \o Chunk(n)
    /\ phase' = "parsing"
    /\ UNCHANGED <<transcript, hold, taken, start, wrote>>

PopMessage ==
    /\ phase = "parsing"
    /\ LET t == take_message(incoming) IN
          /\ incoming' = t.rest
          /\ taken' = IF t.msg = <<>> THEN taken ELSE Append(taken, t.msg)
          /\ phase' = IF t.msg = <<>> THEN "driving"
                      ELSE IF parse_notification(t.msg) THEN "closed"
                      ELSE "parsing"
    /\ UNCHANGED <<transcript, hold, received, start, wrote>>

\* drive's other arms: send_announce and send_withdraw, a keepalive, and the
\* hold timer, which ends the session with a NOTIFICATION.
Write(why, bytes) == wrote' = [why |-> why, bytes |-> bytes]

SendUpdate ==
    /\ phase = "driving"
    /\ \E p \in WireVips :
          \/ Write(<<"announce", p>>, encode_update_announce(p))
          \/ Write(<<"withdraw", p>>, encode_update_withdraw(p))
    /\ UNCHANGED <<transcript, phase, hold, received, incoming, taken, start>>

SendKeepalive ==
    /\ phase = "driving"
    /\ Write(<<"keepalive">>, encode_keepalive)
    /\ UNCHANGED <<transcript, phase, hold, received, incoming, taken, start>>

HoldExpires ==
    /\ phase = "driving"
    /\ Write(<<"hold expired">>, encode_notification(4, 0))
    /\ phase' = "closed"
    /\ UNCHANGED <<transcript, hold, received, incoming, taken, start>>

\* The peer closes the connection after its last byte.
PeerCloses ==
    /\ phase \in {"opening", "driving"} /\ Unread = 0
    /\ phase' = IF phase = "opening" THEN "failed" ELSE "closed"
    /\ UNCHANGED <<transcript, hold, received, incoming, taken, start, wrote>>

WireInit ==
    /\ transcript \in Transcripts
    /\ phase = "opening" /\ hold = 0
    /\ received = 0 /\ incoming = <<>> /\ taken = <<>> /\ start = 0
    /\ wrote = [why |-> <<"open">>, bytes |-> encode_open(Asn, HoldTime, RouterId)]

WireNext ==
    \/ connect \/ ReadBytes \/ PopMessage
    \/ SendUpdate \/ SendKeepalive \/ HoldExpires \/ PeerCloses

WireSpec == WireInit /\ [][WireNext]_wireVars

-----------------------------------------------------------------------------
\* Where the pieces of a transcript begin, as numbers of bytes before them.
Boundary(pieces, i) == Len(FlattenSeq(SubSeq(pieces, 1, i)))
Boundaries(pieces)  == {Boundary(pieces, i) : i \in 0 .. Len(pieces)}

IsMessage(m) ==
    /\ Len(m) \in MessageLengths /\ SubSeq(m, 1, 16) = MARKER
    /\ be16(m, 17) = Len(m)

\* The pieces with these numbers, in the order of the transcript.
Picked(pieces, numbers) ==
    LET found[i \in 0 .. Len(pieces)] ==
            IF i = 0 THEN <<>>
            ELSE IF i \in numbers THEN Append(found[i - 1], pieces[i])
            ELSE found[i - 1]
    IN  found[Len(pieces)]

\* The messages of a transcript that lie between the bytes a and b.
Inside(pieces, a, b) ==
    {i \in DOMAIN pieces : /\ IsMessage(pieces[i])
                           /\ Boundary(pieces, i - 1) >= a /\ Boundary(pieces, i) <= b}
Between(pieces, a, b) == Picked(pieces, Inside(pieces, a, b))

\* Neither the peer nor connect, which read the first n bytes, has cost the
\* framing.
InSync(pieces, n) ==
    n \in Boundaries(pieces) /\ \A i \in DOMAIN pieces : IsMessage(pieces[i])

\* The stream holds no header but those of its messages: without that a reader
\* who has lost the framing may find a message inside another.
Unambiguous(pieces) ==
    LET bytes == FlattenSeq(pieces) IN
    \A k \in 0 .. (Len(bytes) - 19) :
        IsHeader(SubSeq(bytes, k + 1, k + 19)) =>
            \E i \in DOMAIN pieces : Boundary(pieces, i - 1) = k /\ IsMessage(pieces[i])

\* However TCP cuts the stream, and even if connect has cut a message in two,
\* take_message returns the peer's messages after the cut, each once and in
\* order, and nothing that is not one of them; the first NOTIFICATION ends the
\* session.  If nothing cost the framing, no whole message is left when drive
\* waits for a read; after a desync one may be, as a read drops one byte only.
FramingIsExact ==
    LET first  == received - Len(incoming)
        inSync == InSync(transcript, start)
    IN  phase \in {"driving", "parsing", "closed"} /\ (inSync \/ Unambiguous(transcript)) =>
            /\ taken = Between(transcript, start, first)
            /\ phase = "driving" =>
                  /\ \A i \in DOMAIN taken : ~parse_notification(taken[i])
                  /\ inSync => Between(transcript, first, received) = <<>>

\* A strict reader of UPDATEs (RFC 4271 section 4.3): the routes withdrawn and
\* the routes announced by the bytes m.
Withdrawn(m) == SubSeq(m, 22, 21 + be16(m, 20))
Announced(m) == SubSeq(m, 24 + be16(m, 20) + be16(m, 22 + be16(m, 20)), Len(m))

\* Every message the speaker writes is one message to its own framing, and the
\* length fields of an UPDATE make it withdraw or announce the VIP that was
\* asked for and no other.
OwnMessagesDecode ==
    /\ take_message(wrote.bytes) = [msg |-> wrote.bytes, rest |-> <<>>]
    /\ \A p \in WireVips :
          /\ wrote.why = <<"announce", p>> =>
                Withdrawn(wrote.bytes) = <<>> /\ Announced(wrote.bytes) = <<32>> \o p
          /\ wrote.why = <<"withdraw", p>> =>
                Withdrawn(wrote.bytes) = <<32>> \o p /\ Announced(wrote.bytes) = <<>>
=============================================================================
