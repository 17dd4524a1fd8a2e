------------------------------ MODULE MssClamp ------------------------------
(***************************************************************************)
(* MSS clamping (lb-forwarder/mss_clamp.rs) with the limit MtuConfig       *)
(* derives from the network MTU (lb-types/mtu.rs): process_one runs it on  *)
(* every packet that matches a VIP.  One step of the model is one turn of  *)
(* the loop over the TCP options.                                          *)
(*                                                                         *)
(* tcp holds the bytes of the TCP header from its first to the end of the  *)
(* packet; of the IP header only the fields that are looked at are kept.   *)
(* Offsets are those of the code within the TCP header; byte o of it is    *)
(* tcp[o + 1].                                                             *)
(***************************************************************************)
EXTENDS Integers, Sequences, SequencesExt

CONSTANTS
    NetworkMtus,     \* the values of network_mtu
    OptionLists,     \* the TCP options that occur: sequences of byte strings
    TcpFlagBytes,    \* the values of the flags byte
    IpHeaders        \* records of version, protocol and ihl

\* The values of a u16.
MtuValues == 0 .. 65535

ASSUME ClampAssumption ==
    /\ NetworkMtus \subseteq MtuValues
    /\ OptionLists \subseteq Seq(Seq(0 .. 255))
    /\ TcpFlagBytes \subseteq 0 .. 255
    /\ IpHeaders \subseteq [version : Nat, protocol : Nat, ihl : 20 .. 60]

VARIABLES
    network_mtu,
    ip,          \* the IP header
    options,     \* the options the sender put into the header
    tcp,         \* data from the TCP header on
    original,    \* history: tcp before the call
    at,          \* the loop variable offset of clamp_mss
    clamp_result \* ClampResult, "start" or "loop" while clamp_mss runs

clampVars == <<network_mtu, ip, options, tcp, original, at, clamp_result>>

-----------------------------------------------------------------------------
GRE_OVERHEAD == 24

\* MtuConfig::new refuses an MTU below 1280, and lb-node then exits.
ValidMtu == network_mtu >= 1280
tcp_mss_clamp == network_mtu - GRE_OVERHEAD - 40

Byte(o) == tcp[o + 1]
Word(data, o) == data[o + 1] * 256 + data[o + 2]
Put(data, o, w) == [data EXCEPT ![o + 1] = w \div 256, ![o + 2] = w % 256]

Not16(w) == 65535 - w

\* Two carries are the most a sum of three words has.
Fold16(sum) ==
    LET once == (sum % 65536) + (sum \div 65536)
    IN  (once % 65536) + (once \div 65536)

\* RFC 1624: ~C' = ~C + ~old + new.
incremental_checksum_update(data, old, new) ==
    Put(data, 16, Not16(Fold16(Not16(Word(data, 16)) + Not16(old) + new)))

options_end == ((Byte(12) \div 16) * 4)
IsSyn == (Byte(13) \div 2) % 2 = 1

\* The checks before the loop.
ClampBegins ==
    /\ clamp_result = "start"
    /\ clamp_result' =
          IF ip.ihl + Len(tcp) < 40 \/ ip.version # 4 \/ ip.protocol # 6
             \/ Len(tcp) < 20
          THEN "NotTcp"
          ELSE IF ~IsSyn THEN "NotSyn"
          ELSE IF options_end < 20 \/ Len(tcp) < options_end THEN "MssMissing"
          ELSE "loop"
    /\ UNCHANGED <<network_mtu, ip, options, tcp, original, at>>

Finish(result) ==
    /\ clamp_result' = result
    /\ UNCHANGED <<network_mtu, ip, options, tcp, original, at>>

GoOn(n) ==
    /\ at' = at + n
    /\ UNCHANGED <<network_mtu, ip, options, tcp, original, clamp_result>>

InOptions == clamp_result = "loop" /\ at < options_end
kind   == Byte(at)
length == Byte(at + 1)

OptionNop == InOptions /\ kind = 1 /\ GoOn(1)

\* The list ends, or the next option is cut off or has an impossible length.
OptionsEnd ==
    /\ clamp_result = "loop"
    /\ \/ at >= options_end
       \/ at < options_end /\ kind = 0
       \/ /\ at < options_end /\ kind \notin {0, 1}
          /\ at + 1 >= options_end \/ length < 2
             \/ (kind = 2 /\ length = 4 /\ at + 4 > options_end)
    /\ Finish("MssMissing")

Whole == InOptions /\ kind \notin {0, 1} /\ at + 1 < options_end /\ length >= 2

\* Some other option, or kind 2 with another length than 4.
OptionOther == Whole /\ ~(kind = 2 /\ length = 4) /\ GoOn(length)

\* Mutant of OptionMss: the bound is one too high.
OptionMssLate ==
    /\ Whole /\ kind = 2 /\ length = 4 /\ at + 4 <= options_end
    /\ IF Word(tcp, at + 2) <= tcp_mss_clamp + 40 THEN Finish("Noop")
       ELSE /\ tcp' = incremental_checksum_update(
                         Put(tcp, at + 2, tcp_mss_clamp),
                         Word(tcp, at + 2), tcp_mss_clamp)
            /\ clamp_result' = "Clamped"
            /\ UNCHANGED <<network_mtu, ip, options, original, at>>

OptionMss ==
    /\ Whole /\ kind = 2 /\ length = 4 /\ at + 4 <= options_end
    /\ IF Word(tcp, at + 2) <= tcp_mss_clamp THEN Finish("Noop")
       ELSE /\ tcp' = incremental_checksum_update(
                         Put(tcp, at + 2, tcp_mss_clamp),
                         Word(tcp, at + 2), tcp_mss_clamp)
            /\ clamp_result' = "Clamped"
            /\ UNCHANGED <<network_mtu, ip, options, original, at>>

-----------------------------------------------------------------------------
(***************************************************************************)
(* The packet as its sender built it: a valid checksum, the options and    *)
(* END bytes up to the next multiple of four.                              *)
(***************************************************************************)
Padded(s) == s \o [i \in 1 .. ((4 - (Len(s) % 4)) % 4) |-> 0]

\* The ones-complement sum of all words; the pseudo-header's is left out, for
\* a clamp changes none of it.
Sum16(data) ==
    LET sum[n \in 0 .. (Len(data) \div 2)] ==
            IF n = 0 THEN 0 ELSE Fold16(sum[n - 1] + Word(data, 2 * (n - 1)))
    IN  sum[Len(data) \div 2]
ChecksumValid(data) == Sum16(data) = 65535

Header(flags, opts) ==
    LET body == Padded(FlattenSeq(opts))
        tcp0 == <<4, 210, 1, 187, 0, 0, 0, 1, 0, 0, 0, 0>> \o
                <<16 * (5 + (Len(body) \div 4)), flags, 255, 255, 0, 0, 0, 0>> \o body
    IN  Put(tcp0, 16, Not16(Sum16(tcp0)))

ClampInit ==
    /\ network_mtu \in NetworkMtus /\ ValidMtu
    /\ ip \in IpHeaders /\ options \in OptionLists
    /\ \E flags \in TcpFlagBytes : tcp = Header(flags, options)
    /\ original = tcp
    /\ at = 20 /\ clamp_result = "start"

ClampNext ==
    ClampBegins \/ OptionNop \/ OptionsEnd \/ OptionOther \/ OptionMss

ClampSpec == ClampInit /\ [][ClampNext]_clampVars

-----------------------------------------------------------------------------
\* Any options area falls into well-formed options up to its end, or up to one
\* that ends the list or is cut off by the end of the header, which has room
\* for 40 bytes of them.
WellFormed(o) == o = <<1>> \/ (Len(o) >= 2 /\ o[1] > 1 /\ o[2] = Len(o))
EndsList(o)   == Len(o) > 0 /\ (o[1] = 0 \/ (o[1] > 1 /\ Len(o) >= 2 /\ o[2] < 2))
CutOff(o)     == Len(o) > 0 /\ o[1] > 1 /\ (Len(o) = 1 \/ o[2] > Len(o))

ASSUME OptionsAssumption ==
    \A opts \in OptionLists :
        /\ Len(FlattenSeq(opts)) <= 40
        /\ \A i \in DOMAIN opts :
              \/ WellFormed(opts[i]) \/ EndsList(opts[i])
              \/ CutOff(opts[i]) /\ i = Len(opts) /\ Len(FlattenSeq(opts)) % 4 = 0

\* The MSS the sender asked for: that of its first option of kind 2 and length
\* 4 that only well-formed options precede.
IsMss(o)      == WellFormed(o) /\ o[1] = 2 /\ Len(o) = 4
MssOptions    == {i \in DOMAIN options :
                     /\ IsMss(options[i])
                     /\ \A j \in 1 .. (i - 1) :
                           WellFormed(options[j]) /\ ~IsMss(options[j])}

\* Where in the TCP header the value of option i is.
ValueAt(i) == 20 + Len(FlattenSeq(SubSeq(options, 1, i - 1))) + 2

Clampable == ip.version = 4 /\ ip.protocol = 6 /\ (original[14] \div 2) % 2 = 1

\* A SYN leaves clamp_mss with the sender's MSS or the largest that fits the
\* tunnel, whichever is smaller, and nothing else changed but the checksum,
\* which a full computation confirms when the option's value is one of the
\* header's 16-bit words; all other packets leave it as they were.
SynFitsTunnel ==
    clamp_result \notin {"start", "loop"} =>
        IF Clampable /\ MssOptions # {}
        THEN LET v == ValueAt(CHOOSE i \in MssOptions : TRUE)
                 mss == Word(original, v)
                 new == IF mss > tcp_mss_clamp THEN tcp_mss_clamp ELSE mss
             IN  /\ tcp = Put(Put(original, v, new), 16, Word(tcp, 16))
                 /\ (v % 2 = 0 => ChecksumValid(tcp))
        ELSE tcp = original

\* mtu-handling-spec.md on clamp_mss: the TCP checksum is valid after a clamp.
ChecksumStaysValid ==
    clamp_result \notin {"start", "loop"} => ChecksumValid(tcp)
=============================================================================
