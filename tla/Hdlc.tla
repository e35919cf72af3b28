-------------------------------- MODULE Hdlc --------------------------------
(***************************************************************************)
(* HDLC-like framing between the engine and pppd (hdlc.c), with the loops  *)
(* that use it: pppd_read cuts whatever read() returns into frames, keeps  *)
(* the unfinished rest and hands packets on; pppd_write frames packets and *)
(* writes them in as many pieces as the pseudo-terminal takes.             *)
(*                                                                         *)
(* pppd is external.  It frames as RFC 1662 says (Framed, Deframed, stated *)
(* independently of the engine's operators and with the bit-serial check   *)
(* sequence), with every control character escaped, as the options         *)
(* default-asyncmap, noaccomp and nopcomp of the engine's command line     *)
(* make it do.  Bytes are numbers below 256; offsets count from 1.         *)
(***************************************************************************)
EXTENDS Integers, Sequences, SequencesExt, Bitwise

CONSTANTS PKT_BUF_SZ,    \* the size of pppd_read's buffer
          FromPppd,      \* the packets pppd may send
          ToPppd,        \* the packets the gateway may send
          FramesUp,      \* bound: packets pppd sends
          FramesDown,    \* bound: packets the gateway sends
          Flags          \* how many flags pppd may put before a frame

ASSUME HdlcAssumption == {PKT_BUF_SZ, FramesUp, FramesDown, Flags} \subseteq Nat

VARIABLES sent,      \* packets pppd has framed
          pty,       \* bytes pppd wrote and the engine has not read
          buf,       \* pppd_read's buffer, buf[0..off_w)
          packets,   \* packets in pty_to_ssl_pool
          reading,   \* pppd_read is in its loop
          need_flag_sequence,
          queued,    \* packets pppd_write has taken from ssl_to_pty_pool
          out,       \* what is left to write of hdlc_buffer
          wire,      \* bytes pppd has received
          writing    \* pppd_write is in its loop

up == <<sent, pty, buf, packets, reading>>
down == <<need_flag_sequence, queued, out, wire, writing>>
hdlcVars == <<up, down>>

Flag == \h7e
Escape == \h7d
Toggle(b) == b ^^ \h20
Rest(s, n) == SubSeq(s, n + 1, Len(s))

\* Folds op over s from the left, one call per element.
Folded(op(_, _), base, s) ==
  LET f[i \in 0..Len(s)] == IF i = 0 THEN base ELSE op(f[i - 1], s[i]) IN f[Len(s)]
-----------------------------------------------------------------------------
(* RFC 1662, as pppd implements it. *)

\* One bit of the check sequence.
Shift(c) == IF c % 2 = 1 THEN (c \div 2) ^^ \h8408 ELSE c \div 2

EightShifts(c) == Shift(Shift(Shift(Shift(Shift(Shift(Shift(Shift(c))))))))

\* The check sequence before its complement, bit by bit.
Fcs16(bytes) == Folded(LAMBDA c, b : EightShifts(c ^^ b), \hffff, bytes)

Stuffed(bytes) ==
  FlattenSeq([i \in DOMAIN bytes |->
    IF bytes[i] < \h20 \/ bytes[i] \in {Flag, Escape}
    THEN <<Escape, Toggle(bytes[i])>> ELSE <<bytes[i]>>])

Framed(p) ==
  LET fcs == Fcs16(<<\hff, \h03>> \o p) ^^ \hffff
  IN  Stuffed(<<\hff, \h03>> \o p \o <<fcs % 256, fcs \div 256>>) \o <<Flag>>

\* The bytes between two flags with the escapes resolved.
Unstuffed(bytes) ==
  LET Plain(i) == bytes[i] # Escape
      Value(i) == IF i > 1 /\ bytes[i - 1] = Escape THEN Toggle(bytes[i]) ELSE bytes[i]
      kept == SelectSeq([i \in DOMAIN bytes |-> i], Plain)
  IN  [k \in DOMAIN kept |-> Value(kept[k])]

\* The packet of a frame, without address, control and check sequence; a
\* frame whose check sequence is wrong is no packet.
Payload(bytes) ==
  LET all == Unstuffed(bytes)
  IN  IF Len(all) > 4 /\ Fcs16(all) = \hf0b8 THEN <<SubSeq(all, 3, Len(all) - 2)>> ELSE <<>>

\* The packets of a stream that begins with a flag.
Deframed(bytes) ==
  LET at == SelectSeq([i \in DOMAIN bytes |-> i], LAMBDA i : bytes[i] = Flag)
  IN  FlattenSeq([k \in 1..(Len(at) - 1) |-> Payload(SubSeq(bytes, at[k] + 1, at[k + 1] - 1))])
-----------------------------------------------------------------------------
(* hdlc.c *)

in_sending_accm(b) == b < \h20 \/ b % 128 \in {Escape, Flag}
in_receiving_accm(b) == b < \h20

\* The table of the source is the one RFC 1662's generator prints.
fcs_tab == [b \in 0..255 |-> EightShifts(b)]

frame_checksum_16bit(sum, seq) ==
  Folded(LAMBDA c, b : (c \div 256) ^^ fcs_tab[(c ^^ b) % 256], sum, seq)

address_control_checksum == \h3de3
address_control == <<\hff, Escape, Toggle(\h03)>>

Escaped(bytes) ==
  FlattenSeq([i \in DOMAIN bytes |->
    IF in_sending_accm(bytes[i]) THEN <<Escape, Toggle(bytes[i])>> ELSE <<bytes[i]>>])

estimated_encoded_size(n) == 9 + 2 * n

TooSmall == <<>>

hdlc_encode(frmsize, need, packet) ==
  LET head == (IF need THEN <<Flag>> ELSE <<>>) \o address_control
      body == head \o Escaped(packet)
      written(i) == Len(head) + Len(Escaped(SubSeq(packet, 1, i - 1)))
      fcs == frame_checksum_16bit(address_control_checksum, packet) ^^ \hffff
  IN  IF /\ frmsize >= 7
         /\ \A i \in DOMAIN packet : frmsize >= written(i) + 2
         /\ frmsize >= Len(body) + 3
      THEN body \o Escaped(<<fcs % 256, fcs \div 256>>) \o <<Flag>>
      ELSE TooSmall

NoFrame == <<0, 0>>

\* First and one past the last byte of the first frame at or after start.
hdlc_find_frame(buffer, start) ==
  LET flags == {i \in start..Len(buffer) : buffer[i] = Flag}
      s == Min({i \in (Min(flags) + 1)..(Len(buffer) + 1) :
                  i > Len(buffer) \/ buffer[i] # Flag})
      ends == {i \in s..Len(buffer) : buffer[i] = Flag}
  IN  IF flags = {} \/ ends = {} THEN NoFrame ELSE <<s, Min(ends)>>

\* One byte of hdlc_decode's loop.
Decoded(st, b) ==
  CASE st.bad -> st
    [] b = Escape -> IF st.esc THEN [st EXCEPT !.bad = TRUE] ELSE [st EXCEPT !.esc = TRUE]
    [] st.esc -> [st EXCEPT !.esc = FALSE, !.bytes = Append(@, Toggle(b))]
    [] OTHER -> IF in_receiving_accm(b) THEN st ELSE [st EXCEPT !.bytes = Append(@, b)]

Invalid == <<>>

\* The buffer given is as long as the frame (estimated_decoded_size) and a
\* byte of output takes at least one of input: it cannot be too small.
hdlc_decode(frame) ==
  LET has == Len(frame) >= 3 /\ SubSeq(frame, 1, 3) = address_control
      d == Folded(Decoded, [bytes |-> <<>>, esc |-> FALSE, bad |-> FALSE],
                    IF has THEN Rest(frame, 3) ELSE frame)
      sum == frame_checksum_16bit(IF has THEN address_control_checksum ELSE \hffff, d.bytes)
  IN  IF Len(frame) >= 5 /\ ~d.bad /\ ~d.esc /\ Len(d.bytes) >= 3 /\ sum = \hf0b8
      THEN SubSeq(d.bytes, 1, Len(d.bytes) - 2)
      ELSE Invalid
-----------------------------------------------------------------------------
(* io.c: pppd_read and pppd_write *)

HdlcInit ==
  /\ sent = <<>> /\ pty = <<>> /\ buf = <<>> /\ packets = <<>> /\ reading = TRUE
  /\ need_flag_sequence = TRUE
  /\ queued = <<>> /\ out = <<>> /\ wire = <<>> /\ writing = TRUE

\* pppd sends a packet.  Only its first frame must begin with a flag.
PppdSends(p, flags) ==
  /\ Len(sent) < FramesUp
  /\ sent = <<>> => flags > 0
  /\ sent' = Append(sent, p)
  /\ pty' = pty \o [i \in 1..flags |-> Flag] \o Framed(p)
  /\ UNCHANGED <<buf, packets, reading, down>>

\* Mutant: steps over the closing flag.
PastTheFlag(frame) == frame[2] + 1

\* After a frame the reading offset stands on its closing flag, which may be
\* the opening flag of the next one.
Next_off_r(frame) == frame[2]

\* The inner loop: frames are decoded and pushed until none is complete; the
\* rest then moves to the front of the buffer.
RECURSIVE Unpacked(_, _, _)
Unpacked(b, off_r, got) ==
  LET frame == hdlc_find_frame(b, off_r)
      packet == hdlc_decode(SubSeq(b, frame[1], frame[2] - 1))
  IN  CASE frame = NoFrame -> [ok |-> TRUE, got |-> got, rest |-> Rest(b, off_r - 1)]
        [] frame # NoFrame /\ packet = Invalid -> [ok |-> FALSE, got |-> got, rest |-> b]
        [] OTHER -> Unpacked(b, Next_off_r(frame), Append(got, packet))

\* read() returns up to n bytes.  A full buffer leaves no room for any, and
\* the loop ends as at an end of file.
ReadPty(n) ==
  /\ reading /\ n \in 1..Len(pty)
  /\ LET room == PKT_BUF_SZ - Len(buf)
         k == IF n < room THEN n ELSE room
         b == buf \o SubSeq(pty, 1, k)
         u == Unpacked(b, 1, <<>>)
     IN  /\ pty' = Rest(pty, k)
         /\ reading' = (k > 0 /\ u.ok)
         /\ packets' = packets \o u.got
         /\ buf' = u.rest
  /\ UNCHANGED <<sent, down>>

\* pppd_write takes the next packet and frames it.
Encode(p) ==
  /\ writing /\ out = <<>> /\ Len(queued) < FramesDown
  /\ LET frame == hdlc_encode(estimated_encoded_size(Len(p)), need_flag_sequence, p)
     IN  /\ out' = frame
         /\ writing' = (frame # TooSmall)
         /\ need_flag_sequence' = (need_flag_sequence /\ frame = TooSmall)
  /\ queued' = Append(queued, p)
  /\ UNCHANGED <<up, wire>>

\* write() takes n bytes.
WritePty(n) ==
  /\ writing /\ n \in 1..Len(out)
  /\ wire' = wire \o SubSeq(out, 1, n)
  /\ out' = Rest(out, n)
  /\ UNCHANGED <<up, need_flag_sequence, queued, writing>>

Upwards ==
  \/ \E p \in FromPppd, flags \in 0..Flags : PppdSends(p, flags)
  \/ \E n \in 1..Len(pty) : ReadPty(n)

Downwards ==
  \/ \E p \in ToPppd : Encode(p)
  \/ \E n \in 1..Len(out) : WritePty(n)

HdlcNext == Upwards \/ Downwards

HdlcSpec == HdlcInit /\ [][HdlcNext]_hdlcVars
-----------------------------------------------------------------------------
\* A stream of well-formed frames, cut anywhere by read(), never stops the
\* reader: no frame is refused and the buffer always has room for the rest
\* of the one it holds (io.c:203, 230-239, 262-265).
ReaderRuns == reading

\* What the reader has handed on is what pppd sent, in order, each packet
\* once, and a packet is handed on as soon as its closing flag was read: the
\* frames not handed on are exactly those in the buffer and the pty.
FramesConveyed ==
  /\ IsPrefix(packets, sent)
  /\ Len(sent) - Len(packets) = Len(Deframed(<<Flag>> \o buf \o pty))
  /\ Deframed(<<Flag>> \o buf) = <<>>

\* pppd understands what the engine wrote: the packets of the bytes it has
\* are those the engine framed, up to the one still being written
\* (hdlc.c:124-187, with the opening flag of the first frame only).
Understood ==
  /\ IsPrefix(Deframed(wire), queued)
  /\ Len(queued) - Len(Deframed(wire)) <= 1
  /\ out = <<>> => Deframed(wire) = queued

\* A frame fits the buffer estimated_encoded_size gives it, in the worst
\* case exactly, and is never refused (hdlc.c:133, 150, 160; hdlc.h:37-43).
Fits ==
  writing /\ (out # <<>> => Len(out) <= estimated_encoded_size(Len(queued[Len(queued)])))

\* Frames go through in both directions, wherever read() and write() cut them.
FramingSound == ReaderRuns /\ FramesConveyed /\ Understood /\ Fits
=============================================================================
