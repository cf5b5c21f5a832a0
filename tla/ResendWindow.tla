---------------------------- MODULE ResendWindow ----------------------------
(***************************************************************************)
(* main/audio/audio_stream_realtime.c: how the realtime (UDP) stream finds *)
(* out which RTP packets are missing, asks the sender for them and takes   *)
(* the answers in.  The receive task owns the window of missing packets,   *)
(* but the RTSP task resets it (audio_receiver_reset_resend_state) with no *)
(* lock: the receive task loads the window in one step and stores it in    *)
(* another, and the reset is one step per word (the mask, two words of a   *)
(* 32-bit processor, counts as one).                                       *)
(*                                                                         *)
(* The 64-bit mask is the set of its bit positions.  Times are abstract: a *)
(* timer was never started, runs, or has expired.                          *)
(***************************************************************************)
EXTENDS FiniteSetsExt, Integers

CONSTANTS
  SeqMod,       (* 2^16                                                    *)
  WindowBits,   (* RESEND_WINDOW_BITS                                      *)
  FirstSeq,     (* sequence number of the sender's first packet            *)
  MaxPackets,   (* packets the sender sends: at most half of SeqMod        *)
  MaxInFlight,  (* packets in the network                                  *)
  MaxTroubles,  (* packets and requests the network loses, packets it      *)
                (* delivers twice and requests sendto refuses, in all        *)
  ResetCost     (* how many of them a reset counts for                     *)

ASSUME ResendAssumption ==
  /\ {SeqMod, WindowBits, MaxPackets, MaxInFlight} \subseteq Nat \ {0}
  /\ {FirstSeq, ResetCost, MaxTroubles} \subseteq Nat
  /\ FirstSeq < SeqMod
  /\ 2 * MaxPackets <= SeqMod /\ 2 * WindowBits < SeqMod

VARIABLES
  sent,      (* packets sent                                               *)
  network,   (* packets under way: [kind, seq]                             *)
  asked,     (* sequence numbers of the requests under way                 *)
  window,    (* [first, mask]: resend_window_first, resend_missing_mask    *)
  lastSeq,   (* stats.last_seq                                             *)
  valid,     (* rtp_sequence_valid                                         *)
  sinceAsk,  (* resend_last_request_time_us: 0 ("never"), within 250 ms of *)
             (* now ("recent") or longer ago ("due")                       *)
  backoff,   (* now is within 300 ms of last_resend_error_time_us          *)
  enabled,   (* retransmit_enabled, with a control socket                  *)
  recv,      (* the receive task: [pc, packet, valid, window], the last    *)
             (* two as it loaded them                                      *)
  rtsp,      (* the word the RTSP task resets next, or "idle"              *)
  troubles,  (* how many of them there were                                *)
  accepted,  (* history: how often each packet was accepted since a reset  *)
  overlapped (* history: the last reset ran while the receive task was     *)
             (* between its load and its store, or let it load;  then      *)
             (* accepted is not kept until the next reset                  *)

vars == <<sent, network, asked, window, lastSeq, valid, sinceAsk, backoff,
          enabled, recv, rtsp, troubles, accepted, overlapped>>

Seqs == 0 .. SeqMod - 1
Offsets == 0 .. WindowBits - 1

(* Differences and sums of uint16_t; SeqCmp is the int16_t difference.     *)
SeqAdd(s, n) == (s + n) % SeqMod
SeqCmp(a, b) ==
  LET d == (a - b) % SeqMod IN IF d >= SeqMod \div 2 THEN d - SeqMod ELSE d
OffsetOf(seq, first) == (seq - first) % SeqMod

(* "audio": a packet of the stream; "answer": a retransmission to the      *)
(* control port; "resend": one forwarded to the data port.                 *)
Packets == [kind : {"audio", "answer", "resend"}, seq : Seqs]
Packet(kind, seq) == [kind |-> kind, seq |-> seq]

NoWindow == [first |-> 0, mask |-> {}]
Idle == [pc |-> "idle", packet |-> Packet("audio", 0), valid |-> FALSE, window |-> NoWindow]

Missing(w) == {SeqAdd(w.first, o) : o \in w.mask}

(* The sequence numbers of a run of count packets. *)
Run(first, count) == {SeqAdd(first, k) : k \in 0 .. count - 1}

NoneAccepted == [s \in Seqs |-> 0]

Sent == Run(FirstSeq, sent)

Init ==
  /\ sent = 0
  /\ network = {}
  /\ asked = {}
  /\ window = NoWindow
  /\ lastSeq = 0
  /\ valid = FALSE
  /\ sinceAsk = "never"
  /\ backoff = FALSE
  /\ enabled = TRUE
  /\ recv = Idle
  /\ rtsp = "idle"
  /\ troubles = 0
  /\ accepted = NoneAccepted
  /\ overlapped = FALSE

-----------------------------------------------------------------------------
(* The sender and the network (external) *)

SendPacket ==
  /\ sent < MaxPackets /\ Cardinality(network) < MaxInFlight
  /\ network' = network \cup {Packet("audio", SeqAdd(FirstSeq, sent))}
  /\ sent' = sent + 1
  /\ UNCHANGED <<asked, window, lastSeq, valid, sinceAsk, backoff, enabled,
                 recv, rtsp, troubles, accepted, overlapped>>

(* The sender still has every packet it sent. *)
Answer(seq) ==
  /\ seq \in asked /\ Cardinality(network) < MaxInFlight
  /\ asked' = asked \ {seq}
  /\ network' = network \cup {Packet("answer", seq)}
  /\ UNCHANGED <<sent, window, lastSeq, valid, sinceAsk, backoff, enabled,
                 recv, rtsp, troubles, accepted, overlapped>>

LosePacket ==
  /\ troubles < MaxTroubles
  /\ \E p \in network : network' = network \ {p}
  /\ troubles' = troubles + 1
  /\ UNCHANGED <<sent, asked, window, lastSeq, valid, sinceAsk, backoff,
                 enabled, recv, rtsp, accepted, overlapped>>

LoseRequest ==
  /\ troubles < MaxTroubles
  /\ \E seq \in asked : asked' = asked \ {seq}
  /\ troubles' = troubles + 1
  /\ UNCHANGED <<sent, network, window, lastSeq, valid, sinceAsk, backoff,
                 enabled, recv, rtsp, accepted, overlapped>>

(* RESEND_RETRY_INTERVAL_US and RESEND_ERROR_BACKOFF_US pass. *)
RetryIntervalPasses ==
  /\ sinceAsk = "recent"
  /\ sinceAsk' = "due"
  /\ UNCHANGED <<sent, network, asked, window, lastSeq, valid, backoff,
                 enabled, recv, rtsp, troubles, accepted, overlapped>>

BackoffPasses ==
  /\ backoff
  /\ backoff' = FALSE
  /\ UNCHANGED <<sent, network, asked, window, lastSeq, valid, sinceAsk,
                 enabled, recv, rtsp, troubles, accepted, overlapped>>

-----------------------------------------------------------------------------
(* The window *)

MaskForCount(count) == {o \in Offsets : o < count}

(* Mutant: shifts the mask but leaves the first number. *)
SlideMaskOnly(w) ==
  IF w.mask = {} THEN w
  ELSE [w EXCEPT !.mask = {o - Min(w.mask) : o \in w.mask}]

(* Mutant: the first number does not wrap. *)
SlideNoWrap(w) ==
  IF w.mask = {} THEN w
  ELSE [first |-> w.first + Min(w.mask),
        mask  |-> {o - Min(w.mask) : o \in w.mask}]

(* resend_slide_window: the first missing packet comes to bit 0. *)
Slide(w) ==
  IF w.mask = {} THEN w
  ELSE [first |-> SeqAdd(w.first, Min(w.mask)),
        mask  |-> {o - Min(w.mask) : o \in w.mask}]

IsMissing(w, seq) == OffsetOf(seq, w.first) \in w.mask

(* Mutant: leaves the bit of the packet that came. *)
MarkReceivedKeepBit(w, seq) == Slide(w)

(* resend_mark_received, of a packet that is missing. *)
MarkReceived(w, seq) ==
  Slide([w EXCEPT !.mask = @ \ {OffsetOf(seq, w.first)}])

(* Mutant: off by one at the end of the window. *)
FitsWindowShort(w, first, count) == OffsetOf(first, w.first) + count < WindowBits

FitsWindow(w, first, count) ==
  /\ OffsetOf(first, w.first) < WindowBits
  /\ OffsetOf(first, w.first) + count <= WindowBits

(* resend_track_missing: a gap that does not fit starts a new window, and  *)
(* the older holes are abandoned.                                          *)
TrackMissing(w, first, count) ==
  IF w.mask # {} /\ FitsWindow(w, first, count)
  THEN [w EXCEPT !.mask = @ \cup {OffsetOf(first, w.first) + k : k \in MaskForCount(count)}]
  ELSE [first |-> first, mask |-> MaskForCount(count)]

(* resend_next_range: the first run of missing packets. *)
NextRange(w) ==
  {SeqAdd(w.first, o) : o \in {o \in w.mask : Min(w.mask) .. o \subseteq w.mask}}

(* The receive task stores the mask, and the first number only if it moves *)
(* the window: after a reset between its load and its store, an old mask   *)
(* may be left over a first number of 0.                                   *)
StoreWindow(w, moves) ==
  window' = [first |-> IF moves THEN w.first ELSE window.first, mask |-> w.mask]

-----------------------------------------------------------------------------
(* The control task *)

(* Packet type 0x56 goes to the data port, for the receive task.           *)
Forward(p) ==
  /\ p \in network /\ p.kind = "answer"
  /\ network' = (network \ {p}) \cup {Packet("resend", p.seq)}
  /\ UNCHANGED <<sent, asked, window, lastSeq, valid, sinceAsk, backoff,
                 enabled, recv, rtsp, troubles, accepted, overlapped>>

-----------------------------------------------------------------------------
(* The receive task *)

(* recvfrom: the packet, or a copy of it, and what its handler will read.  *)
Load(p) ==
  /\ recv.pc = "idle" /\ p \in network /\ p.kind # "answer"
  /\ \/ network' = network \ {p} /\ UNCHANGED troubles
     \/ /\ troubles < MaxTroubles /\ UNCHANGED network
        /\ troubles' = troubles + 1
  /\ recv' = [pc |-> "store", packet |-> p, valid |-> valid, window |-> window]
  /\ overlapped' = (overlapped \/ rtsp # "idle")
  /\ accepted' = IF overlapped' THEN NoneAccepted ELSE accepted
  /\ UNCHANGED <<sent, asked, window, lastSeq, valid, sinceAsk, backoff,
                 enabled, rtsp>>

(* send_resend_request and resend_request_range.  The sender ignores a     *)
(* request for a packet it has not sent.                                   *)
Request(seqs) ==
  IF ~enabled \/ backoff
  THEN UNCHANGED <<asked, sinceAsk, backoff, troubles>>
  ELSE \/ /\ asked' = asked \cup (seqs \cap Sent)
          /\ sinceAsk' = "recent"
          /\ UNCHANGED <<backoff, troubles>>
       \/ /\ troubles < MaxTroubles
          /\ troubles' = troubles + 1
          /\ backoff' = TRUE
          /\ UNCHANGED <<asked, sinceAsk>>

Expected == SeqAdd(lastSeq, 1)
Handles(kind) == recv.pc = "store" /\ recv.packet.kind = kind
Delta == SeqCmp(recv.packet.seq, Expected)

(* The packet goes on to be decrypted, decoded and queued.                 *)
Accept ==
  /\ recv' = [Idle EXCEPT !.pc = "retry"]
  /\ accepted' = IF overlapped THEN NoneAccepted
                 ELSE [accepted EXCEPT ![recv.packet.seq] = IF @ = 2 THEN 2 ELSE @ + 1]

AcceptFirst ==
  /\ Handles("audio") /\ ~recv.valid
  /\ valid' = TRUE
  /\ lastSeq' = recv.packet.seq
  /\ Accept
  /\ UNCHANGED <<sent, network, asked, window, sinceAsk, backoff, enabled,
                 rtsp, troubles, overlapped>>

(* The next packet, or one after a gap too large to ask for.               *)
AcceptInOrder ==
  /\ Handles("audio") /\ recv.valid /\ (Delta = 0 \/ Delta > WindowBits)
  /\ lastSeq' = recv.packet.seq
  /\ Accept
  /\ UNCHANGED <<sent, network, asked, window, valid, sinceAsk, backoff,
                 enabled, rtsp, troubles, overlapped>>

AcceptAfterGap ==
  /\ Handles("audio") /\ recv.valid /\ Delta \in 1 .. WindowBits
  /\ StoreWindow(TrackMissing(recv.window, Expected, Delta),
                 recv.window.mask = {} \/ ~FitsWindow(recv.window, Expected, Delta))
  /\ Request(Run(Expected, Delta))
  /\ lastSeq' = recv.packet.seq
  /\ Accept
  /\ UNCHANGED <<sent, network, valid, enabled, rtsp, overlapped>>

IsLate == Handles("resend") \/ (Handles("audio") /\ recv.valid /\ Delta < 0)

(* A late packet, or an answer, that is missing.                           *)
AcceptMissing ==
  /\ IsLate /\ IsMissing(recv.window, recv.packet.seq)
  /\ LET w == MarkReceived(recv.window, recv.packet.seq)
     IN  /\ StoreWindow(w, w.first # recv.window.first)
         /\ sinceAsk' = IF w.mask = {} THEN "never" ELSE sinceAsk
  /\ Accept
  /\ UNCHANGED <<sent, network, asked, lastSeq, valid, backoff, enabled, rtsp,
                 troubles, overlapped>>

DropStale ==
  /\ IsLate /\ ~IsMissing(recv.window, recv.packet.seq)
  /\ recv' = Idle
  /\ UNCHANGED <<sent, network, asked, window, lastSeq, valid, sinceAsk,
                 backoff, enabled, rtsp, troubles, accepted, overlapped>>

Store == AcceptFirst \/ AcceptInOrder \/ AcceptAfterGap \/ AcceptMissing \/ DropStale

(* Mutant: a request is never repeated. *)
RetryIfNever ==
  /\ recv.pc \in {"idle", "retry"}
  /\ IF window.mask # {} /\ sinceAsk = "never"
     THEN Request(NextRange(window))
     ELSE UNCHANGED <<asked, sinceAsk, backoff, troubles>>
  /\ recv' = Idle
  /\ UNCHANGED <<sent, network, window, lastSeq, valid, enabled, rtsp, accepted,
                 overlapped>>

(* resend_retry_if_due, after a packet and when recvfrom times out.        *)
RetryIfDue ==
  /\ recv.pc \in {"idle", "retry"}
  /\ IF window.mask # {} /\ sinceAsk # "recent"
     THEN Request(NextRange(window))
     ELSE UNCHANGED <<asked, sinceAsk, backoff, troubles>>
  /\ recv' = Idle
  /\ UNCHANGED <<sent, network, window, lastSeq, valid, enabled, rtsp, accepted,
                 overlapped>>

-----------------------------------------------------------------------------
(* The RTSP task: audio_receiver_reset_resend_state, word by word.  A      *)
(* flush calls it, and so do the start and the stop of a stream and a      *)
(* change of the sender's control port, which also set retransmit_enabled. *)

ResetValid ==
  /\ rtsp = "idle" /\ troubles + ResetCost <= MaxTroubles
  /\ troubles' = troubles + ResetCost
  /\ enabled' \in BOOLEAN
  /\ valid' = FALSE
  /\ rtsp' = "first"
  /\ accepted' = NoneAccepted
  /\ overlapped' = (recv.pc = "store")
  /\ UNCHANGED <<sent, network, asked, window, lastSeq, sinceAsk, backoff, recv>>

ResetFirst ==
  /\ rtsp = "first"
  /\ window' = [window EXCEPT !.first = 0]
  /\ rtsp' = "mask"
  /\ UNCHANGED <<sent, network, asked, lastSeq, valid, sinceAsk, backoff,
                 enabled, recv, troubles, accepted, overlapped>>

ResetMask ==
  /\ rtsp = "mask"
  /\ window' = [window EXCEPT !.mask = {}]
  /\ rtsp' = "times"
  /\ UNCHANGED <<sent, network, asked, lastSeq, valid, sinceAsk, backoff,
                 enabled, recv, troubles, accepted, overlapped>>

ResetTimes ==
  /\ rtsp = "times"
  /\ sinceAsk' = "never"
  /\ backoff' = FALSE
  /\ rtsp' = "idle"
  /\ UNCHANGED <<sent, network, asked, window, lastSeq, valid, enabled, recv,
                 troubles, accepted, overlapped>>

Reset == ResetFirst \/ ResetMask \/ ResetTimes

-----------------------------------------------------------------------------

Stream == Run(FirstSeq, MaxPackets)
StreamPackets == [kind : {"audio", "answer", "resend"}, seq : Stream]

Next ==
  \/ SendPacket \/ LosePacket \/ LoseRequest \/ RetryIntervalPasses \/ BackoffPasses
  \/ \E seq \in Seqs : Answer(seq)
  \/ \E p \in StreamPackets : Forward(p) \/ Load(p)
  \/ Store \/ RetryIfDue
  \/ ResetValid \/ Reset

Spec == Init /\ [][Next]_vars

(* The tasks run, recvfrom returns a packet when there is one and times out *)
(* when there is none, time passes, the sender answers and the network     *)
(* delivers what it does not lose.                                         *)
Fairness ==
  /\ WF_vars(Store) /\ WF_vars(RetryIfDue) /\ WF_vars(Reset)
  /\ WF_vars(RetryIntervalPasses) /\ WF_vars(BackoffPasses)
  /\ WF_vars(\E seq \in Seqs : Answer(seq))
  /\ WF_vars(\E p \in StreamPackets : Forward(p))
  /\ WF_vars(\E p \in StreamPackets : Load(p))

FairSpec == Spec /\ Fairness

-----------------------------------------------------------------------------
(* Properties *)

(* The variables have their types. *)
TypeOK ==
  /\ sent \in 0 .. MaxPackets
  /\ network \in SUBSET Packets
  /\ asked \in SUBSET Seqs
  /\ window \in [first : Seqs, mask : SUBSET Offsets]
  /\ lastSeq \in Seqs
  /\ valid \in BOOLEAN
  /\ sinceAsk \in {"never", "recent", "due"}
  /\ backoff \in BOOLEAN
  /\ enabled \in BOOLEAN
  /\ recv \in [pc : {"idle", "store", "retry"}, packet : Packets, valid : BOOLEAN,
               window : [first : Seqs, mask : SUBSET Offsets]]
  /\ rtsp \in {"idle", "first", "mask", "times"}
  /\ troubles \in 0 .. MaxTroubles
  /\ accepted \in [Seqs -> 0 .. 2]
  /\ overlapped \in BOOLEAN

(* No packet is decoded twice between two resets, however often the sender *)
(* and the network repeat it, as long as no reset met the receive task.    *)
AcceptedOnce == ~overlapped => \A s \in Seqs : accepted[s] <= 1

(* What the window calls missing is missing: it lies before the newest     *)
(* packet, was not accepted since the reset, and the first of it is bit 0, *)
(* so the arithmetic on 16 bits never wraps around the window.             *)
WindowIsMissing ==
  ~overlapped /\ rtsp = "idle" =>
    /\ \A s \in Missing(window) : valid /\ SeqCmp(s, lastSeq) < 0 /\ accepted[s] = 0
    /\ window.mask # {} => 0 \in window.mask

(* Between resets a hole is not forgotten: a packet found missing by a gap *)
(* the window can hold is in the window, and stays there until it comes or *)
(* until a gap lies further than the window from the oldest hole.          *)
Skipped == {s \in Seqs : SeqCmp(s, lastSeq) > 0 /\ SeqCmp(s, lastSeq') < 0}
NoHoleForgotten ==
  [][valid /\ valid' /\ rtsp = "idle" /\ ~overlapped' =>
       /\ \A s \in Missing(window) :
            \/ s \in Missing(window') \/ accepted'[s] > 0
            \/ SeqCmp(lastSeq', window.first) > WindowBits
       /\ Cardinality(Skipped) <= WindowBits => Skipped \subseteq Missing(window')]_vars

(* No hole stays for ever: with requests enabled, and no reset having met  *)
(* the receive task, all holes are filled or given up in spite of a lost   *)
(* packet or request, a refused request, and other holes before them.      *)
HolesAreFilled == []<>(window.mask = {} \/ ~enabled \/ overlapped)
=============================================================================
